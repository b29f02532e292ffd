----------------------------- MODULE BioStorage -----------------------------
(***************************************************************************)
(* The feature table EIGEN_INFO of src/src/lib/biometric_storage.c, the     *)
(* loop that makes a feature list of its rows, and the operations on it     *)
(* that take more than one step: an enrollment chooses an index first and   *)
(* stores the feature later, a rename reads the list first and updates its  *)
(* rows one at a time, by their ID.                                         *)
(*                                                                         *)
(* A row belongs to a user by UID and by UUID.  The UUID of a user is kept  *)
(* in the home directory; a user without one has a default UUID.  A row     *)
(* with another UUID than the present one of its user is left alone.        *)
(*                                                                         *)
(* The service lets one session at a time work on a device (BioService);    *)
(* every query names one driver and the biometric type that goes with it.   *)
(***************************************************************************)
EXTENDS Integers, Sequences, FiniteSets, Folds

CONSTANTS
  Users,     \* UIDs
  Drivers,   \* the devices
  OwnUuids,  \* OwnUuids[u]: the UUIDs user u may be given
  Default,   \* UUID_DEFAULT; numbers stand for the order of the strings
  MaxIdx,    \* bound: the largest index
  MaxId,     \* bound: the number of rows ever stored
  MaxName,   \* bound: the names of a feature are 0 .. MaxName
  NewNames   \* bound: those that features are renamed to

AnyUser == -1
NoEnd   == -1
Indices == 0 .. MaxIdx
Names   == 0 .. MaxName
Uuids   == (UNION { OwnUuids[u] : u \in Users }) \cup {Default}

(* UUIDs are unique to a user; ID is a primary key. *)
ASSUME StorageAssumption ==
  /\ Users \subseteq Nat /\ MaxIdx \in Nat /\ MaxId \in Nat /\ MaxName \in Nat
  /\ NewNames \subseteq Names
  /\ Default \in Nat
  /\ OwnUuids \in [Users -> SUBSET Nat]
  /\ \A u, v \in Users : u # v => OwnUuids[u] \cap OwnUuids[v] = {}
  /\ \A u \in Users : Default \notin OwnUuids[u]

VARIABLES
  table,   \* the rows
  lastId,  \* what AUTOINCREMENT remembers: the largest ID ever used
  uuid,    \* what internal_get_uuid_by_uid finds for each user
  session  \* what is going on on each device

vars == <<table, lastId, uuid, session>>

Rows == [id : 1 .. MaxId, uid : Users, uuid : Uuids, drv : Drivers, idx : Indices,
         name : Names]

(* An enrollment at an index that was given or chosen; a rename with the IDs it
   has still to update.  History: the UUID under which the list that was read
   showed the chosen index to be free, and the one under which the rename has
   read all the rows of its feature, if so. *)
NoSession == [at |-> "idle"]
Nothing   == -1
Enrolling == [at : {"enroll"}, uid : Users, idx : 0 .. MaxIdx + 1,
              shownUnder : Uuids \cup {Nothing}]
Renaming  == [at : {"rename"}, uid : Users, idx : Indices, name : Names,
              ids : Seq(1 .. MaxId), failed : BOOLEAN, readUnder : Uuids \cup {Nothing}]

TypeOK ==
  /\ table \subseteq Rows
  /\ lastId \in 0 .. MaxId
  /\ uuid \in [Users -> Uuids]
  /\ session \in [Drivers -> {NoSession} \cup Enrolling \cup Renaming]

Init ==
  /\ table = {} /\ lastId = 0
  /\ uuid \in { f \in [Users -> Uuids] : \A u \in Users : f[u] \in OwnUuids[u] \cup {Default} }
  /\ session = [d \in Drivers |-> NoSession]

-----------------------------------------------------------------------------
(* bio_sto_get_feature_info.                                                *)

(* WHERE: the rows of a device, of one user or of all, from an index to one. *)
Selected(d, u, start, end) ==
  { w \in table : /\ w.drv = d
                  /\ u # AnyUser => w.uid = u
                  /\ w.idx >= start
                  /\ end # NoEnd => w.idx <= end }

(* ORDER BY UID, UUID, EigenIndex, EigenIndexName and SampleNo, which is the
   size of the template and here that of the ID. *)
Key(w) == <<w.uid, w.uuid, w.idx, w.name, w.id>>

Before(v, w) ==
  \E k \in 1 .. 5 : /\ Key(v)[k] < Key(w)[k]
                    /\ \A j \in 1 .. k - 1 : Key(v)[j] = Key(w)[j]

LastOf(S) == CHOOSE w \in S : \A v \in S \ {w} : Before(v, w)

(* The variables of the loop: what the last entry was made of, the user the
   present UUID was looked up for, that UUID, and the list. *)
StartOfLoop == [oldUid |-> -1, oldUuid |-> -1, oldIdx |-> -1, user |-> -1, list |-> <<>>]

Changed(acc, w) ==
  acc.oldUid < w.uid \/ acc.oldIdx < w.idx \/ acc.oldUuid # w.uuid

Entry(w) == [uid |-> w.uid, idx |-> w.idx, ids |-> <<w.id>>]

(* Mutant of Extend: the present UUID of the user is not looked at. *)
ExtendAny(acc, w) ==
  IF Changed(acc, w)
  THEN [oldUid |-> w.uid, oldUuid |-> w.uuid, oldIdx |-> w.idx, user |-> uuid[w.uid],
        list |-> Append(acc.list, Entry(w))]
  ELSE [acc EXCEPT !.list[Len(acc.list)].ids = Append(@, w.id)]

(* One round: a row opens an entry of its own if anything has changed, or is a
   further sample of the last one, or is not the user's any more. *)
Extend(acc, w) ==
  LET present == IF Changed(acc, w) /\ acc.oldUid # w.uid THEN uuid[w.uid] ELSE acc.user
  IN CASE Changed(acc, w) /\ w.uuid # present ->
            [acc EXCEPT !.oldUid = w.uid, !.user = present]
       [] Changed(acc, w) /\ w.uuid = present ->
            [oldUid |-> w.uid, oldUuid |-> w.uuid, oldIdx |-> w.idx, user |-> present,
             list |-> Append(acc.list, Entry(w))]
       [] ~ Changed(acc, w) /\ w.uuid # present -> acc
       [] OTHER -> [acc EXCEPT !.list[Len(acc.list)].ids = Append(@, w.id)]

(* The list the loop makes of the rows it has read: the fold takes them in the
   order of the query. *)
FeatureList(R) ==
  MapThenFoldSet(LAMBDA w, acc : Extend(acc, w), StartOfLoop, LAMBDA w : w, LastOf, R).list

(* Of the rows that are selected, those a call may read.  sqlite3_step fails when
   another connection is writing, for no busy timeout is set, or on an error; the
   loop then ends as it does after the last row.  A statement that cannot be
   prepared reads nothing.  The callers cannot tell. *)
ReadUpTo(S, v) == { w \in S : w = v \/ Before(w, v) }
Reads(S) == {{}} \cup { ReadUpTo(S, v) : v \in S }

(* Mutant of EmptyIndex: the number of features. *)
EmptyIndexCount(list) == Len(list)

(* Mutant of EmptyIndex: only a gap is found, not the index after the last. *)
EmptyIndexInGap(list) ==
  LET Gaps == { k \in 1 .. Len(list) : list[k].idx # k - 1 }
  IN IF Gaps = {} THEN -1 ELSE (CHOOSE k \in Gaps : \A j \in Gaps : k <= j) - 1

(* bio_common_get_empty_index, from 0 without an end, which is how it is
   called: the list is walked as long as it has no gap. *)
EmptyIndex(list) ==
  LET NoGap(k) == \A j \in 1 .. k : list[j].idx = j - 1
  IN Cardinality({ k \in 1 .. Len(list) : NoGap(k) })

-----------------------------------------------------------------------------
(* The operations.                                                          *)

(* Mutant of NewId: INTEGER PRIMARY KEY without AUTOINCREMENT. *)
NewIdReused(last) ==
  IF table = {} THEN 1 ELSE (CHOOSE i \in { w.id : w \in table } :
                               \A w \in table : w.id <= i) + 1

NewId(last) == last + 1

(* History: a list shows the index that is chosen from it to be free if it is
   complete, or goes on behind that index. *)
ShownFree(R, d, u) ==
  LET list == FeatureList(R)
  IN R = Selected(d, u, 0, NoEnd) \/ \E k \in DOMAIN list : EmptyIndex(list) < list[k].idx

(* An enrollment at a given index, or at one the service chooses. *)
EnrollBegin(d, u) ==
  /\ session[d] = NoSession
  /\ \/ \E i \in Indices : session' = [session EXCEPT ![d] =
            [at |-> "enroll", uid |-> u, idx |-> i, shownUnder |-> Nothing]]
     \/ \E R \in Reads(Selected(d, u, 0, NoEnd)) :
          session' = [session EXCEPT ![d] =
            [at |-> "enroll", uid |-> u, idx |-> EmptyIndex(FeatureList(R)),
             shownUnder |-> IF ShownFree(R, d, u) THEN uuid[u] ELSE Nothing]]
  /\ UNCHANGED <<table, lastId, uuid>>

(* bio_sto_set_feature_info, with the UUID the user has by now. *)
EnrollStore(d) ==
  /\ session[d].at = "enroll"
  /\ lastId < MaxId /\ session[d].idx <= MaxIdx   \* bounds
  /\ LET s == session[d] IN
     table' = table \cup { [id |-> NewId(lastId), uid |-> s.uid, uuid |-> uuid[s.uid],
                            drv |-> d, idx |-> s.idx, name |-> 0] }
  /\ lastId' = lastId + 1
  /\ session' = [session EXCEPT ![d] = NoSession]
  /\ UNCHANGED uuid

(* The user gives up, or the INSERT fails. *)
EnrollFails(d) ==
  /\ session[d].at = "enroll"
  /\ session' = [session EXCEPT ![d] = NoSession]
  /\ UNCHANGED <<table, lastId, uuid>>

(* The IDs of the one entry there can be in the list of one index. *)
SamplesOf(list) == IF list = <<>> THEN <<>> ELSE list[1].ids

(* bio_comm_feature_rename_by_db reads the list of one index; when there is
   nothing in it, there is nothing to update, which is a success ... *)
RenameBegin(d, u, i, n) ==
  /\ session[d] = NoSession
  /\ \E R \in Reads(Selected(d, u, i, i)) :
       session' = [session EXCEPT ![d] =
         [at |-> "rename", uid |-> u, idx |-> i, name |-> n,
          ids |-> SamplesOf(FeatureList(R)), failed |-> FALSE,
          readUnder |-> IF R = Selected(d, u, i, i) THEN uuid[u] ELSE Nothing]]
  /\ UNCHANGED <<table, lastId, uuid>>

(* The row a rename writes over row w, and the rename once it has done so. *)
Updated(w, d) ==
  [id |-> w.id, uid |-> session[d].uid, uuid |-> w.uuid, drv |-> d,
   idx |-> session[d].idx, name |-> session[d].name]

Remaining(s, failed) ==
  [at |-> "rename", uid |-> s.uid, idx |-> s.idx, name |-> s.name,
   ids |-> Tail(s.ids), failed |-> failed, readUnder |-> s.readUnder]

(* Mutant of RenameUpdate: an UPDATE that fails is not noticed. *)
RenameUpdateUnnoticed(d) ==
  /\ session[d].at = "rename" /\ session[d].ids # <<>>
  /\ session' = [session EXCEPT ![d] = Remaining(@, @.failed)]
  /\ table' \in { table, { IF w.id = Head(session[d].ids) THEN Updated(w, d) ELSE w
                           : w \in table } }
  /\ UNCHANGED <<lastId, uuid>>

(* ... and updates all columns but the UUID of each row, by its ID.  A row that
   is not there any more is no error; an UPDATE that fails is counted; any number
   but none is an error. *)
RenameUpdate(d) ==
  /\ session[d].at = "rename" /\ session[d].ids # <<>>
  /\ \/ /\ table' = { IF w.id = Head(session[d].ids) THEN Updated(w, d) ELSE w : w \in table }
        /\ session' = [session EXCEPT ![d] = Remaining(session[d], session[d].failed)]
     \/ /\ session' = [session EXCEPT ![d] = Remaining(session[d], TRUE)]
        /\ UNCHANGED table
  /\ UNCHANGED <<lastId, uuid>>

RenameEnds(d) ==
  /\ session[d].at = "rename" /\ session[d].ids = <<>>
  /\ session' = [session EXCEPT ![d] = NoSession]
  /\ UNCHANGED <<table, lastId, uuid>>

(* bio_sto_clean_feature_info is one DELETE and does not look at the UUID.  The
   one of a device needs the device; the one that ends a clean of all drivers
   comes at any time. *)
CleanDevice(d, u, i) ==
  /\ session[d] = NoSession
  /\ table' = table \ Selected(d, u, i, NoEnd)
  /\ UNCHANGED <<lastId, uuid, session>>

CleanAll(u, i) ==
  /\ table' = table \ UNION { Selected(d, u, i, NoEnd) : d \in Drivers }
  /\ UNCHANGED <<lastId, uuid, session>>

(* The home directory of a user goes, comes back, or is made anew. *)
NewUuid(u) ==
  /\ \E x \in OwnUuids[u] \cup {Default} : uuid' = [uuid EXCEPT ![u] = x]
  /\ UNCHANGED <<table, lastId, session>>

(* The daemon crashes: SQLite has kept every statement that was finished. *)
Crash ==
  /\ session' = [d \in Drivers |-> NoSession]
  /\ UNCHANGED <<table, lastId, uuid>>

Next ==
  \/ \E d \in Drivers, u \in Users :
       \/ EnrollBegin(d, u)
       \/ \E i \in Indices, n \in NewNames : RenameBegin(d, u, i, n)
       \/ \E i \in Indices : CleanDevice(d, u, i)
  \/ \E d \in Drivers :
       EnrollStore(d) \/ EnrollFails(d) \/ RenameUpdate(d) \/ RenameEnds(d)
  \/ \E u \in Users : NewUuid(u) \/ \E i \in Indices : CleanAll(u, i)
  \/ Crash

Spec == Init /\ [][Next]_vars
-----------------------------------------------------------------------------
(* Properties.                                                              *)

(* The rows that are their user's still. *)
Present(S) == { w \in S : w.uuid = uuid[w.uid] }

(* What a feature list should be: one entry for each feature of each user, in
   increasing order, with exactly the samples of that feature. *)
IsListOf(list, S) ==
  /\ list \in Seq([uid : Users, idx : Indices, ids : Seq(1 .. MaxId)])
  /\ { <<list[k].uid, list[k].idx>> : k \in DOMAIN list } = { <<w.uid, w.idx>> : w \in S }
  /\ \A j, k \in DOMAIN list : j < k =>
       \/ list[j].uid < list[k].uid
       \/ list[j].uid = list[k].uid /\ list[j].idx < list[k].idx
  /\ \A k \in DOMAIN list :
       { list[k].ids[j] : j \in DOMAIN list[k].ids }
         = { w.id : w \in { v \in S : v.uid = list[k].uid /\ v.idx = list[k].idx } }

Ends == {NoEnd} \cup Indices

(* The list of one user is exact for the rows that were read, wherever the reading
   has ended, whatever rows of former UUIDs lie between the present ones, and
   also when an interrupted rename has left the samples of one feature with
   different names. *)
ListIsExact ==
  \A d \in Drivers, u \in Users :
    \A R \in UNION { Reads(Selected(d, u, start, end)) : start \in Indices, end \in Ends } :
      IsListOf(FeatureList(R), Present(R))

(* The present features of a user on a device. *)
IndicesOf(d, u) == { w.idx : w \in Present(Selected(d, u, 0, NoEnd)) }

(* A feature that is enrolled at an index the service chose does not mix with
   another one, as long as the UUID of the user is the one the index was
   chosen under.  A list that was cut short keeps it too if it goes on behind
   the index that is chosen, for what is cut off lies behind what was read. *)
ChosenIndexIsFree ==
  \A d \in Drivers :
    session[d].at = "enroll" /\ session[d].shownUnder = uuid[session[d].uid]
    => session[d].idx \notin IndicesOf(d, session[d].uid)

(* A rename writes the user, the driver and the index of a row again, by an ID
   it has read before.  Though a clean of all drivers may have erased that row
   and an enrollment on another device may have stored new ones since, no row
   is ever moved to another feature. *)
RowsStayPut ==
  [][ \A v \in table, w \in table' :
        v.id = w.id => <<w.uid, w.uuid, w.drv, w.idx>> = <<v.uid, v.uuid, v.drv, v.idx>> ]_vars

(* A rename that is about to be answered with success, and that could read the
   whole list of the feature, has renamed every sample of it that is still there.
   Without the list it is a success all the same, whatever it has renamed. *)
RenameIsComplete ==
  \A d \in Drivers :
    /\ session[d].at = "rename" /\ session[d].ids = <<>>
    /\ ~ session[d].failed
    => \A w \in Selected(d, session[d].uid, session[d].idx, session[d].idx) :
           w.uuid = session[d].readUnder => w.name = session[d].name

(* What the code promises and does not keep: a change of the user, the driver
   or the index makes a new entry (the comment of the loop), also in the list
   of all users. *)
ListSeparatesUsers ==
  \A d \in Drivers, start \in Indices, end \in Ends :
    LET S == Selected(d, AnyUser, start, end) IN IsListOf(FeatureList(S), Present(S))
=============================================================================
