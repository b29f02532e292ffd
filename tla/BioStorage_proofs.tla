--------------------------- MODULE BioStorage_proofs ---------------------------
(***************************************************************************)
(* What becomes of the rows of BioStorage, for any number of users,         *)
(* drivers, indices and rows.  The list of one user is the right one in     *)
(* every state with unique IDs (FeatureList_proofs); what remains is that   *)
(* the operations which act on a list of an earlier state do no harm.       *)
(***************************************************************************)
EXTENDS FeatureList_proofs

ListsRight == TypeOK /\ ListIsExact

ListEntries == [uid : Users, idx : Indices, ids : Seq(1 .. MaxId)]

(* The kinds of sessions are told apart by where they are. *)
LEMMA SessionType ==
  ASSUME TypeOK, NEW d \in Drivers
  PROVE  /\ session[d].at = "enroll" => session[d] \in Enrolling
         /\ session[d].at = "rename" => session[d] \in Renaming
         /\ session[d] = NoSession => session[d].at = "idle"
BY DEF TypeOK, NoSession, Enrolling, Renaming

-----------------------------------------------------------------------------
(* Lists.                                                                   *)

(* The list of one feature has at most one entry, with the IDs of the rows that
   were read. *)
LEMMA ListOfOne ==
  ASSUME ListsRight, NEW d \in Drivers, NEW u \in Users, NEW i \in Indices,
         NEW R \in Reads(Selected(d, u, i, i))
  PROVE  LET ids == SamplesOf(FeatureList(R))
         IN /\ ids \in Seq(1 .. MaxId)
            /\ { ids[j] : j \in DOMAIN ids } = { w.id : w \in Present(R) }
<1> DEFINE list == FeatureList(R)
           S == Present(R)
<1>1. IsListOf(list, S)
  BY DEF ListsRight, ListIsExact, Ends
<1>2. list \in Seq(ListEntries)
  BY <1>1 DEF IsListOf, ListEntries
<1>3. { <<list[k].uid, list[k].idx>> : k \in DOMAIN list } = { <<w.uid, w.idx>> : w \in S }
  BY <1>1 DEF IsListOf
<1>4. \A w \in S : w.uid = u /\ w.idx = i
  <2>1. u # AnyUser /\ i # NoEnd /\ i \in Nat
    BY Numbers DEF AnyUser, NoEnd, Indices
  <2>2. \A w \in table : w.idx \in Nat
    BY Numbers DEF ListsRight, TypeOK, Rows, Indices
  <2>3. S \subseteq Selected(d, u, i, i)
    BY ReadsOfUser DEF Present
  <2> HIDE DEF S
  <2> QED
    BY <2>1, <2>2, <2>3 DEF Selected
<1> HIDE DEF list, S
<1>5. CASE list = <<>>
  <2>1. SamplesOf(list) = <<>> /\ DOMAIN list = {}
    BY <1>5 DEF SamplesOf
  <2>2. S = {}
    BY <1>3, <2>1
  <2> QED
    BY <2>1, <2>2 DEF list, S
<1>6. CASE list # <<>>
  <2>1. 1 \in DOMAIN list /\ list[1] \in ListEntries
    <3>1. 1 \in 1 .. Len(list)
      BY <1>2, <1>6
    <3> QED
      BY <1>2, <3>1, ElementOfSeq
  <2>2. list[1].uid = u /\ list[1].idx = i
    <3>1. <<list[1].uid, list[1].idx>> \in { <<w.uid, w.idx>> : w \in S }
      BY <1>3, <2>1
    <3> QED
      BY <1>4, <3>1
  <2>3. { list[1].ids[j] : j \in DOMAIN list[1].ids }
          = { w.id : w \in { v \in S : v.uid = list[1].uid /\ v.idx = list[1].idx } }
    BY <1>1, <2>1 DEF IsListOf
  <2>4. { v \in S : v.uid = list[1].uid /\ v.idx = list[1].idx } = S
    BY <1>4, <2>2
  <2>5. SamplesOf(list) = list[1].ids /\ list[1].ids \in Seq(1 .. MaxId)
    BY <1>6, <2>1 DEF SamplesOf, ListEntries
  <2> QED
    BY <2>3, <2>4, <2>5 DEF list, S
<1> QED
  BY <1>5, <1>6

(* The index the service chooses is that of no feature in the list. *)
LEMMA EmptyIndexFree ==
  ASSUME ListsRight, NEW d \in Drivers, NEW u \in Users,
         NEW R \in Reads(Selected(d, u, 0, NoEnd))
  PROVE  /\ EmptyIndex(FeatureList(R)) \in 0 .. MaxIdx + 1
         /\ \A w \in Present(R) : w.idx # EmptyIndex(FeatureList(R))
<1> DEFINE list == FeatureList(R)
           S == Present(R)
           n == Len(list)
           NoGap(k) == \A j \in 1 .. k : list[j].idx = j - 1
           Walked == { k \in 1 .. n : NoGap(k) }
           Off == { k \in 1 .. n : list[k].idx # k - 1 }
<1>1. IsListOf(list, S)
  BY Numbers DEF ListsRight, ListIsExact, Ends, Indices
<1>2. /\ list \in Seq([uid : Users, idx : Indices, ids : Seq(1 .. MaxId)])
      /\ n \in Nat /\ DOMAIN list = 1 .. n
  BY <1>1 DEF IsListOf
<1>3. \A k \in 1 .. n : list[k].idx \in Nat /\ list[k].idx <= MaxIdx
  <2> TAKE k \in 1 .. n
  <2>1. list[k] \in [uid : Users, idx : Indices, ids : Seq(1 .. MaxId)]
    BY <1>2, ElementOfSeq
  <2>2. list[k].idx \in Indices
    BY <2>1
  <2> QED
    BY <2>2, Numbers DEF Indices
<1>4. \A w \in S : w.uid = u
  BY ReadsOfUser DEF Present
<1>5. \A k \in 1 .. n : list[k].uid = u
  <2> TAKE k \in 1 .. n
  <2>1. <<list[k].uid, list[k].idx>> \in { <<w.uid, w.idx>> : w \in S }
    BY <1>1, <1>2 DEF IsListOf
  <2> QED
    BY <2>1, <1>4
<1>6. \A j, k \in 1 .. n : j < k => list[j].idx < list[k].idx
  <2> SUFFICES ASSUME NEW j \in 1 .. n, NEW k \in 1 .. n, j < k
               PROVE  list[j].idx < list[k].idx
    OBVIOUS
  <2>1. list[j].uid < list[k].uid \/ list[j].idx < list[k].idx
    BY <1>1, <1>2 DEF IsListOf
  <2>2. list[j].uid = u /\ list[k].uid = u /\ u \in Nat
    BY <1>5, Numbers
  <2> QED
    BY <2>1, <2>2
<1>7. \A w \in S : \E k \in 1 .. n : list[k].idx = w.idx
  <2> TAKE w \in S
  <2>1. <<w.uid, w.idx>> \in { <<list[k].uid, list[k].idx>> : k \in DOMAIN list }
    BY <1>1 DEF IsListOf
  <2> QED
    BY <2>1, <1>2
<1>8. EmptyIndex(list) = Cardinality(Walked)
  BY DEF EmptyIndex
<1> HIDE DEF list, S, n
<1>9. CASE Off = {}
  <2>1. \A k \in 1 .. n : list[k].idx = k - 1
    BY <1>9
  <2>2. Walked = 1 .. n
    BY <2>1, <1>2
  <2>3. Cardinality(Walked) = n
    <3>1. Cardinality(1 .. n) = IF 1 > n THEN 0 ELSE n - 1 + 1
      BY <1>2, FS_Interval
    <3>2. Cardinality(1 .. n) = n
      BY <3>1, <1>2
    <3> QED
      BY <2>2, <3>2, Zenon
  <2>4. \A w \in S : w.idx # n
    BY <1>7, <2>1, <1>2
  <2>5. n \in 0 .. MaxIdx + 1
    <3>1. CASE n = 0
      BY <3>1, Numbers
    <3>2. CASE n # 0
      <4>1. n \in 1 .. n
        BY <3>2, <1>2
      <4>2. list[n].idx = n - 1 /\ list[n].idx <= MaxIdx
        BY <4>1, <2>1, <1>3
      <4>3. n - 1 <= MaxIdx
        BY <4>2, Zenon
      <4> QED
        BY <4>3, <1>2, Numbers
    <3> QED
      BY <3>1, <3>2
  <2> QED
    BY <1>8, <2>3, <2>4, <2>5 DEF S, list
<1>10. CASE Off # {}
  <2>1. Off \subseteq Nat
    OBVIOUS
  <2>2. PICK g \in Off : \A k \in Off : ~ <<k, g>> \in OpToRel(<, Nat)
    BY <1>10, <2>1, NatLessThanWellFounded, WFMin
  <2>3. g \in 1 .. n /\ list[g].idx # g - 1 /\ \A k \in Off : ~ k < g
    BY <2>1, <2>2 DEF OpToRel
  <2>4. \A k \in 1 .. n : k < g => list[k].idx = k - 1
    BY <2>3
  <2>5. Walked = 1 .. g - 1
    <3>1. ASSUME NEW k \in 1 .. g - 1 PROVE k \in Walked
      <4>1. k \in 1 .. n /\ \A j \in 1 .. k : j \in 1 .. n /\ j < g
        BY <2>3, <1>2
      <4> QED
        BY <4>1, <2>4
    <3>2. ASSUME NEW k \in Walked PROVE k \in 1 .. g - 1
      <4>1. k \in 1 .. n /\ NoGap(k)
        OBVIOUS
      <4>2. ~ g \in 1 .. k
        BY <4>1, <2>3
      <4> QED
        BY <4>1, <4>2, <2>3, <1>2
    <3> QED
      BY <3>1, <3>2
  <2>6. Cardinality(Walked) = g - 1
    <3>1. Cardinality(1 .. g - 1) = IF 1 > g - 1 THEN 0 ELSE g - 1 - 1 + 1
      <4>1. 1 \in Int /\ g - 1 \in Int
        BY <2>3, <1>2
      <4> QED
        BY <4>1, FS_Interval
    <3>2. Cardinality(1 .. g - 1) = g - 1
      BY <3>1, <2>3, <1>2
    <3> QED
      BY <2>5, <3>2, Zenon
  <2>7. list[g].idx > g - 1
    <3>1. CASE g = 1
      BY <3>1, <2>3, <1>3
    <3>2. CASE g > 1
      <4>1. g - 1 \in 1 .. n /\ g - 1 < g
        BY <3>2, <2>3, <1>2
      <4>2. list[g - 1].idx = g - 2
        BY <4>1, <2>4, <2>3
      <4>3. list[g - 1].idx < list[g].idx
        BY <4>1, <2>3, <1>6
      <4> QED
        BY <4>2, <4>3, <2>3, <1>3, <1>2
    <3> QED
      BY <3>1, <3>2, <2>3
  <2>8. \A k \in 1 .. n : list[k].idx # g - 1
    <3> TAKE k \in 1 .. n
    <3>1. CASE k < g
      BY <3>1, <2>4, <2>3, <1>2
    <3>2. CASE k = g
      BY <3>2, <2>3
    <3>3. CASE k > g
      BY <3>3, <2>3, <2>7, <1>6, <1>3
    <3> QED
      BY <3>1, <3>2, <3>3, <2>3, <1>2
  <2>9. \A w \in S : w.idx # g - 1
    BY <1>7, <2>8
  <2>10. g - 1 \in 0 .. MaxIdx + 1
    <3>1. CASE g = 1
      BY <3>1, Numbers
    <3>2. CASE g > 1
      <4>1. g - 1 \in 1 .. n /\ g - 1 < g
        BY <3>2, <2>3, <1>2
      <4>2. list[g - 1].idx = g - 1 - 1
        BY <4>1, <2>4
      <4> QED
        BY <4>1, <4>2, <1>3, Numbers
    <3> QED
      BY <3>1, <3>2, <2>3
  <2> QED
    BY <1>8, <2>6, <2>9, <2>10 DEF S, list
<1> QED
  BY <1>9, <1>10

(* It is the index of no feature at all if the list is complete, or goes on
   behind it: what was not read lies behind what was. *)
LEMMA ShownIsFree ==
  ASSUME ListsRight, NEW d \in Drivers, NEW u \in Users,
         NEW R \in Reads(Selected(d, u, 0, NoEnd)), ShownFree(R, d, u)
  PROVE  \A w \in Present(Selected(d, u, 0, NoEnd)) : w.idx # EmptyIndex(FeatureList(R))
<1> DEFINE S == Selected(d, u, 0, NoEnd)
           list == FeatureList(R)
           i == EmptyIndex(list)
<1>1. CASE R = S
  BY <1>1, EmptyIndexFree
<1>2. ASSUME NEW k \in DOMAIN list, i < list[k].idx, NEW w \in Present(S), w.idx = i
      PROVE  FALSE
  <2>1. IsListOf(list, Present(R))
    BY Numbers DEF ListsRight, ListIsExact, Ends, Indices
  <2>2. PICK x \in Present(R) : x.idx = list[k].idx
    <3>1. <<list[k].uid, list[k].idx>> \in { <<x.uid, x.idx>> : x \in Present(R) }
      BY <2>1 DEF IsListOf
    <3> QED
      BY <3>1
  <2>3. PICK v \in S : R = ReadUpTo(S, v)
    BY <2>2 DEF Present, Reads
  <2>4. x \in R /\ R \subseteq S /\ S \subseteq table /\ table \subseteq Rows
    <3>1. R \subseteq S
      BY ReadsOfUser
    <3>2. S \subseteq table
      BY DEF Selected
    <3>3. x \in R
      BY <2>2 DEF Present
    <3> HIDE DEF S
    <3> QED
      BY <3>1, <3>2, <3>3 DEF ListsRight, TypeOK
  <2>5. \A y \in S : y.uid = u
    BY Numbers DEF Selected, AnyUser
  <2>6. w.uid = v.uid /\ x.uid = v.uid /\ w.uuid = x.uuid /\ w.idx < x.idx
    BY <1>2, <2>2, <2>4, <2>5 DEF Present
  <2>7. w \in Rows /\ v \in Rows /\ x \in Rows /\ w \in S
    BY <2>3, <2>4 DEF Present
  <2>8. x = v \/ Before(x, v)
    BY <2>3, <2>4 DEF ReadUpTo
  <2> HIDE DEF S, list, i
  <2>9. Before(w, v)
    <3>1. /\ w.uuid \in Int /\ w.idx \in Int /\ x.idx \in Int /\ v.idx \in Int
          /\ v.uuid \in Int /\ x.uid \in Int
      BY <2>7, RowNumbers
    <3>2. CASE x = v
      BY <2>6, <2>7, <3>2, BeforeByColumns
    <3>3. CASE Before(x, v)
      <4>1. x.uuid < v.uuid \/ (x.uuid = v.uuid /\ x.idx <= v.idx)
        BY <2>6, <2>7, <3>1, <3>3, BeforeByColumns
      <4>2. w.uuid < v.uuid \/ (w.uuid = v.uuid /\ w.idx < v.idx)
        BY <2>6, <3>1, <4>1
      <4> QED
        BY <2>6, <2>7, <4>2, BeforeByColumns
    <3> QED
      BY <2>8, <3>2, <3>3
  <2>10. w \in R
    BY <2>3, <2>7, <2>9 DEF ReadUpTo
  <2>11. w \in Present(R)
    BY <1>2, <2>10 DEF Present
  <2> QED
    BY <1>2, <2>11, EmptyIndexFree DEF S, list, i
<1> QED
  BY <1>1, <1>2 DEF ShownFree

-----------------------------------------------------------------------------
(* What an operation may rely on between its steps.                         *)

IdsOf(d) == { session[d].ids[j] : j \in DOMAIN session[d].ids }

(* The IDs a rename has read name rows of its feature, or none any more. *)
Targets ==
  \A d \in Drivers : session[d].at = "rename" =>
    \A i \in IdsOf(d) :
      /\ i <= lastId
      /\ \A w \in table : w.id = i =>
           w.uid = session[d].uid /\ w.drv = d /\ w.idx = session[d].idx

(* Of the rows of its feature, a rename that has read them all and has not failed
   has yet to update those it has not renamed. *)
StillToRename ==
  \A d \in Drivers : session[d].at = "rename" /\ ~ session[d].failed =>
    \A w \in table :
      /\ w.drv = d /\ w.uid = session[d].uid /\ w.idx = session[d].idx
      /\ w.uuid = session[d].readUnder
      => w.name = session[d].name \/ w.id \in IdsOf(d)

(* Whatever UUID the user has now, there is no row at the chosen index under
   the one the list has shown it to be free under.  ChosenIndexIsFree speaks of
   the present UUID and is not inductive: a user may get a former one back. *)
NoRowThere ==
  \A d \in Drivers : session[d].at = "enroll" =>
    \A w \in table :
      w.drv = d /\ w.uid = session[d].uid /\ w.uuid = session[d].shownUnder
      => w.idx # session[d].idx

Sound == Keys /\ Targets /\ StillToRename /\ NoRowThere

SameFeature(v, w) ==
  v.id = w.id /\ v.uid = w.uid /\ v.uuid = w.uuid /\ v.drv = w.drv /\ v.idx = w.idx

(* The elements of a list are its head and those of its tail. *)
LEMMA HeadAndTail ==
  ASSUME NEW S, NEW s \in Seq(S), s # <<>>
  PROVE  /\ Head(s) \in { s[j] : j \in DOMAIN s }
         /\ { s[j] : j \in DOMAIN s }
              = {Head(s)} \cup { Tail(s)[j] : j \in DOMAIN Tail(s) }
<1>1. /\ Len(s) \in Nat /\ Len(s) >= 1 /\ DOMAIN s = 1 .. Len(s) /\ Head(s) = s[1]
      /\ DOMAIN Tail(s) = 1 .. Len(s) - 1
      /\ \A j \in 1 .. Len(s) - 1 : Tail(s)[j] = s[j + 1]
  OBVIOUS
<1>2. ASSUME NEW j \in DOMAIN s
      PROVE  s[j] \in {Head(s)} \cup { Tail(s)[k] : k \in DOMAIN Tail(s) }
  <2>1. CASE j = 1
    BY <1>1, <2>1
  <2>2. CASE j # 1
    <3>1. j - 1 \in 1 .. Len(s) - 1 /\ Tail(s)[j - 1] = s[j]
      BY <1>1, <1>2, <2>2
    <3> QED
      BY <1>1, <3>1
  <2> QED
    BY <2>1, <2>2
<1>3. ASSUME NEW j \in DOMAIN Tail(s) PROVE Tail(s)[j] \in { s[k] : k \in DOMAIN s }
  <2>1. j + 1 \in DOMAIN s /\ Tail(s)[j] = s[j + 1]
    BY <1>1, <1>3
  <2> QED
    BY <2>1
<1>4. Head(s) \in { s[j] : j \in DOMAIN s }
  BY <1>1
<1> QED
  BY <1>2, <1>3, <1>4

(* A step that stores no row and moves none, and leaves the sessions that are
   not over as they were. *)
LEMMA NothingMoves ==
  ASSUME TypeOK, Sound, lastId' = lastId,
         table' \subseteq table,
         \A d \in Drivers : session'[d] \in {session[d], NoSession}
  PROVE  Sound'
<1>1. \A d \in Drivers : session'[d].at \in {"enroll", "rename"} => session'[d] = session[d]
  BY DEF NoSession
<1>2. \A d \in Drivers : session'[d].at = "rename" => IdsOf(d)' = IdsOf(d)
  BY <1>1 DEF IdsOf
<1>3. Keys'
  BY DEF Sound, Keys
<1>4. Targets'
  BY <1>1, <1>2 DEF Sound, Targets
<1>5. StillToRename'
  BY <1>1, <1>2 DEF Sound, StillToRename
<1>6. NoRowThere'
  BY <1>1 DEF Sound, NoRowThere
<1> QED
  BY <1>3, <1>4, <1>5, <1>6 DEF Sound

(* An UPDATE writes the feature of the row again: what it changes is the name. *)
LEMMA UpdateInPlace ==
  ASSUME TypeOK, Sound, NEW d \in Drivers, RenameUpdate(d), NEW w \in table'
  PROVE  \E v \in table : /\ SameFeature(v, w)
                          /\ v.id # Head(session[d].ids) => w = v
                          /\ w = v \/ w.name = session[d].name
<1>1. session[d].ids \in Seq(1 .. MaxId) /\ session[d].ids # <<>> /\ session[d].at = "rename"
  BY SessionType DEF RenameUpdate, Renaming
<1>2. Head(session[d].ids) \in IdsOf(d)
  BY <1>1, HeadAndTail DEF IdsOf
<1>3. CASE table' = table
  BY <1>3 DEF SameFeature
<1>4. CASE table' = { IF v.id = Head(session[d].ids) THEN Updated(v, d) ELSE v : v \in table }
  <2>1. PICK v \in table : w = IF v.id = Head(session[d].ids) THEN Updated(v, d) ELSE v
    BY <1>4
  <2>2. CASE v.id # Head(session[d].ids)
    BY <2>1, <2>2 DEF SameFeature
  <2>3. CASE v.id = Head(session[d].ids)
    <3>1. v.uid = session[d].uid /\ v.drv = d /\ v.idx = session[d].idx
      BY <1>1, <1>2, <2>3 DEF Sound, Targets
    <3>2. w = Updated(v, d)
      BY <2>1, <2>3
    <3>3. SameFeature(v, w) /\ w.name = session[d].name
      BY <3>1, <3>2 DEF Updated, SameFeature
    <3> QED
      BY <2>3, <3>3
  <2> QED
    BY <2>2, <2>3
<1> QED
  BY <1>3, <1>4 DEF RenameUpdate

(* An enrollment stores a row with an ID nobody has read, on a device on which
   nothing else goes on. *)
LEMMA StoreSound ==
  ASSUME TypeOK, Sound, NEW d \in Drivers, EnrollStore(d)
  PROVE  Sound'
<1> DEFINE new == [id |-> NewId(lastId), uid |-> session[d].uid,
                   uuid |-> uuid[session[d].uid], drv |-> d, idx |-> session[d].idx,
                   name |-> 0]
<1>1. table' = table \cup {new} /\ lastId' = lastId + 1
  BY DEF EnrollStore
<1>2. session' = [session EXCEPT ![d] = NoSession]
  BY DEF EnrollStore
<1>3. /\ session'[d].at = "idle"
      /\ \A c \in Drivers : c # d => session'[c] = session[c]
  BY <1>2 DEF TypeOK, NoSession
<1>4. \A c \in Drivers : c # d => IdsOf(c)' = IdsOf(c)
  BY <1>3 DEF IdsOf
<1>5. lastId \in Nat /\ new.id = lastId + 1 /\ new.drv = d
      /\ \A w \in table : w.id \in Nat /\ w.id <= lastId
  BY Numbers DEF TypeOK, Rows, NewId, Sound, Keys
<1>6. Keys'
  BY <1>1, <1>5 DEF Sound, Keys
<1>7. Targets'
  <2> SUFFICES ASSUME NEW c \in Drivers, session'[c].at = "rename", NEW i \in IdsOf(c)'
               PROVE  /\ i <= lastId'
                      /\ \A w \in table' : w.id = i =>
                           w.uid = session'[c].uid /\ w.drv = c /\ w.idx = session'[c].idx
    BY DEF Targets
  <2>1. c # d /\ session'[c] = session[c] /\ i \in IdsOf(c)
    BY <1>3, <1>4
  <2>2. i \in 1 .. MaxId
    <3>1. session[c].ids \in Seq(1 .. MaxId)
      BY <2>1, SessionType DEF Renaming
    <3>2. PICK j \in DOMAIN session[c].ids : i = session[c].ids[j]
      BY <2>1 DEF IdsOf
    <3>3. j \in 1 .. Len(session[c].ids)
      BY <3>1, <3>2
    <3> QED
      BY <3>1, <3>2, <3>3, ElementOfSeq
  <2>3. i <= lastId
    BY <2>1 DEF Sound, Targets
  <2>4. i # new.id /\ i <= lastId + 1
    BY <1>5, <2>2, <2>3
  <2> QED
    BY <1>1, <2>1, <2>4 DEF Sound, Targets
<1>8. StillToRename'
  <2> SUFFICES ASSUME NEW c \in Drivers, session'[c].at = "rename", ~ session'[c].failed,
                      NEW w \in table', w.drv = c, w.uid = session'[c].uid,
                      w.idx = session'[c].idx, w.uuid = session'[c].readUnder
               PROVE  w.name = session'[c].name \/ w.id \in IdsOf(c)'
    BY DEF StillToRename
  <2>1. c # d /\ session'[c] = session[c]
    BY <1>3
  <2>2. w \in table
    BY <1>1, <1>5, <2>1
  <2> QED
    BY <1>4, <2>1, <2>2 DEF Sound, StillToRename
<1>9. NoRowThere'
  <2> SUFFICES ASSUME NEW c \in Drivers, session'[c].at = "enroll",
                      NEW w \in table', w.drv = c, w.uid = session'[c].uid,
                      w.uuid = session'[c].shownUnder
               PROVE  w.idx # session'[c].idx
    BY DEF NoRowThere
  <2>1. c # d /\ session'[c] = session[c]
    BY <1>3
  <2>2. w \in table
    BY <1>1, <1>5, <2>1
  <2> QED
    BY <2>1, <2>2 DEF Sound, NoRowThere
<1> QED
  BY <1>6, <1>7, <1>8, <1>9 DEF Sound

(* A row has a UUID. *)
LEMMA HasUuid == TypeOK => \A w \in table : w.uuid # Nothing
<1> SUFFICES ASSUME TypeOK, NEW w \in table PROVE w.uuid # Nothing
  OBVIOUS
<1>1. w.uuid \in Uuids
  BY DEF TypeOK, Rows
<1>2. Uuids \subseteq Nat
  BY StorageAssumption DEF Uuids
<1> QED
  BY <1>1, <1>2 DEF Nothing

(* How an enrollment begins: at an index that was given, or at one that was chosen
   from the rows it could read. *)
LEMMA EnrollBegins ==
  ASSUME ListsRight, NEW d \in Drivers, NEW u \in Users, EnrollBegin(d, u)
  PROVE  \E i \in 0 .. MaxIdx + 1, under \in {uuid[u], Nothing} :
           /\ \/ under = Nothing
              \/ /\ under = uuid[u]
                 /\ \A w \in Present(Selected(d, u, 0, NoEnd)) : w.idx # i
           /\ session' = [session EXCEPT ![d] =
                [at |-> "enroll", uid |-> u, idx |-> i, shownUnder |-> under]]
<1>1. CASE \E i \in Indices : session' = [session EXCEPT ![d] =
             [at |-> "enroll", uid |-> u, idx |-> i, shownUnder |-> Nothing]]
  <2>1. PICK i \in Indices : session' = [session EXCEPT ![d] =
             [at |-> "enroll", uid |-> u, idx |-> i, shownUnder |-> Nothing]]
    BY <1>1
  <2>2. i \in 0 .. MaxIdx + 1 /\ Nothing \in {uuid[u], Nothing}
    BY Numbers DEF Indices
  <2> QED
    BY <2>1, <2>2, Zenon
<1>2. ASSUME NEW R \in Reads(Selected(d, u, 0, NoEnd)),
             session' = [session EXCEPT ![d] =
               [at |-> "enroll", uid |-> u, idx |-> EmptyIndex(FeatureList(R)),
                shownUnder |-> IF ShownFree(R, d, u) THEN uuid[u] ELSE Nothing]]
      PROVE  \E i \in 0 .. MaxIdx + 1, under \in {uuid[u], Nothing} :
               /\ \/ under = Nothing
                  \/ /\ under = uuid[u]
                     /\ \A w \in Present(Selected(d, u, 0, NoEnd)) : w.idx # i
               /\ session' = [session EXCEPT ![d] =
                    [at |-> "enroll", uid |-> u, idx |-> i, shownUnder |-> under]]
  <2> DEFINE i == EmptyIndex(FeatureList(R))
             under == IF ShownFree(R, d, u) THEN uuid[u] ELSE Nothing
  <2>1. i \in 0 .. MaxIdx + 1
    BY EmptyIndexFree
  <2>2. ShownFree(R, d, u) => \A w \in Present(Selected(d, u, 0, NoEnd)) : w.idx # i
    BY ShownIsFree
  <2>3. under \in {uuid[u], Nothing}
    OBVIOUS
  <2>4. \/ under = Nothing
        \/ /\ under = uuid[u]
           /\ \A w \in Present(Selected(d, u, 0, NoEnd)) : w.idx # i
    <3> HIDE DEF i
    <3> QED
      BY <2>2
  <2> HIDE DEF i, under
  <2>5. session' = [session EXCEPT ![d] =
          [at |-> "enroll", uid |-> u, idx |-> i, shownUnder |-> under]]
    BY <1>2, Zenon DEF i, under
  <2> QED
    BY <2>1, <2>3, <2>4, <2>5, Zenon
<1> QED
  BY <1>1, <1>2, Zenon DEF EnrollBegin

(* An enrollment begins: an index that was shown to be free is free. *)
LEMMA EnrollSound ==
  ASSUME ListsRight, Sound, NEW d \in Drivers, NEW u \in Users, EnrollBegin(d, u)
  PROVE  Sound'
<1>1. PICK i \in 0 .. MaxIdx + 1, under \in {uuid[u], Nothing} :
        /\ \/ under = Nothing
           \/ /\ under = uuid[u]
              /\ \A w \in Present(Selected(d, u, 0, NoEnd)) : w.idx # i
        /\ session' = [session EXCEPT ![d] =
             [at |-> "enroll", uid |-> u, idx |-> i, shownUnder |-> under]]
  BY EnrollBegins, Zenon
<1>2. UNCHANGED <<table, lastId, uuid>>
  BY DEF EnrollBegin
<1>3. /\ session'[d] = [at |-> "enroll", uid |-> u, idx |-> i, shownUnder |-> under]
      /\ \A c \in Drivers : c # d => session'[c] = session[c]
  BY <1>1 DEF ListsRight, TypeOK
<1>4. \A c \in Drivers : session'[c].at = "rename" => session'[c] = session[c]
  BY <1>3
<1>5. \A c \in Drivers : session'[c].at = "rename" => IdsOf(c)' = IdsOf(c)
  BY <1>4 DEF IdsOf
<1>6. Keys'
  BY <1>2 DEF Sound, Keys
<1>7. Targets'
  BY <1>2, <1>4, <1>5 DEF Sound, Targets
<1>8. StillToRename'
  BY <1>2, <1>4, <1>5 DEF Sound, StillToRename
<1>9. ASSUME NEW w \in table, w.drv = d, w.uid = u, w.uuid = under PROVE w.idx # i
  <2>0. under # Nothing
    BY <1>9, HasUuid DEF ListsRight
  <2>1. w.idx \in Nat
    <3>1. w.idx \in Indices
      BY DEF ListsRight, TypeOK, Rows
    <3> QED
      BY <3>1, Numbers DEF Indices
  <2>2. w \in Present(Selected(d, u, 0, NoEnd))
    BY <1>1, <1>9, <2>0, <2>1 DEF Present, Selected, NoEnd
  <2> QED
    BY <1>1, <2>0, <2>2
<1>10. NoRowThere'
  BY <1>2, <1>3, <1>9 DEF Sound, NoRowThere
<1> QED
  BY <1>6, <1>7, <1>8, <1>10 DEF Sound

(* A rename begins: the IDs it reads are those of the rows of its feature. *)
LEMMA RenameSound ==
  ASSUME ListsRight, Sound, NEW d \in Drivers, NEW u \in Users, NEW i \in Indices,
         NEW n \in NewNames, RenameBegin(d, u, i, n)
  PROVE  Sound'
<1>1. PICK R \in Reads(Selected(d, u, i, i)) : session' = [session EXCEPT ![d] =
        [at |-> "rename", uid |-> u, idx |-> i, name |-> n,
         ids |-> SamplesOf(FeatureList(R)), failed |-> FALSE,
         readUnder |-> IF R = Selected(d, u, i, i) THEN uuid[u] ELSE Nothing]]
  BY DEF RenameBegin
<1>0. UNCHANGED <<table, lastId, uuid>>
  BY DEF RenameBegin
<1> DEFINE ids == SamplesOf(FeatureList(R))
           under == IF R = Selected(d, u, i, i) THEN uuid[u] ELSE Nothing
           begun == [at |-> "rename", uid |-> u, idx |-> i, name |-> n,
                     ids |-> ids, failed |-> FALSE, readUnder |-> under]
<1>2. /\ session'[d] = begun
      /\ \A c \in Drivers : c # d => session'[c] = session[c]
  BY <1>1 DEF ListsRight, TypeOK
<1>3. IdsOf(d)' = { w.id : w \in Present(R) }
  <2>1. session'[d].ids = ids
    BY <1>2
  <2>2. { ids[j] : j \in DOMAIN ids } = { w.id : w \in Present(R) }
    BY ListOfOne
  <2>3. IdsOf(d)' = { session'[d].ids[j] : j \in DOMAIN session'[d].ids }
    BY DEF IdsOf
  <2> HIDE DEF ids
  <2> QED
    BY <2>1, <2>2, <2>3
<1>4. \A c \in Drivers : c # d => IdsOf(c)' = IdsOf(c)
  BY <1>2 DEF IdsOf
<1>5. \A w \in table : w \in Selected(d, u, i, i) <=> w.drv = d /\ w.uid = u /\ w.idx = i
  <2>1. u # AnyUser /\ i # NoEnd /\ i \in Nat
    BY Numbers DEF AnyUser, NoEnd, Indices
  <2>2. \A w \in table : w.idx \in Nat
    BY Numbers DEF ListsRight, TypeOK, Rows, Indices
  <2> QED
    BY <2>1, <2>2 DEF Selected
<1>6. Present(R) \subseteq R /\ R \subseteq Selected(d, u, i, i) /\ R \subseteq table
  BY ReadsOfUser DEF Present
<1>7. Keys'
  BY <1>0 DEF Sound, Keys
<1>8. Targets'
  <2>1. ASSUME NEW k \in IdsOf(d)'
        PROVE  /\ k <= lastId
               /\ \A w \in table : w.id = k => w.uid = u /\ w.drv = d /\ w.idx = i
    <3>1. PICK v \in table : v \in Selected(d, u, i, i) /\ v.id = k
      BY <1>3, <1>6, <2>1
    <3> QED
      BY <1>5, <3>1 DEF Sound, Keys
  <2> QED
    BY <1>0, <1>2, <1>4, <2>1 DEF Sound, Targets
<1>9. StillToRename'
  <2>1. ASSUME NEW w \in table, w.drv = d, w.uid = u, w.idx = i, w.uuid = under
        PROVE  w.id \in IdsOf(d)'
    <3>1. R = Selected(d, u, i, i) /\ w.uuid = uuid[u]
      BY <2>1, HasUuid DEF ListsRight
    <3>2. w \in Present(R)
      BY <1>5, <2>1, <3>1 DEF Present
    <3> QED
      BY <1>3, <3>2
  <2> HIDE DEF under, ids
  <2>2. session'[d].readUnder = under /\ session'[d].uid = u /\ session'[d].idx = i
    BY <1>2
  <2> QED
    BY <1>0, <1>2, <1>4, <2>1, <2>2 DEF Sound, StillToRename
<1>10. NoRowThere'
  BY <1>0, <1>2 DEF Sound, NoRowThere
<1> QED
  BY <1>7, <1>8, <1>9, <1>10 DEF Sound

(* A rename updates one row of its feature, or fails to and knows it. *)
LEMMA UpdateSound ==
  ASSUME TypeOK, Sound, NEW d \in Drivers, RenameUpdate(d)
  PROVE  Sound'
<1> DEFINE s == session[d]
<1>1. s \in Renaming /\ s.ids \in Seq(1 .. MaxId) /\ s.ids # <<>> /\ s.at = "rename"
  BY SessionType DEF RenameUpdate, Renaming
<1> DEFINE Written(w) == IF w.id = Head(s.ids) THEN Updated(w, d) ELSE w
<1>2. PICK failed \in {s.failed, TRUE} :
        /\ session' = [session EXCEPT ![d] = Remaining(s, failed)]
        /\ \/ table' = { Written(w) : w \in table }
           \/ table' = table /\ failed = TRUE
  BY DEF RenameUpdate
<1>3. /\ session'[d] = Remaining(s, failed)
      /\ \A c \in Drivers : c # d => session'[c] = session[c]
  BY <1>2 DEF TypeOK
<1>4. lastId' = lastId
  BY DEF RenameUpdate
<1>5. \A c \in Drivers : c # d => IdsOf(c)' = IdsOf(c)
  BY <1>3 DEF IdsOf
<1>6. IdsOf(d) = {Head(s.ids)} \cup IdsOf(d)'
  <2>1. session'[d].ids = Tail(s.ids)
    BY <1>3 DEF Remaining
  <2>2. IdsOf(d)' = { Tail(s.ids)[j] : j \in DOMAIN Tail(s.ids) }
    BY <2>1 DEF IdsOf
  <2> QED
    BY <1>1, <2>2, HeadAndTail DEF IdsOf
<1>7. \A w \in table' : \E v \in table : SameFeature(v, w) /\ (v.id # Head(s.ids) => w = v)
  BY UpdateInPlace
<1>8. Keys'
  <2>1. \A w \in table' : w.id <= lastId'
    BY <1>4, <1>7 DEF SameFeature, Sound, Keys
  <2>2. ASSUME NEW v \in table', NEW w \in table', v.id = w.id PROVE v = w
    <3>1. CASE table' = table
      BY <2>2, <3>1 DEF Sound, Keys
    <3>2. CASE table' = { Written(x) : x \in table }
      <4>1. PICK x \in table, y \in table : v = Written(x) /\ w = Written(y)
        BY <3>2
      <4>2. \A z : Written(z).id = z.id
        BY DEF Updated
      <4>3. x = y
        BY <2>2, <4>1, <4>2 DEF Sound, Keys
      <4> QED
        BY <4>1, <4>3
    <3> QED
      BY <1>2, <3>1, <3>2
  <2> QED
    BY <2>1, <2>2 DEF Keys
<1>9. Targets'
  <2> SUFFICES ASSUME NEW c \in Drivers, session'[c].at = "rename", NEW k \in IdsOf(c)'
               PROVE  /\ k <= lastId'
                      /\ \A w \in table' : w.id = k =>
                           w.uid = session'[c].uid /\ w.drv = c /\ w.idx = session'[c].idx
    BY DEF Targets
  <2>1. k \in IdsOf(c) /\ session[c].at = "rename"
    BY <1>1, <1>3, <1>5, <1>6
  <2>2. session'[c].uid = session[c].uid /\ session'[c].idx = session[c].idx
    BY <1>3 DEF Remaining
  <2>3. /\ k <= lastId
        /\ \A v \in table : v.id = k =>
             v.uid = session[c].uid /\ v.drv = c /\ v.idx = session[c].idx
    BY <2>1 DEF Sound, Targets
  <2>4. ASSUME NEW w \in table', w.id = k
        PROVE  w.uid = session'[c].uid /\ w.drv = c /\ w.idx = session'[c].idx
    <3>1. PICK v \in table : SameFeature(v, w)
      BY <1>7
    <3> QED
      BY <2>2, <2>3, <2>4, <3>1 DEF SameFeature
  <2> QED
    BY <1>4, <2>3, <2>4
<1>10. StillToRename'
  <2> SUFFICES ASSUME NEW c \in Drivers, session'[c].at = "rename", ~ session'[c].failed,
                      NEW w \in table', w.drv = c, w.uid = session'[c].uid,
                      w.idx = session'[c].idx, w.uuid = session'[c].readUnder
               PROVE  w.name = session'[c].name \/ w.id \in IdsOf(c)'
    BY DEF StillToRename
  <2>1. CASE c # d
    <3>1. session'[c] = session[c] /\ IdsOf(c)' = IdsOf(c)
      BY <1>3, <1>5, <2>1
    <3>2. PICK v \in table : SameFeature(v, w) /\ (v.id # Head(s.ids) => w = v)
      BY <1>7
    <3>3. v.id # Head(s.ids)
      <4> SUFFICES ASSUME v.id = Head(s.ids) PROVE FALSE
        OBVIOUS
      <4>1. v.drv = d
        BY <1>1, <1>6 DEF Sound, Targets
      <4> QED
        BY <2>1, <3>2, <4>1 DEF SameFeature
    <3> QED
      BY <3>1, <3>2, <3>3 DEF Sound, StillToRename
  <2>2. CASE c = d
    <3>1. /\ failed # TRUE /\ ~ s.failed
          /\ session'[d].uid = s.uid /\ session'[d].idx = s.idx
          /\ session'[d].readUnder = s.readUnder /\ session'[d].name = s.name
      <4>1. /\ session'[d].uid = s.uid /\ session'[d].idx = s.idx
            /\ session'[d].readUnder = s.readUnder /\ session'[d].name = s.name
        BY <1>3 DEF Remaining
      <4>2. session'[d].failed = failed
        BY <1>3 DEF Remaining
      <4>3. ~ session'[d].failed
        BY <2>2
      <4>4. ~ failed
        BY <4>2, <4>3, Zenon
      <4>5. failed # TRUE
        BY <4>4, Zenon
      <4>6. failed = s.failed
        BY <4>5, Zenon
      <4> QED
        BY <4>1, <4>4, <4>5, <4>6, Zenon
    <3>2. PICK v \in table : w = Written(v)
      BY <1>2, <3>1
    <3>3. CASE v.id = Head(s.ids)
      BY <2>2, <3>1, <3>2, <3>3 DEF Updated
    <3>4. CASE v.id # Head(s.ids)
      <4>1. w = v
        BY <3>2, <3>4
      <4>2. w.name = s.name \/ w.id \in IdsOf(d)
        BY <1>1, <2>2, <3>1, <4>1 DEF Sound, StillToRename
      <4> QED
        BY <1>6, <2>2, <3>1, <3>4, <4>1, <4>2
    <3> QED
      BY <3>3, <3>4
  <2> QED
    BY <2>1, <2>2
<1>11. NoRowThere'
  <2> SUFFICES ASSUME NEW c \in Drivers, session'[c].at = "enroll",
                      NEW w \in table', w.drv = c, w.uid = session'[c].uid,
                      w.uuid = session'[c].shownUnder
               PROVE  w.idx # session'[c].idx
    BY DEF NoRowThere
  <2>1. c # d /\ session'[c] = session[c]
    BY <1>3 DEF Remaining
  <2>2. PICK v \in table : SameFeature(v, w)
    BY <1>7
  <2> QED
    BY <2>1, <2>2 DEF SameFeature, Sound, NoRowThere
<1> QED
  BY <1>8, <1>9, <1>10, <1>11 DEF Sound

-----------------------------------------------------------------------------
(* The steps together.                                                      *)

(* One session is begun or goes on: the others keep their type. *)
LEMMA SessionTyped ==
  ASSUME TypeOK, NEW d \in Drivers, NEW s \in {NoSession} \cup Enrolling \cup Renaming,
         session' = [session EXCEPT ![d] = s]
  PROVE  session' \in [Drivers -> {NoSession} \cup Enrolling \cup Renaming]
BY DEF TypeOK

(* Rows, IDs and sessions have their types: an index that is chosen is at most
   one above the largest, and the IDs a rename reads are IDs of rows. *)
LEMMA NextTyped ==
  ASSUME TypeOK, ListIsExact, [Next]_vars
  PROVE  TypeOK'
<1>1. ASSUME NEW d \in Drivers, NEW u \in Users, EnrollBegin(d, u) PROVE TypeOK'
  <2>0. ListsRight
    BY DEF ListsRight
  <2>1. PICK i \in 0 .. MaxIdx + 1, under \in {uuid[u], Nothing} :
          session' = [session EXCEPT ![d] =
            [at |-> "enroll", uid |-> u, idx |-> i, shownUnder |-> under]]
    BY <1>1, <2>0, EnrollBegins, Zenon
  <2>3. under \in Uuids \cup {Nothing}
    BY DEF TypeOK
  <2>4. [at |-> "enroll", uid |-> u, idx |-> i, shownUnder |-> under] \in Enrolling
    BY <2>3 DEF Enrolling
  <2> QED
    BY <1>1, <2>1, <2>4, SessionTyped DEF EnrollBegin, TypeOK
<1>2. ASSUME NEW d \in Drivers, NEW u \in Users, NEW i \in Indices, NEW n \in NewNames,
             RenameBegin(d, u, i, n)
      PROVE  TypeOK'
  <2>0. n \in Names
    BY StorageAssumption
  <2>1. PICK R \in Reads(Selected(d, u, i, i)) : session' = [session EXCEPT ![d] =
          [at |-> "rename", uid |-> u, idx |-> i, name |-> n,
           ids |-> SamplesOf(FeatureList(R)), failed |-> FALSE,
           readUnder |-> IF R = Selected(d, u, i, i) THEN uuid[u] ELSE Nothing]]
    BY <1>2 DEF RenameBegin
  <2> DEFINE ids == SamplesOf(FeatureList(R))
             under == IF R = Selected(d, u, i, i) THEN uuid[u] ELSE Nothing
  <2>3. ids \in Seq(1 .. MaxId) /\ under \in Uuids \cup {Nothing}
    BY ListOfOne DEF ListsRight, TypeOK
  <2> HIDE DEF ids, under
  <2>2. [at |-> "rename", uid |-> u, idx |-> i, name |-> n, ids |-> ids,
         failed |-> FALSE, readUnder |-> under] \in Renaming
    BY <2>0, <2>3 DEF Renaming
  <2> QED
    BY <1>2, <2>1, <2>2, SessionTyped DEF RenameBegin, TypeOK, ids, under
<1>3. ASSUME NEW d \in Drivers, EnrollStore(d) PROVE TypeOK'
  <2> DEFINE s == session[d]
             new == [id |-> NewId(lastId), uid |-> s.uid, uuid |-> uuid[s.uid],
                     drv |-> d, idx |-> s.idx, name |-> 0]
  <2>1. s \in Enrolling
    BY <1>3, SessionType DEF EnrollStore
  <2>2. lastId + 1 \in 1 .. MaxId /\ s.idx \in Indices /\ 0 \in Names
    BY <1>3, <2>1, Numbers DEF EnrollStore, Enrolling, Indices, Names, TypeOK
  <2>3. new \in Rows
    BY <2>1, <2>2 DEF NewId, Rows, Enrolling, TypeOK
  <2>4. table' \subseteq Rows /\ lastId' \in 0 .. MaxId
    BY <1>3, <2>2, <2>3 DEF EnrollStore, TypeOK
  <2> QED
    BY <1>3, <2>4, SessionTyped DEF EnrollStore, TypeOK
<1>4. ASSUME NEW d \in Drivers, RenameUpdate(d) PROVE TypeOK'
  <2> DEFINE s == session[d]
  <2>1. s \in Renaming /\ s.ids \in Seq(1 .. MaxId) /\ s.ids # <<>>
    BY <1>4, SessionType DEF RenameUpdate, Renaming
  <2>2. PICK failed \in {s.failed, TRUE} :
          session' = [session EXCEPT ![d] = Remaining(s, failed)]
    BY <1>4 DEF RenameUpdate
  <2>3. Tail(s.ids) \in Seq(1 .. MaxId) /\ failed \in BOOLEAN
    <3>1. Tail(s.ids) \in Seq(1 .. MaxId)
      BY <2>1, HeadTailProperties
    <3>2. s.failed \in BOOLEAN
      BY <2>1, Zenon DEF Renaming
    <3>3. failed \in BOOLEAN
      BY <3>2, Zenon
    <3> QED
      BY <3>1, <3>3
  <2>4. Remaining(s, failed) \in Renaming
    BY <2>1, <2>3 DEF Remaining, Renaming
  <2>5. \A w \in Rows : Updated(w, d) \in Rows
    BY <2>1 DEF Updated, Rows, Renaming
  <2>6. table' \subseteq Rows
    <3>1. \A w \in table : w \in Rows /\ Updated(w, d) \in Rows
      BY <2>5 DEF TypeOK
    <3>2. CASE table' = table
      BY <3>1, <3>2
    <3>3. CASE table' = { IF w.id = Head(s.ids) THEN Updated(w, d) ELSE w : w \in table }
      BY <3>1, <3>3
    <3> QED
      BY <1>4, <3>2, <3>3 DEF RenameUpdate
  <2> QED
    BY <1>4, <2>2, <2>4, <2>6, SessionTyped DEF RenameUpdate, TypeOK
<1>5. ASSUME NEW d \in Drivers, EnrollFails(d) \/ RenameEnds(d) PROVE TypeOK'
  BY <1>5, SessionTyped DEF EnrollFails, RenameEnds, TypeOK
<1>6. ASSUME NEW u \in Users, NewUuid(u) PROVE TypeOK'
  <2>1. OwnUuids[u] \cup {Default} \subseteq Uuids
    BY DEF Uuids
  <2> QED
    BY <1>6, <2>1 DEF NewUuid, TypeOK
<1>7. CASE \/ \E d \in Drivers, u \in Users, i \in Indices : CleanDevice(d, u, i)
           \/ \E u \in Users, i \in Indices : CleanAll(u, i)
           \/ Crash \/ UNCHANGED vars
  BY <1>7 DEF CleanDevice, CleanAll, Crash, vars, TypeOK
<1> QED
  BY <1>1, <1>2, <1>3, <1>4, <1>5, <1>6, <1>7 DEF Next

(* Every step keeps what the operations rely on. *)
LEMMA NextSound ==
  ASSUME ListsRight, Sound, [Next]_vars
  PROVE  Sound'
<1> USE DEF ListsRight
<1>1. ASSUME NEW d \in Drivers, NEW u \in Users, EnrollBegin(d, u) PROVE Sound'
  BY <1>1, EnrollSound
<1>2. ASSUME NEW d \in Drivers, NEW u \in Users, NEW i \in Indices, NEW n \in NewNames,
             RenameBegin(d, u, i, n)
      PROVE  Sound'
  BY <1>2, RenameSound
<1>3. ASSUME NEW d \in Drivers, EnrollStore(d) PROVE Sound'
  BY <1>3, StoreSound
<1>4. ASSUME NEW d \in Drivers, RenameUpdate(d) PROVE Sound'
  BY <1>4, UpdateSound
<1>5. ASSUME NEW d \in Drivers, EnrollFails(d) \/ RenameEnds(d) PROVE Sound'
  <2>1. /\ lastId' = lastId /\ table' = table
        /\ \A c \in Drivers : session'[c] \in {session[c], NoSession}
    BY <1>5 DEF EnrollFails, RenameEnds, TypeOK
  <2> QED
    BY <2>1, NothingMoves
<1>6. CASE \/ \E d \in Drivers, u \in Users, i \in Indices : CleanDevice(d, u, i)
           \/ \E u \in Users, i \in Indices : CleanAll(u, i)
           \/ \E u \in Users : NewUuid(u)
           \/ Crash \/ UNCHANGED vars
  <2>1. /\ lastId' = lastId /\ table' \subseteq table
        /\ \A c \in Drivers : session'[c] \in {session[c], NoSession}
    BY <1>6 DEF CleanDevice, CleanAll, NewUuid, Crash, vars
  <2> QED
    BY <2>1, NothingMoves
<1> QED
  BY <1>1, <1>2, <1>3, <1>4, <1>5, <1>6 DEF Next

(* It all holds while nothing is stored and nobody is at work. *)
LEMMA InitSound == Init => TypeOK /\ Sound
<1>1. ASSUME Init PROVE TypeOK
  BY <1>1, Numbers DEF Init, TypeOK
<1>2. ASSUME Init PROVE Sound
  BY <1>2 DEF Init, NoSession, Sound, Keys, Targets, StillToRename, NoRowThere
<1> QED
  BY <1>1, <1>2

(* What the operations rely on holds: the lists they read are right because the
   IDs are unique, and the IDs stay unique because of what is read from them. *)
LEMMA AlwaysSound == Spec => [](TypeOK /\ Sound)
<1>1. TypeOK /\ Sound /\ [Next]_vars => (TypeOK /\ Sound)'
  BY ListExact, NextTyped, NextSound DEF ListsRight, Sound
<1> QED
  BY <1>1, InitSound, PTL DEF Spec

(* The list bio_sto_get_feature_info makes of the rows of one user it has read is
   exact, whatever was enrolled, renamed, cleaned and left behind under former
   UUIDs before, and wherever sqlite3_step has failed: one entry for each feature
   in them, in order, with all its samples and no others. *)
THEOREM ListsExact == Spec => []ListIsExact
<1>1. TypeOK /\ Sound => ListIsExact
  BY ListExact DEF Sound
<1> QED
  BY <1>1, AlwaysSound, PTL

(* The state has its types: bio_common_get_empty_index answers at most one more
   than the largest index in use, and a rename holds the IDs of rows. *)
THEOREM TypeCorrect == Spec => []TypeOK
BY AlwaysSound, PTL

(* An index the service chose is still free when the sample is stored, if the
   SELECT did not fail or failed behind it, and unless the UUID of the user is not
   the one it was chosen under: nothing between the choice and
   bio_sto_set_feature_info takes it, be it a rename or an enrollment on another
   device. *)
THEOREM ChosenFree == Spec => []ChosenIndexIsFree
<1>1. ASSUME TypeOK, Sound PROVE ChosenIndexIsFree
  <2> SUFFICES ASSUME NEW d \in Drivers, session[d].at = "enroll",
                      session[d].shownUnder = uuid[session[d].uid],
                      NEW w \in Present(Selected(d, session[d].uid, 0, NoEnd))
               PROVE  w.idx # session[d].idx
    BY DEF ChosenIndexIsFree, IndicesOf
  <2>1. session[d].uid \in Users
    BY <1>1, SessionType DEF Enrolling
  <2>2. session[d].uid # AnyUser
    BY <2>1, Numbers DEF AnyUser
  <2>3. w \in table /\ w.drv = d /\ w.uid = session[d].uid /\ w.uuid = uuid[w.uid]
    BY <2>2 DEF Present, Selected
  <2> QED
    BY <1>1, <2>3 DEF Sound, NoRowThere
<1> QED
  BY <1>1, AlwaysSound, PTL

(* bio_comm_feature_rename_by_db, if its SELECT has not failed, answers success only
   when it has renamed every sample of the feature that is still there, the rows
   a clean has erased under it and the UPDATEs that failed included. *)
THEOREM RenameComplete == Spec => []RenameIsComplete
<1>1. ASSUME TypeOK, Sound PROVE RenameIsComplete
  <2> SUFFICES ASSUME NEW d \in Drivers, session[d].at = "rename", session[d].ids = <<>>,
                      ~ session[d].failed,
                      NEW w \in Selected(d, session[d].uid, session[d].idx, session[d].idx),
                      w.uuid = session[d].readUnder
               PROVE  w.name = session[d].name
    BY DEF RenameIsComplete
  <2>1. session[d].uid \in Users /\ session[d].idx \in Indices
    BY <1>1, SessionType DEF Renaming
  <2>2. session[d].uid # AnyUser /\ session[d].idx # NoEnd /\ session[d].idx \in Nat
    BY <2>1, Numbers DEF AnyUser, NoEnd, Indices
  <2>3. w \in table /\ w.drv = d /\ w.uid = session[d].uid
    BY <2>2 DEF Selected
  <2>4. w.idx = session[d].idx
    <3>1. w.idx \in Nat
      BY <1>1, <2>3, Numbers DEF TypeOK, Rows, Indices
    <3> QED
      BY <2>2, <3>1 DEF Selected
  <2>5. w.id \notin IdsOf(d)
    BY DEF IdsOf
  <2> QED
    BY <1>1, <2>3, <2>4, <2>5 DEF Sound, StillToRename
<1> QED
  BY <1>1, AlwaysSound, PTL

(* No step moves a row to another feature: neither the
   UPDATE of an ID read before, whose row may be gone, nor the INSERT, whose ID
   AUTOINCREMENT takes above all that were ever used. *)
THEOREM RowsStay == Spec => RowsStayPut
<1> DEFINE Stay == \A v \in table, w \in table' :
             v.id = w.id => <<w.uid, w.uuid, w.drv, w.idx>> = <<v.uid, v.uuid, v.drv, v.idx>>
<1>1. ASSUME TypeOK, Sound, [Next]_vars PROVE Stay
  <2>1. ASSUME table' \subseteq table PROVE Stay
    BY <1>1, <2>1 DEF Sound, Keys
  <2>2. ASSUME NEW d \in Drivers, EnrollStore(d) PROVE Stay
    <3> SUFFICES ASSUME NEW v \in table, NEW w \in table', v.id = w.id
                 PROVE  w = v
      OBVIOUS
    <3>1. v.id <= lastId /\ lastId \in Nat /\ v.id \in Nat
      BY <1>1, Numbers DEF Sound, Keys, TypeOK, Rows
    <3>2. w \in table \/ w.id = lastId + 1
      BY <2>2 DEF EnrollStore, NewId
    <3>3. w \in table
      BY <3>1, <3>2
    <3> QED
      BY <1>1, <3>3 DEF Sound, Keys
  <2>3. ASSUME NEW d \in Drivers, RenameUpdate(d) PROVE Stay
    <3> SUFFICES ASSUME NEW v \in table, NEW w \in table', v.id = w.id
                 PROVE  <<w.uid, w.uuid, w.drv, w.idx>> = <<v.uid, v.uuid, v.drv, v.idx>>
      OBVIOUS
    <3>1. PICK x \in table : SameFeature(x, w)
      BY <1>1, <2>3, UpdateInPlace
    <3>2. x = v
      BY <1>1, <3>1 DEF SameFeature, Sound, Keys
    <3> QED
      BY <3>1, <3>2 DEF SameFeature
  <2>4. \/ table' \subseteq table
        \/ \E d \in Drivers : EnrollStore(d) \/ RenameUpdate(d)
    BY <1>1 DEF Next, EnrollBegin, RenameBegin, EnrollFails, RenameEnds, CleanDevice, CleanAll,
                NewUuid, Crash, vars
  <2> QED
    BY <2>1, <2>2, <2>3, <2>4
<1> QED
  BY <1>1, AlwaysSound, PTL DEF Spec, RowsStayPut
=============================================================================
