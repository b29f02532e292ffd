--------------------------- MODULE FeatureList_proofs ---------------------------
(***************************************************************************)
(* What the loop of bio_sto_get_feature_info makes of the rows of one user, *)
(* for every table.  FeatureList is a fold over the rows read; the      *)
(* proof goes in three steps.  Finitely many rows have a last one in the    *)
(* order of the query (LastExists).  The fold is then what the loop leaves  *)
(* behind, row after row, on every set of rows (ListByScan, ScanExists).    *)
(* Scanned, what the variables of the loop hold between two rows, is true   *)
(* at its start and is kept by each round (ScanRound); at its end it says   *)
(* that the list is exact.                                                  *)
(***************************************************************************)
EXTENDS BioStorage, SetInduction_proofs, SequenceTheorems, TLAPS

-----------------------------------------------------------------------------
(* The rows and their order.                                                *)

(* IDs are unique and were all given out. *)
Keys ==
  /\ \A w \in table : w.id <= lastId
  /\ \A v, w \in table : v.id = w.id => v = w

(* The numbers of the model. *)
LEMMA Numbers ==
  /\ Users \subseteq Nat /\ MaxIdx \in Nat /\ MaxId \in Nat /\ MaxName \in Nat
  /\ Uuids \subseteq Nat
<1>1. \A u \in Users : OwnUuids[u] \subseteq Nat
  BY StorageAssumption
<1>2. Uuids \subseteq Nat
  <2> SUFFICES ASSUME NEW x \in Uuids PROVE x \in Nat
    OBVIOUS
  <2>1. x = Default \/ x \in UNION { OwnUuids[u] : u \in Users }
    BY DEF Uuids
  <2> QED
    BY <1>1, <2>1, StorageAssumption, Zenon
<1> QED
  BY <1>2, StorageAssumption

(* The rows are finitely many, for their IDs are. *)
LEMMA TableFinite == ASSUME TypeOK, Keys PROVE IsFiniteSet(table)
<1> DEFINE f == [w \in table |-> w.id]
<1>1. f \in [table -> 1 .. MaxId]
  BY DEF TypeOK, Rows
<1>2. f \in Injection(table, 1 .. MaxId)
  BY <1>1 DEF Injection, IsInjective, Keys
<1>3. IsFiniteSet(1 .. MaxId)
  BY Numbers, FS_Interval
<1> QED
  BY <1>2, <1>3, FS_Injection

(* The columns that are ordered are numbers. *)
LEMMA RowNumbers ==
  ASSUME NEW w \in Rows
  PROVE  /\ w.uid \in Int /\ w.uuid \in Int /\ w.idx \in Int /\ w.name \in Int
         /\ w.id \in Int
<1>1. /\ w.uid \in Users /\ w.uuid \in Uuids /\ w.idx \in Indices /\ w.name \in Names
      /\ w.id \in 1 .. MaxId
  BY DEF Rows
<1>2. w.uid \in Nat /\ w.uuid \in Nat
  BY <1>1, Numbers
<1>3. w.idx \in Int /\ w.name \in Int /\ w.id \in Int
  BY <1>1, Numbers DEF Indices, Names
<1> QED
  BY <1>2, <1>3

(* The order of the query, column by column. *)
LEMMA BeforeByColumns ==
  ASSUME NEW v \in Rows, NEW w \in Rows
  PROVE  Before(v, w) <=>
           \/ v.uid < w.uid
           \/ v.uid = w.uid /\ v.uuid < w.uuid
           \/ v.uid = w.uid /\ v.uuid = w.uuid /\ v.idx < w.idx
           \/ v.uid = w.uid /\ v.uuid = w.uuid /\ v.idx = w.idx /\ v.name < w.name
           \/ /\ v.uid = w.uid /\ v.uuid = w.uuid /\ v.idx = w.idx /\ v.name = w.name
              /\ v.id < w.id
<1>1. /\ Key(v)[1] = v.uid /\ Key(v)[2] = v.uuid /\ Key(v)[3] = v.idx
      /\ Key(v)[4] = v.name /\ Key(v)[5] = v.id
      /\ Key(w)[1] = w.uid /\ Key(w)[2] = w.uuid /\ Key(w)[3] = w.idx
      /\ Key(w)[4] = w.name /\ Key(w)[5] = w.id
  BY DEF Key
<1>2. Before(v, w) <=>
        \E k \in {1, 2, 3, 4, 5} : /\ Key(v)[k] < Key(w)[k]
                                   /\ \A j \in 1 .. k - 1 : Key(v)[j] = Key(w)[j]
  <2>1. 1 .. 5 = {1, 2, 3, 4, 5}
    OBVIOUS
  <2> QED
    BY <2>1, Zenon DEF Before
<1>3. /\ 1 .. 1 - 1 = {} /\ 1 .. 2 - 1 = {1} /\ 1 .. 3 - 1 = {1, 2}
      /\ 1 .. 4 - 1 = {1, 2, 3} /\ 1 .. 5 - 1 = {1, 2, 3, 4}
  OBVIOUS
<1>4. Before(v, w) <=>
        \/ Key(v)[1] < Key(w)[1]
        \/ Key(v)[1] = Key(w)[1] /\ Key(v)[2] < Key(w)[2]
        \/ Key(v)[1] = Key(w)[1] /\ Key(v)[2] = Key(w)[2] /\ Key(v)[3] < Key(w)[3]
        \/ /\ Key(v)[1] = Key(w)[1] /\ Key(v)[2] = Key(w)[2] /\ Key(v)[3] = Key(w)[3]
           /\ Key(v)[4] < Key(w)[4]
        \/ /\ Key(v)[1] = Key(w)[1] /\ Key(v)[2] = Key(w)[2] /\ Key(v)[3] = Key(w)[3]
           /\ Key(v)[4] = Key(w)[4] /\ Key(v)[5] < Key(w)[5]
  BY <1>2, <1>3
<1> QED
  BY <1>1, <1>4

(* Finitely many rows have a last one. *)
LEMMA LastExists ==
  ASSUME TypeOK, Keys, NEW S \in SUBSET table, S # {}
  PROVE  /\ LastOf(S) \in S
         /\ \A v \in S \ {LastOf(S)} : Before(v, LastOf(S))
<1> DEFINE IsLast(w, s) == w \in s /\ \A v \in s \ {w} : Before(v, w)
           F == { s \in SUBSET table : s # {} => \E w \in s : IsLast(w, s) }
<1>1. IsFiniteSet(table)
  BY TableFinite
<1>2. table \subseteq Rows
  BY DEF TypeOK
<1>0. \A v \in Rows : /\ v.uid \in Int /\ v.uuid \in Int /\ v.idx \in Int
                       /\ v.name \in Int /\ v.id \in Int
  BY RowNumbers
<1>3. \A v, w \in table : v # w => Before(v, w) \/ Before(w, v)
  <2> SUFFICES ASSUME NEW v \in table, NEW w \in table, v # w
               PROVE  Before(v, w) \/ Before(w, v)
    OBVIOUS
  <2>1. v.id # w.id
    BY DEF Keys
  <2> QED
    BY <1>2, <1>0, <2>1, BeforeByColumns
<1>4. \A v, w, x \in table : Before(v, w) /\ Before(w, x) => Before(v, x)
  <2> SUFFICES ASSUME NEW v \in table, NEW w \in table, NEW x \in table,
                      Before(v, w), Before(w, x)
               PROVE  Before(v, x)
    OBVIOUS
  <2> QED
    BY <1>2, <1>0, BeforeByColumns
<1>5. ASSUME NEW s \in SUBSET table, s # {}, \A x \in s : s \ {x} \in F
      PROVE  s \in F
  <2>1. PICK x \in s : TRUE
    BY <1>5
  <2>2. CASE s \ {x} = {}
    BY <2>1, <2>2
  <2>3. CASE s \ {x} # {}
    <3>1. PICK w \in s \ {x} : IsLast(w, s \ {x})
      BY <1>5, <2>1, <2>3
    <3>2. CASE Before(x, w)
      <4>1. IsLast(w, s)
        BY <3>1, <3>2
      <4> QED
        BY <4>1
    <3>3. CASE Before(w, x)
      <4>1. \A v \in s \ {x} : Before(v, x)
        <5> TAKE v \in s \ {x}
        <5>1. v = w \/ Before(v, w)
          BY <3>1
        <5> QED
          BY <5>1, <3>3, <1>4, <2>1, <3>1
      <4>2. IsLast(x, s)
        BY <4>1, <2>1
      <4> QED
        BY <4>2, <2>1
    <3> QED
      BY <3>1, <3>2, <3>3, <1>3, <2>1
  <2> QED
    BY <2>2, <2>3
<1>6. SUBSET table \subseteq F
  <2>1. {} \in F
    OBVIOUS
  <2> HIDE DEF F
  <2> QED
    BY <1>1, <1>5, <2>1, SubsetInduction
<1>7. \E w \in S : \A v \in S \ {w} : Before(v, w)
  BY <1>6
<1> QED
  BY <1>7, Zenon DEF LastOf

-----------------------------------------------------------------------------
(* The fold.                                                                *)

(* A function of sets of rows that runs the loop over each of them. *)
IsScan(f, S) ==
  f = [s \in SUBSET S |-> IF s = {} THEN StartOfLoop
                          ELSE Extend(f[s \ {LastOf(s)}], LastOf(s))]

(* The list is what such a function says of the rows that were read. *)
LEMMA ListByScan ==
  ASSUME NEW S
  PROVE  FeatureList(S) = (CHOOSE f : IsScan(f, S))[S].list
<1> HIDE DEF Extend, LastOf, StartOfLoop
<1> QED
  BY Zenon DEF FeatureList, MapThenFoldSet, IsScan

(* The entries of a list. *)
Entries == [uid : Users, idx : Indices, ids : Seq(1 .. MaxId)]

LoopVars == [oldUid : Int, oldUuid : Int, oldIdx : Int, user : Int, list : Seq(Entries)]

(* A round keeps the types of the variables of the loop. *)
LEMMA ExtendTyped ==
  ASSUME TypeOK, NEW acc \in LoopVars, NEW w \in Rows
  PROVE  Extend(acc, w) \in LoopVars
<1> DEFINE present == IF Changed(acc, w) /\ acc.oldUid # w.uid THEN uuid[w.uid] ELSE acc.user
           list == acc.list
           n == Len(list)
<1>1. /\ list \in Seq(Entries) /\ n \in Nat
      /\ acc.oldUid \in Int /\ acc.oldUuid \in Int /\ acc.oldIdx \in Int /\ acc.user \in Int
  BY DEF LoopVars
<1>2. w.uid \in Users /\ w.uid \in Int /\ w.uuid \in Int /\ w.idx \in Int /\ w.id \in 1 .. MaxId
      /\ w.idx \in Indices
  BY RowNumbers DEF Rows
<1>3. uuid[w.uid] \in Int
  <2>1. uuid[w.uid] \in Uuids
    BY <1>2 DEF TypeOK
  <2>2. uuid[w.uid] \in Nat
    BY <2>1, Numbers, Zenon
  <2> QED
    BY <2>2
<1>4. present \in Int
  BY <1>1, <1>3
<1>5. Append(list, Entry(w)) \in Seq(Entries)
  <2>1. Entry(w) \in Entries
    BY <1>2 DEF Entry, Entries
  <2> HIDE DEF list
  <2> QED
    BY <1>1, <2>1
<1> DEFINE more == [list EXCEPT ![n].ids = Append(@, w.id)]
<1>6. more \in Seq(Entries)
  <2>1. CASE n = 0
    <3> HIDE DEF list
    <3>1. list = <<>>
      BY <1>1, <2>1
    <3>2. [<<>> EXCEPT ![0].ids = Append(@, w.id)] = <<>>
      OBVIOUS
    <3>3. more = <<>>
      BY <2>1, <3>1, <3>2, Zenon
    <3>4. <<>> \in Seq(Entries)
      OBVIOUS
    <3> QED
      BY <3>3, <3>4, Zenon
  <2>2. CASE n # 0
    <3>1. n \in 1 .. n
      BY <1>1, <2>2
    <3>2. list[n] \in Entries
      BY <1>1, <3>1, ElementOfSeq
    <3>3. Append(list[n].ids, w.id) \in Seq(1 .. MaxId)
      BY <1>2, <3>2 DEF Entries
    <3>4. [list[n] EXCEPT !.ids = Append(@, w.id)] \in Entries
      BY <3>2, <3>3 DEF Entries
    <3> DEFINE last == [list[n] EXCEPT !.ids = Append(@, w.id)]
    <3>5. more = [list EXCEPT ![n] = last]
      BY Zenon
    <3>6. list \in [1 .. n -> Entries]
      BY <1>1
    <3> HIDE DEF last, list, n, more
    <3>7. more \in [1 .. n -> Entries]
      BY <3>4, <3>5, <3>6 DEF last
    <3> QED
      BY <1>1, <3>7
  <2> QED
    BY <2>1, <2>2
<1> HIDE DEF present, list, more
<1>7. [acc EXCEPT !.oldUid = w.uid, !.user = present] \in LoopVars
  BY <1>2, <1>4 DEF LoopVars
<1>8. [oldUid |-> w.uid, oldUuid |-> w.uuid, oldIdx |-> w.idx, user |-> present,
       list |-> Append(acc.list, Entry(w))] \in LoopVars
  BY <1>2, <1>4, <1>5 DEF LoopVars, list
<1>9. [acc EXCEPT !.list[Len(acc.list)].ids = Append(@, w.id)] \in LoopVars
  <2>1. [acc EXCEPT !.list = more] \in LoopVars
    BY <1>6 DEF LoopVars
  <2> QED
    BY <2>1, Zenon DEF more, list
<1> QED
  BY <1>7, <1>8, <1>9, Zenon DEF Extend, present

(* There is one. *)
LEMMA ScanExists ==
  ASSUME TypeOK, Keys, NEW S \in SUBSET table
  PROVE  \E f : IsScan(f, S)
<1> DEFINE step == [x \in LoopVars \X S |-> Extend(x[1], x[2])]
           last == [D \in SUBSET S |-> LastOf(D)]
<1>1. IsFiniteSet(S) /\ S \subseteq Rows
  BY TableFinite, FS_Subset DEF TypeOK
<1>2. StartOfLoop \in LoopVars
  <2>1. -1 \in Int /\ <<>> \in Seq(Entries)
    OBVIOUS
  <2> QED
    BY <2>1 DEF StartOfLoop, LoopVars
<1>3. step \in [LoopVars \X S -> LoopVars]
  BY <1>1, ExtendTyped
<1>4. \A D \in SUBSET S : D # {} => last[D] \in D
  BY LastExists
<1>5. PICK f \in [SUBSET S -> LoopVars] : IsRecursion(f, S, StartOfLoop, step, last)
  <2> HIDE DEF step, last
  <2> QED
    BY <1>1, <1>2, <1>3, <1>4, RecursionExists
<1>6. ASSUME NEW D \in SUBSET S
      PROVE  f[D] = IF D = {} THEN StartOfLoop ELSE Extend(f[D \ {LastOf(D)}], LastOf(D))
  <2>1. CASE D = {}
    BY <1>5, <2>1 DEF IsRecursion
  <2>2. CASE D # {}
    <3>1. LastOf(D) \in S /\ f[D \ {LastOf(D)}] \in LoopVars
      BY <1>4, <1>5, <2>2
    <3>2. f[D] = step[<<f[D \ {LastOf(D)}], LastOf(D)>>]
      BY <1>5, <2>2 DEF IsRecursion
    <3> QED
      BY <2>2, <3>1, <3>2
  <2> QED
    BY <2>1, <2>2
<1>7. f = [D \in SUBSET S |-> f[D]]
  BY <1>5
<1> QED
  BY <1>6, <1>7, Zenon DEF IsScan

-----------------------------------------------------------------------------
(* The loop over the rows of one user.                                      *)

(* The rows a list shows: those with the present UUID of the user. *)
Shown(u, s) == { w \in s : w.uuid = uuid[u] }

(* A list of one user: an entry for each index in use, in increasing order,
   with the IDs of its rows. *)
ListsUser(list, u, V) ==
  /\ list \in Seq(Entries)
  /\ \A k \in 1 .. Len(list) : list[k].uid = u
  /\ \A j, k \in 1 .. Len(list) : j < k => list[j].idx < list[k].idx
  /\ \A w \in V : \E k \in 1 .. Len(list) : list[k].idx = w.idx
  /\ \A k \in 1 .. Len(list) :
       /\ \E w \in V : w.idx = list[k].idx
       /\ { list[k].ids[j] : j \in DOMAIN list[k].ids }
            = { w.id : w \in { v \in V : v.idx = list[k].idx } }

(* What the variables of the loop hold once it has gone over the rows s. *)
Scanned(acc, u, s) ==
  /\ acc \in LoopVars
  /\ acc.oldUid = IF s = {} THEN -1 ELSE u
  /\ s # {} => acc.user = uuid[u]
  /\ acc.list = <<>> => acc.oldUuid = -1
  /\ acc.list # <<>> => acc.oldUuid = uuid[u] /\ acc.oldIdx = acc.list[Len(acc.list)].idx
  /\ ListsUser(acc.list, u, Shown(u, s))

(* A row with a new index opens an entry after all others. *)
LEMMA EntryAppended ==
  ASSUME NEW u \in Users, NEW V \in SUBSET Rows, NEW list, ListsUser(list, u, V),
         NEW w \in Rows, w.uid = u,
         list # <<>> => list[Len(list)].idx < w.idx
  PROVE  ListsUser(Append(list, Entry(w)), u, V \cup {w})
<1> DEFINE n == Len(list)
           new == Append(list, Entry(w))
<1>1. list \in Seq(Entries) /\ n \in Nat /\ \A k \in 1 .. n : list[k] \in Entries
  BY ElementOfSeq DEF ListsUser
<1>2. w.id \in 1 .. MaxId /\ w.idx \in Indices /\ w.idx \in Int
  BY RowNumbers DEF Rows
<1>3. Entry(w) \in Entries
  BY <1>2 DEF Entry, Entries
<1>4. /\ new \in Seq(Entries) /\ Len(new) = n + 1
      /\ \A k \in 1 .. n : new[k] = list[k]
      /\ new[n + 1] = Entry(w)
  BY <1>1, <1>3
<1>5. Entry(w).uid = u /\ Entry(w).idx = w.idx /\ Entry(w).ids = <<w.id>>
  BY DEF Entry
<1>6. \A k \in 1 .. n : list[k].idx \in Int
  BY <1>1, Numbers DEF Entries, Indices
<1>7. \A k \in 1 .. n : list[k].idx < w.idx
  <2> SUFFICES ASSUME NEW k \in 1 .. n PROVE list[k].idx < w.idx
    OBVIOUS
  <2>1. list # <<>> /\ n \in 1 .. n
    BY <1>1
  <2>2. k = n \/ list[k].idx < list[n].idx
    BY <1>1 DEF ListsUser
  <2> QED
    BY <1>1, <1>2, <1>6, <2>1, <2>2
<1> HIDE DEF new, n
<1>8. \A v \in V : v.idx # w.idx
  <2> SUFFICES ASSUME NEW v \in V, v.idx = w.idx PROVE FALSE
    OBVIOUS
  <2>1. PICK k \in 1 .. n : list[k].idx = v.idx
    BY DEF ListsUser, n
  <2> QED
    BY <2>1, <1>2, <1>7
<1>9. 1 .. n + 1 = (1 .. n) \cup {n + 1}
  BY <1>1
<1>10. \A k \in 1 .. n + 1 : new[k].uid = u
  BY <1>4, <1>5, <1>9 DEF ListsUser, n
<1>11. \A j, k \in 1 .. n + 1 : j < k => new[j].idx < new[k].idx
  <2> SUFFICES ASSUME NEW j \in 1 .. n + 1, NEW k \in 1 .. n + 1, j < k
               PROVE  new[j].idx < new[k].idx
    OBVIOUS
  <2>1. j \in 1 .. n
    BY <1>1
  <2>2. CASE k = n + 1
    BY <1>4, <1>5, <1>7, <2>1, <2>2
  <2>3. CASE k # n + 1
    <3>1. k \in 1 .. n
      BY <1>1, <2>3
    <3>2. list[j].idx < list[k].idx
      BY <2>1, <3>1 DEF ListsUser, n
    <3> QED
      BY <1>4, <2>1, <3>1, <3>2
  <2> QED
    BY <2>2, <2>3
<1>12. \A v \in V \cup {w} : \E k \in 1 .. n + 1 : new[k].idx = v.idx
  <2> SUFFICES ASSUME NEW v \in V \cup {w} PROVE \E k \in 1 .. n + 1 : new[k].idx = v.idx
    OBVIOUS
  <2>1. CASE v \in V
    <3>1. PICK k \in 1 .. n : list[k].idx = v.idx
      BY <2>1 DEF ListsUser, n
    <3> QED
      BY <1>4, <1>9, <3>1
  <2>2. CASE v = w
    BY <1>4, <1>5, <1>9, <2>2
  <2> QED
    BY <2>1, <2>2
<1>13. ASSUME NEW k \in 1 .. n + 1
       PROVE  /\ \E v \in V \cup {w} : v.idx = new[k].idx
              /\ { new[k].ids[j] : j \in DOMAIN new[k].ids }
                   = { v.id : v \in { x \in V \cup {w} : x.idx = new[k].idx } }
  <2>1. CASE k = n + 1
    <3>1. new[k].idx = w.idx /\ new[k].ids = <<w.id>>
      BY <1>4, <1>5, <2>1
    <3>2. { x \in V \cup {w} : x.idx = new[k].idx } = {w}
      BY <1>8, <3>1
    <3>3. { <<w.id>>[j] : j \in DOMAIN <<w.id>> } = {w.id}
      OBVIOUS
    <3> QED
      BY <3>1, <3>2, <3>3
  <2>2. CASE k \in 1 .. n
    <3>1. new[k] = list[k] /\ list[k].idx # w.idx
      BY <1>2, <1>4, <1>6, <1>7, <2>2
    <3>2. { x \in V \cup {w} : x.idx = list[k].idx } = { x \in V : x.idx = list[k].idx }
      BY <3>1
    <3>3. /\ \E v \in V : v.idx = list[k].idx
          /\ { list[k].ids[j] : j \in DOMAIN list[k].ids }
               = { v.id : v \in { x \in V : x.idx = list[k].idx } }
      BY <2>2 DEF ListsUser, n
    <3> QED
      BY <3>1, <3>2, <3>3
  <2> QED
    BY <1>9, <2>1, <2>2
<1> QED
  BY <1>4, <1>10, <1>11, <1>12, <1>13 DEF ListsUser, new

(* A row with the index of the last entry is a further sample of it. *)
LEMMA SampleAppended ==
  ASSUME NEW u \in Users, NEW V \in SUBSET Rows, NEW list, ListsUser(list, u, V),
         NEW w \in Rows, w.uid = u,
         list # <<>>, list[Len(list)].idx = w.idx
  PROVE  ListsUser([list EXCEPT ![Len(list)].ids = Append(@, w.id)], u, V \cup {w})
<1> DEFINE n == Len(list)
           new == [list EXCEPT ![n].ids = Append(@, w.id)]
<1>1. list \in Seq(Entries) /\ n \in Nat /\ n \in 1 .. n /\ \A k \in 1 .. n : list[k] \in Entries
  BY ElementOfSeq DEF ListsUser
<1>2. w.id \in 1 .. MaxId /\ w.idx \in Indices /\ w.idx \in Int
  BY RowNumbers DEF Rows
<1>3. list[n].ids \in Seq(1 .. MaxId)
  BY <1>1 DEF Entries
<1>4. Append(list[n].ids, w.id) \in Seq(1 .. MaxId)
  BY <1>2, <1>3
<1> DEFINE last == [uid |-> list[n].uid, idx |-> list[n].idx, ids |-> Append(list[n].ids, w.id)]
<1>5. last \in Entries
  BY <1>1, <1>4 DEF Entries
<1>6. new = [list EXCEPT ![n] = last]
  <2>1. [list[n] EXCEPT !.ids = Append(@, w.id)] = last
    <3> DEFINE e == list[n]
               x == Append(e.ids, w.id)
    <3>1. e \in [uid : Users, idx : Indices, ids : Seq(1 .. MaxId)]
      BY <1>1 DEF Entries
    <3> HIDE DEF e, x, n
    <3>2. [e EXCEPT !.ids = x] = [uid |-> e.uid, idx |-> e.idx, ids |-> x]
      BY <3>1
    <3> QED
      BY <3>2, Zenon DEF e, x
  <2> QED
    BY <2>1, Zenon
<1>7. /\ new \in Seq(Entries) /\ Len(new) = n
      /\ \A k \in 1 .. n : k # n => new[k] = list[k]
      /\ new[n] = last
  <2> HIDE DEF last, n
  <2>1. new = [list EXCEPT ![n] = last]
    BY <1>6
  <2>2. list \in [1 .. n -> Entries]
    BY <1>1 DEF n
  <2>3. /\ new \in [1 .. n -> Entries]
        /\ \A k \in 1 .. n : k # n => new[k] = list[k]
        /\ new[n] = last
    <3> HIDE DEF new
    <3> QED
      BY <1>1, <1>5, <2>1, <2>2
  <2>4. new \in Seq(Entries) /\ Len(new) = n
    <3> HIDE DEF new
    <3> QED
      BY <1>1, <2>3
  <2> QED
    BY <2>3, <2>4
<1>8. \A k \in 1 .. n : new[k].uid = list[k].uid /\ new[k].idx = list[k].idx
  <2> HIDE DEF new, n
  <2>1. last.uid = list[n].uid /\ last.idx = list[n].idx
    OBVIOUS
  <2> QED
    BY <1>7, <2>1, Zenon
<1>9. \A k \in 1 .. n : list[k].idx \in Int
  BY <1>1, Numbers DEF Entries, Indices
<1>0. list[n].idx = w.idx
  OBVIOUS
<1> HIDE DEF new, n
<1>10. ASSUME NEW k \in 1 .. n
       PROVE  /\ \E v \in V \cup {w} : v.idx = new[k].idx
              /\ { new[k].ids[j] : j \in DOMAIN new[k].ids }
                   = { v.id : v \in { x \in V \cup {w} : x.idx = new[k].idx } }
  <2>1. /\ \E v \in V : v.idx = list[k].idx
        /\ { list[k].ids[j] : j \in DOMAIN list[k].ids }
             = { v.id : v \in { x \in V : x.idx = list[k].idx } }
    BY DEF ListsUser, n
  <2>2. CASE k = n
    <3>1. new[n].ids = Append(list[n].ids, w.id)
      BY <1>7
    <3>2. { new[n].ids[j] : j \in DOMAIN new[n].ids }
            = { list[n].ids[j] : j \in DOMAIN list[n].ids } \cup {w.id}
      <4> DEFINE ids == list[n].ids
                 more == Append(ids, w.id)
      <4>1. /\ Len(ids) \in Nat /\ DOMAIN ids = 1 .. Len(ids)
            /\ DOMAIN more = (1 .. Len(ids)) \cup {Len(ids) + 1}
            /\ \A j \in 1 .. Len(ids) : more[j] = ids[j]
            /\ more[Len(ids) + 1] = w.id
        BY <1>3
      <4> HIDE DEF more, ids
      <4>2. { more[j] : j \in DOMAIN more } = { ids[j] : j \in DOMAIN ids } \cup {w.id}
        BY <4>1
      <4> QED
        BY <4>2, <3>1 DEF more, ids
    <3>3. { x \in V \cup {w} : x.idx = list[n].idx } = { x \in V : x.idx = list[n].idx } \cup {w}
      BY <1>0
    <3>4. new[n].idx = list[n].idx
      BY <1>1, <1>8
    <3>5. { v.id : v \in { x \in V : x.idx = list[n].idx } \cup {w} }
            = { v.id : v \in { x \in V : x.idx = list[n].idx } } \cup {w.id}
      OBVIOUS
    <3>6. { new[n].ids[j] : j \in DOMAIN new[n].ids }
            = { v.id : v \in { x \in V : x.idx = list[n].idx } \cup {w} }
      <4> DEFINE A == { list[n].ids[j] : j \in DOMAIN list[n].ids }
                 B == { v.id : v \in { x \in V : x.idx = list[n].idx } }
                 C == { v.id : v \in { x \in V : x.idx = list[n].idx } \cup {w} }
                 D == { new[n].ids[j] : j \in DOMAIN new[n].ids }
      <4>1. A = B
        BY <2>1, <2>2, Zenon
      <4>2. D = A \cup {w.id} /\ C = B \cup {w.id}
        BY <3>2, <3>5, Zenon
      <4> HIDE DEF A, B, C, D
      <4>3. D = C
        BY <4>1, <4>2, Zenon
      <4> QED
        BY <4>3, Zenon DEF C, D
    <3>7. { new[n].ids[j] : j \in DOMAIN new[n].ids }
            = { v.id : v \in { x \in V \cup {w} : x.idx = new[n].idx } }
      BY <3>3, <3>4, <3>6, Zenon
    <3>8. \E v \in V \cup {w} : v.idx = new[n].idx
      BY <1>0, <3>4
    <3> QED
      BY <2>2, <3>7, <3>8, Zenon
  <2>3. CASE k # n
    <3>1. new[k] = list[k]
      BY <1>7, <2>3
    <3>2. list[k].idx < list[n].idx
      BY <1>1, <2>3 DEF ListsUser, n
    <3>3. list[k].idx # w.idx
      BY <1>1, <1>9, <1>0, <3>2
    <3>4. { x \in V \cup {w} : x.idx = list[k].idx } = { x \in V : x.idx = list[k].idx }
      BY <3>3
    <3> QED
      BY <2>1, <3>1, <3>4
  <2> QED
    BY <2>2, <2>3
<1>11. \A v \in V \cup {w} : \E k \in 1 .. n : new[k].idx = v.idx
  <2> SUFFICES ASSUME NEW v \in V \cup {w} PROVE \E k \in 1 .. n : new[k].idx = v.idx
    OBVIOUS
  <2>1. \E k \in 1 .. n : list[k].idx = v.idx
    BY <1>1, <1>0 DEF ListsUser, n
  <2> QED
    BY <2>1, <1>8
<1>12. \A k \in 1 .. n : new[k].uid = u
  BY <1>8 DEF ListsUser, n
<1>13. \A j, k \in 1 .. n : j < k => new[j].idx < new[k].idx
  <2>1. \A j, k \in 1 .. n : j < k => list[j].idx < list[k].idx
    BY DEF ListsUser, n
  <2> QED
    BY <1>8, <2>1
<1>14. ListsUser(new, u, V \cup {w})
  BY <1>7, <1>10, <1>11, <1>12, <1>13 DEF ListsUser
<1> QED
  BY <1>14 DEF new, n


(* One round of the loop: what is held after the rows before w, is held after w. *)
LEMMA ScanRound ==
  ASSUME TypeOK, Keys, NEW u \in Users, NEW s \in SUBSET table, NEW w \in s,
         \A v \in s : v.uid = u, \A v \in s \ {w} : Before(v, w),
         NEW acc, Scanned(acc, u, s \ {w})
  PROVE  Scanned(Extend(acc, w), u, s)
<1> USE DEF LoopVars
<1> DEFINE p == uuid[u]
           r == s \ {w}
           list == acc.list
           n == Len(list)
           V == Shown(u, r)
           present == IF Changed(acc, w) /\ acc.oldUid # w.uid THEN uuid[w.uid] ELSE acc.user
<1>1. /\ w \in Rows /\ w.uid = u /\ r \subseteq Rows /\ V \in SUBSET Rows
      /\ p \in Nat /\ u \in Nat /\ w.uuid \in Int /\ w.idx \in Int
  BY Numbers, RowNumbers DEF TypeOK, Shown
<1>2. /\ acc \in LoopVars
      /\ list \in Seq(Entries) /\ n \in Nat
      /\ acc.oldUid \in Int /\ acc.oldUuid \in Int /\ acc.oldIdx \in Int /\ acc.user \in Int
  BY DEF Scanned
<1>3. /\ acc.oldUid = IF r = {} THEN -1 ELSE u
      /\ r # {} => acc.user = p
      /\ list = <<>> => acc.oldUuid = -1
      /\ list # <<>> => acc.oldUuid = p /\ acc.oldIdx = list[n].idx
      /\ ListsUser(list, u, V)
  BY DEF Scanned
<1>4. Changed(acc, w) <=> acc.oldUid < u \/ acc.oldIdx < w.idx \/ acc.oldUuid # w.uuid
  BY <1>1 DEF Changed
<1>5. r = {} => Changed(acc, w)
  BY <1>1, <1>3, <1>4
<1>6. present = p
  BY <1>1, <1>3, <1>5
<1>7. Shown(u, s) = IF w.uuid = p THEN V \cup {w} ELSE V
  BY DEF Shown
<1>8. s # {}
  OBVIOUS
<1>9. \A k \in 1 .. n : list[k].idx \in Int
  <2>1. \A k \in 1 .. n : list[k] \in Entries
    BY <1>2, ElementOfSeq
  <2> QED
    BY <2>1, Numbers DEF Entries, Indices
<1>10. list # <<>> => n \in 1 .. n
  BY <1>2
<1>11. CASE Changed(acc, w) /\ w.uuid # p
  <2>1. Extend(acc, w) = [acc EXCEPT !.oldUid = w.uid, !.user = present]
    BY <1>6, <1>11 DEF Extend
  <2>2. Extend(acc, w) = [oldUid |-> u, oldUuid |-> acc.oldUuid, oldIdx |-> acc.oldIdx,
                          user |-> p, list |-> list]
    <3> HIDE DEF present, list, p
    <3> QED
      BY <1>1, <1>2, <1>6, <2>1 DEF list
  <2> HIDE DEF list, p, V, r, n, present
  <2> QED
    BY <1>1, <1>2, <1>3, <1>7, <1>8, <1>11, <2>2 DEF Scanned, p, n
<1>12. CASE Changed(acc, w) /\ w.uuid = p
  <2>1. Extend(acc, w) = [oldUid |-> w.uid, oldUuid |-> w.uuid, oldIdx |-> w.idx,
                          user |-> present, list |-> Append(acc.list, Entry(w))]
    BY <1>6, <1>12 DEF Extend
  <2>2. list # <<>> => list[n].idx < w.idx
    <3> SUFFICES ASSUME list # <<>> PROVE list[n].idx < w.idx
      OBVIOUS
    <3>1. r # {}
      <4>1. \E v \in V : v.idx = list[n].idx
        BY <1>3, <1>10 DEF ListsUser
      <4> QED
        BY <4>1 DEF Shown
    <3>2. ~ acc.oldUid < u /\ acc.oldUuid = w.uuid /\ acc.oldIdx = list[n].idx
      BY <1>1, <1>3, <1>12, <3>1
    <3> QED
      BY <1>4, <1>12, <3>2
  <2>3. ListsUser(Append(list, Entry(w)), u, V \cup {w})
    BY <1>1, <1>3, <2>2, EntryAppended
  <2>4. Entry(w) \in Entries
    BY <1>1 DEF Entry, Entries, Rows
  <2>5. /\ Append(list, Entry(w)) \in Seq(Entries) /\ Append(list, Entry(w)) # <<>>
        /\ Len(Append(list, Entry(w))) = n + 1
        /\ Append(list, Entry(w))[n + 1] = Entry(w)
    <3>1. list \in Seq(Entries) /\ n = Len(list)
      BY <1>2
    <3> HIDE DEF list, n
    <3> QED
      BY <2>4, <3>1
  <2>6. Entry(w).idx = w.idx
    BY DEF Entry
  <2> HIDE DEF list, p, V, r, n, present
  <2>7. Extend(acc, w) = [oldUid |-> u, oldUuid |-> p, oldIdx |-> w.idx,
                          user |-> p, list |-> Append(list, Entry(w))]
    BY <1>1, <1>6, <1>12, <2>1 DEF list
  <2> QED
    BY <1>1, <1>7, <1>8, <1>12, <2>3, <2>5, <2>6, <2>7 DEF Scanned, p
<1>13. CASE ~ Changed(acc, w) /\ w.uuid # p
  <2>1. Extend(acc, w) = acc
    BY <1>6, <1>13 DEF Extend
  <2>2. r # {}
    BY <1>5, <1>13
  <2> QED
    BY <1>2, <1>3, <1>7, <1>8, <1>13, <2>1, <2>2 DEF Scanned
<1>14. CASE ~ Changed(acc, w) /\ w.uuid = p
  <2>1. Extend(acc, w) = [acc EXCEPT !.list[Len(acc.list)].ids = Append(@, w.id)]
    BY <1>6, <1>14 DEF Extend
  <2>2. list # <<>>
    BY <1>1, <1>3, <1>4, <1>14
  <2>3. acc.oldIdx = list[n].idx /\ w.idx <= list[n].idx
    BY <1>1, <1>2, <1>3, <1>4, <1>14, <2>2
  <2>4. list[n].idx <= w.idx
    <3>1. PICK v \in V : v.idx = list[n].idx
      BY <1>3, <1>10, <2>2 DEF ListsUser
    <3>2. v \in r /\ v.uuid = p /\ v.uid = u /\ v \in Rows /\ Before(v, w)
      BY <1>1, <3>1 DEF Shown
    <3>3. v.idx < w.idx \/ v.idx = w.idx
      BY <1>1, <1>14, <3>2, BeforeByColumns, RowNumbers
    <3>4. v.idx \in Int
      BY <3>2, RowNumbers
    <3> QED
      BY <1>1, <3>1, <3>3, <3>4
  <2>5. list[n].idx = w.idx
    BY <1>1, <1>9, <1>10, <2>2, <2>3, <2>4
  <2> DEFINE more == [list EXCEPT ![n].ids = Append(@, w.id)]
  <2>6. ListsUser(more, u, V \cup {w})
    BY <1>1, <1>3, <2>2, <2>5, SampleAppended
  <2>7. more \in Seq(Entries) /\ Len(more) = n /\ more # <<>>
    BY <1>2, <1>10, <2>2, <2>6 DEF ListsUser
  <2>8. more[n].idx = w.idx
    BY <1>10, <2>2, <2>5, <1>2
  <2>9. Extend(acc, w) = [oldUid |-> acc.oldUid, oldUuid |-> acc.oldUuid,
                          oldIdx |-> acc.oldIdx, user |-> acc.user, list |-> more]
    <3>1. Extend(acc, w) = [acc EXCEPT !.list = more]
      BY <2>1, Zenon
    <3> HIDE DEF more
    <3> QED
      BY <1>2, <3>1
  <2>10. r # {}
    BY <1>5, <1>14
  <2> HIDE DEF list, p, V, r, n, present, more
  <2> QED
    BY <1>1, <1>2, <1>3, <1>7, <1>8, <1>14, <2>2, <2>5, <2>6, <2>7, <2>8, <2>9, <2>10
      DEF Scanned, p
<1> QED
  BY <1>11, <1>12, <1>13, <1>14

(* The list of one user is exact in every state with unique IDs: the loop of
   bio_sto_get_feature_info neither splits the entry of a feature over rows of
   a former UUID nor joins two features. *)
LEMMA ListOfUser ==
  ASSUME TypeOK, Keys, NEW u \in Users, NEW S \in SUBSET table, \A w \in S : w.uid = u
  PROVE  IsListOf(FeatureList(S), Present(S))
<1> DEFINE f == CHOOSE f : IsScan(f, S)
           F == { s \in SUBSET S : Scanned(f[s], u, s) }
<1>1. S \in SUBSET table /\ \A w \in S : w.uid = u
  OBVIOUS
<1>2. IsScan(f, S)
  <2>1. \E g : IsScan(g, S)
    BY <1>1, ScanExists
  <2> QED
    BY <2>1, Zenon
<1> HIDE DEF f
<1>3. f[{}] = StartOfLoop
  BY <1>2 DEF IsScan
<1>4. ASSUME NEW s \in SUBSET S, s # {}
      PROVE  f[s] = Extend(f[s \ {LastOf(s)}], LastOf(s))
  BY <1>2, <1>4, Zenon DEF IsScan
<1>5. {} \in F
  <2>1. ListsUser(<<>>, u, {})
    BY DEF ListsUser
  <2>2. Shown(u, {}) = {}
    BY DEF Shown
  <2>3. /\ StartOfLoop.oldUid = -1 /\ StartOfLoop.oldUuid = -1 /\ StartOfLoop.list = <<>>
        /\ StartOfLoop \in LoopVars
    <3>1. -1 \in Int /\ <<>> \in Seq(Entries)
      OBVIOUS
    <3> QED
      BY <3>1 DEF StartOfLoop, LoopVars
  <2>4. Scanned(StartOfLoop, u, {})
    BY <2>1, <2>2, <2>3 DEF Scanned
  <2> QED
    BY <1>3, <2>4
<1>6. ASSUME NEW s \in SUBSET S, s # {}, \A x \in s : s \ {x} \in F
      PROVE  s \in F
  <2>1. LastOf(s) \in s /\ \A v \in s \ {LastOf(s)} : Before(v, LastOf(s))
    BY <1>1, <1>6, LastExists
  <2>2. Scanned(f[s \ {LastOf(s)}], u, s \ {LastOf(s)})
    BY <1>6, <2>1
  <2>3. Scanned(Extend(f[s \ {LastOf(s)}], LastOf(s)), u, s)
    BY <1>1, <1>6, <2>1, <2>2, ScanRound
  <2> QED
    BY <1>4, <1>6, <2>3
<1>7. S \in F
  <2>1. IsFiniteSet(S)
    BY <1>1, TableFinite, FS_Subset
  <2> HIDE DEF F
  <2> QED
    BY <1>5, <1>6, <2>1, SubsetInduction
<1> DEFINE list == FeatureList(S)
           V == Present(S)
<1>8. list = f[S].list
  BY ListByScan DEF f
<1>9. V = Shown(u, S)
  BY <1>1 DEF Present, Shown
<1>10. ListsUser(list, u, V) /\ \A w \in V : w.uid = u
  BY <1>1, <1>7, <1>8, <1>9 DEF Scanned, Shown
<1> HIDE DEF list, V
<1>11. list \in Seq(Entries) /\ DOMAIN list = 1 .. Len(list)
  BY <1>10 DEF ListsUser
<1>12. { <<list[k].uid, list[k].idx>> : k \in DOMAIN list } = { <<w.uid, w.idx>> : w \in V }
  <2>1. ASSUME NEW k \in DOMAIN list
        PROVE  \E w \in V : <<list[k].uid, list[k].idx>> = <<w.uid, w.idx>>
    BY <1>10, <1>11 DEF ListsUser
  <2>2. ASSUME NEW w \in V
        PROVE  \E k \in DOMAIN list : <<list[k].uid, list[k].idx>> = <<w.uid, w.idx>>
    BY <1>10, <1>11 DEF ListsUser
  <2> QED
    BY <2>1, <2>2
<1>13. \A j, k \in DOMAIN list : j < k =>
         list[j].uid = list[k].uid /\ list[j].idx < list[k].idx
  BY <1>10, <1>11 DEF ListsUser
<1>14. ASSUME NEW k \in DOMAIN list
       PROVE  { list[k].ids[j] : j \in DOMAIN list[k].ids }
                = { w.id : w \in { v \in V : v.uid = list[k].uid /\ v.idx = list[k].idx } }
  <2>1. { list[k].ids[j] : j \in DOMAIN list[k].ids }
          = { w.id : w \in { v \in V : v.idx = list[k].idx } }
    BY <1>10, <1>11 DEF ListsUser
  <2>2. { v \in V : v.uid = list[k].uid /\ v.idx = list[k].idx } = { v \in V : v.idx = list[k].idx }
    BY <1>10, <1>11 DEF ListsUser
  <2> QED
    BY <2>1, <2>2, Zenon
<1>15. IsListOf(list, V)
  BY <1>11, <1>12, <1>13, <1>14 DEF IsListOf, Entries
<1> QED
  BY <1>15 DEF list, V

(* Whatever part of the rows a call reads, they are rows of one user. *)
LEMMA ReadsOfUser ==
  ASSUME NEW d \in Drivers, NEW u \in Users, NEW start, NEW end,
         NEW R \in Reads(Selected(d, u, start, end))
  PROVE  /\ R \subseteq Selected(d, u, start, end)
         /\ R \in SUBSET table /\ \A w \in R : w.uid = u
<1>1. R \subseteq Selected(d, u, start, end)
  BY DEF Reads, ReadUpTo
<1>2. Selected(d, u, start, end) \in SUBSET table
      /\ \A w \in Selected(d, u, start, end) : w.uid = u
  BY Numbers DEF Selected, AnyUser
<1> QED
  BY <1>1, <1>2

(* So every list of one user is exact for what was read. *)
LEMMA ListExact ==
  ASSUME TypeOK, Keys
  PROVE  ListIsExact
BY ReadsOfUser, ListOfUser DEF ListIsExact
=================================================================================
