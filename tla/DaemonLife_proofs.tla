-------------------------- MODULE DaemonLife_proofs --------------------------
(***************************************************************************)
(* What holds of DaemonLife for any number of processes, of crashes and of  *)
(* sessions of root, for any configuration the system may be found with and *)
(* any commands that edit it: what the pid file says, what biometric-config-tool *)
(* leaves alone, which drivers a daemon has loaded, and what it takes to    *)
(* have the unit given up.                                                  *)
(*                                                                         *)
(* remove-driver and bio_driver_list_init go through the sections one by    *)
(* one, which the model writes as folds.  The first part shows what those   *)
(* return, the second what is held of the file and of the copies the tool   *)
(* has loaded, the third what the pid files say, the fourth what each        *)
(* process holds, the last what the starts of the unit are charged to.      *)
(***************************************************************************)
EXTENDS DaemonLife, SetInduction_proofs, SequenceTheorems, TLAPS

(* Max is the greatest element, where there is one. *)
LEMMA MaxIn ==
  ASSUME NEW n \in Nat, NEW D \in SUBSET (1 .. n), D # {}
  PROVE  Max(D) \in D /\ \A y \in D : Max(D) >= y
<1>1. \E x \in D : \A y \in D : x >= y
  BY GreatestExists
<1> QED
  BY <1>1, Zenon DEF Max

(* The greatest of 1 .. k is k. *)
LEMMA MaxOfPrefix ==
  ASSUME NEW n \in Nat, NEW k \in 1 .. n
  PROVE  Max(1 .. k) = k /\ (1 .. k) \ {k} = 1 .. k - 1 /\ 1 .. k # {} /\ 1 .. k \in SUBSET (1 .. n)
<1>1. 1 .. k \in SUBSET (1 .. n) /\ k \in 1 .. k
  OBVIOUS
<1>2. Max(1 .. k) \in 1 .. k /\ \A y \in 1 .. k : Max(1 .. k) >= y
  BY <1>1, MaxIn
<1>3. Max(1 .. k) = k
  BY <1>1, <1>2
<1> QED
  BY <1>1, <1>3

-----------------------------------------------------------------------------
(* The loops over the sections.                                             *)

(* remove-driver, section by section. *)
KeepOne(N, kept, x) == IF x.name \in N THEN kept ELSE Append(kept, x)

(* What it leaves, as Outcome has it. *)
Kept(s, N) ==
  FoldLeft(LAMBDA kept, x : IF x.name \in N THEN kept ELSE Append(kept, x), <<>>, s)

(* The function FoldLeft chooses: what is kept of each set of positions. *)
KeepsAlong(f, s, N) ==
  f = [D \in SUBSET DOMAIN s |->
         IF D = {} THEN <<>> ELSE KeepOne(N, f[D \ {Max(D)}], s[Max(D)])]

(* Step by step over the sections, the list of those that are kept. *)
LEMMA KeptInSteps ==
  ASSUME NEW s \in Seq(Section), NEW N
  PROVE  \E g : /\ Kept(s, N) = g[Len(s)] /\ g[0] = <<>>
                /\ \A k \in 1 .. Len(s) : g[k] = KeepOne(N, g[k - 1], s[k])
<1> DEFINE n == Len(s)
           f == CHOOSE h : KeepsAlong(h, s, N)
           step == [x \in Seq(Section) \X (1 .. n) |-> KeepOne(N, x[1], s[x[2]])]
           last == [D \in SUBSET (1 .. n) |-> Max(D)]
<1>1. n \in Nat /\ DOMAIN s = 1 .. n /\ \A i \in 1 .. n : s[i] \in Section
  BY ElementOfSeq
<1>2. Kept(s, N) = f[DOMAIN s]
  <2> HIDE DEF Max
  <2> QED
    BY Zenon DEF Kept, FoldLeft, MapThenFoldSet, KeepsAlong, KeepOne
<1>3. \E h : KeepsAlong(h, s, N)
  <2>1. IsFiniteSet(1 .. n) /\ <<>> \in Seq(Section)
    BY <1>1, FS_Interval
  <2>2. step \in [Seq(Section) \X (1 .. n) -> Seq(Section)]
    <3>1. \A l \in Seq(Section), i \in 1 .. n : KeepOne(N, l, s[i]) \in Seq(Section)
      BY <1>1 DEF KeepOne
    <3> QED
      BY <3>1
  <2>3. \A D \in SUBSET (1 .. n) : D # {} => last[D] \in D
    BY <1>1, MaxIn
  <2>4. PICK h \in [SUBSET (1 .. n) -> Seq(Section)] : IsRecursion(h, 1 .. n, <<>>, step, last)
    <3> HIDE DEF step, last, n
    <3> QED
      BY <2>1, <2>2, <2>3, RecursionExists
  <2>5. ASSUME NEW D \in SUBSET (1 .. n)
        PROVE  h[D] = IF D = {} THEN <<>> ELSE KeepOne(N, h[D \ {Max(D)}], s[Max(D)])
    <3>1. CASE D = {}
      BY <2>4, <3>1 DEF IsRecursion
    <3>2. CASE D # {}
      <4>1. Max(D) \in 1 .. n /\ h[D \ {Max(D)}] \in Seq(Section)
        BY <1>1, <2>4, <3>2, MaxIn
      <4>2. h[D] = step[<<h[D \ {Max(D)}], Max(D)>>]
        BY <2>4, <3>2 DEF IsRecursion
      <4> QED
        BY <3>2, <4>1, <4>2
    <3> QED
      BY <3>1, <3>2
  <2>6. h = [D \in SUBSET (1 .. n) |-> h[D]]
    BY <2>4
  <2> HIDE DEF n
  <2> QED
    BY <1>1, <2>5, <2>6, Zenon DEF KeepsAlong
<1>4. KeepsAlong(f, s, N)
  BY <1>3, Zenon
<1> HIDE DEF f, n
<1> DEFINE g == [k \in 0 .. n |-> f[1 .. k]]
<1>5. g[0] = <<>>
  <2>1. 1 .. 0 = {} /\ 0 \in 0 .. n
    BY <1>1
  <2>2. f[{}] = <<>>
    BY <1>4 DEF KeepsAlong
  <2> QED
    BY <2>1, <2>2
<1>6. ASSUME NEW k \in 1 .. n PROVE g[k] = KeepOne(N, g[k - 1], s[k])
  <2>1. Max(1 .. k) = k /\ (1 .. k) \ {k} = 1 .. k - 1 /\ 1 .. k # {}
        /\ 1 .. k \in SUBSET (1 .. n)
    BY <1>1, MaxOfPrefix
  <2>2. f[1 .. k] = KeepOne(N, f[(1 .. k) \ {Max(1 .. k)}], s[Max(1 .. k)])
    BY <1>1, <1>4, <2>1, Zenon DEF KeepsAlong
  <2>3. k \in 0 .. n /\ k - 1 \in 0 .. n
    BY <1>1
  <2> QED
    BY <2>1, <2>2, <2>3
<1>7. n \in 0 .. n
  BY <1>1
<1> QED
  BY <1>1, <1>2, <1>5, <1>6, <1>7 DEF n

(* What remove-driver leaves is a list of sections: those of other names. *)
LEMMA KeptRight ==
  ASSUME NEW s, IsSections(s), NEW N
  PROVE  IsSections(Kept(s, N)) /\ Range(Kept(s, N)) = { x \in Range(s) : x.name \notin N }
<1> DEFINE n == Len(s)
           Before(k) == { s[i] : i \in { j \in 1 .. k : s[j].name \notin N } }
           Good(l, k) == IsSections(l) /\ Range(l) = Before(k)
<1>1. s \in Seq(Section) /\ n \in Nat /\ DOMAIN s = 1 .. n /\ \A i \in 1 .. n : s[i] \in Section
  BY ElementOfSeq DEF IsSections
<1>2. PICK g : /\ Kept(s, N) = g[n] /\ g[0] = <<>>
               /\ \A k \in 1 .. n : g[k] = KeepOne(N, g[k - 1], s[k])
  BY <1>1, KeptInSteps
<1> DEFINE I == { k \in Nat : k <= n => Good(g[k], k) }
<1>3. 0 \in I
  <2>1. 1 .. 0 = {}
    OBVIOUS
  <2>2. Before(0) = {}
    BY <2>1
  <2>3. Range(<<>>) = {} /\ IsSections(<<>>)
    BY DEF Range, IsSections
  <2> QED
    BY <1>2, <2>2, <2>3
<1>4. ASSUME NEW k \in Nat, k \in I PROVE k + 1 \in I
  <2> SUFFICES ASSUME k + 1 <= n PROVE Good(g[k + 1], k + 1)
    OBVIOUS
  <2> DEFINE x == s[k + 1]
             l == g[k]
  <2>1. Good(l, k)
    BY <1>1, <1>4
  <2>2. g[k + 1] = KeepOne(N, l, x) /\ k + 1 \in 1 .. n /\ x \in Section
    BY <1>1, <1>2
  <2>3. 1 .. k + 1 = (1 .. k) \cup {k + 1}
    OBVIOUS
  <2>4. Before(k + 1) = IF x.name \in N THEN Before(k) ELSE Before(k) \cup {x}
    BY <2>3
  <2>5. CASE x.name \in N
    BY <2>1, <2>2, <2>4, <2>5 DEF KeepOne
  <2>6. CASE x.name \notin N
    <3> DEFINE new == Append(l, x)
    <3>1. l \in Seq(Section) /\ Len(l) \in Nat /\ DOMAIN l = 1 .. Len(l)
      BY <2>1 DEF IsSections
    <3>2. /\ new \in Seq(Section) /\ DOMAIN new = (1 .. Len(l)) \cup {Len(l) + 1}
          /\ \A i \in 1 .. Len(l) : new[i] = l[i]
          /\ new[Len(l) + 1] = x
      <4> HIDE DEF l, x
      <4> QED
        BY <2>2, <3>1
    <3>3. \A i \in 1 .. Len(l) : l[i].name # x.name
      <4> SUFFICES ASSUME NEW i \in 1 .. Len(l), l[i].name = x.name PROVE FALSE
        OBVIOUS
      <4>1. l[i] \in Before(k)
        BY <2>1, <3>1 DEF Range
      <4>2. PICK j \in 1 .. k : l[i] = s[j]
        BY <4>1
      <4>3. j \in DOMAIN s /\ k + 1 \in DOMAIN s /\ s[j].name = s[k + 1].name
        BY <1>1, <2>2, <4>2
      <4>4. j = k + 1
        BY <4>3 DEF IsSections
      <4> QED
        BY <4>4
    <3> HIDE DEF new, l, x
    <3>4. Range(new) = Range(l) \cup {x}
      BY <3>1, <3>2 DEF Range
    <3>5. \A i, j \in DOMAIN l : l[i].name = l[j].name => i = j
      BY <2>1 DEF IsSections
    <3>6. \A i, j \in DOMAIN new : new[i].name = new[j].name => i = j
      BY <3>1, <3>2, <3>3, <3>5
    <3>7. IsSections(new)
      BY <3>2, <3>6 DEF IsSections
    <3>8. g[k + 1] = new
      BY <2>2, <2>6 DEF KeepOne, new
    <3> QED
      BY <2>1, <2>4, <2>6, <3>4, <3>7, <3>8
  <2> QED
    BY <2>5, <2>6
<1>5. Nat \subseteq I
  <2> HIDE DEF I
  <2> QED
    BY <1>3, <1>4, NatSetInduction
<1>6. Good(g[n], n)
  <2>1. n \in I /\ n <= n
    <3> HIDE DEF I
    <3> QED
      BY <1>1, <1>5
  <2> HIDE DEF Good
  <2> QED
    BY <2>1
<1>7. Before(n) = { x \in Range(s) : x.name \notin N }
  BY <1>1 DEF Range
<1> QED
  BY <1>2, <1>6, <1>7

(* Min is the least element, where there is one. *)
LEMMA MinIn ==
  ASSUME NEW D \in SUBSET Nat, D # {}
  PROVE  Min(D) \in D
<1>1. PICK m \in D : \A k \in D : ~ <<k, m>> \in OpToRel(<, Nat)
  BY NatLessThanWellFounded, WFMin
<1>2. \A k \in D : ~ k < m
  BY <1>1 DEF OpToRel
<1>3. \A k \in D : m <= k
  BY <1>2
<1> QED
  BY <1>3, Zenon DEF Min

(* What an ID that is given next to others may be: one to give that none of
   them is, or when there is none left, what lies behind. *)
IdRight(id, given) ==
  /\ id \in (IdStart .. IdMax + 1) \cup {-1}
  /\ id \notin IdStart .. IdMax => IdStart .. IdMax \subseteq given
  /\ id \in given => id = -1

(* bio_get_empty_driver_id gives such an ID, whatever lies behind its array. *)
LEMMA EmptyIdFound ==
  ASSUME NEW list, NEW past \in BOOLEAN
  PROVE  IdRight(EmptyDriverId(list, past), IdsOf(list))
<1> DEFINE Free == (IdStart .. IdMax) \ IdsOf(list)
<1>1. IdStart \in Nat /\ IdMax \in Nat /\ IdStart <= IdMax
  BY ConfigAssumption
<1>2. CASE Free # {}
  <2>1. EmptyDriverId(list, past) = Min(Free)
    <3> HIDE DEF Min
    <3> QED
      BY <1>2 DEF EmptyDriverId
  <2>2. Min(Free) \in Free
    <3>1. Free \in SUBSET Nat
      BY <1>1
    <3> HIDE DEF Free
    <3> QED
      BY <1>2, <3>1, MinIn
  <2> DEFINE id == Min(Free)
  <2>3. id \in IdStart .. IdMax /\ id \notin IdsOf(list)
    BY <2>2
  <2> HIDE DEF id
  <2>4. IdRight(id, IdsOf(list))
    BY <1>1, <2>3 DEF IdRight
  <2> QED
    BY <2>1, <2>4 DEF id
<1>3. CASE Free = {}
  <2>1. CASE past \/ IdMax + 1 \in IdsOf(list)
    <3>1. EmptyDriverId(list, past) = -1
      <4> HIDE DEF Min
      <4> QED
        BY <1>3, <2>1 DEF EmptyDriverId
    <3> QED
      BY <1>3, <3>1 DEF IdRight
  <2>2. CASE ~ past /\ IdMax + 1 \notin IdsOf(list)
    <3>1. EmptyDriverId(list, past) = IdMax + 1
      <4> HIDE DEF Min
      <4> QED
        BY <1>3, <2>2 DEF EmptyDriverId
    <3>2. IdMax + 1 \in IdStart .. IdMax + 1
      BY <1>1
    <3> QED
      BY <1>3, <2>2, <3>1, <3>2 DEF IdRight
  <2> QED
    BY <2>1, <2>2
<1> QED
  BY <1>2, <1>3

(* A plugin that loads is put at the end of the list. *)
LEMMA LoadOneTyped ==
  ASSUME NEW s, NEW list \in Seq(Driver), NEW section, NEW past
  PROVE  LoadOne(s, list, section, past) \in Seq(Driver)
<1> DEFINE new == [plugin |-> section.driver, id |-> EmptyDriverId(list, section.name \in past),
                   enabled |-> IsEnable(s, section.driver)]
<1>1. ASSUME Loads(section.driver) PROVE new \in Driver
  <2>1. IsEnable(s, section.driver) \in BOOLEAN
    BY Zenon DEF IsEnable
  <2>2. EmptyDriverId(list, section.name \in past) \in (IdStart .. IdMax + 1) \cup {-1}
    <3> DEFINE b == section.name \in past
    <3>1. b \in BOOLEAN
      OBVIOUS
    <3> HIDE DEF b
    <3>2. EmptyDriverId(list, b) \in (IdStart .. IdMax + 1) \cup {-1}
      BY <3>1, EmptyIdFound DEF IdRight
    <3> QED
      BY <3>2 DEF b
  <2> QED
    BY <1>1, <2>1, <2>2 DEF Driver, Loads
<1> HIDE DEF new
<1>2. CASE Loads(section.driver)
  BY <1>1, <1>2 DEF LoadOne, new
<1>3. CASE ~ Loads(section.driver)
  BY <1>3 DEF LoadOne
<1> QED
  BY <1>2, <1>3

(* The function FoldLeft chooses: the drivers of each set of positions. *)
LoadsAlong(f, s, past) ==
  f = [D \in SUBSET DOMAIN s |->
         IF D = {} THEN <<>> ELSE LoadOne(s, f[D \ {Max(D)}], s[Max(D)], past)]

(* Step by step over the sections, the list of the drivers. *)
LEMMA LoadedInSteps ==
  ASSUME NEW s \in Seq(Section), \A x \in Range(s) : HasDriver(x), NEW past
  PROVE  \E g : /\ DriverListInit(s, past) = g[Len(s)] /\ g[0] = <<>>
                /\ \A k \in 1 .. Len(s) : g[k] = LoadOne(s, g[k - 1], s[k], past)
<1> DEFINE n == Len(s)
           f == CHOOSE h : LoadsAlong(h, s, past)
           step == [x \in Seq(Driver) \X (1 .. n) |-> LoadOne(s, x[1], s[x[2]], past)]
           last == [D \in SUBSET (1 .. n) |-> Max(D)]
<1>1. n \in Nat /\ DOMAIN s = 1 .. n
  OBVIOUS
<1>2. DriverListInit(s, past) = f[DOMAIN s]
  <2> HIDE DEF Max, Range, LoadOne
  <2> QED
    BY Zenon DEF DriverListInit, FoldLeft, MapThenFoldSet, LoadsAlong
<1>3. \E h : LoadsAlong(h, s, past)
  <2>1. IsFiniteSet(1 .. n) /\ <<>> \in Seq(Driver)
    BY <1>1, FS_Interval
  <2>2. step \in [Seq(Driver) \X (1 .. n) -> Seq(Driver)]
    BY LoadOneTyped
  <2>3. \A D \in SUBSET (1 .. n) : D # {} => last[D] \in D
    BY <1>1, MaxIn
  <2>4. PICK h \in [SUBSET (1 .. n) -> Seq(Driver)] : IsRecursion(h, 1 .. n, <<>>, step, last)
    <3> HIDE DEF step, last, n
    <3> QED
      BY <2>1, <2>2, <2>3, RecursionExists
  <2>5. ASSUME NEW D \in SUBSET (1 .. n)
        PROVE  h[D] = IF D = {} THEN <<>> ELSE LoadOne(s, h[D \ {Max(D)}], s[Max(D)], past)
    <3>1. CASE D = {}
      BY <2>4, <3>1 DEF IsRecursion
    <3>2. CASE D # {}
      <4>1. Max(D) \in 1 .. n /\ h[D \ {Max(D)}] \in Seq(Driver)
        BY <1>1, <2>4, <3>2, MaxIn
      <4>2. h[D] = step[<<h[D \ {Max(D)}], Max(D)>>]
        BY <2>4, <3>2 DEF IsRecursion
      <4> QED
        BY <3>2, <4>1, <4>2
    <3> QED
      BY <3>1, <3>2
  <2>6. h = [D \in SUBSET (1 .. n) |-> h[D]]
    BY <2>4
  <2> HIDE DEF n
  <2> QED
    BY <1>1, <2>5, <2>6, Zenon DEF LoadsAlong
<1>4. LoadsAlong(f, s, past)
  BY <1>3, Zenon
<1> HIDE DEF f, n
<1> DEFINE g == [k \in 0 .. n |-> f[1 .. k]]
<1>5. g[0] = <<>>
  <2>1. 1 .. 0 = {} /\ 0 \in 0 .. n
    BY <1>1
  <2>2. f[{}] = <<>>
    BY <1>4 DEF LoadsAlong
  <2> QED
    BY <2>1, <2>2
<1>6. ASSUME NEW k \in 1 .. n PROVE g[k] = LoadOne(s, g[k - 1], s[k], past)
  <2>1. Max(1 .. k) = k /\ (1 .. k) \ {k} = 1 .. k - 1 /\ 1 .. k # {}
        /\ 1 .. k \in SUBSET (1 .. n)
    BY <1>1, MaxOfPrefix
  <2>2. f[1 .. k] = LoadOne(s, f[(1 .. k) \ {Max(1 .. k)}], s[Max(1 .. k)], past)
    BY <1>1, <1>4, <2>1, Zenon DEF LoadsAlong
  <2>3. k \in 0 .. n /\ k - 1 \in 0 .. n
    BY <1>1
  <2> QED
    BY <2>1, <2>2, <2>3
<1>7. n \in 0 .. n
  BY <1>1
<1> QED
  BY <1>1, <1>2, <1>5, <1>6, <1>7 DEF n

(* The IDs of a list, each next to those before it. *)
IdsBefore(list, i) == { list[j].id : j \in 1 .. i - 1 }
IdsRight(list) == \A i \in DOMAIN list : IdRight(list[i].id, IdsBefore(list, i))

(* bio_driver_list_init loads every driver that loads, whatever comes before it
   in the file, and gives each an ID the others do not have while there is one. *)
LEMMA DriverListRight ==
  ASSUME NEW s \in Seq(Section), NEW past
  PROVE  /\ DriverListInit(s, past) \in Seq(Driver)
         /\ IdsRight(DriverListInit(s, past))
         /\ (\A x \in Range(s) : HasDriver(x)) =>
              \A x \in Range(s) : Loads(x.driver) =>
                \E i \in DOMAIN DriverListInit(s, past) : DriverListInit(s, past)[i].plugin = x.driver
<1>1. CASE \E x \in Range(s) : ~ HasDriver(x)
  <2>1. DriverListInit(s, past) = <<>>
    <3> HIDE DEF HasDriver, Range
    <3> QED
      BY <1>1, Zenon DEF DriverListInit
  <2>2. <<>> \in Seq(Driver) /\ DOMAIN <<>> = {}
    OBVIOUS
  <2> QED
    BY <1>1, <2>1, <2>2 DEF IdsRight
<1>2. CASE \A x \in Range(s) : HasDriver(x)
  <2> DEFINE n == Len(s)
             Listed(list, p) == \E i \in DOMAIN list : list[i].plugin = p
             Good(list, k) == /\ list \in Seq(Driver) /\ IdsRight(list)
                              /\ \A j \in 1 .. k : Loads(s[j].driver) => Listed(list, s[j].driver)
  <2>1. n \in Nat /\ DOMAIN s = 1 .. n
    OBVIOUS
  <2>2. PICK g : /\ DriverListInit(s, past) = g[n] /\ g[0] = <<>>
                 /\ \A k \in 1 .. n : g[k] = LoadOne(s, g[k - 1], s[k], past)
    BY <1>2, LoadedInSteps
  <2> DEFINE I == { k \in Nat : k <= n => Good(g[k], k) }
  <2>3. 0 \in I
    <3>1. 1 .. 0 = {} /\ <<>> \in Seq(Driver) /\ DOMAIN <<>> = {}
      OBVIOUS
    <3> QED
      BY <2>2, <3>1 DEF IdsRight
  <2>4. ASSUME NEW k \in Nat, k \in I PROVE k + 1 \in I
    <3> SUFFICES ASSUME k + 1 <= n PROVE Good(g[k + 1], k + 1)
      OBVIOUS
    <3> DEFINE l == g[k]
               x == s[k + 1]
    <3>1. Good(l, k)
      BY <2>1, <2>4
    <3>2. g[k + 1] = LoadOne(s, l, x, past)
      BY <2>1, <2>2
    <3>3. 1 .. k + 1 = (1 .. k) \cup {k + 1}
      OBVIOUS
    <3>4. CASE ~ Loads(x.driver)
      <4>1. g[k + 1] = l
        BY <3>2, <3>4 DEF LoadOne
      <4> HIDE DEF Listed
      <4> QED
        BY <3>1, <3>3, <3>4, <4>1
    <3>5. CASE Loads(x.driver)
      <4> DEFINE d == [plugin |-> x.driver, id |-> EmptyDriverId(l, x.name \in past),
                       enabled |-> IsEnable(s, x.driver)]
                 new == Append(l, d)
      <4>1. g[k + 1] = new
        BY <3>2, <3>5, Zenon DEF LoadOne
      <4>2. g[k + 1] \in Seq(Driver)
        BY <3>1, <3>2, LoadOneTyped
      <4>3. l \in Seq(Driver) /\ Len(l) \in Nat /\ DOMAIN l = 1 .. Len(l)
        BY <3>1
      <4>4. /\ DOMAIN new = (1 .. Len(l)) \cup {Len(l) + 1}
            /\ \A i \in 1 .. Len(l) : new[i] = l[i]
            /\ new[Len(l) + 1] = d
        <5> HIDE DEF l, d
        <5> QED
          BY <4>3
      <4>5. IdRight(d.id, IdsOf(l))
        <5> DEFINE b == x.name \in past
        <5>1. b \in BOOLEAN
          OBVIOUS
        <5>2. d.id = EmptyDriverId(l, b)
          OBVIOUS
        <5> HIDE DEF b, d
        <5> QED
          BY <5>1, <5>2, EmptyIdFound
      <4>6. d.plugin = x.driver
        OBVIOUS
      <4> HIDE DEF new, l, d
      <4>7. IdsRight(new)
        <5>1. \A i \in 1 .. Len(l) : IdsBefore(new, i) = IdsBefore(l, i)
          BY <4>3, <4>4 DEF IdsBefore
        <5>2. IdsBefore(new, Len(l) + 1) = IdsOf(l)
          BY <4>3, <4>4 DEF IdsBefore, IdsOf
        <5>3. \A i \in 1 .. Len(l) : IdRight(l[i].id, IdsBefore(l, i))
          BY <3>1, <4>3 DEF IdsRight
        <5> QED
          BY <4>4, <4>5, <5>1, <5>2, <5>3 DEF IdsRight
      <4>8. \A j \in 1 .. k : Loads(s[j].driver) => Listed(new, s[j].driver)
        BY <3>1, <4>3, <4>4
      <4>9. Listed(new, x.driver)
        BY <4>4, <4>6
      <4> HIDE DEF Listed
      <4> QED
        BY <3>3, <4>1, <4>2, <4>7, <4>8, <4>9
    <3> QED
      BY <3>4, <3>5
  <2>5. Nat \subseteq I
    <3> HIDE DEF I
    <3> QED
      BY <2>3, <2>4, NatSetInduction
  <2>6. Good(g[n], n)
    <3>1. n \in I /\ n <= n
      <4> HIDE DEF I
      <4> QED
        BY <2>1, <2>5
    <3> HIDE DEF Good
    <3> QED
      BY <3>1
  <2>7. \A x \in Range(s) : \E j \in 1 .. n : x = s[j]
    BY <2>1 DEF Range
  <2> QED
    BY <1>2, <2>2, <2>6, <2>7
<1> QED
  BY <1>1, <1>2, Zenon

-----------------------------------------------------------------------------
(* The configuration file.                                                  *)

(* A section a command has named stays a section of its name; it keeps or gets
   its driver unless the command takes it away. *)
LEMMA EditedRight ==
  ASSUME NEW x \in Section, NEW c, IsCommand(c), c.does # "remove"
  PROVE  /\ Edited(x, c) \in Section /\ Edited(x, c).name = x.name
         /\ ~ Unkeys(c) /\ (HasDriver(x) \/ c.does = "add") => HasDriver(Edited(x, c))
<1>1. {None, "true", "false"} \subseteq Values
  BY DEF Values
<1>2. CASE c.does = "add"
  <2> DEFINE e == IF c.disable THEN "false" ELSE "true"
  <2>1. Edited(x, c) = [x EXCEPT !.enable = e, !.driver = c.driver]
    BY <1>2, Zenon DEF Edited
  <2>2. c.driver \in Values \ {None} /\ e \in Values
    BY <1>1, <1>2 DEF IsCommand
  <2> HIDE DEF e
  <2> QED
    BY <1>2, <2>1, <2>2 DEF Section, HasDriver, Unkeys
<1>3. CASE c.does = "switch"
  <2>1. Edited(x, c) = [x EXCEPT !.enable = c.to] /\ c.to \in Values
    BY <1>1, <1>3 DEF Edited, IsCommand
  <2> QED
    BY <1>3, <2>1 DEF Section, HasDriver
<1>4. ASSUME NEW v \in Values, NEW field \in Fields
      PROVE  /\ [x EXCEPT ![field] = v] \in Section /\ [x EXCEPT ![field] = v].name = x.name
             /\ [x EXCEPT ![field] = v].driver = IF field = "driver" THEN v ELSE x.driver
  <2>1. CASE field = "enable"
    BY <2>1 DEF Section
  <2>2. CASE field = "driver"
    BY <2>2 DEF Section
  <2>3. CASE field = "other"
    BY <2>3 DEF Section
  <2> QED
    BY <2>1, <2>2, <2>3 DEF Fields
<1>5. CASE c.does = "set"
  <2>1. Edited(x, c) = [x EXCEPT ![c.field] = c.value]
    BY <1>5 DEF Edited
  <2>2. c.field \in Fields /\ c.value \in Values \ {None}
    BY <1>5 DEF IsCommand
  <2>3. /\ Edited(x, c) \in Section /\ Edited(x, c).name = x.name
        /\ Edited(x, c).driver = IF c.field = "driver" THEN c.value ELSE x.driver
    <3> DEFINE y == [x EXCEPT ![c.field] = c.value]
    <3>1. y \in Section /\ y.name = x.name
          /\ y.driver = IF c.field = "driver" THEN c.value ELSE x.driver
      BY <1>4, <2>2
    <3>2. Edited(x, c) = y
      BY <2>1
    <3> HIDE DEF y
    <3> QED
      BY <3>1, <3>2
  <2> QED
    BY <1>5, <2>2, <2>3 DEF HasDriver, Unkeys
<1>6. CASE c.does = "unset"
  <2>1. Edited(x, c) = [x EXCEPT ![c.field] = None]
    BY <1>6 DEF Edited
  <2>2. c.field \in Fields /\ None \in Values
    BY <1>1, <1>6 DEF IsCommand
  <2>3. /\ Edited(x, c) \in Section /\ Edited(x, c).name = x.name
        /\ Edited(x, c).driver = IF c.field = "driver" THEN None ELSE x.driver
    <3> DEFINE y == [x EXCEPT ![c.field] = None]
    <3>1. y \in Section /\ y.name = x.name
          /\ y.driver = IF c.field = "driver" THEN None ELSE x.driver
      BY <1>4, <2>2
    <3>2. Edited(x, c) = y
      BY <2>1
    <3> HIDE DEF y
    <3> QED
      BY <3>1, <3>2
  <2> QED
    BY <1>6, <2>3 DEF HasDriver, Unkeys
<1> QED
  BY <1>2, <1>3, <1>5, <1>6 DEF IsCommand

(* What a command makes of its copy is a list of sections; those it has not
   named are what they were; it takes no driver away unless it is told to. *)
LEMMA OutcomeRight ==
  ASSUME NEW s, IsSections(s), NEW c, IsCommand(c)
  PROVE  /\ IsSections(Outcome(s, c))
         /\ \A n : n \notin Targets(c) => SectionOf(Outcome(s, c), n) = SectionOf(s, n)
         /\ ~ Unkeys(c) /\ (\A x \in Range(s) : HasDriver(x)) =>
              \A x \in Range(Outcome(s, c)) : HasDriver(x)
<1>1. CASE c.does = "remove"
  <2>1. Outcome(s, c) = Kept(s, c.names)
    BY <1>1, Zenon DEF Outcome, Kept
  <2>2. IsSections(Kept(s, c.names))
        /\ Range(Kept(s, c.names)) = { x \in Range(s) : x.name \notin c.names }
    BY KeptRight
  <2>3. Targets(c) = c.names
    BY <1>1 DEF Targets
  <2> QED
    BY <2>1, <2>2, <2>3 DEF SectionOf
<1>2. CASE c.does # "remove"
  <2> DEFINE new == c.does = "add" /\ c.name \notin NamesOf(s)
             all == IF new THEN Append(s, Blank(c.name)) ELSE s
             n == Len(all)
             out == [i \in DOMAIN all |->
                       IF all[i].name \in Targets(c) THEN Edited(all[i], c) ELSE all[i]]
  <2>1. Outcome(s, c) = out
    BY <1>2, Zenon DEF Outcome
  <2>2. s \in Seq(Section) /\ Len(s) \in Nat /\ DOMAIN s = 1 .. Len(s)
        /\ \A i \in 1 .. Len(s) : s[i] \in Section
    BY ElementOfSeq DEF IsSections
  <2>3. c.does = "add" => Blank(c.name) \in Section /\ Blank(c.name).name = c.name
                          /\ c.name \in Targets(c)
    BY DEF IsCommand, Blank, Section, Values, Targets
  <2>4. /\ all \in Seq(Section) /\ n \in Nat /\ DOMAIN all = 1 .. n
        /\ \A i \in 1 .. n : all[i] \in Section
        /\ \A i, j \in 1 .. n : all[i].name = all[j].name => i = j
        /\ \A i \in 1 .. n : all[i].name \notin Targets(c) \/ c.does # "add" => all[i] \in Range(s)
        /\ \A x \in Range(s) : \E i \in 1 .. n : all[i] = x
    <3>1. CASE new
      <4> DEFINE l == Append(s, Blank(c.name))
      <4>1. all = l
        BY <3>1
      <4>2. /\ l \in Seq(Section) /\ Len(l) = Len(s) + 1
            /\ \A i \in 1 .. Len(s) : l[i] = s[i]
            /\ l[Len(s) + 1] = Blank(c.name)
        BY <2>2, <2>3, <3>1
      <4>3. \A i \in 1 .. Len(s) : s[i].name # c.name
        BY <2>2, <3>1 DEF NamesOf, Range
      <4> HIDE DEF l, new
      <4>4. 1 .. Len(l) = (1 .. Len(s)) \cup {Len(s) + 1} /\ Len(l) \in Nat
        BY <2>2, <4>2
      <4>5. c.does = "add"
        BY <3>1 DEF new
      <4>6. \A i \in 1 .. Len(l) : l[i] \in Section
        BY <2>2, <2>3, <4>2, <4>4, <4>5
      <4>7. \A i, j \in 1 .. Len(l) : l[i].name = l[j].name => i = j
        BY <2>2, <2>3, <4>2, <4>3, <4>4, <4>5 DEF IsSections
      <4>8. \A i \in 1 .. Len(l) :
              l[i].name \notin Targets(c) \/ c.does # "add" => l[i] \in Range(s)
        BY <2>2, <2>3, <4>2, <4>4, <4>5 DEF Range
      <4>9. \A x \in Range(s) : \E i \in 1 .. Len(l) : l[i] = x
        BY <2>2, <4>2, <4>4 DEF Range
      <4>10. DOMAIN l = 1 .. Len(l)
        BY <4>2
      <4>11. n = Len(l)
        BY <4>1
      <4> HIDE DEF all, n
      <4> QED
        BY <4>1, <4>2, <4>4, <4>6, <4>7, <4>8, <4>9, <4>10, <4>11
    <3>2. CASE ~ new
      BY <2>2, <3>2 DEF IsSections, Range
    <3> QED
      BY <3>1, <3>2
  <2> HIDE DEF all, new
  <2>5. ASSUME NEW i \in 1 .. n
        PROVE  /\ out[i] \in Section /\ out[i].name = all[i].name
               /\ all[i].name \notin Targets(c) => out[i] = all[i] /\ all[i] \in Range(s)
               /\ ~ Unkeys(c) /\ (\A x \in Range(s) : HasDriver(x)) => HasDriver(out[i])
    <3>1. all[i] \in Section /\ out[i] = IF all[i].name \in Targets(c)
                                         THEN Edited(all[i], c) ELSE all[i]
      BY <2>4
    <3> HIDE DEF out, n
    <3> QED
      BY <1>2, <2>4, <3>1, EditedRight
  <2>6. out \in [1 .. n -> Section] /\ DOMAIN out = 1 .. n
    <3>1. DOMAIN out = 1 .. n /\ out = [i \in 1 .. n |-> out[i]]
      BY <2>4
    <3> HIDE DEF out, n
    <3> QED
      BY <2>5, <3>1
  <2> HIDE DEF out
  <2>7. IsSections(out)
    <3>1. out \in Seq(Section)
      BY <2>4, <2>6
    <3> QED
      BY <2>4, <2>5, <2>6, <3>1 DEF IsSections
  <2>8. ASSUME NEW m, m \notin Targets(c)
        PROVE  SectionOf(out, m) = SectionOf(s, m)
    <3>1. ASSUME NEW x \in SectionOf(out, m) PROVE x \in SectionOf(s, m)
      <4>1. PICK i \in 1 .. n : x = out[i] /\ x.name = m
        BY <2>6 DEF SectionOf, Range
      <4> QED
        BY <2>5, <2>8, <4>1 DEF SectionOf
    <3>2. ASSUME NEW x \in SectionOf(s, m) PROVE x \in SectionOf(out, m)
      <4>1. x \in Range(s) /\ x.name = m
        BY DEF SectionOf
      <4>2. PICK i \in 1 .. n : all[i] = x
        BY <2>4, <4>1
      <4>3. out[i] = x
        BY <2>5, <2>8, <4>1, <4>2
      <4> QED
        BY <2>6, <4>1, <4>3 DEF SectionOf, Range
    <3> QED
      BY <3>1, <3>2
  <2>9. ~ Unkeys(c) /\ (\A x \in Range(s) : HasDriver(x)) => \A x \in Range(out) : HasDriver(x)
    BY <2>5, <2>6 DEF Range
  <2> QED
    BY <2>1, <2>7, <2>8, <2>9
<1> QED
  BY <1>1, <1>2

(* What is read of a file is a list of sections, also of a broken one. *)
LEMMA ReadableRight ==
  ASSUME NEW f, IsSections(f.sections), NEW copy \in Readable(f)
  PROVE  IsSections(copy) /\ (f.state # "broken" => copy = f.sections)
<1> DEFINE s == f.sections
<1>1. CASE f.state # "broken"
  BY <1>1 DEF Readable
<1>2. CASE f.state = "broken"
  <2>1. s \in Seq(Section) /\ Len(s) \in Nat /\ DOMAIN s = 1 .. Len(s)
        /\ \A i \in 1 .. Len(s) : s[i] \in Section
    BY ElementOfSeq DEF IsSections
  <2> DEFINE Read(k) == { Append(SubSeq(s, 1, k - 1), x) : x \in CutShort(s[k]) }
  <2>2. Readable(f) = {<<>>} \cup UNION { Read(k) : k \in DOMAIN s }
    BY <1>2, Zenon DEF Readable
  <2>3. CASE copy = <<>>
    BY <1>2, <2>3 DEF IsSections
  <2>4. CASE copy # <<>>
    <3>1. PICK k \in DOMAIN s : copy \in Read(k)
      <4> HIDE DEF Read
      <4> QED
        BY <2>2, <2>4
    <3>2. PICK x \in CutShort(s[k]) : copy = Append(SubSeq(s, 1, k - 1), x)
      BY <3>1
    <3> DEFINE part == SubSeq(s, 1, k - 1)
    <3>3. k \in 1 .. Len(s) /\ s[k] \in Section
      BY <2>1
    <3>4. x \in Section /\ x.name = s[k].name
      <4>1. None \in Values
        BY DEF Values
      <4>2. PICK e \in {None, s[k].enable}, d \in {None, s[k].driver}, o \in {None, s[k].other} :
              x = [s[k] EXCEPT !.enable = e, !.driver = d, !.other = o]
        BY <3>2 DEF CutShort
      <4> HIDE DEF s
      <4> QED
        BY <3>3, <4>1, <4>2 DEF Section
    <3>5. part \in Seq(Section) /\ Len(part) = k - 1 /\ \A i \in 1 .. k - 1 : part[i] = s[i]
      <4> HIDE DEF s
      <4> QED
        BY <2>1, <3>3
    <3>6. /\ copy \in Seq(Section) /\ DOMAIN copy = 1 .. k
          /\ \A i \in 1 .. k - 1 : copy[i] = s[i]
          /\ copy[k] = x
      <4> HIDE DEF part, s
      <4>1. copy = Append(part, x)
        BY <3>2 DEF part
      <4> QED
        BY <3>3, <3>4, <3>5, <4>1
    <3>7. \A i \in 1 .. k : i \in DOMAIN s /\ copy[i].name = s[i].name
      BY <2>1, <3>3, <3>4, <3>6
    <3>8. IsSections(copy)
      BY <3>6, <3>7 DEF IsSections
    <3> QED
      BY <1>2, <3>8
  <2> QED
    BY <2>3, <2>4
<1> QED
  BY <1>1, <1>2

-----------------------------------------------------------------------------
(* The file and the copies the tool has loaded.                             *)

(* What they are. *)
ConfigTyped ==
  /\ file.state \in States /\ IsSections(file.sections)
  /\ misread \in BOOLEAN /\ unkeyed \in BOOLEAN
  /\ DOMAIN tool = Tools
  /\ \A t \in Tools : tool[t].at = "loaded" =>
       /\ tool[t].does \in Commands /\ Targets(tool[t].does) \subseteq named
       /\ IsSections(tool[t].copy)

(* No copy differs from the file in a section that no command has named. *)
CopiesAgree ==
  ~ misread => \A t \in Tools : tool[t].at = "loaded" =>
    \A n : n \notin named => SectionOf(tool[t].copy, n) = SectionOf(file.sections, n)

(* While no command has taken a driver away, every section has one, in the file
   and in every copy. *)
AllKeyed ==
  ~ misread /\ ~ unkeyed =>
    /\ \A x \in Range(file.sections) : HasDriver(x)
    /\ \A t \in Tools : tool[t].at = "loaded" =>
         ~ Unkeys(tool[t].does) /\ \A x \in Range(tool[t].copy) : HasDriver(x)

(* The invariant of the configuration. *)
ConfigInv == ConfigTyped /\ CopiesAgree /\ AllKeyed

(* What a step of the tool does to the file, and what the history forgets never. *)
Unnamed ==
  /\ misread' \in BOOLEAN /\ unkeyed' \in BOOLEAN
  /\ (misread => misread') /\ (unkeyed => unkeyed') /\ named \subseteq named'
  /\ ~ misread' => \A n : n \notin named' =>
       SectionOf(file.sections, n) = SectionOf(file'.sections, n)

(* A command is done, or has not begun. *)
LEMMA OneTool ==
  ASSUME ConfigTyped, NEW t \in Tools, NEW r, tool' = [tool EXCEPT ![t] = r]
  PROVE  DOMAIN tool' = Tools /\ \A u \in Tools : tool'[u] = IF u = t THEN r ELSE tool[u]
BY DEF ConfigTyped

(* ToolLoad: the copy is the file, unless the file is broken. *)
LEMMA LoadKeeps ==
  ASSUME ConfigInv, NEW t \in Tools, ToolLoad(t)
  PROVE  ConfigInv' /\ Unnamed
<1>1. PICK c \in Commands, copy \in Readable(file) :
        /\ tool' = [tool EXCEPT ![t] = [at |-> "loaded", does |-> c, copy |-> copy]]
        /\ named' = named \cup Targets(c)
        /\ unkeyed' = (unkeyed \/ Unkeys(c))
  BY Zenon DEF ToolLoad
<1>2. misread' = (misread \/ file.state = "broken") /\ file' = file
  BY Zenon DEF ToolLoad
<1>3. misread' \in BOOLEAN /\ unkeyed' \in BOOLEAN
  BY <1>1, <1>2, Zenon
<1>4. (misread => misread') /\ (unkeyed => unkeyed') /\ named \subseteq named'
  <2>1. (misread => misread') /\ (unkeyed => unkeyed')
    BY <1>1, <1>2, Zenon
  <2> QED
    BY <1>1, <2>1, Zenon
<1>5. (~ misread' => ~ misread /\ file.state # "broken") /\ (~ unkeyed' => ~ unkeyed /\ ~ Unkeys(c))
  BY <1>1, <1>2, Zenon
<1>6. IsSections(copy) /\ (file.state # "broken" => copy = file.sections)
  BY ReadableRight DEF ConfigInv, ConfigTyped
<1> DEFINE r == [at |-> "loaded", does |-> c, copy |-> copy]
<1>7. DOMAIN tool' = Tools /\ \A u \in Tools : tool'[u] = IF u = t THEN r ELSE tool[u]
  <2> HIDE DEF r
  <2> QED
    BY <1>1, OneTool DEF r, ConfigInv
<1>8. r.does = c /\ r.copy = copy
  OBVIOUS
<1> HIDE DEF r
<1>9. ConfigTyped'
  <2>1. file'.state \in States /\ IsSections(file'.sections)
    BY <1>2 DEF ConfigInv, ConfigTyped
  <2>2. ASSUME NEW u \in Tools, tool'[u].at = "loaded"
        PROVE  /\ tool'[u].does \in Commands /\ Targets(tool'[u].does) \subseteq named'
               /\ IsSections(tool'[u].copy)
    <3>1. CASE u = t
      BY <1>1, <1>6, <1>7, <1>8, <3>1
    <3>2. CASE u # t
      BY <1>4, <1>7, <2>2, <3>2 DEF ConfigInv, ConfigTyped
    <3> QED
      BY <3>1, <3>2
  <2> QED
    BY <1>3, <1>7, <2>1, <2>2, Zenon DEF ConfigTyped
<1>10. CopiesAgree'
  <2> SUFFICES ASSUME ~ misread', NEW u \in Tools, tool'[u].at = "loaded", NEW n, n \notin named'
               PROVE  SectionOf(tool'[u].copy, n) = SectionOf(file'.sections, n)
    BY Zenon DEF CopiesAgree
  <2>1. CASE u = t
    BY <1>2, <1>5, <1>6, <1>7, <1>8, <2>1
  <2>2. CASE u # t
    BY <1>2, <1>4, <1>5, <1>7, <2>2 DEF ConfigInv, CopiesAgree
  <2> QED
    BY <2>1, <2>2
<1>11. AllKeyed'
  <2> SUFFICES ASSUME ~ misread', ~ unkeyed'
               PROVE  /\ \A x \in Range(file'.sections) : HasDriver(x)
                      /\ \A u \in Tools : tool'[u].at = "loaded" =>
                           ~ Unkeys(tool'[u].does) /\ \A x \in Range(tool'[u].copy) : HasDriver(x)
    BY Zenon DEF AllKeyed
  <2>1. /\ \A x \in Range(file.sections) : HasDriver(x)
        /\ \A u \in Tools : tool[u].at = "loaded" =>
             ~ Unkeys(tool[u].does) /\ \A x \in Range(tool[u].copy) : HasDriver(x)
    BY <1>5, Zenon DEF ConfigInv, AllKeyed
  <2>2. ASSUME NEW u \in Tools, tool'[u].at = "loaded"
        PROVE  ~ Unkeys(tool'[u].does) /\ \A x \in Range(tool'[u].copy) : HasDriver(x)
    <3>1. CASE u = t
      <4>1. tool'[u].does = c /\ tool'[u].copy = file.sections
        BY <1>5, <1>6, <1>7, <1>8, <3>1
      <4> QED
        BY <1>5, <2>1, <4>1, Zenon
    <3>2. CASE u # t
      <4>1. tool'[u] = tool[u]
        BY <1>7, <3>2
      <4> QED
        BY <2>1, <2>2, <4>1, Zenon
    <3> QED
      BY <3>1, <3>2
  <2> QED
    BY <1>2, <2>1, <2>2, Zenon
<1>12. Unnamed
  BY <1>2, <1>3, <1>4, Zenon DEF Unnamed
<1> QED
  BY <1>9, <1>10, <1>11, <1>12 DEF ConfigInv

(* ToolSave: the whole copy becomes the file, with what others have saved since
   lost, but for the sections nobody has named. *)
LEMMA SaveKeeps ==
  ASSUME ConfigInv, NEW t \in Tools, ToolSave(t)
  PROVE  ConfigInv' /\ Unnamed
<1> DEFINE c == tool[t].does
           copy == tool[t].copy
           out == Outcome(copy, c)
<1>1. tool[t].at = "loaded" /\ file' = [state |-> "good", sections |-> out]
      /\ tool' = [tool EXCEPT ![t] = [at |-> "over"]]
      /\ UNCHANGED <<named, misread, unkeyed>>
  BY DEF ToolSave, Ends
<1>2. c \in Commands /\ Targets(c) \subseteq named /\ IsSections(copy) /\ IsCommand(c)
  BY <1>1, ConfigAssumption DEF ConfigInv, ConfigTyped
<1>3. /\ IsSections(out)
      /\ \A n : n \notin Targets(c) => SectionOf(out, n) = SectionOf(copy, n)
      /\ ~ Unkeys(c) /\ (\A x \in Range(copy) : HasDriver(x)) => \A x \in Range(out) : HasDriver(x)
  BY <1>2, OutcomeRight
<1>4. DOMAIN tool' = Tools
      /\ \A u \in Tools : tool'[u].at = "loaded" => tool'[u] = tool[u] /\ tool[u].at = "loaded"
  BY <1>1, OneTool DEF ConfigInv
<1>5. file'.state = "good" /\ file'.sections = out
  BY <1>1
<1> HIDE DEF out, copy, c
<1>6. ~ misread => \A n : n \notin named => SectionOf(out, n) = SectionOf(file.sections, n)
  <2> SUFFICES ASSUME ~ misread, NEW n, n \notin named
               PROVE  SectionOf(out, n) = SectionOf(file.sections, n)
    OBVIOUS
  <2>1. SectionOf(copy, n) = SectionOf(file.sections, n)
    BY <1>1 DEF ConfigInv, CopiesAgree, copy
  <2> QED
    BY <1>2, <1>3, <2>1
<1>7. ConfigTyped'
  <2>1. file'.state \in States /\ IsSections(file'.sections)
    BY <1>3, <1>5 DEF States
  <2>2. \A u \in Tools : tool'[u].at = "loaded" =>
          /\ tool'[u].does \in Commands /\ Targets(tool'[u].does) \subseteq named'
          /\ IsSections(tool'[u].copy)
    BY <1>1, <1>4 DEF ConfigInv, ConfigTyped
  <2>3. misread' \in BOOLEAN /\ unkeyed' \in BOOLEAN
    BY <1>1, Zenon DEF ConfigInv, ConfigTyped
  <2> QED
    BY <1>4, <2>1, <2>2, <2>3, Zenon DEF ConfigTyped
<1>8. CopiesAgree'
  <2> SUFFICES ASSUME ~ misread, NEW u \in Tools, tool'[u].at = "loaded", NEW n, n \notin named
               PROVE  SectionOf(tool'[u].copy, n) = SectionOf(file'.sections, n)
    BY <1>1, Zenon DEF CopiesAgree
  <2> QED
    BY <1>4, <1>5, <1>6 DEF ConfigInv, CopiesAgree
<1>9. AllKeyed'
  <2> SUFFICES ASSUME ~ misread, ~ unkeyed
               PROVE  /\ \A x \in Range(file'.sections) : HasDriver(x)
                      /\ \A u \in Tools : tool'[u].at = "loaded" =>
                           ~ Unkeys(tool'[u].does) /\ \A x \in Range(tool'[u].copy) : HasDriver(x)
    BY <1>1, Zenon DEF AllKeyed
  <2>1. /\ \A u \in Tools : tool[u].at = "loaded" =>
             ~ Unkeys(tool[u].does) /\ \A x \in Range(tool[u].copy) : HasDriver(x)
    BY Zenon DEF ConfigInv, AllKeyed
  <2>2. \A x \in Range(out) : HasDriver(x)
    BY <1>1, <1>3, <2>1 DEF c, copy
  <2> QED
    BY <1>4, <1>5, <2>1, <2>2
<1>10. Unnamed
  BY <1>1, <1>5, <1>6, Zenon DEF Unnamed, ConfigInv, ConfigTyped
<1> QED
  BY <1>7, <1>8, <1>9, <1>10 DEF ConfigInv

(* The other steps leave the file as it is. *)
LEMMA RestKeeps ==
  ASSUME ConfigInv,
         (\E t \in Tools : ToolEndsUnsaved(t)) \/ UNCHANGED configVars
  PROVE  ConfigInv' /\ Unnamed
<1>1. UNCHANGED <<file, named, misread, unkeyed>>
  BY DEF ToolEndsUnsaved, configVars
<1>2. DOMAIN tool' = Tools
      /\ \A u \in Tools : tool'[u].at = "loaded" => tool'[u] = tool[u] /\ tool[u].at = "loaded"
  <2>1. CASE UNCHANGED configVars
    BY <2>1 DEF configVars, ConfigInv, ConfigTyped
  <2>2. ASSUME NEW t \in Tools, ToolEndsUnsaved(t)
        PROVE  DOMAIN tool' = Tools
               /\ \A u \in Tools : tool'[u].at = "loaded" =>
                    tool'[u] = tool[u] /\ tool[u].at = "loaded"
    BY <2>2, OneTool DEF ToolEndsUnsaved, Ends, ConfigInv
  <2> QED
    BY <2>1, <2>2
<1>3. ConfigTyped'
  BY <1>1, <1>2, Zenon DEF ConfigInv, ConfigTyped
<1>4. CopiesAgree'
  <2> SUFFICES ASSUME ~ misread, NEW u \in Tools, tool'[u].at = "loaded", NEW n, n \notin named
               PROVE  SectionOf(tool'[u].copy, n) = SectionOf(file.sections, n)
    BY <1>1, Zenon DEF CopiesAgree
  <2> QED
    BY <1>2 DEF ConfigInv, CopiesAgree
<1>5. AllKeyed'
  BY <1>1, <1>2, Zenon DEF ConfigInv, AllKeyed
<1>6. Unnamed
  BY <1>1, Zenon DEF Unnamed, ConfigInv, ConfigTyped
<1> QED
  BY <1>3, <1>4, <1>5, <1>6 DEF ConfigInv

(* No step of the tool breaks the invariant. *)
LEMMA ConfigKeeps ==
  ASSUME ConfigInv, ConfigNext \/ UNCHANGED configVars
  PROVE  ConfigInv' /\ Unnamed
BY LoadKeeps, SaveKeeps, RestKeeps DEF ConfigNext

(* No command has run, so there are no copies. *)
LEMMA ConfigStarts ==
  ASSUME ConfigInit
  PROVE  ConfigInv
<1>1. file \in FirstFiles /\ named = {} /\ misread = FALSE
      /\ unkeyed = (\E x \in Range(file.sections) : ~ HasDriver(x))
      /\ tool = [t \in Tools |-> [at |-> "idle"]]
  BY Zenon DEF ConfigInit
<1>2. file.state \in States /\ IsSections(file.sections)
  BY <1>1, ConfigAssumption
<1>3. DOMAIN tool = Tools /\ \A t \in Tools : tool[t].at # "loaded"
  BY <1>1
<1>4. misread \in BOOLEAN /\ unkeyed \in BOOLEAN
  BY <1>1, Zenon
<1>5. ~ unkeyed => \A x \in Range(file.sections) : HasDriver(x)
  BY <1>1, Zenon
<1> QED
  BY <1>2, <1>3, <1>4, <1>5, Zenon DEF ConfigInv, ConfigTyped, CopiesAgree, AllKeyed

-----------------------------------------------------------------------------
(* The pid files.                                                           *)

Places == Dirs \cup {None, "gone"}

(* The part of the types the argument needs. *)
Typed ==
  /\ at \in [Procs -> Points]
  /\ where \in [Procs -> Places]
  /\ pidFile \in [Dirs -> Procs \cup {None, Empty}]

(* The lock of a pid file is held by one process at most. *)
OneLock == \A p, q \in Procs, d \in Dirs : HasLock(p, d) /\ HasLock(q, d) => p = q

(* The invariant of the pid files. *)
Inv == Typed /\ OneLock /\ PidFileNeverMisleads

(* A step that gives nobody a lock or a directory and leaves the file alone. *)
LEMMA NothingTaken ==
  ASSUME Inv, Typed', UNCHANGED pidFile,
         \A p \in Procs, d \in Dirs : HasLock(p, d)' => HasLock(p, d),
         \A p \in Procs, d \in Dirs : where'[p] = d /\ at'[p] \in PastLock \ {"locked"} =>
            at[p] \in PastLock \ {"locked"} /\ where[p] = d
  PROVE  Inv'
<1>1. OneLock'
  BY DEF Inv, OneLock
<1>2. PidFileNeverMisleads'
  BY DEF Inv, PidFileNeverMisleads
<1> QED
  BY <1>1, <1>2 DEF Inv

(* A process goes from one point to another and stays where it is. *)
LEMMA Moves ==
  ASSUME Inv, NEW p \in Procs, NEW from \in Points, NEW to \in Points,
         Goes(p, from, to), UNCHANGED <<where, pidFile>>,
         to \in PastLock => from \in PastLock \ {"locked"}
  PROVE  Inv'
<1>1. Typed'
  BY DEF Inv, Typed, Goes
<1>2. \A q \in Procs : at'[q] = IF q = p THEN to ELSE at[q]
  BY DEF Inv, Typed, Goes
<1>3. \A q \in Procs : at'[q] \in PastLock => at[q] \in PastLock
  BY <1>2 DEF Goes
<1>4. \A q \in Procs : at'[q] \in PastLock \ {"locked"} => at[q] \in PastLock \ {"locked"}
  BY <1>2 DEF Goes
<1> QED
  BY <1>1, <1>3, <1>4, NothingTaken DEF HasLock

(* A process that ends gives up what it had. *)
LEMMA Ending ==
  ASSUME Inv, NEW p \in Procs, Gone(p), UNCHANGED pidFile
  PROVE  Inv'
<1>1. /\ at' = [at EXCEPT ![p] = "none"]
      /\ where' = [where EXCEPT ![p] = None]
  BY DEF Gone
<1>2. Typed'
  BY <1>1 DEF Inv, Typed, Points, Places
<1>3. \A q \in Procs : at'[q] = IF q = p THEN "none" ELSE at[q]
  BY <1>1 DEF Inv, Typed
<1>4. \A q \in Procs : q # p => where'[q] = where[q]
  BY <1>1 DEF Inv, Typed
<1>5. "none" \notin PastLock
  BY DEF PastLock
<1> QED
  BY <1>2, <1>3, <1>4, <1>5, NothingTaken DEF HasLock

(* No step gives a lock twice, or puts a pid into the file of another. *)
LEMMA NextInv == Inv /\ [Next]_vars => Inv'
<1> SUFFICES ASSUME Inv, [Next]_vars PROVE Inv'
  OBVIOUS
<1> USE DEF procVars, busVars, unitVars, world
<1>1. ASSUME NEW p \in Procs, Open(p) PROVE Inv'
  <2>1. PICK dir \in Dirs : /\ Goes(p, "none", "opened")
                            /\ where' = [where EXCEPT ![p] = dir]
                            /\ pidFile' = [pidFile EXCEPT ![dir] = Empty]
    BY <1>1 DEF Open, Dirs
  <2>2. Typed'
    BY <2>1 DEF Inv, Typed, Goes, Points, Places
  <2>3. \A q \in Procs : at'[q] = IF q = p THEN "opened" ELSE at[q]
    BY <2>1 DEF Inv, Typed, Goes
  <2>4. \A q \in Procs : q # p => where'[q] = where[q]
    BY <2>1 DEF Inv, Typed
  <2>5. "opened" \notin PastLock
    BY DEF PastLock
  <2>6. OneLock'
    BY <2>3, <2>4, <2>5 DEF Inv, OneLock, HasLock
  <2>7. \A d \in Dirs : pidFile'[d] \in {pidFile[d], Empty}
    BY <2>1 DEF Inv, Typed
  <2>8. PidFileNeverMisleads'
    BY <2>3, <2>4, <2>5, <2>7 DEF Inv, PidFileNeverMisleads
  <2> QED
    BY <2>2, <2>6, <2>8 DEF Inv
<1>2. ASSUME NEW p \in Procs, Lock(p) PROVE Inv'
  <2>1. /\ Goes(p, "opened", "locked") /\ UNCHANGED <<where, pidFile>>
        /\ where[p] \in Dirs => \A q \in Procs : ~ HasLock(q, where[p])
    BY <1>2 DEF Lock
  <2>2. Typed'
    BY <2>1 DEF Inv, Typed, Goes, Points, PastLock
  <2>3. \A q \in Procs : at'[q] = IF q = p THEN "locked" ELSE at[q]
    BY <2>1 DEF Inv, Typed, Goes
  <2>4. OneLock'
    BY <2>1, <2>3 DEF Inv, OneLock, HasLock
  <2>5. PidFileNeverMisleads'
    BY <2>1, <2>3 DEF Inv, PidFileNeverMisleads
  <2> QED
    BY <2>2, <2>4, <2>5 DEF Inv
<1>3. ASSUME NEW p \in Procs, WritePid(p) PROVE Inv'
  <2>1. /\ Goes(p, "locked", "written") /\ UNCHANGED where
        /\ pidFile' = IF where[p] \in Dirs THEN [pidFile EXCEPT ![where[p]] = p] ELSE pidFile
    BY <1>3 DEF WritePid
  <2>2. Typed'
    BY <2>1 DEF Inv, Typed, Goes, Points, PastLock
  <2>3. \A q \in Procs : at'[q] = IF q = p THEN "written" ELSE at[q]
    BY <2>1 DEF Inv, Typed, Goes
  <2>4. \A q \in Procs : at'[q] \in PastLock => at[q] \in PastLock
    BY <2>1, <2>3 DEF Goes, PastLock
  <2>5. OneLock'
    BY <2>1, <2>4 DEF Inv, OneLock, HasLock
  <2>6. \A d \in Dirs : pidFile'[d] = IF d = where[p] THEN p ELSE pidFile[d]
    BY <2>1 DEF Inv, Typed
  <2>7. ASSUME NEW q \in Procs, q # p, at'[q] \in PastLock \ {"locked"}, where'[q] \in Dirs
        PROVE  pidFile'[where'[q]] \in {q, Empty}
    <3>1. HasLock(q, where[q]) /\ where[q] \in Dirs
      BY <2>1, <2>4, <2>7 DEF HasLock
    <3>2. where[q] # where[p]
      BY <2>1, <2>7, <3>1 DEF Inv, OneLock, HasLock, Goes, PastLock
    <3> QED
      BY <2>1, <2>3, <2>6, <2>7, <3>1, <3>2 DEF Inv, PidFileNeverMisleads
  <2>8. PidFileNeverMisleads'
    BY <2>1, <2>6, <2>7 DEF PidFileNeverMisleads
  <2> QED
    BY <2>2, <2>5, <2>8 DEF Inv
<1>4. ASSUME NEW p \in Procs, NameLost(p) \/ CloseForEver(p) \/ BusFails(p) PROVE Inv'
  <2> USE DEF Points, PastLock
  <2>1. CASE NameLost(p)
    BY <2>1, Moves DEF NameLost
  <2>2. CASE CloseForEver(p)
    BY <2>2, Moves DEF CloseForEver
  <2>3. CASE BusFails(p)
    BY <2>3, Moves DEF BusFails
  <2> QED
    BY <1>4, <2>1, <2>2, <2>3
<1>5. ASSUME NEW p \in Procs, InitBioDevice(p) \/ InitBioDBusCommServer(p) PROVE Inv'
  <2> USE DEF Points, PastLock
  <2>1. CASE InitBioDevice(p)
    BY <2>1, Moves DEF InitBioDevice
  <2>2. CASE InitBioDBusCommServer(p)
    BY <2>2, Moves DEF InitBioDBusCommServer
  <2> QED
    BY <1>5, <2>1, <2>2
<1>6. ASSUME NEW p \in Procs, Refused(p) \/ InitFails(p) \/ Leave(p) \/ Killed(p) PROVE Inv'
  BY <1>6, Ending DEF Refused, InitFails, Leave, Killed
<1>7. CASE Stopped
  BY <1>7, DaemonAssumption, Ending DEF Stopped
<1>8. CASE RootLogout
  <2>1. /\ UNCHANGED at
        /\ pidFile' = [pidFile EXCEPT !["run"] = None]
        /\ where' = [p \in Procs |-> IF where[p] = "run" THEN "gone" ELSE where[p]]
    BY <1>8 DEF RootLogout
  <2>2. Typed'
    BY <2>1 DEF Inv, Typed, Places
  <2>3. \A p \in Procs, d \in Dirs : where'[p] = d => where[p] = d /\ d # "run"
    BY <2>1 DEF Dirs
  <2>4. OneLock'
    BY <2>1, <2>3 DEF Inv, OneLock, HasLock
  <2>5. \A d \in Dirs : d # "run" => pidFile'[d] = pidFile[d]
    BY <2>1 DEF Inv, Typed
  <2>6. PidFileNeverMisleads'
    BY <2>1, <2>3, <2>5 DEF Inv, PidFileNeverMisleads
  <2> QED
    BY <2>2, <2>4, <2>6 DEF Inv
<1>9. CASE StartRefused \/ AdminStarts \/ RootLogin \/ Edits \/ UNCHANGED vars
  BY <1>9 DEF StartRefused, AdminStarts, RootLogin, Edits, vars, Inv, Typed, OneLock, HasLock, PidFileNeverMisleads
<1> QED
  BY <1>1, <1>2, <1>3, <1>4, <1>5, <1>6, <1>7, <1>8, <1>9 DEF Next, Main

(* Before anything runs nobody has a lock. *)
LEMMA InvStarts == Init => Inv
<1> SUFFICES ASSUME Init PROVE Inv
  OBVIOUS
<1>1. Typed
  BY DEF Init, Typed, Points, Places
<1>2. \A p \in Procs : at[p] = "none" /\ "none" \notin PastLock
  BY DEF Init, PastLock
<1> QED
  BY <1>1, <1>2 DEF Inv, OneLock, HasLock, PidFileNeverMisleads

-----------------------------------------------------------------------------
(* Every process.                                                           *)

(* The rest of the types: the bus, the directories, the lists of drivers and the
   bounds. *)
BusTyped  == busName \in Procs \cup {None} /\ ousted \subseteq Procs
RootTyped == /\ session \in BOOLEAN
             /\ ~ session => pidFile["run"] = None /\ \A p \in Procs : where[p] # "run"
Homes     == \A p \in Procs : at[p] = "none" <=> where[p] = None
Lists     == /\ DOMAIN loaded = Procs
             /\ \A p \in Procs : loaded[p] \in Seq(Driver) /\ IdsRight(loaded[p])
Bounds    == faults \in 0 .. MaxFaults /\ moves \in 0 .. MaxMoves
UnitTyped == starts \in 0 .. StartLimit + 1 /\ disturbed \in BOOLEAN

Shape == BusTyped /\ RootTyped /\ Homes /\ Lists /\ Bounds /\ UnitTyped

(* The name goes from one process to another. *)
LEMMA OffTheBusTyped ==
  ASSUME BusTyped, NEW p \in Procs, OffTheBus(p)
  PROVE  BusTyped'
<1>1. ousted' = ousted \ {p}
  BY DEF OffTheBus
<1>2. busName' = busName \/ busName' \in {None} \/ busName' \in ousted'
  <2>1. IF busName = p
        THEN busName' \in IF ousted' = {} THEN {None} ELSE ousted'
        ELSE UNCHANGED busName
    BY DEF OffTheBus
  <2> QED
    BY <2>1
<1> QED
  BY <1>1, <1>2 DEF BusTyped

(* What a process leaves when it ends. *)
LEMMA GoneShape ==
  ASSUME Inv, Shape, NEW p \in Procs, Gone(p),
         UNCHANGED <<pidFile, session, moves, unitVars>>, faults' = faults \/ Fault
  PROVE  Shape'
<1>1. /\ at' = [at EXCEPT ![p] = "none"] /\ where' = [where EXCEPT ![p] = None]
      /\ loaded' = [loaded EXCEPT ![p] = <<>>]
  BY DEF Gone
<1>2. BusTyped' /\ UnitTyped'
  BY OffTheBusTyped DEF Gone, Shape, UnitTyped, unitVars
<1>3. RootTyped'
  <2>1. \A q \in Procs : where'[q] \in {where[q], None}
    BY <1>1 DEF Inv, Typed
  <2>2. None # "run"
    BY DaemonAssumption
  <2> QED
    BY <2>1, <2>2 DEF Shape, RootTyped
<1>4. Homes'
  BY <1>1 DEF Shape, Homes, Inv, Typed
<1>5. Lists'
  <2>1. DOMAIN loaded' = Procs /\ \A q \in Procs : loaded'[q] = IF q = p THEN <<>> ELSE loaded[q]
    BY <1>1 DEF Shape, Lists
  <2>2. <<>> \in Seq(Driver) /\ IdsRight(<<>>)
    BY DEF IdsRight
  <2> QED
    BY <2>1, <2>2 DEF Shape, Lists
<1>6. Bounds'
  BY DaemonAssumption DEF Shape, Bounds, Fault
<1> QED
  BY <1>2, <1>3, <1>4, <1>5, <1>6 DEF Shape

(* A process goes on with the list it had, or without one. *)
LEMMA MovesShape ==
  ASSUME Inv, Shape, NEW p \in Procs, NEW from, NEW to,
         Goes(p, from, to), from # "none", to # "none",
         UNCHANGED <<where, session, moves, unitVars>>,
         pidFile' = pidFile \/ pidFile' = [pidFile EXCEPT ![where[p]] = p],
         BusTyped', Lists', faults' = faults \/ Fault
  PROVE  Shape'
<1> USE DEF unitVars
<1>1. \A q \in Procs : at'[q] = IF q = p THEN to ELSE at[q]
  BY DEF Goes, Inv, Typed
<1>2. at[p] = from
  BY DEF Goes
<1>3. Homes'
  BY <1>1, <1>2 DEF Shape, Homes
<1>4. RootTyped'
  <2>1. ~ session => pidFile'["run"] = pidFile["run"]
    BY DEF Shape, RootTyped, Inv, Typed, Dirs
  <2> QED
    BY <2>1 DEF Shape, RootTyped
<1>5. Bounds'
  BY DaemonAssumption DEF Shape, Bounds, Fault
<1>6. UnitTyped'
  BY DEF Shape, UnitTyped
<1> QED
  BY <1>3, <1>4, <1>5, <1>6 DEF Shape

(* No step leaves the types. *)
LEMMA ShapeKept ==
  ASSUME ConfigInv, Inv, Shape, [Next]_vars
  PROVE  Shape'
<1> USE DEF procVars, busVars, unitVars, world
<1>1. UNCHANGED loaded => Lists'
  BY DEF Shape, Lists
<1>2. UNCHANGED busVars => BusTyped'
  BY DEF Shape, BusTyped
<1>20. UNCHANGED unitVars => UnitTyped'
  BY DEF Shape, UnitTyped
<1>3. ASSUME NEW p \in Procs, Open(p) PROVE Shape'
  <2> DEFINE dir == IF session THEN "run" ELSE "tmp"
  <2>1. /\ Goes(p, "none", "opened")
        /\ where' = [where EXCEPT ![p] = dir]
        /\ pidFile' = [pidFile EXCEPT ![dir] = Empty]
        /\ Started(p) /\ UNCHANGED <<loaded, busVars, world, faults>>
    BY <1>3 DEF Open
  <2>2. \A q \in Procs : /\ at'[q] = IF q = p THEN "opened" ELSE at[q]
                         /\ where'[q] = IF q = p THEN dir ELSE where[q]
    BY <2>1 DEF Goes, Inv, Typed
  <2>3. Homes'
    <3>1. dir # None
      BY DaemonAssumption
    <3> HIDE DEF dir
    <3> QED
      BY <2>2, <3>1 DEF Shape, Homes
  <2>4. RootTyped'
    <3>1. CASE session
      BY <2>1, <3>1 DEF Shape, RootTyped
    <3>2. CASE ~ session
      <4>1. dir = "tmp"
        BY <3>2
      <4>2. pidFile'["run"] = pidFile["run"]
        BY <2>1, <4>1 DEF Inv, Typed, Dirs
      <4> QED
        BY <2>1, <2>2, <3>2, <4>1, <4>2 DEF Shape, RootTyped
    <3> QED
      BY <3>1, <3>2
  <2>5. UnitTyped'
    <3>1. StartLimit \in Nat \ {0} /\ starts \in 0 .. StartLimit + 1 /\ disturbed \in BOOLEAN
      BY DaemonAssumption DEF Shape, UnitTyped
    <3>2. CASE p = Unit
      <4>1. /\ starts' = 1 \/ (starts' = starts + 1 /\ starts + 1 <= StartLimit)
            /\ disturbed' = disturbed
        BY <2>1, <3>2 DEF Started
      <4> QED
        BY <3>1, <4>1 DEF UnitTyped
    <3>3. CASE p # Unit
      <4>1. disturbed' = TRUE /\ starts' = starts
        BY <2>1, <3>3 DEF Started
      <4> QED
        BY <3>1, <4>1 DEF UnitTyped
    <3> QED
      BY <3>2, <3>3
  <2> QED
    BY <1>1, <1>2, <2>1, <2>3, <2>4, <2>5 DEF Shape, Bounds
<1>4. ASSUME NEW p \in Procs, Lock(p) \/ NameLost(p) \/ CloseForEver(p) PROVE Shape'
  <2>1. UNCHANGED <<where, session, moves, pidFile, faults, loaded, busVars, unitVars>>
    BY <1>4 DEF Lock, NameLost, CloseForEver
  <2>2. \/ Goes(p, "opened", "locked") \/ Goes(p, "serving", "quitting")
        \/ Goes(p, "quitting", "closing")
    BY <1>4 DEF Lock, NameLost, CloseForEver
  <2> QED
    BY <1>1, <1>2, <2>1, <2>2, MovesShape
<1>5. ASSUME NEW p \in Procs, WritePid(p) PROVE Shape'
  BY <1>1, <1>2, <1>5, MovesShape DEF WritePid
<1>6. ASSUME NEW p \in Procs, InitBioDevice(p) PROVE Shape'
  <2>1. PICK past \in SUBSET NamesOf(file.sections) :
             /\ Goes(p, "written", "inited")
             /\ loaded' = [loaded EXCEPT ![p] = DriverListInit(file.sections, past)]
             /\ UNCHANGED <<where, pidFile, busVars, unitVars, world, faults>>
    BY <1>6 DEF InitBioDevice
  <2>2. Lists'
    <3>1. file.sections \in Seq(Section)
      BY DEF ConfigInv, ConfigTyped, IsSections
    <3>2. DriverListInit(file.sections, past) \in Seq(Driver)
          /\ IdsRight(DriverListInit(file.sections, past))
      BY <3>1, DriverListRight
    <3>3. DOMAIN loaded' = Procs
          /\ \A q \in Procs : loaded'[q] = IF q = p THEN DriverListInit(file.sections, past)
                                                   ELSE loaded[q]
      BY <2>1 DEF Shape, Lists
    <3> QED
      BY <3>2, <3>3 DEF Shape, Lists
  <2> QED
    BY <1>2, <2>1, <2>2, MovesShape
<1>7. ASSUME NEW p \in Procs, InitBioDBusCommServer(p) PROVE Shape'
  <2>1. BusTyped'
    BY <1>7 DEF InitBioDBusCommServer, Shape, BusTyped
  <2> QED
    BY <1>1, <1>7, <2>1, MovesShape DEF InitBioDBusCommServer
<1>8. ASSUME NEW p \in Procs, BusFails(p) PROVE Shape'
  <2>1. BusTyped'
    BY <1>2, <1>8, OffTheBusTyped DEF BusFails, Shape
  <2> QED
    BY <1>1, <1>8, <2>1, MovesShape DEF BusFails
<1>9. ASSUME NEW p \in Procs, Refused(p) \/ InitFails(p) \/ Leave(p) \/ Killed(p) PROVE Shape'
  <2>1. faults' = faults \/ Fault
    BY <1>9 DEF Refused, InitFails, Leave, Killed
  <2>2. Gone(p) /\ UNCHANGED <<pidFile, world, unitVars>>
    BY <1>9 DEF Refused, InitFails, Leave, Killed
  <2> QED
    BY <2>1, <2>2, GoneShape
<1>10. CASE Stopped
  BY <1>10, DaemonAssumption, GoneShape DEF Stopped
<1>11. CASE RootLogin
  <2>1. session' = TRUE /\ moves < MaxMoves /\ moves' = moves + 1
        /\ UNCHANGED <<procVars, pidFile, busVars, unitVars, faults>>
    BY <1>11 DEF RootLogin
  <2>2. Bounds'
    BY <2>1, DaemonAssumption DEF Shape, Bounds
  <2> QED
    BY <1>1, <1>2, <1>20, <2>1, <2>2 DEF Shape, RootTyped, Homes
<1>12. CASE RootLogout
  <2>1. /\ session' = FALSE /\ moves < MaxMoves /\ moves' = moves + 1
        /\ pidFile' = [pidFile EXCEPT !["run"] = None]
        /\ where' = [p \in Procs |-> IF where[p] = "run" THEN "gone" ELSE where[p]]
        /\ UNCHANGED <<at, loaded, busVars, unitVars, faults>>
    BY <1>12 DEF RootLogout
  <2>2. Bounds'
    BY <2>1, DaemonAssumption DEF Shape, Bounds
  <2>3. Homes'
    BY <2>1, DaemonAssumption DEF Shape, Homes
  <2>4. RootTyped'
    <3>1. pidFile'["run"] = None /\ \A p \in Procs : where'[p] # "run"
      BY <2>1 DEF Inv, Typed, Dirs
    <3> QED
      BY <2>1, <3>1 DEF RootTyped
  <2> QED
    BY <1>1, <1>2, <1>20, <2>1, <2>2, <2>3, <2>4 DEF Shape
<1>13. CASE Edits \/ UNCHANGED vars
  BY <1>1, <1>2, <1>20, <1>13 DEF Edits, vars, Shape, RootTyped, Homes, Bounds
<1>14. CASE StartRefused \/ AdminStarts
  <2>1. UnitTyped'
    BY <1>14, DaemonAssumption DEF StartRefused, AdminStarts, Shape, UnitTyped
  <2> QED
    BY <1>1, <1>2, <1>14, <2>1 DEF StartRefused, AdminStarts, Shape, RootTyped, Homes, Bounds
<1> QED
  BY <1>3, <1>4, <1>5, <1>6, <1>7, <1>8, <1>9, <1>10, <1>11, <1>12, <1>13, <1>14 DEF Next, Main

(* A daemon that has come so far has the driver of every section nobody has
   named.  What it holds is kept until the process ends. *)
DriversLoaded ==
  ~ misread /\ ~ unkeyed =>
    \A p \in Procs : at[p] \in {"inited", "serving"} =>
      \A x \in Range(file.sections) :
        x.name \notin named /\ Loads(x.driver) =>
          \E i \in DOMAIN loaded[p] : loaded[p][i].plugin = x.driver

(* Only a run of the tool changes the file. *)
LEMMA OnlyEdits ==
  ASSUME ConfigInv, [Next]_vars
  PROVE  ConfigInv' /\ Unnamed /\ (UNCHANGED configVars \/ Edits)
<1>1. UNCHANGED configVars \/ Edits
  BY DEF Next, Main, Open, Lock, Refused, WritePid, InitBioDevice, InitFails,
         InitBioDBusCommServer, NameLost, CloseForEver, Leave, BusFails, Killed, Stopped,
         StartRefused, AdminStarts, RootLogin, RootLogout, vars
<1> QED
  BY <1>1, ConfigKeeps DEF Edits

(* Every step but the reading of the configuration keeps a daemon's list, if the
   daemon goes on. *)
LEMMA ListsStay ==
  ASSUME Inv, Shape, [Next]_vars, NEW p \in Procs, at'[p] \in {"inited", "serving"}
  PROVE  \/ InitBioDevice(p)
         \/ at[p] \in {"inited", "serving"} /\ loaded'[p] = loaded[p]
<1> USE DEF procVars, busVars, unitVars, world
<1> DEFINE Goal == at[p] \in {"inited", "serving"} /\ loaded'[p] = loaded[p]
<1>1. ASSUME NEW q \in Procs, Gone(q) PROVE Goal
  BY <1>1 DEF Gone, Inv, Typed, Shape, Lists
<1>2. ASSUME NEW q \in Procs, NEW from, NEW to, Goes(q, from, to), UNCHANGED loaded,
             to \in {"inited", "serving"} => from = "inited"
      PROVE  Goal
  BY <1>2 DEF Goes, Inv, Typed
<1>3. ASSUME NEW q \in Procs, InitBioDevice(q) PROVE q = p \/ Goal
  BY <1>3 DEF InitBioDevice, Goes, Inv, Typed, Shape, Lists
<1>4. ASSUME NEW q \in Procs,
             Refused(q) \/ InitFails(q) \/ Leave(q) \/ Killed(q)
      PROVE  Goal
  BY <1>1, <1>4 DEF Refused, InitFails, Leave, Killed
<1>5. ASSUME NEW q \in Procs,
             \/ Open(q) \/ Lock(q) \/ WritePid(q) \/ InitBioDBusCommServer(q)
             \/ NameLost(q) \/ CloseForEver(q) \/ BusFails(q)
      PROVE  Goal
  <2>1. \/ Goes(q, "none", "opened") \/ Goes(q, "opened", "locked")
        \/ Goes(q, "locked", "written") \/ Goes(q, "inited", "serving")
        \/ Goes(q, "serving", "quitting") \/ Goes(q, "quitting", "closing")
    BY <1>5 DEF Open, Lock, WritePid, InitBioDBusCommServer, NameLost, CloseForEver, BusFails
  <2>2. UNCHANGED loaded
    BY <1>5 DEF Open, Lock, WritePid, InitBioDBusCommServer, NameLost, CloseForEver, BusFails
  <2> HIDE DEF Goal
  <2> QED
    BY <1>2, <2>1, <2>2
<1>6. ASSUME Stopped PROVE Goal
  BY <1>1, <1>6, DaemonAssumption DEF Stopped
<1>7. ASSUME StartRefused \/ AdminStarts \/ RootLogin \/ RootLogout \/ Edits \/ UNCHANGED vars
      PROVE  Goal
  BY <1>7 DEF StartRefused, AdminStarts, RootLogin, RootLogout, Edits, vars
<1> HIDE DEF Goal
<1>8. ASSUME NEW q \in Procs, Open(q) \/ Main(q) \/ BusFails(q) \/ Killed(q)
      PROVE  InitBioDevice(p) \/ Goal
  BY <1>3, <1>4, <1>5, <1>8, Zenon DEF Main
<1>9. InitBioDevice(p) \/ Goal
  <2>1. \/ \E q \in Procs : Open(q) \/ Main(q) \/ BusFails(q) \/ Killed(q)
        \/ Stopped \/ StartRefused \/ AdminStarts \/ RootLogin \/ RootLogout \/ Edits
        \/ UNCHANGED vars
    BY DEF Next
  <2> QED
    BY <1>6, <1>7, <1>8, <2>1, Zenon
<1> QED
  BY <1>9 DEF Goal

(* A list of drivers stays good: what commands save has nothing new in the
   sections nobody has named. *)
LEMMA LoadedKept ==
  ASSUME ConfigInv, Inv, Shape, DriversLoaded, [Next]_vars
  PROVE  DriversLoaded'
<1>1. ConfigInv' /\ Unnamed /\ (UNCHANGED configVars \/ Edits)
  BY OnlyEdits
<1> SUFFICES ASSUME ~ misread', ~ unkeyed', NEW p \in Procs, at'[p] \in {"inited", "serving"},
                    NEW x \in Range(file'.sections), x.name \notin named', Loads(x.driver)
             PROVE  \E i \in DOMAIN loaded'[p] : loaded'[p][i].plugin = x.driver
  BY Zenon DEF DriversLoaded
<1>2. ~ misread /\ ~ unkeyed /\ x.name \notin named
  <2>1. (misread => misread') /\ (unkeyed => unkeyed')
    BY <1>1, Zenon DEF Unnamed
  <2>2. named \subseteq named'
    BY <1>1, Zenon DEF Unnamed
  <2> QED
    BY <2>1, <2>2, Zenon
<1>3. x \in Range(file.sections)
  <2>1. SectionOf(file.sections, x.name) = SectionOf(file'.sections, x.name)
    BY <1>1, Zenon DEF Unnamed
  <2>2. x \in SectionOf(file'.sections, x.name)
    BY DEF SectionOf
  <2>3. x \in SectionOf(file.sections, x.name)
    BY <2>1, <2>2
  <2> QED
    BY <2>3 DEF SectionOf
<1>4. CASE InitBioDevice(p)
  <2>1. PICK past : loaded' = [loaded EXCEPT ![p] = DriverListInit(file.sections, past)]
    BY <1>4 DEF InitBioDevice
  <2>2. loaded'[p] = DriverListInit(file.sections, past)
    BY <2>1 DEF Shape, Lists
  <2>3. \A y \in Range(file.sections) : HasDriver(y)
    BY <1>2, Zenon DEF ConfigInv, AllKeyed
  <2>4. file.sections \in Seq(Section)
    BY DEF ConfigInv, ConfigTyped, IsSections
  <2>5. \E i \in DOMAIN DriverListInit(file.sections, past) :
          DriverListInit(file.sections, past)[i].plugin = x.driver
    BY <1>3, <2>3, <2>4, DriverListRight
  <2> QED
    BY <2>2, <2>5
<1>5. CASE at[p] \in {"inited", "serving"} /\ loaded'[p] = loaded[p]
  <2>1. \E i \in DOMAIN loaded[p] : loaded[p][i].plugin = x.driver
    BY <1>2, <1>3, <1>5, Zenon DEF DriversLoaded
  <2> QED
    BY <1>5, <2>1
<1> QED
  BY <1>4, <1>5, ListsStay

(* Everything that is held together. *)
DaemonInv == ConfigInv /\ Inv /\ Shape /\ DriversLoaded

(* It holds before anything runs. *)
LEMMA DaemonStarts == Init => DaemonInv
<1> SUFFICES ASSUME Init PROVE DaemonInv
  OBVIOUS
<1>1. ConfigInv
  BY ConfigStarts DEF Init
<1>2. /\ at = [p \in Procs |-> "none"] /\ where = [p \in Procs |-> None]
      /\ pidFile = [d \in Dirs |-> None]
      /\ session \in BOOLEAN
      /\ busName = None /\ ousted = {}
      /\ loaded = [p \in Procs |-> <<>>]
      /\ faults = 0 /\ moves = 0
  BY DEF Init
<1>3. Inv
  BY InvStarts
<1>4. Shape
  <2>1. BusTyped /\ Homes /\ Bounds
    BY <1>2, DaemonAssumption DEF BusTyped, Homes, Bounds
  <2>2. RootTyped
    BY <1>2, DaemonAssumption DEF RootTyped, Dirs
  <2>3. Lists
    BY <1>2 DEF Lists, IdsRight
  <2>4. UnitTyped
    BY DaemonAssumption DEF Init, UnitTyped
  <2> QED
    BY <2>1, <2>2, <2>3, <2>4 DEF Shape
<1>5. DriversLoaded
  BY <1>2 DEF DriversLoaded
<1> QED
  BY <1>1, <1>3, <1>4, <1>5 DEF DaemonInv

(* Every step keeps it. *)
LEMMA DaemonKept == DaemonInv /\ [Next]_vars => DaemonInv' /\ Unnamed
BY OnlyEdits, NextInv, ShapeKept, LoadedKept DEF DaemonInv

(* So it always holds. *)
LEMMA AlwaysDaemonInv == Spec => []DaemonInv
BY DaemonStarts, DaemonKept, PTL DEF Spec

(* However many daemons are started, refused, killed and moved from directory to
   directory, the pid file of one that runs names no other process. *)
THEOREM PidFileRight == Spec => []PidFileNeverMisleads
<1>1. DaemonInv => PidFileNeverMisleads
  BY DEF DaemonInv, Inv
<1> QED
  BY <1>1, AlwaysDaemonInv, PTL

(* The file has sections of different names only, whatever commands have saved
   over each other; a process has a pid file exactly while it is there, in /run/user/0 only during a session of root. *)
THEOREM TypeCorrect == Spec => []TypeOK
<1>1. DaemonInv => TypeOK
  <2> SUFFICES ASSUME DaemonInv PROVE TypeOK
    OBVIOUS
  <2>1. file.state \in States /\ IsSections(file.sections)
    BY DEF DaemonInv, ConfigInv, ConfigTyped
  <2>2. /\ at \in [Procs -> Points]
        /\ where \in [Procs -> Dirs \cup {None, "gone"}]
        /\ pidFile \in [Dirs -> Procs \cup {None, Empty}]
    BY DEF DaemonInv, Inv, Typed, Places
  <2>3. \A p \in Procs : loaded[p] \in Seq(Driver)
    BY DEF DaemonInv, Shape, Lists
  <2> QED
    BY <2>1, <2>2, <2>3, Zenon DEF TypeOK, DaemonInv, Shape, BusTyped, RootTyped, Homes, Bounds, UnitTyped
<1> QED
  BY <1>1, AlwaysDaemonInv, PTL

(* However many drivers the configuration names and whatever lies behind the array
   of bio_get_empty_driver_id, no ID is given twice while one is left; then the
   drivers get -1 or, one of them at most, the ID after the last. *)
THEOREM IdsGiven == Spec => []DriverIds
<1>1. DaemonInv => DriverIds
  <2> SUFFICES ASSUME DaemonInv, NEW p \in Procs, NEW i \in DOMAIN loaded[p]
               PROVE  LET id     == loaded[p][i].id
                          before == SubSeq(loaded[p], 1, i - 1)
                      IN /\ id \notin IdStart .. IdMax => IdStart .. IdMax \subseteq IdsOf(before)
                         /\ id \in IdsOf(before) => id = -1
    BY Zenon DEF DriverIds
  <2> DEFINE list == loaded[p]
             before == SubSeq(list, 1, i - 1)
  <2>1. list \in Seq(Driver) /\ IdRight(list[i].id, IdsBefore(list, i))
    BY DEF DaemonInv, Shape, Lists, IdsRight
  <2>2. IdsOf(before) = IdsBefore(list, i)
    <3>1. Len(list) \in Nat /\ i \in 1 .. Len(list)
      BY <2>1
    <3>2. DOMAIN before = 1 .. i - 1 /\ \A j \in 1 .. i - 1 : before[j] = list[j]
      <4> HIDE DEF list
      <4> QED
        BY <2>1, <3>1
    <3> HIDE DEF before, list
    <3> QED
      BY <3>2 DEF IdsOf, IdsBefore
  <2> QED
    BY <2>1, <2>2 DEF IdRight
<1> QED
  BY <1>1, AlwaysDaemonInv, PTL

(* Commands may race in any order: as long as none of them takes a driver away or
   works on a broken file, no daemon loses the driver of a section nobody has
   named. *)
THEOREM DriversAreServed == Spec => []DriversServed
<1>1. DaemonInv => DriversServed
  <2>1. "serving" \in {"inited", "serving"}
    OBVIOUS
  <2> QED
    BY <2>1, Zenon DEF DaemonInv, DriversLoaded, DriversServed
<1> QED
  BY <1>1, AlwaysDaemonInv, PTL

(* biometric-config-tool saves the whole file over what others have saved, and
   still changes no section that no command has named. *)
THEOREM UnnamedKept == Spec => UnnamedSectionsKept
<1> DEFINE Step == ~ misread' => \A n \in Names \ named' :
                     SectionOf(file.sections, n) = SectionOf(file'.sections, n)
<1>1. DaemonInv /\ [Next]_vars => [Step]_vars
  BY DaemonKept, Zenon DEF Unnamed
<1>2. Spec => [][Step]_vars
  <2> HIDE DEF Step
  <2> QED
    BY <1>1, AlwaysDaemonInv, PTL DEF Spec
<1> QED
  BY <1>2, Zenon DEF UnnamedSectionsKept

-----------------------------------------------------------------------------
(* What the starts of the unit are charged to.                              *)

(* As long as the unit is alone with a configuration it can read, nobody takes
   the name from it, and every start but the one it is living on has been paid
   for with a fault. *)
Alone ==
  /\ file.state = "good"
  /\ \A p \in Procs \ {Unit} : at[p] = "none" /\ loaded[p] = <<>>
  /\ ousted = {} /\ busName \in {None, Unit}
  /\ at[Unit] \in {"none", "opened", "locked", "written", "inited"} => busName = None

Ended == at[Unit] \in {"none", "quitting", "closing"}

Paid ==
  IF GivenUp THEN at[Unit] = "none" /\ faults >= StartLimit
  ELSE starts <= IF Ended THEN faults ELSE faults + 1

Accounted == ~ disturbed => Alone /\ Paid

(* The end of the unit leaves the bus to nobody, and is paid for with a fault
   unless its main loop had ended before. *)
LEMMA UnitGone ==
  ASSUME DaemonInv, Alone, Paid, Gone(Unit), UNCHANGED <<configVars, unitVars>>,
         at[Unit] # "none",
         Fault \/ (Ended /\ UNCHANGED faults)
  PROVE  Alone' /\ Paid'
<1>1. /\ at' = [at EXCEPT ![Unit] = "none"]
      /\ loaded' = [loaded EXCEPT ![Unit] = <<>>]
      /\ ousted' = ousted \ {Unit}
      /\ IF busName = Unit
         THEN busName' \in IF ousted' = {} THEN {None} ELSE ousted'
         ELSE UNCHANGED busName
  BY DEF Gone, OffTheBus
<1>2. at'[Unit] = "none" /\ \A p \in Procs \ {Unit} : at'[p] = at[p] /\ loaded'[p] = loaded[p]
  BY <1>1, DaemonAssumption DEF DaemonInv, Inv, Typed, Shape, Lists
<1>3. ousted' = {} /\ busName' = None
  <2>1. ousted' = {}
    BY <1>1 DEF Alone
  <2>2. CASE busName = Unit
    BY <1>1, <2>1, <2>2
  <2>3. CASE busName # Unit
    BY <1>1, <2>3 DEF Alone
  <2> QED
    BY <2>1, <2>2, <2>3
<1>4. Alone'
  BY <1>2, <1>3 DEF Alone, configVars
<1>5. Paid'
  <2>1. starts' = starts /\ ~ GivenUp
    BY DEF Paid, unitVars
  <2>2. starts \in Nat /\ faults \in Nat /\ starts <= IF Ended THEN faults ELSE faults + 1
    BY <2>1, DaemonAssumption DEF Paid, DaemonInv, Shape, UnitTyped, Bounds
  <2>3. starts' <= faults'
    BY <2>1, <2>2 DEF Fault
  <2> QED
    BY <1>2, <2>1, <2>3 DEF Paid, GivenUp, Ended
<1> QED
  BY <1>4, <1>5

(* The unit goes from one point to another, in no other way than what is said of
   the bus. *)
LEMMA UnitMoves ==
  ASSUME DaemonInv, Alone, Paid, NEW from, NEW to, Goes(Unit, from, to), from # "none", to # "none",
         UNCHANGED <<configVars, unitVars>>,
         \A p \in Procs \ {Unit} : loaded'[p] = loaded[p],
         ousted' = {}, busName' \in {None, Unit},
         to \in {"opened", "locked", "written", "inited"} => busName' = None,
         \/ Fault
         \/ UNCHANGED faults /\ (to \in {"quitting", "closing"} => from \in {"quitting", "closing"})
  PROVE  Alone' /\ Paid'
<1>1. at[Unit] = from /\ at'[Unit] = to /\ \A p \in Procs \ {Unit} : at'[p] = at[p]
  BY DaemonAssumption DEF Goes, DaemonInv, Inv, Typed
<1>2. Alone'
  BY <1>1 DEF Alone, configVars
<1>3. ~ GivenUp /\ starts' = starts /\ ~ GivenUp'
  BY <1>1 DEF Paid, GivenUp, unitVars
<1>4. starts \in Nat /\ faults \in Nat /\ starts <= IF Ended THEN faults ELSE faults + 1
  BY <1>3, DaemonAssumption DEF Paid, DaemonInv, Shape, UnitTyped, Bounds
<1>5. starts' <= IF Ended' THEN faults' ELSE faults' + 1
  <2>1. CASE Fault
    BY <1>3, <1>4, <2>1 DEF Fault
  <2>2. CASE ~ Fault
    <3>1. UNCHANGED faults /\ (to \in {"quitting", "closing"} => from \in {"quitting", "closing"})
      BY <2>2
    <3>2. Ended' => Ended
      BY <1>1, <3>1 DEF Ended
    <3> QED
      BY <1>3, <1>4, <3>1, <3>2
  <2> QED
    BY <2>1, <2>2
<1> QED
  BY <1>2, <1>3, <1>5 DEF Paid

(* A step that neither starts nor moves the unit. *)
LEMMA NothingMoves ==
  ASSUME Alone, Paid, file'.state = "good",
         UNCHANGED <<procVars, busVars, unitVars, faults>>
  PROVE  Alone' /\ Paid'
BY DEF Alone, Paid, GivenUp, Ended, procVars, busVars, unitVars

(* Every step keeps the account. *)
LEMMA AccountKept ==
  ASSUME DaemonInv, Accounted, [Next]_vars
  PROVE  Accounted'
<1> SUFFICES ASSUME ~ disturbed' PROVE Alone' /\ Paid'
  BY DEF Accounted
<1> USE DEF procVars, busVars, unitVars, world
<1>1. Alone /\ Paid /\ Unit \in Procs
  <2>1. ~ disturbed
    BY DEF DaemonInv, Shape, UnitTyped, Next, Main, Open, Started, Lock, Refused, WritePid,
           InitBioDevice, InitFails, InitBioDBusCommServer, NameLost, CloseForEver, Leave,
           BusFails, Killed, Stopped, StartRefused, AdminStarts, RootLogin, RootLogout,
           Edits, vars
  <2> QED
    BY <2>1, DaemonAssumption DEF Accounted
<1>2. ASSUME NEW p \in Procs, Open(p) PROVE Alone' /\ Paid'
  <2>1. p = Unit
    BY <1>2 DEF Open, Started
  <2>2. /\ Goes(Unit, "none", "opened") /\ UNCHANGED <<configVars, loaded, busVars, faults>>
        /\ starts' \in {1} \cup { n \in {starts + 1} : n <= StartLimit }
        /\ starts <= StartLimit
    BY <1>2, <2>1 DEF Open, Started
  <2>3. at[Unit] = "none" /\ at'[Unit] = "opened" /\ \A q \in Procs \ {Unit} : at'[q] = at[q]
    BY <1>1, <2>2 DEF Goes, DaemonInv, Inv, Typed
  <2>4. Alone'
    BY <1>1, <2>2, <2>3 DEF Alone, configVars
  <2>5. starts \in Nat /\ faults \in Nat /\ StartLimit \in Nat \ {0} /\ starts <= faults
    BY <1>1, <2>2, <2>3, DaemonAssumption
    DEF Paid, GivenUp, Ended, DaemonInv, Shape, UnitTyped, Bounds
  <2>6. starts' <= faults' + 1 /\ starts' <= StartLimit
    BY <2>2, <2>5
  <2>7. ~ GivenUp' /\ ~ Ended'
    BY <2>2, <2>3, <2>5, <2>6 DEF GivenUp, Ended
  <2> QED
    BY <2>4, <2>6, <2>7 DEF Paid
<1>3. ASSUME NEW p \in Procs, Main(p) \/ BusFails(p) \/ Killed(p) PROVE p = Unit
  BY <1>1, <1>3 DEF Alone, Main, Lock, Refused, WritePid, InitBioDevice, InitFails,
                    InitBioDBusCommServer, NameLost, CloseForEver, Leave, BusFails, Killed, Goes
<1>4. CASE Lock(Unit) \/ WritePid(Unit) \/ InitBioDevice(Unit)
  <2>1. /\ UNCHANGED <<configVars, busVars, unitVars, faults>>
        /\ \/ Goes(Unit, "opened", "locked") \/ Goes(Unit, "locked", "written")
           \/ Goes(Unit, "written", "inited")
        /\ \A p \in Procs \ {Unit} : loaded'[p] = loaded[p]
    BY <1>1, <1>4 DEF Lock, WritePid, InitBioDevice, DaemonInv, Shape, Lists
  <2>2. busName = None /\ ousted = {}
    BY <1>1, <2>1 DEF Goes, Alone
  <2> QED
    BY <1>1, <2>1, <2>2, UnitMoves
<1>5. CASE InitBioDBusCommServer(Unit)
  <2>1. /\ UNCHANGED <<configVars, loaded, unitVars, faults>>
        /\ Goes(Unit, "inited", "serving") /\ busName' = Unit
        /\ ousted' = IF busName = None THEN ousted ELSE ousted \cup {busName}
    BY <1>5 DEF InitBioDBusCommServer
  <2>2. ousted' = {}
    BY <1>1, <2>1 DEF Goes, Alone
  <2> QED
    BY <1>1, <2>1, <2>2, UnitMoves
<1>6. CASE CloseForEver(Unit)
  <2>1. /\ UNCHANGED <<configVars, loaded, busVars, unitVars, faults>>
        /\ Goes(Unit, "quitting", "closing")
    BY <1>6 DEF CloseForEver
  <2> QED
    BY <1>1, <2>1, UnitMoves DEF Alone
<1>7. CASE BusFails(Unit)
  <2>1. /\ UNCHANGED <<configVars, loaded, unitVars>>
        /\ Goes(Unit, "serving", "quitting") /\ Fault
        /\ UNCHANGED busVars \/ OffTheBus(Unit)
    BY <1>7 DEF BusFails
  <2>2. ousted' = {} /\ busName' \in {None, Unit}
    <3>1. CASE UNCHANGED busVars
      BY <1>1, <3>1 DEF Alone
    <3>2. CASE OffTheBus(Unit)
      <4>1. ousted' = {}
        BY <1>1, <3>2 DEF Alone, OffTheBus
      <4> QED
        BY <1>1, <3>2, <4>1 DEF Alone, OffTheBus
    <3> QED
      BY <2>1, <3>1, <3>2
  <2> QED
    BY <1>1, <2>1, <2>2, UnitMoves
<1>8. CASE NameLost(Unit) \/ Refused(Unit)
  <2>1. ~ NameLost(Unit)
    BY <1>1 DEF Alone, NameLost
  <2>2. ~ Refused(Unit)
    <3>1. \A q \in Procs : at[q] \in {"none", at[Unit]}
      BY <1>1 DEF Alone
    <3> QED
      BY <3>1 DEF Refused, HasLock, PastLock
  <2> QED
    BY <1>8, <2>1, <2>2
<1>9. CASE InitFails(Unit)
  <2>1. ~ SharesMemory(Unit) /\ file.state = "good"
    BY <1>1 DEF Alone, SharesMemory
  <2>2. at[Unit] # "none" /\ Gone(Unit) /\ Fault /\ UNCHANGED <<configVars, unitVars>>
    BY <1>9, <2>1 DEF InitFails
  <2> QED
    BY <1>1, <2>2, UnitGone
<1>10. CASE Leave(Unit) \/ Killed(Unit) \/ Stopped
  <2>1. at[Unit] # "none" /\ Gone(Unit) /\ UNCHANGED <<configVars, unitVars>>
    BY <1>10 DEF Leave, Killed, Stopped
  <2>2. Fault \/ (Ended /\ UNCHANGED faults)
    BY <1>10 DEF Leave, Killed, Stopped, Ended
  <2> QED
    BY <1>1, <2>1, <2>2, UnitGone
<1>11. CASE StartRefused
  <2>1. /\ at[Unit] = "none" /\ starts = StartLimit /\ starts' = StartLimit + 1
        /\ UNCHANGED <<configVars, procVars, busVars, faults>>
    BY <1>11 DEF StartRefused
  <2>2. StartLimit \in Nat /\ faults \in Nat
    BY DaemonAssumption DEF DaemonInv, Shape, Bounds
  <2>3. faults >= StartLimit
    BY <1>1, <2>1, <2>2 DEF Paid, GivenUp, Ended
  <2>4. Alone'
    BY <1>1, <2>1 DEF Alone, configVars
  <2> QED
    BY <2>1, <2>2, <2>3, <2>4 DEF Paid, GivenUp
<1>12. CASE AdminStarts
  <2>1. starts' = 0 /\ UNCHANGED <<configVars, procVars, busVars, faults>>
    BY <1>12 DEF AdminStarts
  <2>2. StartLimit \in Nat /\ faults \in Nat
    BY DaemonAssumption DEF DaemonInv, Shape, Bounds
  <2>3. Alone'
    BY <1>1, <2>1 DEF Alone, configVars
  <2>4. ~ GivenUp' /\ starts' <= faults' /\ starts' <= faults' + 1
    BY <2>1, <2>2 DEF GivenUp
  <2> QED
    BY <2>3, <2>4 DEF Paid
<1>13. CASE Edits \/ RootLogin \/ UNCHANGED vars
  <2>1. file'.state = "good"
    BY <1>1, <1>13 DEF Alone, Edits, RootLogin, vars, configVars, ConfigNext, ToolLoad, ToolSave,
                       ToolEndsUnsaved
  <2> QED
    BY <1>1, <1>13, <2>1, NothingMoves DEF Edits, RootLogin, vars
<1>14. CASE RootLogout
  <2>1. UNCHANGED <<configVars, at, loaded, busVars, unitVars, faults>>
    BY <1>14 DEF RootLogout
  <2> QED
    BY <1>1, <2>1 DEF Alone, Paid, GivenUp, Ended, configVars
<1> QED
  BY <1>2, <1>3, <1>4, <1>5, <1>6, <1>7, <1>8, <1>9, <1>10, <1>11, <1>12, <1>13, <1>14
  DEF Next, Main

(* The unit does not use its starts up by itself: while it is alone with a
   configuration it can read, each start that systemd counts has cost a crash, a
   kill or a failing call, so the limit is met only after as many of them. *)
THEOREM NotGivenUpIdly == Spec => []GivenUpForACause
<1>1. Init => Accounted
  <2> SUFFICES ASSUME Init PROVE Accounted
    OBVIOUS
  <2>1. /\ at = [p \in Procs |-> "none"] /\ loaded = [p \in Procs |-> <<>>]
        /\ busName = None /\ ousted = {} /\ starts = 0 /\ faults = 0
        /\ disturbed = (file.state # "good")
    BY DEF Init
  <2>2. Unit \in Procs /\ StartLimit \in Nat
    BY DaemonAssumption
  <2>3. Alone \/ disturbed
    BY <2>1, <2>2 DEF Alone
  <2>4. ~ GivenUp /\ starts <= faults /\ starts <= faults + 1
    BY <2>1, <2>2 DEF GivenUp
  <2> QED
    BY <2>3, <2>4 DEF Accounted, Paid
<1>2. DaemonInv /\ Accounted /\ [Next]_vars => Accounted'
  BY AccountKept
<1>3. Accounted => GivenUpForACause
  BY DEF Accounted, Paid, GivenUpForACause
<1> QED
  BY <1>1, <1>2, <1>3, AlwaysDaemonInv, PTL DEF Spec
=============================================================================
