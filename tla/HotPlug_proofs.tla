--------------------------- MODULE HotPlug_proofs ---------------------------
(***************************************************************************)
(* What holds of HotPlug for every set of readers, drivers and walkers and  *)
(* any number of readers plugged in or out.                                 *)
(***************************************************************************)
EXTENDS HotPlug, SequenceTheorems, FiniteSetTheorems, WellFoundedInduction, TLAPS

-----------------------------------------------------------------------------
(* Lemmas about sequences.                                                  *)

(* The smallest of a set of numbers is one of them. *)
LEMMA MinIn ==
  ASSUME NEW I, I \subseteq Nat, I # {}
  PROVE  Min(I) \in I /\ \A j \in I : Min(I) <= j
<1>1. PICK i \in I : \A j \in I : ~ <<j, i>> \in OpToRel(<, Nat)
  BY NatLessThanWellFounded, WFMin
<1>2. \A j \in I : ~ j < i
  BY <1>1 DEF OpToRel
<1>3. \A j \in I : i =< j
  BY <1>2
<1> QED
  BY <1>3 DEF Min

(* At most one, and not none. *)
LEMMA OneLeft == \A n \in Nat : n <= 1 /\ n # 0 => n = 1
OBVIOUS

(* What is left of a sequence without one element. *)
LEMMA RemoveAtLeaves ==
  ASSUME NEW S, NEW s \in Seq(S), NEW i \in 1 .. Len(s)
  PROVE  /\ RemoveAt(s, i) \in Seq(S)
         /\ Range(RemoveAt(s, i)) \subseteq Range(s)
         /\ \A j \in 1 .. Len(s) : j # i => s[j] \in Range(RemoveAt(s, i))
         /\ Len(RemoveAt(s, i)) = Len(s) - 1
         /\ \A j \in 1 .. Len(s) - 1 :
              RemoveAt(s, i)[j] = IF j <= i - 1 THEN s[j] ELSE s[j + 1]
<1> DEFINE a == SubSeq(s, 1, i - 1)
           b == SubSeq(s, i + 1, Len(s))
<1>1. /\ a \in Seq(S) /\ Len(a) = i - 1
      /\ \A j \in 1 .. i - 1 : a[j] = s[j]
  BY SubSeqProperties
<1>2. /\ b \in Seq(S) /\ Len(b) = Len(s) - i
      /\ \A j \in 1 .. Len(s) - i : b[j] = s[i + j]
  BY SubSeqProperties
<1>3. /\ RemoveAt(s, i) \in Seq(S) /\ Len(RemoveAt(s, i)) = Len(s) - 1
      /\ \A j \in 1 .. Len(s) - 1 :
           RemoveAt(s, i)[j] = IF j <= i - 1 THEN s[j] ELSE s[j + 1]
  <2>1. RemoveAt(s, i) = a \o b
    BY DEF RemoveAt
  <2> HIDE DEF a, b
  <2>2. /\ a \o b \in Seq(S) /\ Len(a \o b) = Len(a) + Len(b)
        /\ \A j \in 1 .. Len(a) + Len(b) :
             (a \o b)[j] = IF j <= Len(a) THEN a[j] ELSE b[j - Len(a)]
    BY <1>1, <1>2, ConcatProperties
  <2>3. Len(a) + Len(b) = Len(s) - 1
    BY <1>1, <1>2
  <2>4. ASSUME NEW j \in 1 .. Len(s) - 1, j <= i - 1
        PROVE  (a \o b)[j] = s[j]
    BY <1>1, <2>2, <2>3, <2>4
  <2>5. ASSUME NEW j \in 1 .. Len(s) - 1, ~ j <= i - 1
        PROVE  (a \o b)[j] = s[j + 1]
    <3>1. j - Len(a) \in 1 .. Len(s) - i /\ i + (j - Len(a)) = j + 1
      BY <1>1, <2>5
    <3>2. (a \o b)[j] = b[j - Len(a)]
      BY <1>1, <2>2, <2>3, <2>5
    <3> QED
      BY <1>2, <3>1, <3>2
  <2> QED
    BY <2>1, <2>2, <2>3, <2>4, <2>5
<1>4. Range(RemoveAt(s, i)) \subseteq Range(s)
  BY <1>3 DEF Range
<1>5. ASSUME NEW j \in 1 .. Len(s), j # i PROVE s[j] \in Range(RemoveAt(s, i))
  <2>1. CASE j < i
    <3>1. j \in 1 .. Len(s) - 1 /\ RemoveAt(s, i)[j] = s[j]
      BY <1>3, <2>1
    <3> QED
      BY <1>3, <3>1 DEF Range
  <2>2. CASE j > i
    <3>1. j - 1 \in 1 .. Len(s) - 1 /\ RemoveAt(s, i)[j - 1] = s[j]
      BY <1>3, <2>2
    <3> QED
      BY <1>3, <3>1 DEF Range
  <2> QED
    BY <1>5, <2>1, <2>2
<1> QED
  BY <1>3, <1>4, <1>5

(* Removing one element keeps all that differ from it. *)
LEMMA RemoveFirstLeaves ==
  ASSUME NEW S, NEW s \in Seq(S), NEW e
  PROVE  /\ RemoveFirst(s, e) \in Seq(S)
         /\ \A x \in Range(s) : x # e => x \in Range(RemoveFirst(s, e))
         /\ e \in Range(s) =>
              \E k \in 1 .. Len(s) : s[k] = e /\ RemoveFirst(s, e) = RemoveAt(s, k)
<1>1. CASE \E i \in 1 .. Len(s) : s[i] = e
  <2> DEFINE I == { i \in 1 .. Len(s) : s[i] = e }
  <2>0. I \subseteq Nat /\ I # {}
    BY <1>1
  <2>1. Min(I) \in I
    <3> HIDE DEF I
    <3> QED
      BY <2>0, MinIn
  <2>2. RemoveFirst(s, e) = RemoveAt(s, Min(I))
    BY <1>1 DEF RemoveFirst, SelectInSeq
  <2> HIDE DEF I
  <2>3. PICK k \in 1 .. Len(s) : s[k] = e /\ RemoveFirst(s, e) = RemoveAt(s, k)
    BY <2>1, <2>2 DEF I
  <2>4. RemoveAt(s, k) \in Seq(S) /\ \A j \in 1 .. Len(s) : j # k => s[j] \in Range(RemoveAt(s, k))
    BY <2>3, RemoveAtLeaves
  <2>5. \A x \in Range(s) : x # e => x \in Range(RemoveFirst(s, e))
    BY <2>3, <2>4 DEF Range
  <2> QED
    BY <2>3, <2>4, <2>5
<1>2. CASE ~ \E i \in 1 .. Len(s) : s[i] = e
  BY <1>2 DEF RemoveFirst, Range
<1> QED
  BY <1>1, <1>2

(* ... and leaves everything before it where it is. *)
LEMMA RemoveFirstBehind ==
  ASSUME NEW S, NEW s \in Seq(S), NEW e, NEW m \in Nat,
         SelectInSeq(s, LAMBDA x : x = e) \notin 1 .. m
  PROVE  \A j \in 1 .. m : j \in DOMAIN s =>
           j \in DOMAIN RemoveFirst(s, e) /\ RemoveFirst(s, e)[j] = s[j]
<1>1. CASE \E i \in 1 .. Len(s) : s[i] = e
  <2> DEFINE I == { i \in 1 .. Len(s) : s[i] = e }
             k == Min(I)
  <2>0. I \subseteq Nat /\ I # {}
    BY <1>1
  <2>1. k \in I
    <3> HIDE DEF I
    <3> QED
      BY <2>0, MinIn
  <2>2. RemoveFirst(s, e) = RemoveAt(s, k) /\ k \notin 1 .. m
    BY <1>1 DEF RemoveFirst, SelectInSeq
  <2>3. k \in 1 .. Len(s)
    BY <2>1
  <2> HIDE DEF I, k
  <2>4. /\ RemoveAt(s, k) \in Seq(S) /\ Len(RemoveAt(s, k)) = Len(s) - 1
        /\ \A j \in 1 .. Len(s) - 1 : RemoveAt(s, k)[j] = IF j <= k - 1 THEN s[j] ELSE s[j + 1]
    BY <2>3, RemoveAtLeaves
  <2>5. \A j \in 1 .. m : j <= k - 1 /\ j \in 1 .. Len(s) - 1
    BY <2>2, <2>3
  <2> QED
    BY <2>2, <2>4, <2>5
<1>2. CASE ~ \E i \in 1 .. Len(s) : s[i] = e
  BY <1>2 DEF RemoveFirst
<1> QED
  BY <1>1, <1>2

(* Removing the first entry of a driver adds none. *)
LEMMA OneLessLeaves ==
  ASSUME NEW S, NEW s \in Seq(S), NEW d
  PROVE  /\ OneLess(s, d) \in Seq(S)
         /\ Range(OneLess(s, d)) \subseteq Range(s)
         /\ \/ OneLess(s, d) = s
            \/ \E k \in 1 .. Len(s) :
                 /\ OneLess(s, d) = RemoveAt(s, k)
                 /\ s[k].drv = d /\ \A j \in 1 .. k - 1 : s[j].drv # d
         /\ (\E i \in 1 .. Len(s) : s[i].drv = d) => Len(OneLess(s, d)) = Len(s) - 1
<1>1. CASE \E i \in 1 .. Len(s) : s[i].drv = d
  <2> DEFINE I == { i \in 1 .. Len(s) : s[i].drv = d }
  <2>0. I \subseteq Nat /\ I # {}
    BY <1>1
  <2>1. Min(I) \in I /\ \A j \in I : Min(I) <= j
    <3> HIDE DEF I
    <3> QED
      BY <2>0, MinIn
  <2>2. OneLess(s, d) = RemoveAt(s, Min(I))
    BY <1>1 DEF OneLess, RemoveFirstMatch, SelectInSeq
  <2> HIDE DEF I
  <2>3. PICK k \in 1 .. Len(s) :
          OneLess(s, d) = RemoveAt(s, k) /\ k \in I /\ \A j \in I : k <= j
    <3>1. Min(I) \in 1 .. Len(s)
      BY <2>1 DEF I
    <3> QED
      BY <2>1, <2>2, <3>1
  <2>4. s[k].drv = d /\ \A j \in 1 .. k - 1 : s[j].drv # d
    BY <2>3 DEF I
  <2> QED
    BY <2>3, <2>4, RemoveAtLeaves
<1>2. CASE ~ \E i \in 1 .. Len(s) : s[i].drv = d
  BY <1>2 DEF OneLess, RemoveFirstMatch
<1> QED
  BY <1>1, <1>2

(* An ordering of a finite set is a sequence of its elements. *)
LEMMA OrderingIsSeq ==
  ASSUME NEW S, IsFiniteSet(S), NEW s \in SetToSeqs(S)
  PROVE  s \in Seq(S)
<1>1. Cardinality(S) \in Nat
  BY FS_CardinalityType
<1>2. s \in [1 .. Cardinality(S) -> S]
  BY DEF SetToSeqs
<1> QED
  BY <1>1, <1>2

(* The device a search leaves behind is one of those it went through. *)
LEMMA LeftBehindIn ==
  ASSUME NEW devs \in Seq(Readers), NEW d
  PROVE  LeftBehind(devs, d) \in Range(devs) \cup {None}
<1> DEFINE I == { i \in 1 .. Len(devs) : Kind[devs[i]] # d }
<1>1. CASE I # {}
  <2>1. Min(I) \in I
    <3>1. I \subseteq Nat /\ I # {}
      BY <1>1
    <3> HIDE DEF I
    <3> QED
      BY <3>1, MinIn
  <2>2. SelectInSeq(devs, LAMBDA r : Kind[r] # d) = Min(I)
    BY <1>1 DEF SelectInSeq
  <2>3. Min(I) \in 1 .. Len(devs)
    BY <2>1
  <2>4. LeftBehind(devs, d) = devs[Min(I)]
    BY <2>2, <2>3 DEF LeftBehind
  <2> HIDE DEF I
  <2> QED
    BY <2>3, <2>4 DEF Range
<1>2. CASE I = {}
  <2>1. SelectInSeq(devs, LAMBDA r : Kind[r] # d) = 0
    BY <1>2 DEF SelectInSeq
  <2>2. CASE devs = <<>>
    BY <2>1, <2>2 DEF LeftBehind
  <2>3. CASE devs # <<>>
    <3>1. LeftBehind(devs, d) = devs[Len(devs)] /\ Len(devs) \in 1 .. Len(devs)
      BY <2>1, <2>3 DEF LeftBehind
    <3> QED
      BY <3>1 DEF Range
  <2> QED
    BY <2>2, <2>3
<1> QED
  BY <1>1, <1>2

-----------------------------------------------------------------------------
(* Type correctness.                                                        *)

(* The list is empty while the drivers are being loaded, so that a new life of
   the daemon may have other drivers enabled. *)
NotYetListed == phase \in {"init", "loaded", "crashed"} => devList = <<>>

(* The hotplug thread searches for the driver of the event it handles. *)
Searching ==
  search.at # "idle" =>
    phase \in {"listed", "running"} /\ usb # <<>> /\ Asked \in enabled

Typed == TypeOK /\ NotYetListed /\ Searching

(* How a crowd is judged. *)
LEMMA LargerType ==
  ASSUME NEW c \in Crowds, NEW S
  PROVE  Larger(c, S) \in Crowds
BY DEF Larger, Crowds

(* The walks as they are watched keep their type. *)
LEMMA WatchedType ==
  ASSUME Typed, NEW list
  PROVE  Watched(list) \in [Walkers -> {NoWalk} \cup Walks]
<1> SUFFICES ASSUME NEW w \in Walkers PROVE Watched(list)[w] \in {NoWalk} \cup Walks
  BY DEF Watched
<1>1. walk[w] \in {NoWalk} \cup Walks
  BY DEF Typed, TypeOK
<1>2. CASE walk[w].at # "walking"
  BY <1>1, <1>2 DEF Watched
<1>3. CASE walk[w].at = "walking"
  <2>1. walk[w] \in Walks
    BY <1>1, <1>3 DEF NoWalk
  <2>2. Watched(list)[w] =
          [walk[w] EXCEPT !.kept = @ \cap Listed(list),
                          !.cut  = @ \/ walk[w].node \notin { list[i].node : i \in DOMAIN list }]
    BY <1>3 DEF Watched
  <2> QED
    BY <2>1, <2>2 DEF Walks
<1> QED
  BY <1>2, <1>3

(* What a node of the device list is. *)
LEMMA NodeType ==
  ASSUME Typed, NEW i \in DOMAIN devList
  PROVE  devList[i].node \in Nat /\ devList[i].drv \in Drivers
<1>1. devList \in Seq(Nodes) /\ enabled \subseteq Drivers
  BY DEF Typed, TypeOK
<1>2. devList[i] \in Nodes
  BY <1>1
<1> QED
  BY <1>1, <1>2 DEF Nodes

(* The first event stays where it is while others queue up behind it. *)
LEMMA FirstStays ==
  ASSUME usb \in Seq(Events), usb # <<>>, NEW e \in Events, usb' = Append(usb, e)
  PROVE  usb' # <<>> /\ Head(usb') = Head(usb) /\ Tail(usb') = Append(Tail(usb), e)
OBVIOUS

(* The list of a service that has just started is well typed. *)
LEMMA InitTyped == Init => Typed
<1> SUFFICES ASSUME Init PROVE Typed
  OBVIOUS
<1>1. crowd \in Crowds
  BY LargerType DEF Init, Crowds
<1>2. walk \in [Walkers -> {NoWalk} \cup Walks]
  BY DEF Init
<1>3. /\ devices \in Seq(Readers) /\ devList \in Seq(Nodes)
      /\ usb \in Seq(Events) /\ fp \in Seq(Events)
  BY DEF Init
<1>4. changes \in 0 .. MaxChanges
  BY HotPlugAssumption DEF Init
<1> QED
  BY <1>1, <1>2, <1>3, <1>4
  DEF Init, Typed, TypeOK, NotYetListed, Phases, Searching, NoSearch, Searches

(* Every step keeps the types. *)
LEMMA NextTyped == Typed /\ [Next]_vars => Typed'
<1> SUFFICES ASSUME Typed, [Next]_vars PROVE Typed'
  OBVIOUS
<1> USE DEF bus, library, lists, finder
<1>1. ASSUME NEW r \in Readers, Plug(r) \/ Unplug(r) PROVE Typed'
  <2>1. PICK arrived \in BOOLEAN : Notify(r, arrived) /\ plugged' \subseteq Readers
    BY <1>1 DEF Plug, Unplug, Typed, TypeOK
  <2>2. [reader |-> r, arrived |-> arrived] \in Events
    BY DEF Events
  <2>3. usb' \in Seq(Events) /\ fp' \in Seq(Events)
    BY <2>1, <2>2 DEF Notify, Typed, TypeOK
  <2>4. crowd' \in Crowds
    BY <2>1, LargerType DEF Notify, Typed, TypeOK
  <2>5. changes' \in 0 .. MaxChanges
    BY <2>1, HotPlugAssumption DEF Notify, Typed, TypeOK
  <2>6. Searching'
    <3> SUFFICES ASSUME search.at # "idle" PROVE usb' # <<>> /\ Asked' = Asked
      BY <2>1 DEF Notify, Typed, Searching
    <3>1. usb \in Seq(Events) /\ usb # <<>> /\ usb' = Append(usb, [reader |-> r, arrived |-> arrived])
      BY <2>1 DEF Notify, Typed, TypeOK, Searching
    <3> QED
      BY <2>2, <3>1, FirstStays DEF Asked
  <2> QED
    BY <2>1, <2>3, <2>4, <2>5, <2>6 DEF Notify, Typed, TypeOK, NotYetListed, Nodes
<1>2. CASE Load
  <2>1. PICK found \in SetToSeqs(plugged) :
          devices' = found /\ device' = LeftBehind(found, FirstDriver)
    BY <1>2 DEF Load
  <2>2. IsFiniteSet(plugged)
    BY HotPlugAssumption, FS_Subset DEF Typed, TypeOK
  <2>3. found \in Seq(plugged)
    BY <2>2, OrderingIsSeq
  <2>4. found \in Seq(Readers)
    BY <2>3 DEF Typed, TypeOK
  <2>5. device' \in Readers \cup {None}
    BY <2>1, <2>4, LeftBehindIn DEF Range
  <2> QED
    BY <1>2, <2>1, <2>4, <2>5 DEF Load, Typed, TypeOK, NotYetListed, Nodes, Phases, Searching
<1>3. CASE List
  <2> DEFINE found_drivers == { d \in enabled : Discover(d) > 0 }
  <2>1. PICK found \in SetToSeqs(found_drivers) :
          /\ devList' = [i \in DOMAIN found |-> [node |-> i, drv |-> found[i]]]
          /\ fresh' = Len(found) + 1
    BY <1>3 DEF List
  <2>2. IsFiniteSet(found_drivers)
    BY HotPlugAssumption, FS_Subset DEF Typed, TypeOK
  <2> HIDE DEF found_drivers
  <2>3. found \in Seq(found_drivers)
    BY <2>2, OrderingIsSeq
  <2>4. found \in Seq(enabled)
    BY <2>3 DEF found_drivers
  <2>5. devList' \in Seq(Nodes) /\ fresh' \in Nat
    <3>1. DOMAIN found = 1 .. Len(found) /\ Len(found) \in Nat
      BY <2>4
    <3>2. devList' \in [1 .. Len(found) -> Nodes]
      BY <2>1, <2>4, <3>1 DEF Nodes
    <3> QED
      BY <2>1, <3>1, <3>2
  <2> QED
    BY <1>3, <2>5 DEF List, Typed, TypeOK, NotYetListed, Nodes, Phases, Searching
<1>4. CASE RunMainLoop
  BY <1>4 DEF RunMainLoop, Typed, TypeOK, NotYetListed, Nodes, Phases, Searching, Asked
<1>5. ASSUME HandlesEvent, EventDone,
             devList' \in Seq(Nodes), walk' \in [Walkers -> {NoWalk} \cup Walks], fresh' \in Nat
      PROVE  Typed'
  <2>1. usb' \in Seq(Events)
    BY <1>5 DEF HandlesEvent, EventDone, Typed, TypeOK
  <2>2. raced' \in BOOLEAN
    BY <1>5 DEF EventDone, OutOfStep, Typed, TypeOK
  <2>3. search' \in Searches /\ Searching'
    BY <1>5 DEF EventDone, NoSearch, Searches, Searching
  <2> QED
    BY <1>5, <2>1, <2>2, <2>3 DEF HandlesEvent, EventDone, Typed, TypeOK, NotYetListed, Nodes
<1>6. CASE Attach \/ NobodyAsked
  <2> DEFINE list == Append(devList, Node(Asked))
  <2>1. CASE Attach /\ search.n > 0
    <3>1. Attached(Asked) /\ Asked \in enabled
      BY <2>1 DEF Attach, Answered, Typed, Searching
    <3>2. Node(Asked) \in Nodes
      BY <3>1 DEF Node, Nodes, Typed, TypeOK
    <3>3. devList' = list /\ walk' = Watched(list)
      BY <3>1 DEF Attached, Edit
    <3>4. devList' \in Seq(Nodes) /\ fresh' \in Nat
      BY <3>1, <3>2, <3>3 DEF Attached, Typed, TypeOK
    <3> QED
      BY <1>5, <2>1, <3>3, <3>4, WatchedType DEF Attach, Answered
  <2>2. CASE NobodyAsked \/ (Attach /\ ~ search.n > 0)
    BY <1>5, <2>2 DEF Attach, Answered, NobodyAsked, Typed, TypeOK
  <2> QED
    BY <1>6, <2>1, <2>2
<1>7. CASE Detach
  <2> DEFINE left == OneLess(devList, Asked)
  <2>1. CASE search.n <= 0
    <3>1. devList' = left /\ walk' = Watched(left) /\ fresh' = fresh
      BY <1>7, <2>1 DEF Detach, Detached, Edit
    <3>2. left \in Seq(Nodes)
      <4>1. devList \in Seq(Nodes)
        BY DEF Typed, TypeOK
      <4> QED
        BY <4>1, OneLessLeaves
    <3> QED
      BY <1>5, <1>7, <3>1, <3>2, WatchedType DEF Detach, Answered, Typed, TypeOK
  <2>2. CASE ~ search.n <= 0
    BY <1>5, <1>7, <2>2 DEF Detach, Answered, Detached, Typed, TypeOK
  <2> QED
    BY <2>1, <2>2
<1>13. CASE Search
  <2>1. /\ search' \in Searches /\ HandlesEvent /\ Asked \in enabled
        /\ UNCHANGED <<phase, bus, usb, fp, library, enabled, lists, torn>>
    <3>1. search.n \in Nat /\ search.n + 1 \in Nat
      BY DEF Typed, TypeOK, Searches
    <3> QED
      BY <1>13, <3>1 DEF Search, SearchBegins, SearchTests, SearchReads, SearchReadsStale,
                         SearchGoes, Searches, Typed, Searching
  <2>2. raced' \in BOOLEAN
    BY <1>13 DEF Search, SearchBegins, SearchTests, SearchReads, SearchReadsStale, OutOfStep,
                 Typed, TypeOK
  <2> QED
    BY <2>1, <2>2 DEF HandlesEvent, Asked, Searching, Typed, TypeOK, NotYetListed, Nodes
<1>8. CASE LibraryUpdate
  <2> DEFINE r == Head(fp).reader
  <2>1. fp \in Seq(Events) /\ fp # <<>>
    BY <1>8 DEF LibraryUpdate, Typed, TypeOK
  <2>2. Head(fp) \in Events /\ Tail(fp) \in Seq(Events)
    BY <2>1
  <2>3. r \in Readers
    BY <2>2 DEF Events
  <2>4. devices \in Seq(Readers) /\ device \in Readers \cup {None, Dangling}
    BY DEF Typed, TypeOK
  <2>5. RemoveFirst(devices, r) \in Seq(Readers) /\ Append(devices, r) \in Seq(Readers)
    BY <2>3, <2>4, RemoveFirstLeaves
  <2>6. devices' \in {RemoveFirst(devices, r), Append(devices, r)} /\ device' \in {Dangling, device}
    BY <1>8 DEF LibraryUpdate, Removes
  <2>7. devices' \in Seq(Readers) /\ device' \in Readers \cup {None, Dangling}
    BY <2>4, <2>5, <2>6
  <2>8. search' \in Searches /\ (search'.at # "idle" => search.at # "idle") /\ torn' \subseteq Drivers
    <3>1. CASE UNCHANGED finder
      BY <3>1 DEF Typed, TypeOK
    <3>2. CASE Removes(r) /\ TornBy(r)
      <4>1. search \in Searches /\ search.at # "idle"
        BY <3>2 DEF TornBy, Typed, TypeOK
      <4>2. Asked \in Drivers
        BY <4>1 DEF Typed, TypeOK, Searching
      <4>3. search' = [search EXCEPT !.at = IF @ = "read" THEN "stale" ELSE @]
            /\ torn' = torn \cup {Asked}
        BY <3>2 DEF Removes
      <4> QED
        BY <4>1, <4>2, <4>3 DEF Searches, Typed, TypeOK
    <3> QED
      BY <1>8, <3>1, <3>2 DEF LibraryUpdate, Removes
  <2>9. Searching'
    BY <1>8, <2>8 DEF LibraryUpdate, Typed, Searching, Asked
  <2> QED
    BY <1>8, <2>2, <2>7, <2>8, <2>9 DEF LibraryUpdate, Typed, TypeOK, NotYetListed, Nodes
<1>9. ASSUME NEW w \in Walkers, Walker(w) PROVE Typed'
  <2>1. /\ walk' \in [Walkers -> {NoWalk} \cup Walks]
        /\ UNCHANGED <<phase, bus, usb, fp, library, finder, enabled, devList, fresh, raced>>
    <3>1. ASSUME NEW want \in Drivers \cup {All}, WalkBegin(w, want)
          PROVE  walk' \in [Walkers -> {NoWalk} \cup Walks]
      <4>1. 1 \in DOMAIN devList
        BY <3>1 DEF WalkBegin, Typed, TypeOK
      <4>2. devList[1].node \in Nat /\ Listed(devList) \subseteq Drivers
        BY <4>1, NodeType DEF Listed
      <4>3. [at |-> "walking", want |-> want, node |-> devList[1].node, seen |-> {},
             kept |-> Listed(devList), cut |-> FALSE] \in Walks
        BY <4>2 DEF Walks
      <4> QED
        BY <3>1, <4>3 DEF WalkBegin, Typed, TypeOK
    <3>2. ASSUME WalkOn(w) PROVE walk' \in [Walkers -> {NoWalk} \cup Walks]
      <4>1. walk[w] \in Walks
        BY <3>2 DEF WalkOn, Typed, TypeOK, NoWalk
      <4>2. PICK i \in DOMAIN devList, over \in BOOLEAN :
                /\ ~ over => i # Len(devList)
                /\ walk' = [walk EXCEPT ![w].seen = @ \cup {devList[i].drv},
                                        ![w].at = IF over THEN "over" ELSE "walking",
                                        ![w].node = IF over THEN @ ELSE devList[i + 1].node]
        BY <3>2 DEF WalkOn
      <4>3. devList[i].drv \in Drivers
        BY NodeType
      <4>4. ~ over => devList[i + 1].node \in Nat
        <5>1. ~ over => i + 1 \in DOMAIN devList
          BY <4>2 DEF Typed, TypeOK
        <5> QED
          BY <5>1, NodeType
      <4>5. PICK at \in {"walking", "over"}, node \in Nat, seen \in SUBSET Drivers :
              walk' = [walk EXCEPT ![w] = [walk[w] EXCEPT !.seen = seen, !.at = at, !.node = node]]
        <5> DEFINE at == IF over THEN "over" ELSE "walking"
                   node == IF over THEN walk[w].node ELSE devList[i + 1].node
                   seen == walk[w].seen \cup {devList[i].drv}
        <5>1. at \in {"walking", "over"} /\ node \in Nat /\ seen \in SUBSET Drivers
          BY <4>1, <4>3, <4>4 DEF Walks
        <5>2. walk' = [walk EXCEPT ![w] = [walk[w] EXCEPT !.seen = seen, !.at = at, !.node = node]]
          BY <4>1, <4>2 DEF Typed, TypeOK, Walks
        <5> QED
          BY <5>1, <5>2
      <4>6. [walk[w] EXCEPT !.seen = seen, !.at = at, !.node = node] \in Walks
        BY <4>1 DEF Walks
      <4> QED
        BY <4>5, <4>6 DEF Typed, TypeOK
    <3>3. ASSUME WalkOff(w) PROVE walk' \in [Walkers -> {NoWalk} \cup Walks]
      <4>1. walk[w] \in Walks
        BY <3>3 DEF WalkOff, Typed, TypeOK, NoWalk
      <4>2. PICK more \in SUBSET Drivers :
              walk' = [walk EXCEPT ![w].at = "over", ![w].seen = @ \cup more]
        BY <3>3 DEF WalkOff
      <4>3. walk' = [walk EXCEPT ![w] = [walk[w] EXCEPT !.at = "over", !.seen = @ \cup more]]
        BY <4>1, <4>2 DEF Typed, TypeOK, Walks
      <4>4. [walk[w] EXCEPT !.at = "over", !.seen = @ \cup more] \in Walks
        BY <4>1 DEF Walks
      <4> QED
        BY <4>3, <4>4 DEF Typed, TypeOK
    <3> QED
      BY <1>9, <3>1, <3>2, <3>3 DEF Walker, WalkBegin, WalkOn, WalkOff
  <2> QED
    BY <2>1 DEF Typed, TypeOK, NotYetListed, Nodes, Searching, Asked
<1>10. CASE Crash
  <2>1. walk' \in [Walkers -> {NoWalk} \cup Walks]
    BY <1>10 DEF Crash
  <2>2. /\ devices' \in Seq(Readers) /\ devList' \in Seq(Nodes)'
        /\ usb' \in Seq(Events) /\ fp' \in Seq(Events)
    BY <1>10 DEF Crash
  <2> QED
    BY <1>10, <2>1, <2>2
    DEF Crash, Typed, TypeOK, NotYetListed, Phases, Searching, NoSearch, Searches
<1>11. CASE Restart
  <2>1. crowd' \in Crowds
    BY <1>11, LargerType DEF Restart, Crowds
  <2>2. devList' = <<>> /\ enabled' \subseteq Drivers
    BY <1>11 DEF Restart, Typed, NotYetListed
  <2> QED
    BY <1>11, <2>1, <2>2 DEF Restart, Typed, TypeOK, NotYetListed, Phases, Searching
<1>12. CASE UNCHANGED vars
  BY <1>12 DEF vars, Typed, TypeOK, NotYetListed, Nodes, Searching, Asked
<1> QED
  BY <1>1, <1>2, <1>3, <1>4, <1>6, <1>7, <1>8, <1>9, <1>10, <1>11, <1>12, <1>13
  DEF Next, HotplugThread

(* The device list holds enabled drivers only, whatever the hotplug thread and
   libfprint do, and every other variable keeps its type. *)
THEOREM TypeCorrect == Spec => []TypeOK
<1>1. Typed => TypeOK
  BY DEF Typed
<1> QED
  BY <1>1, InitTyped, NextTyped, PTL DEF Spec

-----------------------------------------------------------------------------
(* The device every driver opens.                                           *)

(* The strengthening: a device that is not dangling is one libfprint has, and
   so it decides what device_discover answers to every driver, unless what the
   search has counted is not there any more. *)
DeviceHeld == device \in Readers => device \in Range(devices)

SearchFits ==
  search.at # "idle" /\ Asked \notin torn =>
    /\ search.at # "stale"
    /\ search.at \in {"test", "read"} =>
         \A j \in 1 .. search.n : j \in DOMAIN devices /\ Own(Asked, j)
    /\ search.at = "read" => search.n + 1 \in DOMAIN devices
    /\ search.at = "answered" /\ search.n > 0 /\ device \in Readers => Kind[device] = Asked

Right == DeviceHeld /\ NeverTheWrongReader /\ SearchFits

(* Whoever discovers something has the kind of every device there is. *)
LEMMA DiscoveryFits ==
  ASSUME Typed, DeviceHeld, device \in Readers, NEW d, Discover(d) > 0
  PROVE  Kind[device] = d
<1>1. \A i \in DOMAIN devices : Own(d, i)
  BY DEF Discover
<1> QED
  BY <1>1 DEF DeviceHeld, Range, Own

(* A list none of whose drivers is new, and a device that is the same or none. *)
LEMMA NothingNewListed ==
  ASSUME Right, DeviceHeld', SearchFits', Listed(devList') \subseteq Listed(devList),
         torn \subseteq torn', device' \in Readers => device' = device
  PROVE  Right'
BY DEF Right, NeverTheWrongReader

(* Every step keeps the right device. *)
LEMMA NextRight == Typed /\ Right /\ [Next]_vars => Right'
<1> SUFFICES ASSUME Typed, Right, [Next]_vars PROVE Right'
  OBVIOUS
<1> USE DEF bus, library, lists, finder
<1>1. ASSUME library' = library, Listed(devList') \subseteq Listed(devList), torn' = torn,
             search' = NoSearch \/ (search' = search /\ (search.at # "idle" => Asked' = Asked))
      PROVE  Right'
  <2>1. DeviceHeld'
    BY <1>1 DEF Right, DeviceHeld
  <2>2. SearchFits'
    BY <1>1 DEF Right, SearchFits, NoSearch, Own
  <2> QED
    BY <1>1, <2>1, <2>2, NothingNewListed
<1>2. ASSUME NEW r \in Readers, Plug(r) \/ Unplug(r) PROVE Right'
  <2>1. PICK arrived \in BOOLEAN : Notify(r, arrived)
    BY <1>2 DEF Plug, Unplug
  <2>2. ASSUME search.at # "idle" PROVE Asked' = Asked
    <3>1. /\ usb \in Seq(Events) /\ usb # <<>>
          /\ usb' = Append(usb, [reader |-> r, arrived |-> arrived])
          /\ [reader |-> r, arrived |-> arrived] \in Events
      BY <2>1, <2>2 DEF Notify, Typed, TypeOK, Searching, Events
    <3> QED
      BY <3>1, FirstStays DEF Asked
  <2> QED
    BY <1>1, <2>1, <2>2 DEF Notify
<1>3. CASE Load
  <2>1. PICK found \in SetToSeqs(plugged) :
          devices' = found /\ device' = LeftBehind(found, FirstDriver)
    BY <1>3 DEF Load
  <2>2. IsFiniteSet(plugged) /\ plugged \subseteq Readers
    BY HotPlugAssumption, FS_Subset DEF Typed, TypeOK
  <2>3. found \in Seq(plugged)
    BY <2>2, OrderingIsSeq
  <2>4. found \in Seq(Readers)
    BY <2>2, <2>3
  <2>5. device' \in Range(devices') \cup {None}
    BY <2>1, <2>4, LeftBehindIn
  <2>6. DeviceHeld'
    BY <2>5, HotPlugAssumption DEF DeviceHeld
  <2>7. devList' = <<>>
    BY <1>3 DEF Load, Typed, NotYetListed
  <2>8. SearchFits'
    BY <1>3 DEF Load, Typed, Searching, SearchFits
  <2> QED
    BY <2>6, <2>7, <2>8 DEF Right, NeverTheWrongReader, Listed
<1>4. CASE List
  <2> DEFINE found_drivers == { d \in enabled : Discover(d) > 0 }
  <2>1. PICK found \in SetToSeqs(found_drivers) :
          devList' = [i \in DOMAIN found |-> [node |-> i, drv |-> found[i]]]
    BY <1>4 DEF List
  <2>2. found \in [1 .. Cardinality(found_drivers) -> found_drivers]
    BY DEF SetToSeqs
  <2>3. \A d \in Listed(devList') : Discover(d) > 0
    BY <2>1, <2>2 DEF Listed
  <2>4. UNCHANGED <<devices, device>>
    BY <1>4 DEF List
  <2>5. SearchFits'
    BY <1>4 DEF List, Typed, Searching, SearchFits
  <2> QED
    BY <2>3, <2>4, <2>5, DiscoveryFits DEF Right, DeviceHeld, NeverTheWrongReader
<1>5. CASE RunMainLoop
  BY <1>1, <1>5 DEF RunMainLoop, Asked
<1>6. CASE Attach \/ NobodyAsked
  <2>1. CASE Attach /\ search.n > 0
    <3>1. /\ devList' = Append(devList, Node(Asked)) /\ search.at = "answered"
          /\ UNCHANGED <<devices, device, torn>> /\ search' = NoSearch
      BY <2>1 DEF Attach, Answered, EventDone, Attached, Edit
    <3>2. \A e \in Listed(devList') : e \in Listed(devList) \/ e = Asked
      BY <3>1 DEF Listed, Node, Typed, TypeOK
    <3>3. device \in Readers /\ Asked \notin torn => Kind[device] = Asked
      BY <2>1, <3>1 DEF Right, SearchFits
    <3>4. NeverTheWrongReader'
      BY <3>1, <3>2, <3>3 DEF Right, NeverTheWrongReader
    <3>5. DeviceHeld' /\ SearchFits'
      BY <3>1 DEF Right, DeviceHeld, SearchFits, NoSearch
    <3> QED
      BY <3>4, <3>5 DEF Right
  <2>2. CASE NobodyAsked \/ (Attach /\ ~ search.n > 0)
    BY <1>1, <2>2 DEF Attach, Answered, NobodyAsked, EventDone
  <2> QED
    BY <1>6, <2>1, <2>2
<1>7. CASE Detach
  <2> DEFINE left == OneLess(devList, Asked)
  <2>1. CASE search.n <= 0
    <3>1. devList' = left /\ library' = library /\ search' = NoSearch /\ torn' = torn
      BY <1>7, <2>1 DEF Detach, Answered, EventDone, Detached, Edit
    <3>2. Range(left) \subseteq Range(devList)
      <4>1. devList \in Seq(Nodes)
        BY DEF Typed, TypeOK
      <4> QED
        BY <4>1, OneLessLeaves
    <3>3. Listed(left) \subseteq Listed(devList)
      BY <3>2 DEF Listed, Range
    <3> HIDE DEF left
    <3> QED
      BY <1>1, <3>1, <3>3
  <2>2. CASE ~ search.n <= 0
    BY <1>1, <1>7, <2>2 DEF Detach, Answered, EventDone, Detached
  <2> QED
    BY <2>1, <2>2
<1>13. CASE Search
  <2>1. UNCHANGED <<devices, device, devList, usb, torn>> /\ Asked' = Asked
    BY <1>13 DEF Search, SearchBegins, SearchTests, SearchReads, SearchReadsStale, SearchGoes,
                 Asked
  <2>2. /\ devices \in Seq(Readers) /\ DOMAIN devices = 1 .. Len(devices) /\ Len(devices) \in Nat
        /\ search.n \in Nat
    BY DEF Typed, TypeOK, Searches
  <2>3. SearchFits'
    <3> SUFFICES ASSUME Asked \notin torn
                 PROVE  /\ search'.at # "stale"
                        /\ search'.at \in {"test", "read"} =>
                             \A j \in 1 .. search'.n : j \in DOMAIN devices /\ Own(Asked, j)
                        /\ search'.at = "read" => search'.n + 1 \in DOMAIN devices
                        /\ search'.at = "answered" /\ search'.n > 0 /\ device \in Readers =>
                             Kind[device] = Asked
      BY <2>1 DEF SearchFits, Own
    <3>1. CASE SearchBegins
      BY <3>1 DEF SearchBegins, SearchGoes
    <3>2. CASE SearchTests
      <4>1. /\ search' = [at |-> IF search.n < Len(devices) THEN "read" ELSE "answered",
                          n |-> search.n]
            /\ \A j \in 1 .. search.n : j \in DOMAIN devices /\ Own(Asked, j)
        BY <3>2 DEF SearchTests, SearchGoes, Right, SearchFits
      <4>2. CASE search.n < Len(devices)
        BY <2>2, <4>1, <4>2
      <4>3. CASE ~ search.n < Len(devices)
        <5>1. device \in Readers => \E j \in DOMAIN devices : devices[j] = device
          BY DEF Right, DeviceHeld, Range
        <5>2. \A j \in DOMAIN devices : Own(Asked, j)
          BY <2>2, <4>1, <4>3
        <5> QED
          BY <4>1, <4>3, <5>1, <5>2 DEF Own
      <4> QED
        BY <4>2, <4>3
    <3>3. CASE SearchReads
      <4>1. /\ search' = [at |-> IF Own(Asked, search.n + 1) THEN "test" ELSE "answered",
                          n |-> IF Own(Asked, search.n + 1) THEN search.n + 1 ELSE 0]
            /\ \A j \in 1 .. search.n : j \in DOMAIN devices /\ Own(Asked, j)
            /\ search.n + 1 \in DOMAIN devices
        BY <3>3 DEF SearchReads, SearchGoes, Right, SearchFits
      <4> QED
        BY <2>2, <4>1
    <3>4. CASE SearchReadsStale
      BY <3>4 DEF SearchReadsStale, SearchGoes, Right, SearchFits
    <3> QED
      BY <1>13, <3>1, <3>2, <3>3, <3>4 DEF Search
  <2>4. DeviceHeld'
    BY <2>1 DEF Right, DeviceHeld
  <2> QED
    BY <2>1, <2>3, <2>4, NothingNewListed
<1>8. CASE LibraryUpdate
  <2> DEFINE r == Head(fp).reader
  <2>1. devList' = devList /\ usb' = usb /\ Asked' = Asked
    BY <1>8 DEF LibraryUpdate, Asked
  <2>4. devices \in Seq(Readers) /\ search.n \in Nat
    BY DEF Typed, TypeOK, Searches
  <2>2. CASE Head(fp).arrived
    <3>1. devices' = Append(devices, r) /\ UNCHANGED <<device, search, torn>>
      BY <1>8, <2>2 DEF LibraryUpdate
    <3>2. /\ DOMAIN devices \subseteq DOMAIN devices'
          /\ \A i \in DOMAIN devices : devices'[i] = devices[i]
      <4> HIDE DEF r
      <4> QED
        BY <2>4, <3>1
    <3>3. DeviceHeld'
      BY <3>1, <3>2 DEF Right, DeviceHeld, Range
    <3>4. SearchFits'
      BY <2>1, <3>1, <3>2 DEF Right, SearchFits, Own
    <3> QED
      BY <2>1, <3>1, <3>3, <3>4, NothingNewListed
  <2>3. CASE ~ Head(fp).arrived
    <3>1. /\ devices' = RemoveFirst(devices, r) /\ Removes(r)
          /\ device' = IF device = r THEN Dangling ELSE device
      BY <1>8, <2>3 DEF LibraryUpdate, Removes
    <3>2. \A x \in Range(devices) : x # r => x \in Range(devices')
      BY <2>4, <3>1, RemoveFirstLeaves
    <3>3. device' \in Readers => device' = device /\ device # r
      BY <3>1, HotPlugAssumption
    <3>4. DeviceHeld'
      BY <3>2, <3>3 DEF Right, DeviceHeld
    <3>5. torn \subseteq torn' /\ (TornBy(r) => Asked \in torn') /\ (~ TornBy(r) => search' = search)
      BY <3>1 DEF Removes
    <3>6. ASSUME ~ TornBy(r), NEW m \in Nat, PlaceOf(r) \notin 1 .. m
          PROVE  \A j \in 1 .. m : j \in DOMAIN devices =>
                   j \in DOMAIN devices' /\ devices'[j] = devices[j]
      <4> HIDE DEF r
      <4> QED
        BY <2>4, <3>1, <3>6, RemoveFirstBehind DEF PlaceOf
    <3>7. ASSUME search'.at # "idle", Asked \notin torn'
          PROVE  /\ search'.at # "stale"
                 /\ search'.at \in {"test", "read"} =>
                      \A j \in 1 .. search'.n : j \in DOMAIN devices' /\ Own(Asked, j)'
                 /\ search'.at = "read" => search'.n + 1 \in DOMAIN devices'
                 /\ search'.at = "answered" /\ search'.n > 0 /\ device' \in Readers =>
                      Kind[device'] = Asked
      <4>1. ~ TornBy(r) /\ search' = search /\ Asked \notin torn
        BY <3>5, <3>7
      <4>2. /\ search.at # "stale"
            /\ search.at \in {"test", "read"} =>
                 \A j \in 1 .. search.n : j \in DOMAIN devices /\ Kind[devices[j]] = Asked
            /\ search.at = "read" => search.n + 1 \in DOMAIN devices
            /\ search.at = "answered" /\ search.n > 0 /\ device \in Readers => Kind[device] = Asked
        BY <3>7, <4>1 DEF Right, SearchFits, Own
      <4>3. search.at = "test" =>
              \A j \in 1 .. search.n : j \in DOMAIN devices' /\ Kind[devices'[j]] = Asked
        BY <2>4, <3>6, <4>1, <4>2 DEF TornBy
      <4>4. search.at = "read" =>
              /\ \A j \in 1 .. search.n : j \in DOMAIN devices' /\ Kind[devices'[j]] = Asked
              /\ search.n + 1 \in DOMAIN devices'
        <5> SUFFICES ASSUME search.at = "read"
                     PROVE  \A j \in 1 .. search.n + 1 : /\ j \in DOMAIN devices'
                                                         /\ devices'[j] = devices[j]
          BY <2>4, <4>2
        <5>1. search.n + 1 \in Nat /\ \A j \in 1 .. search.n + 1 : j \in DOMAIN devices
          BY <2>4, <4>2
        <5> QED
          BY <3>6, <4>1, <5>1 DEF TornBy
      <4> QED
        BY <2>1, <3>3, <4>1, <4>2, <4>3, <4>4 DEF Own
    <3>8. SearchFits'
      BY <2>1, <3>7 DEF SearchFits
    <3> QED
      BY <2>1, <3>3, <3>4, <3>5, <3>8, NothingNewListed
  <2> QED
    BY <2>2, <2>3
<1>9. ASSUME NEW w \in Walkers, Walker(w) PROVE Right'
  BY <1>1, <1>9 DEF Walker, WalkBegin, WalkOn, WalkOff, Asked
<1>10. CASE Crash
  BY <1>10, HotPlugAssumption
  DEF Crash, Right, DeviceHeld, NeverTheWrongReader, Listed, SearchFits, NoSearch
<1>11. CASE Restart
  BY <1>1, <1>11 DEF Restart, Asked
<1>12. CASE UNCHANGED vars
  BY <1>1, <1>12 DEF vars, Asked
<1> QED
  BY <1>2, <1>3, <1>4, <1>5, <1>6, <1>7, <1>8, <1>9, <1>10, <1>11, <1>12, <1>13
  DEF Next, HotplugThread

(* No driver is ever listed for a reader of another kind, although all of them
   open the device that the first driver's search left behind and the search
   goes through an array that changes under it: what is added does no harm, and
   only a device taken out that the search had counted may. *)
THEOREM RightReader == Spec => []NeverTheWrongReader
<1>1. Init => Right
  BY HotPlugAssumption
  DEF Init, Right, DeviceHeld, NeverTheWrongReader, Listed, SearchFits, NoSearch
<1>2. Right => NeverTheWrongReader
  BY DEF Right
<1>3. Spec => []Typed
  BY InitTyped, NextTyped, PTL DEF Spec
<1> QED
  BY <1>1, <1>2, <1>3, NextRight, PTL DEF Spec

-----------------------------------------------------------------------------
(* Walks without a lock.                                                    *)

(* Nobody walks before the main loop runs, and nodes are put at the end. *)
NobodyWalks == phase # "running" => \A w \in Walkers : walk[w].at # "walking"

InOrder(list, next) ==
  \A j, k \in DOMAIN list : /\ list[j].node < next
                            /\ j < k => list[j].node < list[k].node

(* The strengthening: what a walk has not seen of what was there all the time
   is at its node or behind it. *)
Ahead(list, node, d) == \E i \in DOMAIN list : list[i].drv = d /\ list[i].node >= node

StillAhead ==
  \A w \in Walkers : walk[w].at = "walking" /\ ~ walk[w].cut =>
    \A d \in walk[w].kept : d \in walk[w].seen \/ Ahead(devList, walk[w].node, d)

Walked == NobodyWalks /\ InOrder(devList, fresh) /\ StillAhead /\ WalkMissesNothing

(* Of a driver that is still listed, the last node is still where it was: what
   a detach takes out is the first. *)
LEMMA OneLessAhead ==
  ASSUME Typed, InOrder(devList, fresh), NEW d
  PROVE  /\ InOrder(OneLess(devList, d), fresh)
         /\ \A e \in Listed(OneLess(devList, d)), node \in Nat :
              Ahead(devList, node, e) => Ahead(OneLess(devList, d), node, e)
<1> DEFINE s == devList
           left == OneLess(devList, d)
<1>1. s \in Seq(Nodes) /\ DOMAIN s = 1 .. Len(s) /\ Len(s) \in Nat
  BY DEF Typed, TypeOK
<1>2. \A j \in DOMAIN s : s[j].node \in Nat
  BY NodeType
<1>3. CASE left = s
  BY <1>3
<1>4. ASSUME NEW k \in 1 .. Len(s), left = RemoveAt(s, k), s[k].drv = d,
             \A j \in 1 .. k - 1 : s[j].drv # d
      PROVE  /\ InOrder(left, fresh)
             /\ \A e \in Listed(left), node \in Nat : Ahead(s, node, e) => Ahead(left, node, e)
  <2> HIDE DEF s, left
  <2>1. /\ DOMAIN left = 1 .. Len(s) - 1
        /\ \A j \in 1 .. Len(s) - 1 : left[j] = IF j <= k - 1 THEN s[j] ELSE s[j + 1]
    <3> DEFINE rest == RemoveAt(s, k)
    <3>1. /\ rest \in Seq(Nodes) /\ Len(rest) = Len(s) - 1
          /\ \A j \in 1 .. Len(s) - 1 : rest[j] = IF j <= k - 1 THEN s[j] ELSE s[j + 1]
      BY <1>1, RemoveAtLeaves
    <3> HIDE DEF rest
    <3>2. DOMAIN rest = 1 .. Len(s) - 1
      BY <3>1
    <3>3. left = rest
      BY <1>4 DEF rest
    <3> QED
      BY <3>1, <3>2, <3>3, Zenon
  <2>2. \A j \in 1 .. Len(s) : j # k => \E i \in DOMAIN left : left[i] = s[j]
    <3> TAKE j \in 1 .. Len(s)
    <3>1. CASE j < k
      BY <1>1, <2>1, <3>1
    <3>2. CASE j > k
      <4>1. j - 1 \in DOMAIN left /\ left[j - 1] = s[j]
        BY <1>1, <2>1, <3>2
      <4> QED
        BY <4>1
    <3> QED
      BY <3>1, <3>2
  <2>3. \A i \in DOMAIN left : \E j \in 1 .. Len(s) : j # k /\ j >= i /\ left[i] = s[j]
    BY <1>1, <2>1
  <2>4. InOrder(s, fresh)
    BY DEF s
  <2>5. InOrder(left, fresh)
    <3> SUFFICES ASSUME NEW i \in DOMAIN left, NEW j \in DOMAIN left
                 PROVE  /\ left[i].node < fresh
                        /\ i < j => left[i].node < left[j].node
      BY DEF InOrder
    <3>1. left[i].node < fresh
      BY <1>1, <2>3, <2>4 DEF InOrder
    <3>2. ASSUME i < j PROVE left[i].node < left[j].node
      <4> DEFINE old(n) == IF n <= k - 1 THEN n ELSE n + 1
      <4>1. /\ old(i) \in DOMAIN s /\ old(j) \in DOMAIN s /\ old(i) < old(j)
            /\ left[i] = s[old(i)] /\ left[j] = s[old(j)]
        BY <1>1, <2>1, <3>2
      <4> HIDE DEF old
      <4> QED
        BY <2>4, <4>1 DEF InOrder
    <3> QED
      BY <3>1, <3>2
  <2>6. ASSUME NEW e \in Listed(left), NEW node \in Nat, Ahead(s, node, e)
        PROVE  Ahead(left, node, e)
    <3>1. PICK i \in DOMAIN s : s[i].drv = e /\ s[i].node >= node
      BY <2>6 DEF Ahead
    <3>2. CASE i # k
      BY <1>1, <2>2, <3>1, <3>2 DEF Ahead
    <3>3. CASE i = k
      <4>1. PICK n \in DOMAIN left : left[n].drv = e
        BY DEF Listed
      <4>2. PICK j \in 1 .. Len(s) : j # k /\ left[n] = s[j]
        BY <2>3, <4>1
      <4>3. j > k
        <5>1. s[j].drv = d
          BY <1>4, <3>1, <3>3, <4>1, <4>2
        <5> QED
          BY <1>1, <1>4, <4>2, <5>1
      <4>4. s[j].node > s[k].node
        BY <1>1, <2>4, <4>3 DEF InOrder
      <4>5. s[j].node \in Nat /\ s[k].node \in Nat
        BY <1>1, <1>2 DEF s
      <4>6. left[n].node >= node
        BY <3>1, <3>3, <4>2, <4>4, <4>5
      <4> QED
        BY <4>1, <4>6 DEF Ahead
    <3> QED
      BY <3>2, <3>3
  <2> QED
    BY <2>5, <2>6
<1>5. \/ left = s
      \/ \E k \in 1 .. Len(s) : /\ left = RemoveAt(s, k)
                                /\ s[k].drv = d /\ \A j \in 1 .. k - 1 : s[j].drv # d
  BY <1>1, OneLessLeaves
<1> HIDE DEF s, left
<1>6. /\ InOrder(left, fresh)
      /\ \A e \in Listed(left), node \in Nat : Ahead(s, node, e) => Ahead(left, node, e)
  BY <1>3, <1>4, <1>5 DEF s
<1> QED
  BY <1>6 DEF s, left

(* A list that was edited so that all it still holds is ahead of whoever it was
   ahead of: every walk sees it yet, or stands on a node that is gone. *)
LEMMA EditKeepsAhead ==
  ASSUME Typed, StillAhead, WalkMissesNothing, NEW list, Edit(list),
         \A d \in Listed(list), node \in Nat :
           Ahead(devList, node, d) => Ahead(list, node, d)
  PROVE  StillAhead' /\ WalkMissesNothing'
<1> DEFINE gone(w) == walk[w].node \notin { list[i].node : i \in DOMAIN list }
<1>1. devList' = list /\ walk' = Watched(list)
  BY DEF Edit
<1>2. ASSUME NEW w \in Walkers, walk[w].at # "walking" PROVE walk'[w] = walk[w]
  BY <1>1, <1>2 DEF Watched
<1>3. ASSUME NEW w \in Walkers, walk[w].at = "walking"
      PROVE  /\ walk'[w].at = "walking" /\ walk'[w].node = walk[w].node
             /\ walk'[w].node \in Nat
             /\ walk'[w].seen = walk[w].seen /\ walk'[w].kept = walk[w].kept \cap Listed(list)
             /\ ~ walk'[w].cut => ~ walk[w].cut
  <2>1. walk[w] \in Walks
    BY <1>3 DEF Typed, TypeOK, NoWalk
  <2>2. walk'[w] = [walk[w] EXCEPT !.kept = @ \cap Listed(list), !.cut = @ \/ gone(w)]
    BY <1>1, <1>3 DEF Watched
  <2>3. walk'[w].cut = (walk[w].cut \/ gone(w))
    BY <2>1, <2>2 DEF Walks
  <2>4. ~ walk'[w].cut => ~ walk[w].cut
    BY <2>3, Zenon
  <2> QED
    BY <1>3, <2>1, <2>2, <2>4 DEF Walks
<1>4. StillAhead'
  <2> SUFFICES ASSUME NEW w \in Walkers, walk'[w].at = "walking", ~ walk'[w].cut,
                      NEW d \in walk'[w].kept, d \notin walk'[w].seen
               PROVE  Ahead(list, walk'[w].node, d)
    BY <1>1 DEF StillAhead, Ahead
  <2>1. walk[w].at = "walking"
    BY <1>2
  <2>2. Ahead(devList, walk[w].node, d)
    BY <1>3, <2>1 DEF StillAhead
  <2> QED
    BY <1>3, <2>1, <2>2
<1>5. WalkMissesNothing'
  BY <1>2, <1>3 DEF WalkMissesNothing
<1> QED
  BY <1>4, <1>5

(* Everybody walks on over the same list. *)
LEMMA WalksStay ==
  ASSUME Walked, UNCHANGED <<phase, devList, fresh, walk>>
  PROVE  Walked'
BY DEF Walked, NobodyWalks, InOrder, StillAhead, Ahead, WalkMissesNothing

(* One walker goes on. *)
LEMMA WalkerKeeps ==
  ASSUME Typed, Walked, NEW w \in Walkers, Walker(w)
  PROVE  Walked'
<1>1. UNCHANGED <<phase, devList, fresh>> /\ \A v \in Walkers : v # w => walk'[v] = walk[v]
  BY DEF Walker, WalkBegin, WalkOn, WalkOff, Typed, TypeOK
<1>2. phase = "running"
  BY DEF Walker, WalkBegin, WalkOn, WalkOff, Walked, NobodyWalks
<1>3. ASSUME walk'[w].at = "walking" /\ ~ walk'[w].cut =>
               \A d \in walk'[w].kept : d \in walk'[w].seen \/ Ahead(devList, walk'[w].node, d),
             walk'[w].at = "over" /\ ~ walk'[w].cut =>
               \A d \in walk'[w].kept : walk'[w].want \in {d, All} => d \in walk'[w].seen
      PROVE  Walked'
  <2>1. NobodyWalks' /\ InOrder(devList, fresh)'
    BY <1>1, <1>2 DEF Walked, NobodyWalks, InOrder
  <2>2. StillAhead'
    BY <1>1, <1>3 DEF Walked, StillAhead, Ahead
  <2>3. WalkMissesNothing'
    BY <1>1, <1>3 DEF Walked, WalkMissesNothing
  <2> QED
    BY <2>1, <2>2, <2>3 DEF Walked
<1>4. ASSUME NEW want \in Drivers \cup {All}, WalkBegin(w, want) PROVE Walked'
  <2>1. walk'[w] = [at |-> "walking", want |-> want, node |-> devList[1].node, seen |-> {},
                    kept |-> Listed(devList), cut |-> FALSE]
    BY <1>4 DEF WalkBegin, Typed, TypeOK
  <2>2. 1 \in DOMAIN devList /\ \A i \in DOMAIN devList : i >= 1
    BY <1>4 DEF WalkBegin, Typed, TypeOK
  <2>3. \A i \in DOMAIN devList : devList[i].node >= devList[1].node
    <3> TAKE i \in DOMAIN devList
    <3>1. i = 1 \/ devList[1].node < devList[i].node
      BY <2>2 DEF Walked, InOrder, Typed, TypeOK
    <3> QED
      BY <2>2, <3>1, NodeType
  <2>4. \A d \in walk'[w].kept : Ahead(devList, walk'[w].node, d)
    BY <2>1, <2>3 DEF Listed, Ahead
  <2> QED
    BY <1>3, <2>1, <2>4
<1>5. ASSUME WalkOn(w) PROVE Walked'
  <2>1. walk[w] \in Walks /\ walk[w].at = "walking"
    BY <1>5 DEF WalkOn, Typed, TypeOK, NoWalk
  <2>2. PICK i \in DOMAIN devList :
          LET d == devList[i].drv
              over == d = walk[w].want \/ i = Len(devList)
          IN /\ devList[i].node = walk[w].node
             /\ walk' = [walk EXCEPT ![w].seen = @ \cup {d},
                                     ![w].at = IF over THEN "over" ELSE "walking",
                                     ![w].node = IF over THEN @ ELSE devList[i + 1].node]
    BY <1>5 DEF WalkOn
  <2> DEFINE over == devList[i].drv = walk[w].want \/ i = Len(devList)
  <2>3. /\ walk'[w].want = walk[w].want /\ walk'[w].kept = walk[w].kept
        /\ walk'[w].cut = walk[w].cut
        /\ walk'[w].seen = walk[w].seen \cup {devList[i].drv}
        /\ over => walk'[w].at = "over"
        /\ ~ over => walk'[w].at = "walking" /\ walk'[w].node = devList[i + 1].node
    BY <2>1, <2>2 DEF Typed, TypeOK, Walks
  <2>4. ~ walk'[w].cut => ~ walk[w].cut
    BY <2>3, Zenon
  <2>5. \A d \in walk[w].kept : ~ walk[w].cut =>
          d \in walk[w].seen \/ \E j \in DOMAIN devList : devList[j].drv = d /\ j >= i
    <3> SUFFICES ASSUME NEW d \in walk[w].kept, ~ walk[w].cut, d \notin walk[w].seen
                 PROVE  \E j \in DOMAIN devList : devList[j].drv = d /\ j >= i
      OBVIOUS
    <3>1. PICK j \in DOMAIN devList : devList[j].drv = d /\ devList[j].node >= devList[i].node
      BY <2>1, <2>2 DEF Walked, StillAhead, Ahead
    <3>2. devList[i].node \in Nat /\ devList[j].node \in Nat /\ i \in Nat /\ j \in Nat
      BY NodeType DEF Typed, TypeOK
    <3>3. ~ j < i
      BY <3>1, <3>2 DEF Walked, InOrder
    <3> QED
      BY <3>1, <3>2, <3>3
  <2>6. CASE over
    <3>1. ASSUME ~ walk'[w].cut, NEW d \in walk'[w].kept, walk'[w].want \in {d, All}
          PROVE  d \in walk'[w].seen
      <4>1. CASE i = Len(devList)
        <5>1. \A j \in DOMAIN devList : j >= i => j = i
          BY <4>1 DEF Typed, TypeOK
        <5> QED
          BY <2>3, <2>4, <2>5, <3>1, <5>1
      <4>2. CASE devList[i].drv = walk[w].want
        <5>1. devList[i].drv # All
          BY NodeType, HotPlugAssumption
        <5> QED
          BY <2>3, <3>1, <4>2, <5>1
      <4> QED
        BY <2>6, <4>1, <4>2
    <3> QED
      BY <1>3, <2>3, <2>6, <3>1
  <2>7. CASE ~ over
    <3>1. ASSUME ~ walk'[w].cut, NEW d \in walk'[w].kept, d \notin walk'[w].seen
          PROVE  Ahead(devList, walk'[w].node, d)
      <4>1. PICK j \in DOMAIN devList : devList[j].drv = d /\ j >= i
        BY <2>3, <2>4, <2>5, <3>1
      <4>2. j # i
        BY <2>3, <3>1, <4>1
      <4>3. i + 1 \in DOMAIN devList /\ (j = i + 1 \/ i + 1 < j)
        BY <4>1, <4>2 DEF Typed, TypeOK
      <4>4. devList[j].node >= devList[i + 1].node
        <5>1. devList[j].node \in Nat /\ devList[i + 1].node \in Nat
          BY <4>3, NodeType
        <5> QED
          BY <4>3, <5>1 DEF Walked, InOrder
      <4> QED
        BY <2>3, <2>7, <4>1, <4>4 DEF Ahead
    <3> QED
      BY <1>3, <2>3, <2>7, <3>1
  <2> QED
    BY <2>6, <2>7
<1>6. ASSUME WalkOff(w) PROVE Walked'
  <2>1. walk[w] \in Walks
    BY <1>6 DEF WalkOff, Typed, TypeOK, NoWalk
  <2>2. walk'[w].at = "over" /\ walk'[w].cut = walk[w].cut
    <3>1. PICK more \in SUBSET Drivers :
             walk' = [walk EXCEPT ![w].at = "over", ![w].seen = @ \cup more]
      BY <1>6 DEF WalkOff
    <3>3. w \in DOMAIN walk
      BY DEF Typed, TypeOK
    <3>2. {"at", "cut"} \subseteq DOMAIN walk[w]
      BY <2>1 DEF Walks
    <3> QED
      BY <3>1, <3>2, <3>3
  <2>3. walk[w].cut
    BY <1>6 DEF WalkOff
  <2>4. walk'[w].cut
    BY <2>2, <2>3, Zenon
  <2> QED
    BY <1>3, <2>2, <2>4
<1> QED
  BY <1>4, <1>5, <1>6 DEF Walker

(* Every step keeps the nodes in order and what a walk has not seen ahead of it. *)
LEMMA NextWalked == Typed /\ Walked /\ [Next]_vars => Walked'
<1> SUFFICES ASSUME Typed, Walked, [Next]_vars PROVE Walked'
  OBVIOUS
<1> USE DEF bus, library, lists, finder
<1>1. ASSUME NEW r \in Readers, Plug(r) \/ Unplug(r) PROVE Walked'
  BY <1>1, WalksStay DEF Plug, Unplug, Notify
<1>2. CASE Load
  BY <1>2 DEF Load, Walked, NobodyWalks, InOrder, StillAhead, Ahead, WalkMissesNothing
<1>3. CASE List
  <2> DEFINE found_drivers == { d \in enabled : Discover(d) > 0 }
  <2>1. PICK found \in SetToSeqs(found_drivers) :
          /\ devList' = [i \in DOMAIN found |-> [node |-> i, drv |-> found[i]]]
          /\ fresh' = Len(found) + 1
    BY <1>3 DEF List
  <2>2. IsFiniteSet(found_drivers)
    BY HotPlugAssumption, FS_Subset DEF Typed, TypeOK
  <2> HIDE DEF found_drivers
  <2>3. DOMAIN found = 1 .. Len(found) /\ Len(found) \in Nat
    BY <2>2, OrderingIsSeq
  <2>4. InOrder(devList, fresh)'
    BY <2>1, <2>3 DEF InOrder
  <2>5. walk' = walk /\ \A w \in Walkers : walk[w].at # "walking"
    BY <1>3 DEF List, Walked, NobodyWalks
  <2> QED
    BY <2>4, <2>5 DEF Walked, NobodyWalks, StillAhead, WalkMissesNothing
<1>4. CASE RunMainLoop
  BY <1>4 DEF RunMainLoop, Walked, NobodyWalks, InOrder, StillAhead, Ahead, WalkMissesNothing
<1>5. CASE Attach \/ NobodyAsked
  <2> DEFINE d == Asked
  <2>1. CASE Attach /\ search.n > 0
    <3> DEFINE list == Append(devList, Node(d))
    <3>1. Edit(list) /\ fresh' = fresh + 1 /\ phase' = phase
      BY <2>1 DEF Attach, Answered, EventDone, Attached
    <3>2. /\ DOMAIN devList = 1 .. Len(devList) /\ Len(devList) \in Nat
          /\ DOMAIN list = 1 .. Len(devList) + 1
          /\ \A i \in 1 .. Len(devList) : list[i] = devList[i]
          /\ list[Len(devList) + 1].node = fresh
      BY DEF Node, Typed, TypeOK
    <3> HIDE DEF d, list
    <3>3. InOrder(list, fresh + 1)
      <4>1. fresh \in Nat /\ \A i \in 1 .. Len(devList) : devList[i].node \in Nat
        BY <3>2, NodeType DEF Typed, TypeOK
      <4> QED
        BY <3>2, <4>1 DEF Walked, InOrder
    <3>4. \A e, node : Ahead(devList, node, e) => Ahead(list, node, e)
      BY <3>2 DEF Ahead
    <3>5. StillAhead' /\ WalkMissesNothing'
      BY <3>1, <3>4, EditKeepsAhead DEF Walked
    <3>6. NobodyWalks'
      BY <3>1 DEF Edit, Watched, Walked, NobodyWalks
    <3>7. InOrder(devList, fresh)'
      BY <3>1, <3>3 DEF Edit, InOrder
    <3> QED
      BY <3>5, <3>6, <3>7 DEF Walked
  <2>2. CASE NobodyAsked \/ (Attach /\ ~ search.n > 0)
    BY <2>2, WalksStay DEF Attach, Answered, NobodyAsked, EventDone
  <2> QED
    BY <1>5, <2>1, <2>2
<1>6. CASE Detach
  <2> DEFINE d == Asked
             left == OneLess(devList, d)
  <2>1. CASE search.n <= 0
    <3>1. Edit(left) /\ fresh' = fresh /\ phase' = phase
      BY <1>6, <2>1 DEF Detach, Answered, EventDone, Detached
    <3>2. /\ InOrder(left, fresh)
          /\ \A e \in Listed(left), node \in Nat : Ahead(devList, node, e) => Ahead(left, node, e)
      BY OneLessAhead DEF Walked
    <3> HIDE DEF d, left
    <3>3. StillAhead' /\ WalkMissesNothing'
      BY <3>1, <3>2, EditKeepsAhead DEF Walked
    <3>4. NobodyWalks'
      BY <3>1 DEF Edit, Watched, Walked, NobodyWalks
    <3>5. InOrder(devList, fresh)'
      BY <3>1, <3>2 DEF Edit, InOrder
    <3> QED
      BY <3>3, <3>4, <3>5 DEF Walked
  <2>2. CASE ~ search.n <= 0
    BY <1>6, <2>2, WalksStay DEF Detach, Answered, EventDone, Detached
  <2> QED
    BY <2>1, <2>2
<1>12. CASE Search
  BY <1>12, WalksStay
  DEF Search, SearchBegins, SearchTests, SearchReads, SearchReadsStale, SearchGoes
<1>7. CASE LibraryUpdate
  BY <1>7, WalksStay DEF LibraryUpdate
<1>8. ASSUME NEW w \in Walkers, Walker(w) PROVE Walked'
  BY <1>8, WalkerKeeps
<1>9. CASE Crash
  BY <1>9 DEF Crash, NoWalk, Walked, NobodyWalks, InOrder, StillAhead, WalkMissesNothing
<1>10. CASE Restart
  BY <1>10 DEF Restart, Walked, NobodyWalks, InOrder, StillAhead, Ahead, WalkMissesNothing
<1>11. CASE UNCHANGED vars
  BY <1>11, WalksStay DEF vars
<1> QED
  BY <1>1, <1>2, <1>3, <1>4, <1>5, <1>6, <1>7, <1>8, <1>9, <1>10, <1>11, <1>12
  DEF Next, HotplugThread

(* A search of the device list, or a listing of it, that goes on without a lock
   while bio_usb_hotplug_callback_attach and _detach edit the list misses no
   device that was listed all the time, unless its own node was freed: entries
   are added at the end, and of several for a device the first is taken out. *)
THEOREM NothingMissed == Spec => []WalkMissesNothing
<1>1. Init => Walked
  BY DEF Init, NoWalk, Walked, NobodyWalks, InOrder, StillAhead, WalkMissesNothing
<1>2. Walked => WalkMissesNothing
  BY DEF Walked
<1>3. Spec => []Typed
  BY InitTyped, NextTyped, PTL DEF Spec
<1> QED
  BY <1>1, <1>2, <1>3, NextWalked, PTL DEF Spec

-----------------------------------------------------------------------------
(* The list and the bus.                                                    *)

(* Two elements of a set that has no more than one are the same. *)
LEMMA AtMostOne ==
  ASSUME NEW S, IsFiniteSet(S), ~ Cardinality(S) > 1, NEW x \in S, NEW y \in S
  PROVE  x = y
<1> SUFFICES ASSUME x # y PROVE FALSE
  OBVIOUS
<1>1. IsFiniteSet({x}) /\ Cardinality({x}) = 1
  BY FS_Singleton
<1>2. Cardinality({x} \cup {y}) = 2
  BY <1>1, FS_AddElement
<1>3. {x} \cup {y} \in SUBSET S
  OBVIOUS
<1>4. Cardinality({x} \cup {y}) <= Cardinality(S) /\ Cardinality(S) \in Nat
  BY <1>3, FS_Subset, FS_CardinalityType
<1> QED
  BY <1>2, <1>4

(* An ordering of a finite set has every element once. *)
LEMMA OrderingIsOnto ==
  ASSUME NEW S, IsFiniteSet(S), NEW s \in SetToSeqs(S)
  PROVE  /\ s \in Seq(S) /\ Range(s) = S
         /\ \A i, j \in DOMAIN s : s[i] = s[j] => i = j
<1> DEFINE n == Cardinality(S)
           D == 1 .. n
<1>1. n \in Nat
  BY FS_CardinalityType
<1>2. s \in [D -> S] /\ \A i, j \in D : i # j => s[i] # s[j]
  BY DEF SetToSeqs
<1>3. IsFiniteSet(D) /\ Cardinality(D) = n
  <2>1. 1 \in Int /\ n \in Int
    BY <1>1
  <2> HIDE DEF n
  <2>2. IsFiniteSet(D) /\ Cardinality(D) = IF 1 > n THEN 0 ELSE n - 1 + 1
    BY <2>1, FS_Interval
  <2> QED
    BY <1>1, <2>2
<1>4. s \in Injection(D, S)
  <2> HIDE DEF D
  <2> QED
    BY <1>2 DEF Injection, IsInjective
<1>5. s \in Surjection(D, S)
  <2> HIDE DEF D
  <2> QED
    BY <1>3, <1>4, FS_Injection DEF n
<1>6. Range(s) = S
  <2> HIDE DEF D
  <2> QED
    BY <1>2, <1>5 DEF Surjection, Range
<1> QED
  BY <1>2, <1>6, OrderingIsSeq

(* What a crowd says of a set of readers. *)
Covers(c, S) ==
  /\ c # "kinds" => \A r, q \in S : Kind[r] = Kind[q]
  /\ c = "one" => \A r, q \in S : r = q

(* One crowd is at least as large as another. *)
Grows(c, d) == (d # "kinds" => c # "kinds") /\ (d = "one" => c = "one")

(* The crowd never shrinks, and covers what it was judged by. *)
LEMMA LargerCovers ==
  ASSUME NEW c \in Crowds, NEW S \in SUBSET Readers
  PROVE  Grows(c, Larger(c, S)) /\ Covers(Larger(c, S), S)
<1>1. IsFiniteSet(S) /\ IsFiniteSet(Kinds(S))
  <2>1. IsFiniteSet(S)
    BY HotPlugAssumption, FS_Subset
  <2> DEFINE f == [r \in S |-> Kind[r]]
  <2>2. f \in Surjection(S, Kinds(S))
    BY DEF Surjection, Kinds
  <2> HIDE DEF f
  <2> QED
    BY <2>1, <2>2, FS_Surjection
<1>2. Grows(c, Larger(c, S))
  BY DEF Grows, Larger, Crowds
<1>3. Larger(c, S) # "kinds" => ~ Cardinality(Kinds(S)) > 1
  BY DEF Larger
<1>4. Larger(c, S) = "one" => ~ Cardinality(S) > 1
  BY DEF Larger
<1>5. ASSUME Larger(c, S) # "kinds", NEW r \in S, NEW q \in S PROVE Kind[r] = Kind[q]
  <2>1. Kind[r] \in Kinds(S) /\ Kind[q] \in Kinds(S)
    BY DEF Kinds
  <2> QED
    BY <1>1, <1>3, <1>5, <2>1, AtMostOne
<1>6. ASSUME Larger(c, S) = "one", NEW r \in S, NEW q \in S PROVE r = q
  BY <1>1, <1>4, <1>6, AtMostOne
<1> QED
  BY <1>2, <1>5, <1>6 DEF Covers

(* A larger crowd covers more. *)
LEMMA CoversMore ==
  ASSUME NEW c, NEW d, Grows(c, d), NEW S, Covers(c, S), NEW T \in SUBSET S
  PROVE  Covers(d, T)
BY DEF Grows, Covers

(* What an event makes of the bus. *)
After(S, e) == IF e.arrived THEN S \cup {e.reader} ELSE S \ {e.reader}

(* The buses between what libfprint has handled and what there is: each event
   that waits leads from one to the next. *)
Between(B, devs, evs, now, c) ==
  /\ B \in [0 .. Len(evs) -> SUBSET Readers]
  /\ B[0] = Range(devs) /\ B[Len(evs)] = now
  /\ \A k \in 1 .. Len(evs) : B[k] = After(B[k - 1], evs[k])
                              /\ (evs[k].arrived <=> evs[k].reader \notin B[k - 1])
  /\ \A k \in 0 .. Len(evs) : Covers(c, B[k])

(* No reader is in the array twice. *)
NoTwice(devs) == \A i, j \in DOMAIN devs : devs[i] = devs[j] => i = j

(* With the events that wait, libfprint will know what is on the bus. *)
Heard(devs, evs, now, c) ==
  /\ devs \in Seq(Readers) /\ NoTwice(devs)
  /\ \E B : Between(B, devs, evs, now, c)

(* libfprint has just looked at the bus. *)
LEMMA HeardAtFirst ==
  ASSUME NEW devs \in Seq(Readers), NoTwice(devs), NEW c, Covers(c, Range(devs))
  PROVE  Heard(devs, <<>>, Range(devs), c)
<1> DEFINE B == [k \in {0} |-> Range(devs)]
<1>1. Len(<<>>) = 0 /\ 0 .. 0 = {0} /\ 1 .. 0 = {}
  OBVIOUS
<1>2. Range(devs) \in SUBSET Readers
  BY DEF Range
<1>3. B \in [{0} -> SUBSET Readers] /\ B[0] = Range(devs)
  BY <1>2
<1> HIDE DEF B
<1>4. Between(B, devs, <<>>, Range(devs), c)
  BY <1>1, <1>3 DEF Between
<1> QED
  BY <1>4 DEF Heard

(* One more event waits. *)
LEMMA HeardMore ==
  ASSUME NEW devs, NEW evs \in Seq(Events), NEW e \in Events, NEW now, NEW c, NEW d,
         Heard(devs, evs, now, c), e.arrived <=> e.reader \notin now,
         Grows(c, d), Covers(d, After(now, e))
  PROVE  Heard(devs, Append(evs, e), After(now, e), d)
<1> DEFINE n == Len(evs)
           more == Append(evs, e)
           next == After(now, e)
<1>1. PICK B : Between(B, devs, evs, now, c)
  BY Zenon DEF Heard
<1>2. n \in Nat /\ Len(more) = n + 1 /\ more[n + 1] = e /\ \A k \in 1 .. n : more[k] = evs[k]
  OBVIOUS
<1>3. /\ B \in [0 .. n -> SUBSET Readers] /\ B[0] = Range(devs) /\ B[n] = now
      /\ \A k \in 1 .. n : B[k] = After(B[k - 1], evs[k])
                           /\ (evs[k].arrived <=> evs[k].reader \notin B[k - 1])
      /\ \A k \in 0 .. n : Covers(c, B[k])
  BY <1>1 DEF Between
<1>4. next \in SUBSET Readers
  BY <1>2, <1>3 DEF After, Events
<1> HIDE DEF n, more, next
<1> DEFINE C == [k \in 0 .. n + 1 |-> IF k <= n THEN B[k] ELSE next]
<1>5. /\ C \in [0 .. n + 1 -> SUBSET Readers]
      /\ \A k \in 0 .. n : C[k] = B[k]
      /\ C[n + 1] = next
  BY <1>2, <1>3, <1>4
<1> HIDE DEF C
<1>6. ASSUME NEW k \in 1 .. n + 1
      PROVE  C[k] = After(C[k - 1], more[k])
             /\ (more[k].arrived <=> more[k].reader \notin C[k - 1])
  <2>1. CASE k \in 1 .. n
    <3>1. k - 1 \in 0 .. n /\ k \in 0 .. n
      BY <1>2, <2>1
    <3>2. C[k] = B[k] /\ C[k - 1] = B[k - 1] /\ more[k] = evs[k]
      BY <1>2, <1>5, <2>1, <3>1
    <3>3. B[k] = After(B[k - 1], evs[k]) /\ (evs[k].arrived <=> evs[k].reader \notin B[k - 1])
      BY <1>3, <2>1
    <3> QED
      BY <3>2, <3>3
  <2>2. CASE k = n + 1
    <3>1. k - 1 = n /\ n \in 0 .. n
      BY <1>2, <2>2
    <3> QED
      BY <1>2, <1>3, <1>5, <2>2, <3>1 DEF next
  <2> QED
    BY <1>2, <2>1, <2>2
<1>7. ASSUME NEW k \in 0 .. n + 1 PROVE Covers(d, C[k])
  <2>1. CASE k \in 0 .. n
    BY <1>3, <1>5, <2>1, CoversMore
  <2>2. CASE k = n + 1
    BY <1>5, <2>2 DEF next
  <2> QED
    BY <1>2, <2>1, <2>2
<1>8. C[0] = Range(devs)
  BY <1>2, <1>3, <1>5
<1>9. Between(C, devs, more, next, d)
  BY <1>2, <1>5, <1>6, <1>7, <1>8 DEF Between
<1>10. Heard(devs, more, next, d)
  BY <1>9, Zenon DEF Heard
<1> QED
  BY <1>10 DEF more, next

(* What libfprint knows of the next event, and of the bus when none waits. *)
LEMMA HeardNow ==
  ASSUME NEW devs, NEW evs \in Seq(Events), NEW now, NEW c, Heard(devs, evs, now, c)
  PROVE  /\ Covers(c, Range(devs))
         /\ evs = <<>> => Range(devs) = now
         /\ evs # <<>> => /\ evs[1].arrived <=> evs[1].reader \notin Range(devs)
                          /\ Covers(c, After(Range(devs), evs[1]))
<1>1. PICK B : Between(B, devs, evs, now, c)
  BY Zenon DEF Heard
<1>2. B[0] = Range(devs) /\ B[Len(evs)] = now /\ Len(evs) \in Nat
  BY <1>1 DEF Between
<1>3. Covers(c, B[0])
  BY <1>1, <1>2 DEF Between
<1>4. CASE evs = <<>>
  BY <1>2, <1>3, <1>4
<1>5. CASE evs # <<>>
  <2>1. 1 \in 1 .. Len(evs) /\ 1 \in 0 .. Len(evs) /\ 1 - 1 = 0
    BY <1>5
  <2>2. /\ B[1] = After(B[0], evs[1])
        /\ (evs[1].arrived <=> evs[1].reader \notin B[0])
        /\ Covers(c, B[1])
    BY <1>1, <2>1 DEF Between
  <2> QED
    BY <1>2, <1>3, <1>5, <2>2
<1> QED
  BY <1>4, <1>5

(* libfprint handles an event. *)
LEMMA HeardNext ==
  ASSUME NEW devs, NEW evs \in Seq(Events), evs # <<>>, NEW now, NEW c,
         Heard(devs, evs, now, c),
         NEW devs2 \in Seq(Readers), NoTwice(devs2), Range(devs2) = After(Range(devs), evs[1])
  PROVE  Heard(devs2, Tail(evs), now, c)
<1> DEFINE n == Len(evs)
           rest == Tail(evs)
<1>1. PICK B : Between(B, devs, evs, now, c)
  BY Zenon DEF Heard
<1>2. n \in Nat /\ n >= 1 /\ Len(rest) = n - 1 /\ \A k \in 1 .. n - 1 : rest[k] = evs[k + 1]
  OBVIOUS
<1>3. /\ B \in [0 .. n -> SUBSET Readers] /\ B[0] = Range(devs) /\ B[n] = now
      /\ \A k \in 1 .. n : B[k] = After(B[k - 1], evs[k])
                           /\ (evs[k].arrived <=> evs[k].reader \notin B[k - 1])
      /\ \A k \in 0 .. n : Covers(c, B[k])
  BY <1>1 DEF Between
<1> HIDE DEF n, rest
<1> DEFINE C == [k \in 0 .. n - 1 |-> B[k + 1]]
<1>4. C \in [0 .. n - 1 -> SUBSET Readers] /\ \A k \in 0 .. n - 1 : C[k] = B[k + 1]
  BY <1>2, <1>3
<1> HIDE DEF C
<1>5. ASSUME NEW k \in 1 .. n - 1
      PROVE  C[k] = After(C[k - 1], rest[k])
             /\ (rest[k].arrived <=> rest[k].reader \notin C[k - 1])
  <2>1. k + 1 \in 1 .. n /\ (k + 1) - 1 = k /\ k \in 0 .. n - 1 /\ k - 1 \in 0 .. n - 1
        /\ (k - 1) + 1 = k
    BY <1>2
  <2>2. C[k] = B[k + 1] /\ C[k - 1] = B[k] /\ rest[k] = evs[k + 1]
    BY <1>2, <1>4, <2>1
  <2>3. B[k + 1] = After(B[k], evs[k + 1]) /\ (evs[k + 1].arrived <=> evs[k + 1].reader \notin B[k])
    BY <1>3, <2>1
  <2> QED
    BY <2>2, <2>3
<1>6. \A k \in 0 .. n - 1 : Covers(c, C[k])
  <2>1. \A k \in 0 .. n - 1 : k + 1 \in 0 .. n
    BY <1>2
  <2> QED
    BY <1>3, <1>4, <2>1
<1>7. C[0] = Range(devs2) /\ C[n - 1] = now
  <2>1. 0 \in 0 .. n - 1 /\ n - 1 \in 0 .. n - 1 /\ (n - 1) + 1 = n /\ 1 \in 1 .. n /\ 0 + 1 = 1
        /\ 1 - 1 = 0
    BY <1>2
  <2>2. C[0] = B[1] /\ C[n - 1] = B[n] /\ B[1] = After(B[0], evs[1])
    BY <1>3, <1>4, <2>1
  <2> QED
    BY <1>3, <2>2
<1>8. Between(C, devs2, rest, now, c)
  BY <1>2, <1>4, <1>5, <1>6, <1>7 DEF Between
<1>9. Heard(devs2, rest, now, c)
  BY <1>8, Zenon DEF Heard
<1> QED
  BY <1>9 DEF rest

(* A queue that is not empty. *)
LEMMA QueueHead ==
  ASSUME NEW S, NEW s \in Seq(S), s # <<>>
  PROVE  /\ Head(s) = s[1] /\ s[1] \in S /\ Len(s) \in Nat \ {0}
         /\ Tail(s) \in Seq(S) /\ Len(Tail(s)) = Len(s) - 1
         /\ Len(s) = 1 => Tail(s) = <<>>
<1>1. Len(s) \in Nat \ {0}
  BY EmptySeq
<1>2. Head(s) = s[1] /\ s[1] \in S
  BY <1>1
<1>3. Tail(s) \in Seq(S) /\ Len(Tail(s)) = Len(s) - 1
  BY HeadTailProperties
<1>4. Len(s) = 1 => Tail(s) = <<>>
  <2>1. Tail(s) # <<>> => Len(Tail(s)) \in Nat \ {0}
    BY <1>3, EmptySeq
  <2> QED
    BY <1>3, <2>1
<1> QED
  BY <1>1, <1>2, <1>3, <1>4

(* The array of libfprint with a reader more. *)
LEMMA OneMoreDevice ==
  ASSUME NEW devs \in Seq(Readers), NoTwice(devs), NEW r \in Readers, r \notin Range(devs)
  PROVE  /\ Append(devs, r) \in Seq(Readers) /\ NoTwice(Append(devs, r))
         /\ Range(Append(devs, r)) = Range(devs) \cup {r}
<1> DEFINE more == Append(devs, r)
           n == Len(devs)
<1>1. /\ n \in Nat /\ more \in Seq(Readers) /\ DOMAIN more = 1 .. n + 1 /\ DOMAIN devs = 1 .. n
      /\ more[n + 1] = r /\ \A i \in 1 .. n : more[i] = devs[i]
  OBVIOUS
<1> HIDE DEF more, n
<1>2. 1 .. n + 1 = (1 .. n) \cup {n + 1}
  BY <1>1
<1>3. Range(more) = Range(devs) \cup {r}
  BY <1>1, <1>2 DEF Range
<1>4. \A i \in 1 .. n : more[i] # r
  BY <1>1 DEF Range
<1>5. NoTwice(more)
  BY <1>1, <1>2, <1>4 DEF NoTwice
<1> QED
  BY <1>1, <1>3, <1>5 DEF more

(* The array of libfprint with a reader less. *)
LEMMA OneLessDevice ==
  ASSUME NEW devs \in Seq(Readers), NoTwice(devs), NEW r \in Range(devs)
  PROVE  /\ RemoveFirst(devs, r) \in Seq(Readers) /\ NoTwice(RemoveFirst(devs, r))
         /\ Range(RemoveFirst(devs, r)) = Range(devs) \ {r}
<1> DEFINE less == RemoveFirst(devs, r)
           n == Len(devs)
<1>1. PICK k \in 1 .. n : devs[k] = r /\ less = RemoveAt(devs, k)
  BY RemoveFirstLeaves
<1>2. /\ less \in Seq(Readers) /\ Len(less) = n - 1
      /\ \A j \in 1 .. n - 1 : less[j] = IF j <= k - 1 THEN devs[j] ELSE devs[j + 1]
      /\ \A j \in 1 .. n : j # k => devs[j] \in Range(less)
  BY <1>1, RemoveAtLeaves
<1>3. n \in Nat /\ DOMAIN devs = 1 .. n /\ DOMAIN less = 1 .. n - 1
  BY <1>2
<1> HIDE DEF less, n
<1> DEFINE from(j) == IF j <= k - 1 THEN j ELSE j + 1
<1>4. \A j \in 1 .. n - 1 : less[j] = devs[from(j)] /\ from(j) \in 1 .. n /\ from(j) # k
  BY <1>2, <1>3
<1>5. \A i, j \in 1 .. n - 1 : from(i) = from(j) => i = j
  BY <1>3
<1>6. \A i, j \in 1 .. n : devs[i] = devs[j] => i = j
  BY <1>3 DEF NoTwice
<1>7. NoTwice(less)
  <2> HIDE DEF from
  <2> QED
    BY <1>3, <1>4, <1>5, <1>6 DEF NoTwice
<1>8. ASSUME NEW x \in Range(less) PROVE x \in Range(devs) \ {r}
  <2>1. PICK j \in 1 .. n - 1 : less[j] = x
    BY <1>3 DEF Range
  <2> HIDE DEF from
  <2> QED
    BY <1>1, <1>3, <1>4, <1>6, <2>1 DEF Range
<1>9. ASSUME NEW x \in Range(devs) \ {r} PROVE x \in Range(less)
  <2>1. PICK j \in 1 .. n : devs[j] = x /\ j # k
    BY <1>1, <1>3 DEF Range
  <2> QED
    BY <1>2, <2>1
<1> QED
  BY <1>2, <1>7, <1>8, <1>9 DEF less

(* The list has the drivers of the readers of S that are enabled, if they are of
   one kind; if there has been one reader at a time, it has nothing but at most
   one entry for a reader of T. *)
Shows(c, on, list, S, T) ==
  /\ c # "kinds" => Kinds(S) \cap on \subseteq Listed(list)
  /\ c = "one" => Listed(list) \subseteq Kinds(T) /\ Len(list) <= 1

(* The hotplug thread is where libfprint is, or one event behind; if it is further
   behind, it will notice that it is out of step when it handles the next. *)
InStep ==
  /\ usb = fp
  /\ phase # "loaded" => Shows(crowd, enabled, devList, Range(devices), Range(devices))

OneBehind ==
  /\ usb # <<>> /\ Tail(usb) = fp
  /\ LET r == usb[1].reader
     IN IF usb[1].arrived
        THEN /\ r \in Range(devices) /\ phase # "loaded"
             /\ Shows(crowd, enabled, devList, Range(devices) \ {r}, Range(devices) \ {r})
        ELSE /\ r \notin Range(devices) /\ Covers(crowd, Range(devices) \cup {r})
             /\ phase # "loaded" => Shows(crowd, enabled, devList, Range(devices), {r})

FarBehind == Len(usb) > Len(fp) + 1

(* What the list shows, as long as nothing was out of step. *)
Together == ~ raced => InStep \/ OneBehind \/ FarBehind

(* Before libfprint has looked at the bus it hears nothing, and what a single
   event takes away is all that has been there besides. *)
Before ==
  /\ Covers(crowd, plugged)
  /\ Len(usb) = 1 /\ ~ usb[1].arrived =>
       usb[1].reader \notin plugged /\ Covers(crowd, plugged \cup {usb[1].reader})

(* The invariant, through the whole life of a daemon. *)
Follows ==
  /\ phase \in {"init", "crashed"} => fp = <<>>
  /\ phase = "crashed" => usb = <<>>
  /\ phase = "init" => Before
  /\ phase \in {"loaded", "listed", "running"} =>
       Heard(devices, fp, plugged, crowd) /\ Together

(* A daemon that has not begun has heard of nothing. *)
LEMMA FollowsStart == Init => Follows
<1> SUFFICES ASSUME Init PROVE Follows
  OBVIOUS
<1>1. phase = "init" /\ fp = <<>> /\ usb = <<>> /\ plugged \in SUBSET Readers
      /\ crowd = Larger("one", plugged)
  BY DEF Init
<1>2. Covers(crowd, plugged)
  BY <1>1, LargerCovers DEF Crowds
<1>3. Before
  BY <1>1, <1>2 DEF Before
<1> QED
  BY <1>1, <1>3 DEF Follows

(* A step that leaves everything the invariant is about. *)
LEMMA NothingFollows ==
  ASSUME Follows,
         UNCHANGED <<plugged, usb, fp, devices, enabled, devList, crowd>>,
         ~ raced' => ~ raced,
         UNCHANGED phase \/ (phase = "listed" /\ phase' = "running")
  PROVE  Follows'
<1>3. ASSUME InStep \/ OneBehind \/ FarBehind PROVE (InStep \/ OneBehind \/ FarBehind)'
  <2>1. /\ phase # "loaded" <=> phase' # "loaded"
        /\ \A S, T : Shows(crowd, enabled, devList, S, T)' <=> Shows(crowd, enabled, devList, S, T)
    BY DEF Shows
  <2>2. CASE InStep
    BY <2>1, <2>2 DEF InStep
  <2>3. CASE OneBehind
    BY <2>1, <2>3 DEF OneBehind
  <2>4. CASE FarBehind
    BY <2>4 DEF FarBehind
  <2> QED
    BY <1>3, <2>2, <2>3, <2>4
<1>1. CASE UNCHANGED phase
  <2>1. phase \in {"loaded", "listed", "running"} => Together'
    BY <1>3, Zenon DEF Follows, Together
  <2> QED
    BY <1>1, <2>1 DEF Follows, Before
<1>2. CASE phase = "listed" /\ phase' = "running"
  <2>1. Heard(devices, fp, plugged, crowd)
    BY <1>2 DEF Follows
  <2>2. Heard(devices', fp', plugged', crowd')
    BY <2>1
  <2>3. Together'
    <3>1. Together
      BY <1>2 DEF Follows
    <3> QED
      BY <1>3, <3>1, Zenon DEF Together
  <2> QED
    BY <1>2, <2>2, <2>3 DEF Follows
<1> QED
  BY <1>1, <1>2

(* A reader comes or goes, and both hear of it. *)
LEMMA NotifyFollows ==
  ASSUME Typed, Follows, NEW r \in Readers, Plug(r) \/ Unplug(r)
  PROVE  Follows'
<1> USE DEF bus, library, lists, finder
<1>1. PICK arrived \in BOOLEAN :
        /\ arrived <=> r \notin plugged
        /\ plugged' = IF arrived THEN plugged \cup {r} ELSE plugged \ {r}
        /\ Notify(r, arrived)
  <2>1. CASE Plug(r)
    BY <2>1 DEF Plug
  <2>2. CASE Unplug(r)
    BY <2>2 DEF Unplug
  <2> QED
    BY <2>1, <2>2
<1> DEFINE e == [reader |-> r, arrived |-> arrived]
<1>2. /\ usb' = IF phase # "crashed" THEN Append(usb, e) ELSE usb
      /\ fp'  = IF phase \notin {"init", "crashed"} THEN Append(fp, e) ELSE fp
      /\ crowd' = Larger(crowd, plugged')
      /\ UNCHANGED <<phase, devices, enabled, devList, raced>>
  BY <1>1 DEF Notify
<1>3. e \in Events /\ e.reader = r /\ e.arrived = arrived
  BY DEF Events
<1> HIDE DEF e
<1>4. plugged' = After(plugged, e) /\ (e.arrived <=> e.reader \notin plugged)
  BY <1>1, <1>3 DEF After
<1>5. Grows(crowd, crowd') /\ Covers(crowd', plugged')
  <2>1. crowd \in Crowds /\ plugged \in SUBSET Readers /\ plugged' \in SUBSET Readers
    BY <1>1 DEF Typed, TypeOK
  <2> QED
    BY <1>2, <2>1, LargerCovers
<1>6. usb \in Seq(Events) /\ fp \in Seq(Events)
  BY DEF Typed, TypeOK
<1>7. CASE phase = "crashed"
  BY <1>2, <1>7 DEF Follows
<1>8. CASE phase = "init"
  <2>1. usb' = Append(usb, e) /\ fp' = <<>> /\ phase' = "init"
    BY <1>2, <1>8 DEF Follows
  <2>2. ASSUME Len(usb') = 1, ~ usb'[1].arrived
        PROVE  usb'[1].reader \notin plugged' /\ Covers(crowd', plugged' \cup {usb'[1].reader})
    <3>1. usb'[1] = e
      BY <1>6, <2>1, <2>2
    <3>2. ~ e.arrived
      BY <2>2, <3>1
    <3>3. r \in plugged /\ plugged' = plugged \ {r}
      BY <1>3, <1>4, <3>2 DEF After
    <3>4. Covers(crowd', plugged)
      <4>1. Covers(crowd, plugged)
        BY <1>8 DEF Follows, Before
      <4> QED
        BY <1>5, <4>1, CoversMore
    <3>5. plugged' \cup {r} = plugged
      BY <3>3
    <3> QED
      BY <1>3, <3>1, <3>3, <3>4, <3>5
  <2>3. Before'
    BY <1>5, <2>2 DEF Before
  <2> QED
    BY <2>1, <2>3 DEF Follows
<1>9. CASE phase \in {"loaded", "listed", "running"}
  <2>1. usb' = Append(usb, e) /\ fp' = Append(fp, e) /\ phase' = phase
    BY <1>2, <1>9
  <2>2. Heard(devices', fp', plugged', crowd')
    <3>1. Heard(devices, fp, plugged, crowd)
      BY <1>9 DEF Follows
    <3>2. Heard(devices, Append(fp, e), After(plugged, e), crowd')
      BY <1>3, <1>4, <1>5, <1>6, <3>1, HeardMore
    <3> QED
      BY <1>2, <1>4, <2>1, <3>2
  <2>3. \A S, T : Shows(crowd, enabled, devList, S, T) => Shows(crowd, enabled, devList, S, T)'
    BY <1>2, <1>5 DEF Shows, Grows
  <2>4. \A S : Covers(crowd, S) => Covers(crowd', S)
    BY <1>5, CoversMore
  <2>5. Together'
    <3> SUFFICES ASSUME ~ raced' PROVE (InStep \/ OneBehind \/ FarBehind)'
      BY Zenon DEF Together
    <3>1. InStep \/ OneBehind \/ FarBehind
      BY <1>2, <1>9, Zenon DEF Follows, Together
    <3>2. CASE InStep
      BY <1>2, <2>1, <2>3, <3>2 DEF InStep
    <3>3. CASE OneBehind
      <4>1. usb' # <<>> /\ Tail(usb') = fp' /\ usb'[1] = usb[1]
        BY <1>6, <2>1, <3>3 DEF OneBehind
      <4> QED
        BY <1>2, <2>1, <2>3, <2>4, <3>3, <4>1 DEF OneBehind
    <3>4. CASE FarBehind
      BY <1>6, <2>1, <3>4 DEF FarBehind
    <3> QED
      BY <3>1, <3>2, <3>3, <3>4
  <2> QED
    BY <2>1, <2>2, <2>5, <1>9 DEF Follows
<1> QED
  BY <1>7, <1>8, <1>9 DEF Typed, TypeOK, Phases

(* libfprint looks at the bus; what was taken away since bio_init has still to be
   handled by the hotplug thread. *)
LEMMA LoadFollows ==
  ASSUME Typed, Follows, Load
  PROVE  Follows'
<1> USE DEF bus, library, lists, finder
<1>1. /\ phase = "init" /\ phase' = "loaded"
      /\ raced' = \E i \in DOMAIN usb : usb[i].arrived
      /\ UNCHANGED <<plugged, crowd, usb, fp, enabled, devList>>
      /\ devices' \in SetToSeqs(plugged)
  BY DEF Load
<1>2. IsFiniteSet(plugged) /\ plugged \in SUBSET Readers
  BY HotPlugAssumption, FS_Subset DEF Typed, TypeOK
<1>3. devices' \in Seq(plugged) /\ Range(devices') = plugged /\ NoTwice(devices')
  BY <1>1, <1>2, OrderingIsOnto DEF NoTwice
<1>4. devices' \in Seq(Readers)
  BY <1>2, <1>3
<1>5. fp = <<>> /\ Before
  BY <1>1 DEF Follows
<1>6. Heard(devices', fp', plugged', crowd')
  <2>1. Covers(crowd, Range(devices'))
    BY <1>3, <1>5 DEF Before
  <2>2. Heard(devices', <<>>, Range(devices'), crowd)
    BY <1>3, <1>4, <2>1, HeardAtFirst
  <2> QED
    BY <1>1, <1>3, <1>5, <2>2
<1>7. Together'
  <2> SUFFICES ASSUME ~ raced' PROVE (InStep \/ OneBehind \/ FarBehind)'
    BY Zenon DEF Together
  <2>1. \A i \in DOMAIN usb : ~ usb[i].arrived
    BY <1>1, Zenon
  <2>2. usb \in Seq(Events) /\ Len(usb) \in Nat
    BY DEF Typed, TypeOK
  <2>3. CASE Len(usb) = 0
    BY <1>1, <1>5, <2>2, <2>3 DEF InStep
  <2>4. CASE Len(usb) = 1
    <3>1. ~ usb[1].arrived /\ usb # <<>>
      <4>1. 1 \in DOMAIN usb
        BY <2>2, <2>4
      <4>2. usb # <<>>
        BY <4>1
      <4> QED
        BY <2>1, <4>1, <4>2, Zenon
    <3>4. Tail(usb) = <<>>
      BY <2>2, <2>4, <3>1, QueueHead
    <3>2. usb[1].reader \notin plugged /\ Covers(crowd, plugged \cup {usb[1].reader})
      BY <1>5, <2>4, <3>1 DEF Before
    <3>3. usb' = usb /\ phase' = "loaded" /\ crowd' = crowd /\ fp' = <<>>
      BY <1>1, <1>5
    <3> QED
      BY <1>3, <3>1, <3>2, <3>3, <3>4 DEF OneBehind
  <2>5. CASE Len(usb) > 1
    BY <1>1, <1>5, <2>5 DEF FarBehind
  <2>6. Len(usb) = 0 \/ Len(usb) = 1 \/ Len(usb) > 1
    <3>1. \A n \in Nat : n = 0 \/ n = 1 \/ n > 1
      OBVIOUS
    <3> QED
      BY <2>2, <3>1, Zenon
  <2> QED
    BY <2>3, <2>4, <2>5, <2>6, Zenon
<1> QED
  BY <1>1, <1>6, <1>7 DEF Follows

(* What is discovered while all readers are of one kind. *)
LEMMA DiscoverAll ==
  ASSUME NEW c, Covers(c, Range(devices)), devices \in Seq(Readers), NEW d
  PROVE  /\ Discover(d) > 0 => d \in Kinds(Range(devices))
         /\ c # "kinds" /\ d \in Kinds(Range(devices)) => Discover(d) > 0
         /\ Discover(d) <= 0 <=> ~ Discover(d) > 0
         /\ Range(devices) = {} => ~ Discover(d) > 0
<1>1. Len(devices) \in Nat /\ DOMAIN devices = 1 .. Len(devices)
  OBVIOUS
<1>2. \A i \in DOMAIN devices : devices[i] \in Range(devices)
  BY DEF Range
<1>3. Discover(d) \in Nat
  BY <1>1 DEF Discover
<1>4. ASSUME Discover(d) > 0 PROVE d \in Kinds(Range(devices)) /\ Range(devices) # {}
  <2>1. Len(devices) > 0 /\ \A i \in DOMAIN devices : Own(d, i)
    BY <1>4 DEF Discover
  <2>2. 1 \in DOMAIN devices /\ Kind[devices[1]] = d
    BY <1>1, <2>1 DEF Own
  <2> QED
    BY <1>2, <2>2 DEF Kinds
<1>5. ASSUME c # "kinds", d \in Kinds(Range(devices)) PROVE Discover(d) > 0
  <2>1. PICK r \in Range(devices) : Kind[r] = d
    BY <1>5 DEF Kinds
  <2>2. \A i \in DOMAIN devices : Own(d, i)
    BY <1>2, <1>5, <2>1 DEF Covers, Own
  <2>3. DOMAIN devices # {}
    BY <2>1 DEF Range
  <2> QED
    BY <1>1, <2>2, <2>3 DEF Discover
<1> QED
  BY <1>3, <1>4, <1>5

(* bio_device_list_init lists what is discovered. *)
LEMMA ListFollows ==
  ASSUME Typed, Follows, List
  PROVE  Follows'
<1> USE DEF bus, library, lists, finder
<1> DEFINE found_drivers == { d \in enabled : Discover(d) > 0 }
<1>1. /\ phase = "loaded" /\ phase' = "listed"
      /\ UNCHANGED <<plugged, crowd, usb, fp, enabled, devices, raced>>
  BY DEF List
<1>2. PICK found \in SetToSeqs(found_drivers) :
        devList' = [i \in DOMAIN found |-> [node |-> i, drv |-> found[i]]]
  BY DEF List
<1>3. IsFiniteSet(found_drivers)
  <2>1. IsFiniteSet(Drivers) /\ found_drivers \in SUBSET Drivers
    BY HotPlugAssumption DEF Typed, TypeOK
  <2> HIDE DEF found_drivers
  <2> QED
    BY <2>1, FS_Subset
<1>4. /\ found \in Seq(found_drivers) /\ Range(found) = found_drivers
      /\ \A i, j \in DOMAIN found : found[i] = found[j] => i = j
  <2> HIDE DEF found_drivers
  <2> QED
    BY <1>3, OrderingIsOnto
<1>5. /\ DOMAIN devList' = DOMAIN found /\ Len(devList') = Len(found) /\ Len(found) \in Nat
      /\ DOMAIN found = 1 .. Len(found)
      /\ \A i \in DOMAIN found : devList'[i].drv = found[i]
  <2> HIDE DEF found_drivers
  <2>1. Len(found) \in Nat /\ DOMAIN found = 1 .. Len(found)
    BY <1>4
  <2>2. DOMAIN devList' = 1 .. Len(found) /\ Len(devList') = Len(found)
    BY <1>2, <2>1
  <2> QED
    BY <1>2, <2>1, <2>2
<1>6. Listed(devList') = found_drivers
  <2> HIDE DEF found_drivers
  <2> QED
    BY <1>4, <1>5 DEF Listed, Range
<1> HIDE DEF found_drivers
<1>7. Heard(devices, fp, plugged, crowd) /\ Together
  BY <1>1 DEF Follows
<1>8. Covers(crowd, Range(devices)) /\ devices \in Seq(Readers)
  <2>1. fp \in Seq(Events) /\ devices \in Seq(Readers)
    BY DEF Typed, TypeOK
  <2> QED
    BY <1>7, <2>1, HeardNow
<1>9. crowd # "kinds" => Kinds(Range(devices)) \cap enabled \subseteq Listed(devList')
  BY <1>6, <1>8, DiscoverAll DEF found_drivers
<1>10. Listed(devList') \subseteq Kinds(Range(devices))
  BY <1>6, <1>8, DiscoverAll DEF found_drivers
<1>11. ASSUME crowd = "one" PROVE Len(devList') <= 1
  <2> SUFFICES ASSUME Len(found) > 1 PROVE FALSE
    BY <1>5
  <2>1. 1 \in DOMAIN found /\ 2 \in DOMAIN found
    BY <1>5
  <2>2. found[1] \in found_drivers /\ found[2] \in found_drivers
    BY <1>4, <2>1 DEF Range
  <2>3. found[1] \in Kinds(Range(devices)) /\ found[2] \in Kinds(Range(devices))
    BY <1>6, <1>10, <2>2
  <2>4. found[1] = found[2]
    BY <1>8, <1>11, <2>3 DEF Covers, Kinds
  <2> QED
    BY <1>4, <2>1, <2>4
<1>12. Shows(crowd, enabled, devList, Range(devices), Range(devices))'
  BY <1>1, <1>9, <1>10, <1>11 DEF Shows
<1>13. Together'
  <2> SUFFICES ASSUME ~ raced' PROVE (InStep \/ OneBehind \/ FarBehind)'
    BY Zenon DEF Together
  <2>1. InStep \/ OneBehind \/ FarBehind
    BY <1>1, <1>7, Zenon DEF Together
  <2>2. CASE InStep
    BY <1>1, <1>12, <2>2 DEF InStep
  <2>3. CASE OneBehind
    <3> DEFINE r == usb[1].reader
    <3>1. usb # <<>> /\ Tail(usb) = fp /\ ~ usb[1].arrived
          /\ r \notin Range(devices) /\ Covers(crowd, Range(devices) \cup {r})
      BY <1>1, <2>3 DEF OneBehind
    <3>2. crowd = "one" => Range(devices) = {}
      BY <3>1 DEF Covers
    <3>3. crowd = "one" => Listed(devList') = {}
      BY <1>10, <3>2 DEF Kinds
    <3>4. Shows(crowd, enabled, devList, Range(devices), {r})'
      BY <1>1, <1>9, <1>11, <3>3 DEF Shows
    <3> QED
      BY <1>1, <3>1, <3>4 DEF OneBehind
  <2>4. CASE FarBehind
    BY <1>1, <2>4 DEF FarBehind
  <2> QED
    BY <2>1, <2>2, <2>3, <2>4
<1> QED
  BY <1>1, <1>7, <1>13 DEF Follows

(* An event is handled: unless it is out of step, it was the one libfprint had
   handled last. *)
LEMMA EventInTurn ==
  ASSUME Typed, Follows, HandlesEvent, EventDone, ~ raced'
  PROVE  OneBehind /\ ~ raced /\ usb' = fp /\ fp = Tail(usb) /\ phase # "loaded" /\ ~ FarBehind
<1>1. phase \in {"listed", "running"} /\ usb # <<>> /\ usb' = Tail(usb)
  BY DEF HandlesEvent, EventDone
<1>2. ~ raced /\ fp = Tail(usb)
  BY Zenon DEF EventDone, OutOfStep
<1>3. InStep \/ OneBehind \/ FarBehind
  BY <1>1, <1>2, Zenon DEF Follows, Together
<1>4. usb \in Seq(Events) /\ Len(usb) \in Nat /\ Len(Tail(usb)) = Len(usb) - 1
  BY <1>1 DEF Typed, TypeOK
<1>5. ~ InStep
  BY <1>2, <1>4 DEF InStep
<1>6. ~ FarBehind
  BY <1>2, <1>4 DEF FarBehind
<1>7. OneBehind
  BY <1>3, <1>5, <1>6
<1> QED
  BY <1>1, <1>2, <1>6, <1>7, Zenon

(* What an event does to the list is enough. *)
LEMMA EventFollows ==
  ASSUME Typed, Follows, HandlesEvent, EventDone,
         ~ raced' => Shows(crowd, enabled, devList', Range(devices), Range(devices))
  PROVE  Follows'
<1> USE DEF bus, library, lists, finder
<1>1. /\ phase \in {"listed", "running"}
      /\ UNCHANGED <<phase, plugged, crowd, fp, devices, enabled>>
  BY DEF HandlesEvent, EventDone
<1>2. Heard(devices, fp, plugged, crowd)
  BY <1>1 DEF Follows
<1>3. Heard(devices', fp', plugged', crowd')
  BY <1>1, <1>2
<1>4. ASSUME ~ raced' PROVE InStep'
  <2>1. usb' = fp
    BY <1>4, EventInTurn
  <2>2. Shows(crowd, enabled, devList, Range(devices), Range(devices))'
    BY <1>1, <1>4 DEF Shows
  <2> QED
    BY <1>1, <2>1, <2>2 DEF InStep
<1>5. Together'
  BY <1>4, Zenon DEF Together
<1> QED
  BY <1>1, <1>3, <1>5 DEF Follows

(* The list with an entry more. *)
LEMMA ListedMore ==
  ASSUME devList \in Seq(Nodes), NEW n
  PROVE  /\ Listed(Append(devList, n)) = Listed(devList) \cup {n.drv}
         /\ Len(Append(devList, n)) = Len(devList) + 1
<1> DEFINE more == Append(devList, n)
           l == Len(devList)
<1>1. /\ l \in Nat /\ DOMAIN devList = 1 .. l /\ DOMAIN more = 1 .. l + 1 /\ Len(more) = l + 1
      /\ more[l + 1] = n /\ \A i \in 1 .. l : more[i] = devList[i]
  OBVIOUS
<1> HIDE DEF more, l
<1>2. 1 .. l + 1 = (1 .. l) \cup {l + 1}
  BY <1>1
<1>3. Listed(more) = Listed(devList) \cup {n.drv}
  BY <1>1, <1>2 DEF Listed
<1> QED
  BY <1>1, <1>3 DEF more, l

(* Nothing is listed exactly if the list is empty. *)
LEMMA ListedNone ==
  ASSUME devList \in Seq(Nodes)
  PROVE  /\ Len(devList) \in Nat /\ (Listed(devList) = {} <=> devList = <<>>)
         /\ Listed(devList) \subseteq enabled
<1>1. /\ Len(devList) \in Nat /\ DOMAIN devList = 1 .. Len(devList)
      /\ devList # <<>> => Len(devList) \in Nat \ {0}
      /\ \A i \in 1 .. Len(devList) : devList[i] \in Nodes
  BY EmptySeq, ElementOfSeq
<1>2. \A i \in 1 .. Len(devList) : devList[i].drv \in enabled
  BY <1>1 DEF Nodes
<1>3. ASSUME devList # <<>> PROVE Listed(devList) # {}
  <2>1. 1 \in DOMAIN devList
    BY <1>1, <1>3
  <2> QED
    BY <2>1 DEF Listed
<1>4. Listed(<<>>) = {}
  BY DEF Listed
<1> QED
  BY <1>1, <1>2, <1>3, <1>4 DEF Listed

(* A reader has come, and its driver is added if it discovers a device. *)
LEMMA ArrivalFollows ==
  ASSUME Typed, Follows, HandlesEvent, EventDone, Head(usb).arrived,
         ~ raced' => devList' = IF Asked \in enabled /\ Discover(Asked) > 0
                                THEN Append(devList, Node(Asked)) ELSE devList
  PROVE  Follows'
<1> USE DEF bus, library, lists, finder
<1> DEFINE r == usb[1].reader
           d == Kind[r]
<1>0. Head(usb) = usb[1] /\ Asked = d
  BY QueueHead DEF HandlesEvent, Typed, TypeOK, Asked
<1> SUFFICES ASSUME ~ raced' PROVE Shows(crowd, enabled, devList', Range(devices), Range(devices))
  BY EventFollows
<1>2. devList' = IF d \in enabled /\ Discover(d) > 0 THEN Append(devList, Node(d)) ELSE devList
  BY <1>0
<1>3. devices \in Seq(Readers) /\ devList \in Seq(Nodes) /\ fp \in Seq(Events)
  BY DEF Typed, TypeOK
<1>4. OneBehind /\ usb[1].arrived /\ phase # "loaded"
  BY <1>0, EventInTurn
<1>5. r \in Range(devices)
      /\ Shows(crowd, enabled, devList, Range(devices) \ {r}, Range(devices) \ {r})
  BY <1>4 DEF OneBehind
<1>6. Covers(crowd, Range(devices))
  <2>1. Heard(devices, fp, plugged, crowd)
    BY DEF Follows, HandlesEvent
  <2> QED
    BY <1>3, <2>1, HeardNow
<1>7. d \in Kinds(Range(devices))
  BY <1>5 DEF Kinds
<1>8. crowd # "kinds" => Discover(d) > 0
  BY <1>3, <1>6, <1>7, DiscoverAll
<1>9. crowd # "kinds" => Kinds(Range(devices)) = {d}
  BY <1>5, <1>6, <1>7 DEF Covers, Kinds
<1>10. crowd = "one" => devList = <<>>
  <2>1. crowd = "one" => Range(devices) \ {r} = {}
    BY <1>5, <1>6 DEF Covers
  <2>2. crowd = "one" => Listed(devList) = {}
    BY <1>5, <2>1 DEF Shows, Kinds
  <2> QED
    BY <1>3, <2>2, ListedNone
<1> HIDE DEF r, d
<1>11. CASE d \in enabled /\ Discover(d) > 0
  <2>1. devList' = Append(devList, Node(d))
    BY <1>2, <1>11
  <2>2. Listed(devList') = Listed(devList) \cup {d} /\ Len(devList') = Len(devList) + 1
    BY <1>3, <2>1, ListedMore DEF Node
  <2>3. crowd = "one" => Listed(devList) = {} /\ Len(devList) = 0
    BY <1>3, <1>10, ListedNone
  <2> QED
    BY <1>7, <1>9, <2>2, <2>3 DEF Shows
<1>12. CASE ~ (d \in enabled /\ Discover(d) > 0)
  <2>1. devList' = devList
    BY <1>2, <1>12
  <2>2. crowd = "one" => Listed(devList) = {} /\ Len(devList) = 0
    BY <1>3, <1>10, ListedNone
  <2> QED
    BY <1>8, <1>9, <1>12, <2>1, <2>2 DEF Shows
<1> QED
  BY <1>11, <1>12

(* A reader has gone, and an entry of its driver with it if that discovers none. *)
LEMMA DepartureFollows ==
  ASSUME Typed, Follows, HandlesEvent, EventDone, ~ Head(usb).arrived,
         ~ raced' => devList' = IF Asked \in enabled /\ Discover(Asked) <= 0
                                THEN OneLess(devList, Asked) ELSE devList
  PROVE  Follows'
<1> USE DEF bus, library, lists, finder
<1> DEFINE r == usb[1].reader
           d == Kind[r]
<1>0. Head(usb) = usb[1] /\ Asked = d
  BY QueueHead DEF HandlesEvent, Typed, TypeOK, Asked
<1> SUFFICES ASSUME ~ raced' PROVE Shows(crowd, enabled, devList', Range(devices), Range(devices))
  BY EventFollows
<1>2. devList' = IF d \in enabled /\ Discover(d) <= 0 THEN OneLess(devList, d) ELSE devList
  BY <1>0
<1>3. devices \in Seq(Readers) /\ devList \in Seq(Nodes) /\ fp \in Seq(Events)
  BY DEF Typed, TypeOK
<1>4. OneBehind /\ ~ usb[1].arrived /\ phase # "loaded"
  BY <1>0, EventInTurn
<1>5. r \notin Range(devices) /\ Covers(crowd, Range(devices) \cup {r})
      /\ Shows(crowd, enabled, devList, Range(devices), {r})
  BY <1>4 DEF OneBehind
<1> HIDE DEF r
<1>6. Covers(crowd, Range(devices))
  BY <1>5 DEF Covers
<1>7. ASSUME crowd # "kinds", NEW x \in Kinds(Range(devices)) PROVE x = d /\ Discover(d) > 0
  <2>1. x = d
    BY <1>5, <1>7 DEF Covers, Kinds
  <2> QED
    BY <1>3, <1>6, <1>7, <2>1, DiscoverAll
<1>8. ASSUME crowd = "one" PROVE Range(devices) = {} /\ Listed(devList) \subseteq {d}
                                 /\ Len(devList) <= 1
  BY <1>5, <1>8 DEF Covers, Shows, Kinds
<1>9. Discover(d) <= 0 <=> ~ Discover(d) > 0
  BY <1>3, <1>6, DiscoverAll
<1>10. ASSUME crowd = "one" PROVE devList' = <<>>
  <2>1. ~ Discover(d) > 0
    BY <1>3, <1>6, <1>8, <1>10, DiscoverAll
  <2>2. CASE devList = <<>>
    <3>1. OneLess(<<>>, d) = <<>>
      <4>1. <<>> \in Seq(Nodes) /\ 1 .. Len(<<>>) = {}
        OBVIOUS
      <4> HIDE DEF d
      <4> QED
        BY <4>1, OneLessLeaves
    <3> QED
      BY <1>2, <2>2, <3>1
  <2>3. CASE devList # <<>>
    <3>1. Len(devList) = 1 /\ Listed(devList) = {d} /\ Listed(devList) \subseteq enabled
      <4>1. Len(devList) \in Nat /\ Listed(devList) # {} /\ Listed(devList) \subseteq enabled
        BY <1>3, <2>3, ListedNone
      <4>2. Len(devList) <= 1 /\ Listed(devList) \subseteq {d}
        BY <1>8, <1>10
      <4>3. Len(devList) # 0
        BY <1>3, <2>3, EmptySeq
      <4>4. Len(devList) = 1
        BY <4>1, <4>2, <4>3, OneLeft, Zenon
      <4>5. Listed(devList) = {d}
        BY <4>1, <4>2
      <4> QED
        BY <4>1, <4>4, <4>5
    <3>2. devList[1].drv = d /\ d \in enabled
      BY <3>1 DEF Listed
    <3>3. devList' = OneLess(devList, d)
      BY <1>2, <1>9, <2>1, <3>2
    <3> HIDE DEF d
    <3>4. OneLess(devList, d) \in Seq(Nodes) /\ Len(OneLess(devList, d)) = 0
      BY <1>3, <3>1, <3>2, OneLessLeaves
    <3>5. OneLess(devList, d) = <<>>
      BY <3>4, EmptySeq
    <3> QED
      BY <3>3, <3>5
  <2> QED
    BY <2>2, <2>3
<1>11. crowd # "kinds" => Kinds(Range(devices)) \cap enabled \subseteq Listed(devList')
  <2> SUFFICES ASSUME crowd # "kinds", NEW x \in Kinds(Range(devices)), x \in enabled
               PROVE  x \in Listed(devList')
    OBVIOUS
  <2>1. Discover(d) > 0
    BY <1>7
  <2>2. devList' = devList
    BY <1>2, <1>9, <2>1
  <2> QED
    BY <1>5, <2>2 DEF Shows
<1>12. crowd = "one" => Listed(devList') = {} /\ Len(devList') = 0
  BY <1>10 DEF Listed
<1> QED
  BY <1>11, <1>12 DEF Shows

(* libfprint goes on to the next event: the hotplug thread is then one behind, or
   far. *)
LEMMA UpdateFollows ==
  ASSUME Typed, Follows, LibraryUpdate
  PROVE  Follows'
<1> USE DEF bus, library, lists, finder
<1> DEFINE r == fp[1].reader
<1>0. fp # <<>> => Head(fp) = fp[1] /\ fp[1] \in Events /\ Len(fp) \in Nat
                   /\ Len(Tail(fp)) = Len(fp) - 1
  BY QueueHead DEF Typed, TypeOK
<1>1. /\ phase = "running" /\ fp # <<>> /\ fp' = Tail(fp)
      /\ UNCHANGED <<phase, plugged, crowd, usb, enabled, devList, raced>>
      /\ devices' = IF fp[1].arrived THEN Append(devices, r) ELSE RemoveFirst(devices, r)
  BY <1>0 DEF LibraryUpdate, Removes, MainLoopFree
<1>2. fp \in Seq(Events) /\ usb \in Seq(Events) /\ devices \in Seq(Readers)
      /\ devList \in Seq(Nodes)
  BY DEF Typed, TypeOK
<1>3. r \in Readers /\ Len(fp) \in Nat /\ Len(Tail(fp)) = Len(fp) - 1
  BY <1>0, <1>1 DEF Events
<1>4. Heard(devices, fp, plugged, crowd) /\ Together
  BY <1>1 DEF Follows
<1>5. /\ fp[1].arrived <=> r \notin Range(devices)
      /\ Covers(crowd, Range(devices)) /\ Covers(crowd, After(Range(devices), fp[1]))
  BY <1>1, <1>2, <1>4, HeardNow
<1>6. NoTwice(devices)
  BY <1>4 DEF Heard
<1>7. /\ devices' \in Seq(Readers) /\ NoTwice(devices')
      /\ Range(devices') = After(Range(devices), fp[1])
  <2>1. CASE fp[1].arrived
    <3>1. devices' = Append(devices, r) /\ r \notin Range(devices)
      BY <1>1, <1>5, <2>1
    <3> HIDE DEF r
    <3>2. /\ devices' \in Seq(Readers) /\ NoTwice(devices')
          /\ Range(devices') = Range(devices) \cup {r}
      BY <1>2, <1>3, <1>6, <3>1, OneMoreDevice
    <3> QED
      BY <2>1, <3>2 DEF After, r
  <2>2. CASE ~ fp[1].arrived
    <3>1. devices' = RemoveFirst(devices, r) /\ r \in Range(devices)
      BY <1>1, <1>5, <2>2
    <3> HIDE DEF r
    <3>2. /\ devices' \in Seq(Readers) /\ NoTwice(devices')
          /\ Range(devices') = Range(devices) \ {r}
      BY <1>2, <1>6, <3>1, OneLessDevice
    <3> QED
      BY <2>2, <3>2 DEF After, r
  <2> QED
    BY <2>1, <2>2
<1>8. Heard(devices', fp', plugged', crowd')
  <2>1. Heard(devices', Tail(fp), plugged, crowd)
    BY <1>1, <1>2, <1>4, <1>7, HeardNext
  <2> QED
    BY <1>1, <2>1
<1>9. Together'
  <2> SUFFICES ASSUME ~ raced' PROVE (InStep \/ OneBehind \/ FarBehind)'
    BY Zenon DEF Together
  <2>1. InStep \/ OneBehind \/ FarBehind
    BY <1>1, <1>4, Zenon DEF Together
  <2>2. CASE InStep
    <3>1. usb = fp /\ Shows(crowd, enabled, devList, Range(devices), Range(devices))
      BY <1>1, <2>2 DEF InStep
    <3>2. usb' # <<>> /\ Tail(usb') = fp' /\ usb'[1] = fp[1]
      BY <1>1, <3>1
    <3>3. CASE fp[1].arrived
      <4>1. Range(devices') = Range(devices) \cup {r} /\ Range(devices') \ {r} = Range(devices)
        BY <1>5, <1>7, <3>3 DEF After
      <4>2. Shows(crowd', enabled', devList', Range(devices') \ {r}, Range(devices') \ {r})
        BY <1>1, <3>1, <4>1
      <4>3. r \in Range(devices') /\ phase' # "loaded" /\ usb'[1].reader = r /\ usb'[1].arrived
        BY <1>1, <3>2, <3>3, <4>1
      <4> QED
        BY <3>2, <4>2, <4>3 DEF OneBehind
    <3>4. CASE ~ fp[1].arrived
      <4>1. /\ r \in Range(devices) /\ Range(devices') = Range(devices) \ {r}
            /\ Range(devices') \cup {r} = Range(devices)
        BY <1>5, <1>7, <3>4 DEF After
      <4>2. Shows(crowd', enabled', devList', Range(devices'), {r})
        <5>1. Kinds(Range(devices')) \subseteq Kinds(Range(devices))
          BY <4>1 DEF Kinds
        <5>2. crowd = "one" => Kinds(Range(devices)) \subseteq Kinds({r})
          BY <1>5, <4>1 DEF Kinds, Covers
        <5> QED
          BY <1>1, <3>1, <5>1, <5>2 DEF Shows
      <4>3. /\ r \notin Range(devices') /\ Covers(crowd', Range(devices') \cup {r})
            /\ usb'[1].reader = r /\ ~ usb'[1].arrived
        BY <1>1, <1>5, <3>2, <3>4, <4>1
      <4> QED
        BY <3>2, <4>2, <4>3 DEF OneBehind
    <3> QED
      BY <3>3, <3>4
  <2>3. CASE OneBehind
    <3>1. Len(usb) = Len(fp) + 1
      BY <1>2, <2>3 DEF OneBehind
    <3> QED
      BY <1>1, <1>3, <3>1 DEF FarBehind
  <2>4. CASE FarBehind
    BY <1>1, <1>2, <1>3, <2>4 DEF FarBehind
  <2> QED
    BY <2>1, <2>2, <2>3, <2>4
<1> QED
  BY <1>1, <1>8, <1>9 DEF Follows

(* A search that has begun in step, and is not left behind, has counted right. *)
Counted ==
  /\ search.at # "stale"
  /\ search.at \in {"test", "read"} =>
       \A j \in 1 .. search.n : j \in DOMAIN devices /\ Own(Asked, j)
  /\ search.at = "read" => search.n + 1 \in DOMAIN devices
  /\ search.at = "answered" => search.n = Discover(Asked)

SearchRight ==
  search.at # "idle" /\ ~ raced => FarBehind \/ (fp = Tail(usb) /\ Counted)

(* A step that is none of the search, nor of libfprint. *)
LEMMA SearchStays ==
  ASSUME Typed, SearchRight, UNCHANGED <<usb, fp, devices, search>>, ~ raced' => ~ raced
  PROVE  SearchRight'
<1> SUFFICES ASSUME search.at # "idle", ~ raced' PROVE (FarBehind \/ (fp = Tail(usb) /\ Counted))'
  BY Zenon DEF SearchRight
<1>1. FarBehind \/ (fp = Tail(usb) /\ Counted)
  BY Zenon DEF SearchRight
<1> QED
  BY <1>1 DEF FarBehind, Counted, Own, Discover, Asked

(* A step of the search itself. *)
LEMMA SearchCounts ==
  ASSUME Typed, SearchRight, Search
  PROVE  SearchRight'
<1> SUFFICES ASSUME ~ raced' PROVE (FarBehind \/ (fp = Tail(usb) /\ Counted))'
  BY Zenon DEF SearchRight
<1>1. UNCHANGED <<devices, usb, fp>> /\ Asked' = Asked
  BY DEF Search, SearchBegins, SearchTests, SearchReads, SearchReadsStale, SearchGoes, Asked,
         library
<1>2. /\ devices \in Seq(Readers) /\ DOMAIN devices = 1 .. Len(devices) /\ Len(devices) \in Nat
      /\ search.n \in Nat
  BY DEF Typed, TypeOK, Searches
<1>3. CASE SearchBegins
  <2>1. fp = Tail(usb)
    BY <1>3, Zenon DEF SearchBegins, OutOfStep
  <2>2. search' = [at |-> "test", n |-> 0]
    BY <1>3 DEF SearchBegins, SearchGoes
  <2> QED
    BY <1>1, <2>1, <2>2 DEF Counted
<1>4. CASE SearchTests \/ SearchReads \/ SearchReadsStale
  <2>1. search.at # "idle"
    BY <1>4 DEF SearchTests, SearchReads, SearchReadsStale, SearchGoes
  <2>2. ~ raced
    BY <1>4, Zenon DEF SearchTests, SearchReads, SearchReadsStale
  <2>3. FarBehind \/ (fp = Tail(usb) /\ Counted)
    BY <2>1, <2>2, Zenon DEF SearchRight
  <2>4. CASE FarBehind
    BY <1>1, <2>4 DEF FarBehind
  <2>5. CASE fp = Tail(usb) /\ Counted
    <3> SUFFICES /\ search'.at # "stale"
                 /\ search'.at \in {"test", "read"} =>
                      \A j \in 1 .. search'.n : j \in DOMAIN devices /\ Own(Asked, j)
                 /\ search'.at = "read" => search'.n + 1 \in DOMAIN devices
                 /\ search'.at = "answered" => search'.n = Discover(Asked)
      BY <1>1, <2>5 DEF Counted, Own, Discover
    <3>1. CASE SearchTests
      <4>1. /\ search' = [at |-> IF search.n < Len(devices) THEN "read" ELSE "answered",
                          n |-> search.n]
            /\ \A j \in 1 .. search.n : j \in DOMAIN devices /\ Own(Asked, j)
        BY <2>5, <3>1 DEF SearchTests, SearchGoes, Counted
      <4>2. CASE search.n < Len(devices)
        BY <1>2, <4>1, <4>2
      <4>3. CASE ~ search.n < Len(devices)
        <5>1. search.n = Len(devices)
          <6>1. search.n # 0 => search.n \in DOMAIN devices
            BY <1>2, <4>1
          <6> QED
            BY <1>2, <4>3, <6>1
        <5>2. Discover(Asked) = Len(devices)
          BY <1>2, <4>1, <5>1 DEF Discover
        <5> QED
          BY <4>1, <4>3, <5>1, <5>2
      <4> QED
        BY <4>2, <4>3
    <3>2. CASE SearchReads
      <4>1. /\ search' = [at |-> IF Own(Asked, search.n + 1) THEN "test" ELSE "answered",
                          n |-> IF Own(Asked, search.n + 1) THEN search.n + 1 ELSE 0]
            /\ \A j \in 1 .. search.n : j \in DOMAIN devices /\ Own(Asked, j)
            /\ search.n + 1 \in DOMAIN devices
        BY <2>5, <3>2 DEF SearchReads, SearchGoes, Counted
      <4>2. CASE Own(Asked, search.n + 1)
        BY <1>2, <4>1, <4>2
      <4>3. CASE ~ Own(Asked, search.n + 1)
        <5>1. Discover(Asked) = 0
          BY <4>1, <4>3 DEF Discover
        <5> QED
          BY <4>1, <4>3, <5>1
      <4> QED
        BY <4>2, <4>3
    <3>3. CASE SearchReadsStale
      BY <2>5, <3>3 DEF SearchReadsStale, SearchGoes, Counted
    <3> QED
      BY <1>4, <3>1, <3>2, <3>3
  <2> QED
    BY <2>3, <2>4, <2>5
<1> QED
  BY <1>3, <1>4 DEF Search

(* Every step keeps what a search has counted right. *)
LEMMA NextSearchRight == Typed /\ SearchRight /\ [Next]_vars => SearchRight'
<1> SUFFICES ASSUME Typed, SearchRight, [Next]_vars PROVE SearchRight'
  OBVIOUS
<1> USE DEF bus, library, lists, finder
<1>1. ASSUME NEW r \in Readers, Plug(r) \/ Unplug(r) PROVE SearchRight'
  <2>1. PICK arrived \in BOOLEAN : Notify(r, arrived)
    BY <1>1 DEF Plug, Unplug
  <2> DEFINE e == [reader |-> r, arrived |-> arrived]
  <2>2. e \in Events /\ usb \in Seq(Events) /\ fp \in Seq(Events)
    BY DEF Events, Typed, TypeOK
  <2>3. UNCHANGED <<devices, search, raced>>
    BY <2>1 DEF Notify
  <2>4. search.at # "idle" => usb # <<>> /\ usb' = Append(usb, e) /\ fp' = Append(fp, e)
    BY <2>1 DEF Notify, Typed, Searching
  <2> HIDE DEF e
  <2> SUFFICES ASSUME search.at # "idle", ~ raced'
               PROVE  (FarBehind \/ (fp = Tail(usb) /\ Counted))'
    BY <2>3, Zenon DEF SearchRight
  <2>5. FarBehind \/ (fp = Tail(usb) /\ Counted)
    BY <2>3, Zenon DEF SearchRight
  <2>6. Tail(usb') = Append(Tail(usb), e) /\ Asked' = Asked
    BY <2>2, <2>4, FirstStays DEF Asked
  <2>7. CASE FarBehind
    BY <2>2, <2>4, <2>7 DEF FarBehind
  <2>8. CASE fp = Tail(usb) /\ Counted
    BY <2>3, <2>4, <2>6, <2>8 DEF Counted, Own, Discover
  <2> QED
    BY <2>5, <2>7, <2>8
<1>2. CASE Load \/ List \/ Crash \/ Restart \/ Attach \/ Detach \/ NobodyAsked
  <2>1. search'.at = "idle"
    <3>1. CASE Load \/ List \/ Restart
      BY <3>1 DEF Load, List, Restart, Typed, Searching
    <3>2. CASE Crash \/ Attach \/ Detach \/ NobodyAsked
      BY <3>2 DEF Crash, Attach, Detach, NobodyAsked, Answered, EventDone, NoSearch
    <3> QED
      BY <1>2, <3>1, <3>2
  <2> QED
    BY <2>1 DEF SearchRight
<1>3. CASE LibraryUpdate
  <2>1. /\ fp # <<>> /\ fp' = Tail(fp) /\ usb' = usb
        /\ search'.at # "idle" => search.at # "idle"
    <3>1. search \in Searches
      BY DEF Typed, TypeOK
    <3> QED
      BY <1>3, <3>1 DEF LibraryUpdate, Removes, Searches, TornBy
  <2>2. raced' = raced
    BY <1>3 DEF LibraryUpdate
  <2>3. fp \in Seq(Events) /\ usb \in Seq(Events)
    BY DEF Typed, TypeOK
  <2> SUFFICES ASSUME search'.at # "idle", ~ raced' PROVE FarBehind'
    BY Zenon DEF SearchRight
  <2>4. FarBehind \/ fp = Tail(usb)
    BY <2>1, <2>2, Zenon DEF SearchRight
  <2>5. usb # <<>>
    BY <2>1 DEF Typed, Searching
  <2>6. /\ Len(fp') = Len(fp) - 1 /\ Len(fp) \in Nat /\ Len(usb) \in Nat
        /\ Len(Tail(usb)) = Len(usb) - 1
    BY <2>1, <2>3, <2>5
  <2>7. Len(usb) > Len(fp)
    <3>1. CASE FarBehind
      BY <2>6, <3>1 DEF FarBehind
    <3>2. CASE fp = Tail(usb)
      BY <2>6, <3>2
    <3> QED
      BY <2>4, <3>1, <3>2
  <2>8. Len(usb') > Len(fp') + 1
    BY <2>1, <2>6, <2>7
  <2> QED
    BY <2>8 DEF FarBehind
<1>4. CASE RunMainLoop
  BY <1>4, SearchStays DEF RunMainLoop
<1>5. ASSUME NEW w \in Walkers, Walker(w) PROVE SearchRight'
  <2>1. UNCHANGED <<usb, fp, devices, search, raced>>
    BY <1>5, Zenon DEF Walker, WalkBegin, WalkOn, WalkOff
  <2> QED
    BY <2>1, SearchStays
<1>6. CASE UNCHANGED vars
  BY <1>6, SearchStays DEF vars
<1> QED
  BY <1>1, <1>2, <1>3, <1>4, <1>5, <1>6, SearchCounts DEF Next, HotplugThread

(* bio_usb_hotplug_callback_attach and _detach. *)
LEMMA AnswerFollows ==
  ASSUME Typed, Follows, SearchRight, Attach \/ Detach \/ NobodyAsked
  PROVE  Follows'
<1> USE DEF lists
<1>1. HandlesEvent /\ EventDone
  BY DEF Attach, Detach, NobodyAsked, Answered
<1>2. CASE NobodyAsked
  <2>1. devList' = devList /\ Asked \notin enabled
    BY <1>2 DEF NobodyAsked
  <2> QED
    BY <1>1, <2>1, ArrivalFollows, DepartureFollows
<1>3. ASSUME Attach \/ Detach, ~ raced' PROVE search.n = Discover(Asked) /\ Asked \in enabled
  <2>1. search.at = "answered"
    BY <1>3 DEF Attach, Detach, Answered
  <2>2. ~ raced /\ ~ FarBehind
    BY <1>1, <1>3, EventInTurn, Zenon
  <2>3. Counted
    BY <2>1, <2>2, Zenon DEF SearchRight
  <2> QED
    BY <2>1, <2>3 DEF Counted, Typed, Searching
<1>4. CASE Attach
  <2>1. Head(usb).arrived
    BY <1>4, Zenon DEF Attach, Answered
  <2>2. devList' = IF search.n > 0 THEN Append(devList, Node(Asked)) ELSE devList
    BY <1>4 DEF Attach, Attached, Edit
  <2>3. ~ raced' => devList' = IF Asked \in enabled /\ Discover(Asked) > 0
                               THEN Append(devList, Node(Asked)) ELSE devList
    BY <1>3, <1>4, <2>2
  <2> QED
    BY <1>1, <2>1, <2>3, ArrivalFollows
<1>5. CASE Detach
  <2>1. ~ Head(usb).arrived
    BY <1>5, Zenon DEF Detach, Answered
  <2>2. devList' = IF search.n <= 0 THEN OneLess(devList, Asked) ELSE devList
    BY <1>5 DEF Detach, Detached, Edit
  <2>3. ~ raced' => devList' = IF Asked \in enabled /\ Discover(Asked) <= 0
                               THEN OneLess(devList, Asked) ELSE devList
    BY <1>3, <1>5, <2>2
  <2> QED
    BY <1>1, <2>1, <2>3, DepartureFollows
<1> QED
  BY <1>2, <1>4, <1>5

(* Every step keeps the list and the bus together. *)
LEMMA NextFollows == Typed /\ Follows /\ SearchRight /\ [Next]_vars => Follows'
<1> SUFFICES ASSUME Typed, Follows, SearchRight, [Next]_vars PROVE Follows'
  OBVIOUS
<1> USE DEF bus, library, lists, finder
<1>1. CASE RunMainLoop
  BY <1>1, NothingFollows DEF RunMainLoop
<1>2. ASSUME NEW w \in Walkers, Walker(w) PROVE Follows'
  <2>1. UNCHANGED <<plugged, usb, fp, devices, enabled, devList, crowd, phase, raced>>
    BY <1>2, Zenon DEF Walker, WalkBegin, WalkOn, WalkOff
  <2> QED
    BY <2>1, NothingFollows
<1>3. CASE UNCHANGED vars
  BY <1>3, NothingFollows DEF vars
<1>4. CASE Crash
  BY <1>4 DEF Crash, Follows
<1>5. CASE Restart
  <2>1. /\ phase = "crashed" /\ phase' = "init" /\ crowd' = Larger("one", plugged)
        /\ UNCHANGED <<plugged, usb, fp>>
    BY <1>5 DEF Restart
  <2>2. usb' = <<>> /\ fp' = <<>>
    BY <2>1 DEF Follows
  <2>3. Covers(crowd', plugged')
    <3>1. plugged \in SUBSET Readers /\ "one" \in Crowds
      BY DEF Typed, TypeOK, Crowds
    <3> QED
      BY <2>1, <3>1, LargerCovers
  <2> QED
    BY <2>1, <2>2, <2>3 DEF Follows, Before
<1>6. CASE Search
  <2>1. UNCHANGED <<plugged, usb, fp, devices, enabled, devList, crowd, phase>>
    BY <1>6 DEF Search, SearchBegins, SearchTests, SearchReads, SearchReadsStale, SearchGoes
  <2>2. ~ raced' => ~ raced
    BY <1>6, Zenon DEF Search, SearchBegins, SearchTests, SearchReads, SearchReadsStale
  <2> QED
    BY <2>1, <2>2, NothingFollows
<1> QED
  BY <1>1, <1>2, <1>3, <1>4, <1>5, <1>6, NotifyFollows, LoadFollows, ListFollows, AnswerFollows,
     UpdateFollows
  DEF Next, HotplugThread

(* When all events have been handled, in step with libfprint, the list says what is
   on the bus, although the searches take no lock, however many readers came and
   went and however often the daemon was started again: as far as one can say it of
   readers of several kinds, or of several readers of a kind. *)
THEOREM ListRight == Spec => []ListFollowsTheBus
<1>1. Typed /\ Follows => ListFollowsTheBus
  <2> SUFFICES ASSUME Typed, Follows, Settled, ~ raced
               PROVE  /\ crowd # "kinds" => Kinds(plugged) \cap enabled \subseteq Listed(devList)
                      /\ crowd = "one" => /\ Listed(devList) \subseteq Kinds(plugged)
                                          /\ Len(devList) <= 1
    BY Zenon DEF ListFollowsTheBus
  <2>1. phase = "running" /\ usb = <<>> /\ fp = <<>>
    BY DEF Settled
  <2>2. InStep \/ OneBehind \/ FarBehind
    BY <2>1, Zenon DEF Follows, Together
  <2>3. InStep
    <3>1. ~ OneBehind /\ ~ FarBehind
      BY <2>1 DEF OneBehind, FarBehind
    <3> QED
      BY <2>2, <3>1
  <2>4. Range(devices) = plugged
    <3>1. Heard(devices, fp, plugged, crowd) /\ fp \in Seq(Events)
      BY <2>1 DEF Follows, Typed, TypeOK
    <3> QED
      BY <2>1, <3>1, HeardNow
  <2> QED
    BY <2>1, <2>3, <2>4 DEF InStep, Shows
<1>2. Spec => []Typed
  BY InitTyped, NextTyped, PTL DEF Spec
<1>3. Init => SearchRight
  BY DEF Init, NoSearch, SearchRight
<1> QED
  BY <1>1, <1>2, <1>3, FollowsStart, NextSearchRight, NextFollows, PTL DEF Spec
=============================================================================
