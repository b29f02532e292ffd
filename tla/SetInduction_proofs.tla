------------------------- MODULE SetInduction_proofs -------------------------
(***************************************************************************)
(* Induction and recursion for the proofs about loops.  The theorems of the *)
(* library take a predicate or an operator; these take the set of what      *)
(* satisfies the one and the function that does what the other does.        *)
(***************************************************************************)
EXTENDS Integers, FiniteSetTheorems, WellFoundedInduction, TLAPS

(* Induction on natural numbers, for a set of them. *)
LEMMA NatSetInduction ==
  ASSUME NEW I, 0 \in I, \A n \in Nat : n \in I => n + 1 \in I
  PROVE  Nat \subseteq I
<1> DEFINE Missed == Nat \ I
<1> SUFFICES ASSUME Missed # {} PROVE FALSE
  OBVIOUS
<1>1. PICK m \in Missed : \A k \in Missed : ~ <<k, m>> \in OpToRel(<, Nat)
  <2>1. Missed \subseteq Nat
    OBVIOUS
  <2> QED
    BY <2>1, NatLessThanWellFounded, WFMin
<1>2. m \in Nat /\ m \notin I /\ m # 0
  OBVIOUS
<1>3. m - 1 \in Nat /\ m - 1 < m
  BY <1>2
<1>4. m - 1 \in I
  BY <1>1, <1>2, <1>3 DEF OpToRel
<1>5. m - 1 + 1 \in I /\ m - 1 + 1 = m
  BY <1>3, <1>4, <1>2
<1> QED
  BY <1>2, <1>5

(* Induction on the subsets of a finite set: each is reached from the empty one
   by adding an element at a time. *)
LEMMA SubsetInduction ==
  ASSUME NEW S, IsFiniteSet(S), NEW F, {} \in F,
         \A s \in SUBSET S : s # {} /\ (\A x \in s : s \ {x} \in F) => s \in F
  PROVE  SUBSET S \subseteq F
<1> DEFINE I == { n \in Nat : \A s \in SUBSET S : Cardinality(s) = n => s \in F }
<1>1. \A s \in SUBSET S : IsFiniteSet(s) /\ Cardinality(s) \in Nat
  BY FS_Subset, FS_CardinalityType
<1>2. 0 \in I
  BY <1>1, FS_EmptySet
<1>3. ASSUME NEW n \in Nat, n \in I PROVE n + 1 \in I
  <2> SUFFICES ASSUME NEW s \in SUBSET S, Cardinality(s) = n + 1 PROVE s \in F
    BY <1>3
  <2>1. s # {}
    BY <1>1, FS_EmptySet
  <2>2. ASSUME NEW x \in s PROVE s \ {x} \in F
    <3>1. Cardinality(s \ {x}) = n
      BY <1>1, <2>2, FS_RemoveElement
    <3> QED
      BY <1>3, <3>1
  <2> QED
    BY <2>1, <2>2
<1>4. Nat \subseteq I
  <2> HIDE DEF I
  <2> QED
    BY <1>2, <1>3, NatSetInduction
<1> QED
  BY <1>1, <1>4

(* Every nonempty set of numbers up to n has a greatest element. *)
LEMMA GreatestExists ==
  ASSUME NEW n \in Nat, NEW D \in SUBSET (1 .. n), D # {}
  PROVE  \E x \in D : \A y \in D : x >= y
<1> DEFINE T == { k \in Nat : n - k \in D }
<1>1. T \subseteq Nat
  OBVIOUS
<1>2. T # {}
  <2>1. PICK x \in D : TRUE
    OBVIOUS
  <2>2. n - x \in T
    BY <2>1
  <2> QED
    BY <2>2
<1>3. PICK m \in T : \A k \in T : ~ <<k, m>> \in OpToRel(<, Nat)
  BY <1>1, <1>2, NatLessThanWellFounded, WFMin
<1>4. \A k \in T : ~ k < m
  BY <1>1, <1>3 DEF OpToRel
<1>5. ASSUME NEW y \in D PROVE n - m >= y
  <2>1. n - y \in T
    OBVIOUS
  <2> QED
    BY <1>1, <1>4, <2>1
<1> QED
  BY <1>5

(* A recursion over the subsets of a set that takes one element away at a time. *)
IsRecursion(f, S, base, step, last) ==
  \A D \in SUBSET S :
    f[D] = IF D = {} THEN base ELSE step[<<f[D \ {last[D]}], last[D]>>]

(* It is well defined on a finite set: the function is made for sets of 0
   elements, 1 element, 2 elements ... in turn. *)
LEMMA RecursionExists ==
  ASSUME NEW S, IsFiniteSet(S), NEW Acc, NEW base \in Acc,
         NEW step \in [Acc \X S -> Acc],
         NEW last, \A D \in SUBSET S : D # {} => last[D] \in D
  PROVE  \E f \in [SUBSET S -> Acc] : IsRecursion(f, S, base, step, last)
<1> DEFINE Upto(n) == { s \in SUBSET S : Cardinality(s) <= n }
           Round(g, s) == IF s = {} THEN base ELSE step[<<g[s \ {last[s]}], last[s]>>]
           Steps(g, n) == \A s \in Upto(n) : g[s] = Round(g, s)
           I == { n \in Nat : \E g \in [SUBSET S -> Acc] : Steps(g, n) }
<1>1. \A s \in SUBSET S : IsFiniteSet(s) /\ Cardinality(s) \in Nat
  BY FS_Subset, FS_CardinalityType
<1>2. \A s \in SUBSET S : s # {} =>
        /\ last[s] \in s /\ s \ {last[s]} \in SUBSET S
        /\ Cardinality(s \ {last[s]}) = Cardinality(s) - 1
  BY <1>1, FS_RemoveElement
<1>3. \A g \in [SUBSET S -> Acc], s \in SUBSET S : Round(g, s) \in Acc
  <2> SUFFICES ASSUME NEW g \in [SUBSET S -> Acc], NEW s \in SUBSET S, s # {}
               PROVE  step[<<g[s \ {last[s]}], last[s]>>] \in Acc
    OBVIOUS
  <2>1. g[s \ {last[s]}] \in Acc /\ last[s] \in S
    BY <1>2
  <2> QED
    BY <2>1
<1> HIDE DEF Round
<1>4. 0 \in I
  <2> DEFINE g == [s \in SUBSET S |-> base]
  <2>1. \A s \in Upto(0) : s = {}
    BY <1>1, FS_EmptySet
  <2>2. Steps(g, 0) /\ g \in [SUBSET S -> Acc]
    BY <2>1 DEF Round
  <2> QED
    BY <2>2
<1>5. ASSUME NEW n \in Nat, n \in I PROVE n + 1 \in I
  <2>1. PICK g \in [SUBSET S -> Acc] : Steps(g, n)
    BY <1>5
  <2> DEFINE h == [s \in SUBSET S |-> IF s \in Upto(n) THEN g[s] ELSE Round(g, s)]
  <2>2. ASSUME NEW s \in Upto(n + 1) PROVE h[s] = Round(h, s)
    <3>1. h[s] = Round(g, s)
      BY <2>1
    <3>2. CASE s = {}
      BY <3>1, <3>2 DEF Round
    <3>3. CASE s # {}
      <4>1. s \ {last[s]} \in Upto(n)
        BY <1>1, <1>2, <3>3
      <4>2. h[s \ {last[s]}] = g[s \ {last[s]}]
        BY <4>1
      <4> QED
        BY <3>1, <3>3, <4>2, Zenon DEF Round
    <3> QED
      BY <3>2, <3>3
  <2>3. Steps(h, n + 1) /\ h \in [SUBSET S -> Acc]
    BY <1>3, <2>2
  <2> HIDE DEF h
  <2> QED
    BY <2>3
<1>6. Nat \subseteq I
  <2> HIDE DEF I
  <2> QED
    BY <1>4, <1>5, NatSetInduction
<1>7. PICK g \in [SUBSET S -> Acc] : Steps(g, Cardinality(S))
  BY <1>1, <1>6
<1>8. Upto(Cardinality(S)) = SUBSET S
  BY <1>1, FS_Subset
<1> QED
  BY <1>7, <1>8 DEF Round, IsRecursion
==============================================================================
