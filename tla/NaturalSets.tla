----------------------------- MODULE NaturalSets ------------------------------
(***************************************************************************)
(* Least elements, greatest elements and induction, stated of sets of      *)
(* naturals and not of predicates, from the well-foundedness of <: what    *)
(* the proofs need where a loop runs over a list of any length, or a set   *)
(* of any size has a last element.                                         *)
(***************************************************************************)
EXTENDS Integers, FiniteSets, FiniteSetTheorems, WellFoundedInduction, TLAPS

Less == {p \in Nat \X Nat : p[1] < p[2]}

LEMMA LessWellFounded == IsWellFoundedOn(Less, Nat)
BY NatLessThanWellFounded, Zenon DEF Less, OpToRel

\* A set of naturals that is not empty has a least element.
LEMMA LeastNatural ==
  ASSUME NEW T \in SUBSET Nat, T # {}
  PROVE  \E n \in T : \A k \in T : n <= k
<1>1. PICK n \in T : \A k \in T : <<k, n>> \notin Less
  BY LessWellFounded, WFMin
<1>2. ASSUME NEW k \in T PROVE n <= k
  <2>1. <<k, n>> \in Nat \X Nat /\ <<k, n>> \notin Less
    BY <1>1
  <2>2. ~ (k < n)
    BY <2>1 DEF Less
  <2>3. QED
    BY <2>2
<1>3. QED
  BY <1>2

\* What holds of low, and of n + 1 whenever it holds of n, holds up to high.
LEMMA SetInduction ==
  ASSUME NEW T \in SUBSET Nat, NEW low \in Nat, NEW high \in Nat, low \in T,
         \A n \in low..(high - 1) : n \in T => n + 1 \in T
  PROVE  low..high \subseteq T
<1> DEFINE Rest == {n \in low..high : n \notin T}
<1>1. SUFFICES ASSUME Rest # {} PROVE FALSE
  OBVIOUS
<1>2. PICK n \in Rest : \A k \in Rest : n <= k
  <2>1. Rest \in SUBSET Nat
    OBVIOUS
  <2>2. QED
    BY <1>1, <2>1, LeastNatural
<1>3. n # low /\ n - 1 \in low..(high - 1)
  OBVIOUS
<1>4. n - 1 \in T
  BY <1>2, <1>3
<1>5. n \in T
  BY <1>3, <1>4
<1>6. QED
  BY <1>5

\* A finite set that is not empty has an element of greatest rank.
LEMMA FiniteMaximum ==
  ASSUME NEW W, NEW h \in [W -> Nat], NEW S \in SUBSET W, IsFiniteSet(S), S # {}
  PROVE  \E r \in S : \A s \in S : h[s] <= h[r]
<1> DEFINE Top(U) == \E r \in U : \A s \in U : h[s] <= h[r]
           T == {n \in Nat : \A U \in SUBSET W :
                   IsFiniteSet(U) /\ Cardinality(U) = n /\ U # {} => Top(U)}
<1>1. 0 \in T
  BY FS_EmptySet
<1>2. ASSUME NEW n \in Nat, n \in T PROVE n + 1 \in T
  <2>1. SUFFICES ASSUME NEW U \in SUBSET W, IsFiniteSet(U), Cardinality(U) = n + 1, U # {}
                 PROVE  Top(U)
    OBVIOUS
  <2>2. PICK x \in U : TRUE
    BY <2>1
  <2>3. IsFiniteSet(U \ {x}) /\ Cardinality(U \ {x}) = n
    <3>1. IsFiniteSet(U \ {x}) /\ Cardinality(U \ {x}) = Cardinality(U) - 1
      BY <2>1, FS_RemoveElement
    <3>2. (n + 1) - 1 = n
      OBVIOUS
    <3>3. QED
      BY <2>1, <3>1, <3>2
  <2>4. CASE U \ {x} = {}
    BY <2>4
  <2>5. CASE U \ {x} # {}
    <3>1. PICK y \in U \ {x} : \A s \in U \ {x} : h[s] <= h[y]
      BY <1>2, <2>3, <2>5
    <3>2. \A s \in U : h[s] \in Nat
      OBVIOUS
    <3>3. CASE h[x] <= h[y]
      BY <3>1, <3>3
    <3>4. CASE h[y] <= h[x]
      <4>1. \A s \in U : h[s] <= h[x]
        BY <3>1, <3>2, <3>4
      <4>2. QED
        BY <4>1
    <3>5. QED
      BY <3>2, <3>3, <3>4
  <2>6. QED
    BY <2>4, <2>5
<1>3. Cardinality(S) \in Nat
  BY FS_CardinalityType
<1>4. Cardinality(S) \in T
  <2> HIDE DEF T
  <2>1. T \in SUBSET Nat
    BY DEF T
  <2>2. 0..Cardinality(S) \subseteq T
    BY <1>1, <1>2, <1>3, <2>1, SetInduction
  <2>3. QED
    BY <1>3, <2>2
<1>5. QED
  BY <1>4
=============================================================================
