----------------------------- MODULE NumberLemmas -----------------------------
(***************************************************************************)
(* Facts about numbers that the proofs of several components rest on: the  *)
(* least-number principle for sets, which stands in for induction, powers  *)
(* of 2, and arithmetic that wraps at a power of 2.                        *)
(***************************************************************************)
EXTENDS Integers, FiniteSetTheorems, TLAPS

\* A set of numbers that is not empty has a least one.
LEMMA LeastNumber ==
  ASSUME NEW T \in SUBSET Nat, T # {}
  PROVE  \E n \in T : \A m \in T : n <= m
<1>1. PICK n \in T : \A m \in T : ~(<<m, n>> \in OpToRel(<, Nat))
  BY WFMin, NatLessThanWellFounded, Zenon
<1>2. \A m \in T : ~(m < n)
  BY <1>1, Zenon DEF OpToRel
<1>3. \A m \in T : n <= m
  BY <1>2
<1>4. QED
  BY <1>3

\* The provers have no axioms for exponents; 2^n is the number of subsets of 1..n.
LEMMA PowerIsCount ==
  ASSUME NEW n \in Nat
  PROVE  /\ IsFiniteSet(SUBSET (1..n)) /\ Cardinality(SUBSET (1..n)) = 2^n /\ 2^n \in Nat
<1>1. IsFiniteSet(1..n) /\ Cardinality(1..n) = n
  BY FS_Interval
<1>2. IsFiniteSet(SUBSET (1..n)) /\ Cardinality(SUBSET (1..n)) = 2^n
  BY <1>1, FS_SUBSET
<1>3. QED
  BY <1>2, FS_CardinalityType

\* A subset of 1..(n + 1) has n + 1 or has it not.
LEMMA PowerDoubles ==
  ASSUME NEW n \in Nat PROVE 2^(n + 1) = 2 * 2^n
<1> DEFINE A == SUBSET (1..n)
           f == [X \in A |-> X \cup {n + 1}]
           B == {f[X] : X \in A}
<1>1. n + 1 \notin 1..n /\ 1..(n + 1) = (1..n) \cup {n + 1}
  OBVIOUS
<1>2. SUBSET (1..(n + 1)) = A \cup B
  <2>1. ASSUME NEW Y \in SUBSET (1..(n + 1)), n + 1 \in Y PROVE Y \in B
    <3>1. Y \ {n + 1} \in A /\ f[Y \ {n + 1}] = Y
      BY <1>1, <2>1
    <3>2. QED
      BY <3>1
  <2>2. ASSUME NEW Y \in SUBSET (1..(n + 1)), n + 1 \notin Y PROVE Y \in A
    BY <1>1, <2>2
  <2>3. A \cup B \subseteq SUBSET (1..(n + 1))
    BY <1>1
  <2>4. QED
    BY <2>1, <2>2, <2>3
<1>3. A \cap B = {}
  BY <1>1
<1>4. f \in Bijection(A, B)
  <2>1. f \in [A -> B]
    OBVIOUS
  <2>2. ASSUME NEW X \in A, NEW Y \in A, f[X] = f[Y] PROVE X = Y
    <3>1. X \cup {n + 1} = Y \cup {n + 1} /\ n + 1 \notin X /\ n + 1 \notin Y
      BY <1>1, <2>2
    <3>2. X = (X \cup {n + 1}) \ {n + 1} /\ Y = (Y \cup {n + 1}) \ {n + 1}
      BY <3>1
    <3>3. QED
      BY <3>1, <3>2
  <2>3. \A Y \in B : \E X \in A : f[X] = Y
    OBVIOUS
  <2> HIDE DEF A, B, f
  <2>4. QED
    BY <2>1, <2>2, <2>3 DEF Bijection, Injection, Surjection, IsInjective
<1>5. IsFiniteSet(A) /\ Cardinality(A) = 2^n /\ 2^n \in Nat
  BY PowerIsCount
<1> HIDE DEF A, B, f
<1>6. IsFiniteSet(B) /\ Cardinality(B) = 2^n
  BY <1>4, <1>5, FS_Bijection DEF ExistsBijection
<1>7. Cardinality(A \cup B) = 2^n + 2^n - 0
  BY <1>3, <1>5, <1>6, FS_Union, FS_EmptySet
<1>8. Cardinality(A \cup B) = 2^(n + 1)
  <2>1. n + 1 \in Nat
    OBVIOUS
  <2>2. QED
    BY <1>2, <2>1, PowerIsCount
<1>9. QED
  BY <1>5, <1>7, <1>8

\* A power of 2 is positive: it counts at least the empty set.
LEMMA PowerPositive ==
  ASSUME NEW n \in Nat PROVE 2^n \in Nat \ {0}
<1>1. {} \in SUBSET (1..n)
  OBVIOUS
<1>2. QED
  BY <1>1, PowerIsCount, FS_EmptySet

\* Arithmetic on w bits is exact for numbers that fit.
LEMMA WrapFits ==
  ASSUME NEW w \in Nat \ {0}, NEW x \in Nat, x < 2^(w - 1)
  PROVE  ((x + 2^(w - 1)) % 2^w) - 2^(w - 1) = x
<1> DEFINE h == 2^(w - 1)
<1>1. h \in Nat /\ 2^w = 2 * h
  <2>1. w - 1 \in Nat /\ (w - 1) + 1 = w
    OBVIOUS
  <2>2. QED
    BY <2>1, PowerDoubles, PowerIsCount
<1>2. x < h
  OBVIOUS
<1> HIDE DEF h
<1>3. ((x + h) % (2 * h)) - h = x
  BY <1>1, <1>2
<1>4. QED
  BY <1>1, <1>3 DEF h

\* Wrapping stays within the numbers of w bits.
LEMMA WrapRange ==
  ASSUME NEW w \in Nat \ {0}, NEW x \in Int
  PROVE  ((x + 2^(w - 1)) % 2^w) - 2^(w - 1) \in (-(2^(w - 1)))..(2^(w - 1) - 1)
<1> DEFINE h == 2^(w - 1)
<1>1. h \in Nat \ {0} /\ 2^w = 2 * h
  <2>1. w - 1 \in Nat /\ (w - 1) + 1 = w
    OBVIOUS
  <2>2. h \in Nat /\ 2^w = 2 * h
    BY <2>1, PowerDoubles, PowerIsCount
  <2>3. QED
    BY <2>1, <2>2, PowerPositive
<1> HIDE DEF h
<1>2. (x + h) % (2 * h) \in 0..(2 * h - 1)
  BY <1>1
<1>3. QED
  BY <1>1, <1>2 DEF h
=============================================================================
