----------------------------- MODULE Induction -----------------------------
(***************************************************************************)
(* Induction over the naturals by the least counterexample: stated of sets *)
(* and functions, which the provers can instantiate, in the place of       *)
(* operators, which they cannot.  And what the proofs about recursive      *)
(* functions, about loops over a sequence and about counting have in       *)
(* common.                                                                 *)
(***************************************************************************)
EXTENDS Integers, Sequences, FiniteSets, FiniteSetTheorems, FunctionTheorems,
        WellFoundedInduction, TLAPS

\* A set of naturals with a member has a least one.
LEMMA LeastNatural ==
    ASSUME NEW S \in SUBSET Nat, S # {}
    PROVE  \E n \in S : \A m \in S : n <= m
<1>1. IsWellFoundedOn(OpToRel(<, Nat), Nat)
  BY NatLessThanWellFounded
<1>2. PICK n \in S : \A m \in S : ~ (<<m, n>> \in OpToRel(<, Nat))
  BY <1>1, WFMin
<1>3. \A m \in S : ~(m < n)
  BY <1>2 DEF OpToRel
<1> QED
  BY <1>3

\* What holds of 0 and goes from each number to the next, up to n.
LEMMA InductionUpTo ==
    ASSUME NEW n \in Nat, NEW S, 0 \in S, \A k \in 1..n : k - 1 \in S => k \in S
    PROVE  0..n \subseteq S
<1> DEFINE Bad == {k \in 0..n : k \notin S}
<1> SUFFICES ASSUME Bad # {} PROVE FALSE
  OBVIOUS
<1>0. Bad \in SUBSET Nat
  OBVIOUS
<1>1. PICK k \in Bad : \A m \in Bad : k <= m
  <2> HIDE DEF Bad
  <2> QED
    BY <1>0, LeastNatural
<1>2. k \in 1..n /\ k - 1 \in 0..n /\ ~(k <= k - 1)
  BY <1>1
<1>3. k - 1 \notin Bad
  BY <1>1, <1>2
<1>4. k \in S
  BY <1>2, <1>3
<1> QED
  BY <1>1, <1>4

\* f starts at zero, and next gives each value from the one before.
Unfolds(f, n, zero, next) == f[0] = zero /\ \A k \in 1..n : f[k] = next[<<f[k - 1], k>>]

\* A function is defined by its value at 0 and by each value's successor.
LEMMA Recursion ==
    ASSUME NEW V, NEW n \in Nat, NEW zero \in V, NEW next \in [V \X (1..n) -> V]
    PROVE  \E f \in [0..n -> V] : Unfolds(f, n, zero, next)
<1> DEFINE Follows(f, k) == f[0] = zero /\ \A i \in 1..k : f[i] = next[<<f[i - 1], i>>]
           S == {k \in 0..n : \E f \in [0..k -> V] : Follows(f, k)}
<1>1. 0 \in S
  <2> DEFINE g == [i \in 0..0 |-> zero]
  <2>1. g \in [0..0 -> V] /\ g[0] = zero
    OBVIOUS
  <2>2. Follows(g, 0)
    BY <2>1
  <2>3. 0 \in 0..n
    OBVIOUS
  <2> HIDE DEF g, Follows
  <2> QED
    BY <2>1, <2>2, <2>3
<1>2. ASSUME NEW k \in 1..n, k - 1 \in S PROVE k \in S
  <2>1. PICK f \in [0..(k - 1) -> V] : Follows(f, k - 1)
    BY <1>2
  <2> DEFINE g == [i \in 0..k |-> IF i = k THEN next[<<f[k - 1], k>>] ELSE f[i]]
  <2>2. next[<<f[k - 1], k>>] \in V
    OBVIOUS
  <2>3. g \in [0..k -> V]
    BY <2>2
  <2>4. ASSUME NEW i \in 1..k PROVE g[i] = next[<<g[i - 1], i>>]
    <3>1. g[i - 1] = f[i - 1]
      OBVIOUS
    <3>2. CASE i = k
      <4>1. g[k] = next[<<f[k - 1], k>>]
        OBVIOUS
      <4> HIDE DEF g
      <4> QED
        BY <3>1, <3>2, <4>1
    <3>3. CASE i # k
      BY <2>1, <3>1, <3>3
    <3> QED
      BY <3>2, <3>3
  <2>5. g[0] = zero
    BY <2>1
  <2>0. k \in 0..n
    OBVIOUS
  <2> HIDE DEF g
  <2>6. Follows(g, k)
    BY <2>4, <2>5
  <2> HIDE DEF Follows
  <2> QED
    BY <2>0, <2>3, <2>6
<1>3. n \in S
  <2> HIDE DEF S
  <2> QED
    BY <1>1, <1>2, InductionUpTo
<1> QED
  BY <1>3 DEF Unfolds

\* Of finitely many numbers one is the greatest.
LEMMA Greatest ==
    ASSUME NEW n \in Nat \ {0}, NEW f, \A i \in 1..n : f[i] \in Int
    PROVE  \E i \in 1..n : \A j \in 1..n : f[j] <= f[i]
<1> DEFINE S == {k \in 0..n : k > 0 => \E i \in 1..k : \A j \in 1..k : f[j] <= f[i]}
<1>1. 0 \in S
  OBVIOUS
<1>2. ASSUME NEW k \in 1..n, k - 1 \in S PROVE k \in S
  <2>1. CASE k = 1
    BY <2>1
  <2>2. CASE k > 1
    <3>1. PICK i \in 1..(k - 1) : \A j \in 1..(k - 1) : f[j] <= f[i]
      BY <1>2, <2>2
    <3>2. CASE f[k] <= f[i]
      <4>1. i \in 1..k /\ \A j \in 1..k : f[j] <= f[i]
        BY <3>1, <3>2
      <4> QED
        BY <4>1
    <3>3. CASE ~(f[k] <= f[i])
      <4>1. \A j \in 1..k : f[j] <= f[k]
        BY <3>1, <3>3
      <4> QED
        BY <4>1
    <3> QED
      BY <3>2, <3>3
  <2> QED
    BY <2>1, <2>2
<1>3. n \in S
  <2> HIDE DEF S
  <2> QED
    BY <1>1, <1>2, InductionUpTo
<1> QED
  BY <1>3
=============================================================================
