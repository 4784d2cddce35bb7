---------------------------- MODULE LeastNumber ----------------------------
(***************************************************************************)
(* Minima and maxima of sets of natural numbers, for the scans of arrays   *)
(* that stop at the first match and for the searches of a largest element. *)
(* The proof goes through the well-founded order on finite sets: the       *)
(* smallest element of S is the i whose interval 0..i is minimal.  A       *)
(* smallest counterexample is also how the proofs here do an induction:    *)
(* the last lemma is the first of them, and is for the loops of the code   *)
(* that the models write as functions over an interval.                    *)
(***************************************************************************)
EXTENDS Integers, FiniteSets, FiniteSetTheorems, WellFoundedInduction, TLAPS

(***************************************************************************)
(* A nonempty set of natural numbers has a smallest element: the fact      *)
(* behind every array scan of the code that returns its first match.       *)
(***************************************************************************)
LEMMA SmallestExists ==
  ASSUME NEW S \in SUBSET Nat, S # {}
  PROVE  \E m \in S : \A k \in S : m <= k
<1> DEFINE T == {0 .. i : i \in S}
           R == StrictSubsetOrdering(Nat)
<1>1. IsWellFoundedOn(R, FiniteSubsetsOf(Nat))
  BY FS_StrictSubsetOrderingWellFounded
<1>2. \A i \in S : 0 .. i \in FiniteSubsetsOf(Nat)
  <2>1. \A i \in S : IsFiniteSet(0 .. i)
    BY FS_Interval
  <2>2. QED
    BY <2>1 DEF FiniteSubsetsOf
<1>3. T \subseteq FiniteSubsetsOf(Nat) /\ T # {}
  BY <1>2
<1>4. PICK x \in T : \A y \in T : ~(<<y, x>> \in R)
  <2> HIDE DEF T, R
  <2> QED BY <1>1, <1>3, WFMin
<1>5. PICK m \in S : x = 0 .. m
  BY <1>4
<1>6. ASSUME NEW k \in S, k < m
      PROVE  FALSE
  <2>1. 0 .. k \in T /\ 0 .. k \subseteq 0 .. m /\ 0 .. k # 0 .. m
    BY <1>6
  <2>2. <<0 .. k, x>> \in R
    BY <2>1, <1>5 DEF StrictSubsetOrdering
  <2>3. QED
    BY <2>1, <2>2, <1>4
<1>7. QED
  BY <1>6

(***************************************************************************)
(* A nonempty finite set of natural numbers has a largest element: what a  *)
(* maximum search such as maxjid returns.                                  *)
(***************************************************************************)
LEMMA LargestExists ==
  ASSUME NEW S \in SUBSET Nat, S # {}, IsFiniteSet(S)
  PROVE  \E m \in S : \A k \in S : k <= m
<1> DEFINE Above(i) == {k \in S : i < k}
           T == {Above(i) : i \in S}
           R == StrictSubsetOrdering(Nat)
<1>1. IsWellFoundedOn(R, FiniteSubsetsOf(Nat))
  BY FS_StrictSubsetOrderingWellFounded
<1>2. \A i \in S : Above(i) \in FiniteSubsetsOf(Nat)
  <2>1. \A i \in S : IsFiniteSet(Above(i))
    BY FS_Subset
  <2>2. QED
    BY <2>1 DEF FiniteSubsetsOf
<1>3. T \subseteq FiniteSubsetsOf(Nat) /\ T # {}
  BY <1>2
<1>4. PICK x \in T : \A y \in T : ~(<<y, x>> \in R)
  <2> HIDE DEF T, R
  <2> QED BY <1>1, <1>3, WFMin
<1>5. PICK m \in S : x = Above(m)
  BY <1>4
<1>6. ASSUME NEW k \in S, m < k
      PROVE  FALSE
  <2>1. Above(k) \in T /\ Above(k) \subseteq Above(m) /\ Above(k) # Above(m)
    <3>1. k \in Above(m) /\ k \notin Above(k)
      BY <1>6
    <3>2. \A i \in Above(k) : i \in Above(m)
      BY <1>6
    <3>3. QED
      BY <3>1, <3>2
  <2>2. <<Above(k), x>> \in R
    BY <2>1, <1>5 DEF StrictSubsetOrdering
  <2>3. QED
    BY <2>1, <2>2, <1>4
<1>7. QED
  BY <1>6

(***************************************************************************)
(* The values that a loop of n turns goes through: it starts with a, and   *)
(* the turn i makes step[<<i, x>>] of x.                                   *)
(***************************************************************************)
Loops(f, n, S, a, step) ==
  /\ f \in [0 .. n -> S]
  /\ f[0] = a
  /\ \A i \in 1 .. n : f[i] = step[<<i, f[i - 1]>>]

(***************************************************************************)
(* A loop of n turns has a value after each of them: the recursive         *)
(* function that starts with a and makes one step after the other exists.  *)
(***************************************************************************)
LEMMA LoopExists ==
  ASSUME NEW n \in Nat, NEW S, NEW a \in S, NEW step \in [(1 .. n) \X S -> S]
  PROVE  \E f : Loops(f, n, S, a, step)
<1> DEFINE Runs(f, k) == f[0] = a /\ \A i \in 1 .. k : f[i] = step[<<i, f[i - 1]>>]
           Stuck == {k \in 0 .. n : ~ \E f \in [0 .. k -> S] : Runs(f, k)}
<1>1. Stuck \in SUBSET Nat
  OBVIOUS
<1>2. ASSUME NEW k \in 0 .. n, k \in Stuck
      PROVE  \E m \in Stuck : m < k
  <2>1. CASE k = 0
    <3>1. [i \in 0 .. 0 |-> a] \in [0 .. 0 -> S] /\ Runs([i \in 0 .. 0 |-> a], 0)
      OBVIOUS
    <3>2. QED
      BY <2>1, <3>1, <1>2
  <2>2. CASE k # 0 /\ k - 1 \notin Stuck
    <3>1. k - 1 \in 0 .. n /\ k \in 1 .. n
      BY <2>2
    <3>2. PICK f \in [0 .. k - 1 -> S] : Runs(f, k - 1)
      BY <2>2, <3>1
    <3> DEFINE g == [i \in 0 .. k |-> IF i = k THEN step[<<k, f[k - 1]>>] ELSE f[i]]
    <3>3. step[<<k, f[k - 1]>>] \in S
      BY <3>1
    <3>4. g \in [0 .. k -> S]
      BY <3>3
    <3>5. g[k] = step[<<k, f[k - 1]>>] /\ \A i \in 0 .. k - 1 : g[i] = f[i]
      BY <3>1
    <3>6. Runs(g, k)
      <4> HIDE DEF g
      <4>1. g[0] = a
        BY <3>1, <3>2, <3>5
      <4>2. ASSUME NEW i \in 1 .. k
            PROVE  g[i] = step[<<i, g[i - 1]>>]
        <5>1. g[i - 1] = f[i - 1]
          BY <3>5
        <5>2. CASE i = k
          BY <5>1, <5>2, <3>5
        <5>3. CASE i # k
          <6>1. i \in 1 .. k - 1 /\ g[i] = f[i]
            BY <5>3, <3>5
          <6>2. QED
            BY <6>1, <5>1, <3>2
        <5>4. QED
          BY <5>2, <5>3
      <4>3. QED
        BY <4>1, <4>2
    <3>7. QED
      <4> HIDE DEF g
      <4> QED BY <3>4, <3>6, <1>2
  <2>3. CASE k # 0 /\ k - 1 \in Stuck
    BY <2>3
  <2>4. QED
    BY <2>1, <2>2, <2>3
<1>3. Stuck = {}
  <2>1. Stuck \subseteq 0 .. n
    OBVIOUS
  <2> HIDE DEF Stuck
  <2>2. QED
    BY <1>1, <1>2, <2>1, SmallestExists
<1>4. n \in 0 .. n /\ n \notin Stuck
  <2> HIDE DEF Stuck
  <2> QED BY <1>3
<1>5. PICK f \in [0 .. n -> S] : Runs(f, n)
  BY <1>4
<1>6. QED
  BY <1>5 DEF Loops
=============================================================================
