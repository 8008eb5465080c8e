------------------------------ MODULE Induction ------------------------------
(***************************************************************************)
(* Induction over numbers with a set in the place of a predicate, and what *)
(* it says about counting the members of a set of numbers and about        *)
(* functions defined by recursion.  The library states its own theorems    *)
(* for operators.                                                          *)
(***************************************************************************)
EXTENDS Integers, FiniteSetTheorems, TLAPS

\* A set of natural numbers has a least member: among the intervals from 0 to
\* its members one contains no other, since the strict inclusion of finite sets
\* is well founded.
LEMMA LeastNatural ==
    ASSUME NEW S \in SUBSET Nat, S # {}
    PROVE  \E n \in S : \A m \in S : n <= m
<1> DEFINE Below == {0 .. n : n \in S}
<1>1. Below \subseteq FiniteSubsetsOf(Nat)
  <2>1. ASSUME NEW n \in S PROVE IsFiniteSet(0 .. n) /\ 0 .. n \subseteq Nat
    BY FS_Interval
  <2> QED
    BY <2>1 DEF FiniteSubsetsOf
<1>2. Below # {}
  OBVIOUS
<1>3. \E B \in Below : \A C \in Below : <<C, B>> \notin StrictSubsetOrdering(Nat)
  <2> HIDE DEF Below
  <2>1. IsWellFoundedOn(StrictSubsetOrdering(Nat), FiniteSubsetsOf(Nat))
    BY FS_StrictSubsetOrderingWellFounded
  <2> QED
    BY <1>1, <1>2, <2>1, WFMin
<1>4. PICK n \in S : \A m \in S : <<0 .. m, 0 .. n>> \notin StrictSubsetOrdering(Nat)
  BY <1>3
<1>5. ASSUME NEW m \in S PROVE n <= m
  <2>1. 0 .. m \in SUBSET Nat /\ 0 .. n \in SUBSET Nat
    OBVIOUS
  <2>2. ~ (0 .. m \subseteq 0 .. n) \/ 0 .. m = 0 .. n
    BY <1>4, <2>1 DEF StrictSubsetOrdering
  <2>3. n \in 0 .. n /\ (n \in 0 .. m => n <= m)
    OBVIOUS
  <2>4. m < n => 0 .. m \subseteq 0 .. n
    OBVIOUS
  <2> QED
    BY <2>2, <2>3, <2>4
<1> QED
  BY <1>5

\* So has a set of integers with a lower bound.
LEMMA LeastInteger ==
    ASSUME NEW S \in SUBSET Int, S # {}, NEW k \in Int, \A n \in S : k <= n
    PROVE  \E n \in S : \A m \in S : n <= m
<1> DEFINE T == {n - k : n \in S}
<1>1. PICK d \in T : \A e \in T : d <= e
  <2>1. ASSUME NEW n \in S PROVE n - k \in Nat
    OBVIOUS
  <2>2. T \in SUBSET Nat /\ T # {}
    BY <2>1
  <2> HIDE DEF T
  <2> QED
    BY <2>2, LeastNatural
<1>2. PICK n \in S : d = n - k
  OBVIOUS
<1>3. ASSUME NEW m \in S PROVE n <= m
  <2>1. n - k <= m - k
    BY <1>1, <1>2
  <2> QED
    BY <2>1
<1> QED
  BY <1>3

\* Induction from k upwards.
LEMMA IntervalInduction ==
    ASSUME NEW k \in Int, NEW S, k \in S,
           \A n \in Int : k <= n /\ n \in S => n + 1 \in S
    PROVE  \A n \in Int : k <= n => n \in S
<1> DEFINE Missing == {n \in Int : k <= n /\ n \notin S}
<1> SUFFICES ASSUME Missing # {} PROVE FALSE
  OBVIOUS
<1>1. PICK n \in Missing : \A m \in Missing : n <= m
  <2>1. Missing \in SUBSET Int /\ \A m \in Missing : k <= m
    OBVIOUS
  <2> HIDE DEF Missing
  <2> QED
    BY <2>1, LeastInteger
<1>2. n # k
  OBVIOUS
<1>3. n - 1 \notin Missing
  BY <1>1
<1>4. n - 1 \in S
  BY <1>2, <1>3
<1> QED
  BY <1>2, <1>4

\* Induction from n downwards.
LEMMA DownwardInduction ==
    ASSUME NEW k \in Int, NEW n \in Int, NEW S, n \in S,
           \A i \in Int : k < i /\ i <= n /\ i \in S => i - 1 \in S
    PROVE  \A i \in k .. n : i \in S
<1> DEFINE Good == {d \in Int : k <= n - d => n - d \in S}
<1>1. 0 \in Good
  OBVIOUS
<1>2. ASSUME NEW d \in Int, 0 <= d /\ d \in Good
      PROVE  d + 1 \in Good
  <2> SUFFICES ASSUME k <= n - (d + 1) PROVE n - (d + 1) \in S
    OBVIOUS
  <2>1. /\ n - d \in Int /\ k < n - d /\ n - d <= n /\ k <= n - d
        /\ (n - d) - 1 = n - (d + 1)
    BY <1>2
  <2>2. n - d \in S
    BY <1>2, <2>1
  <2>3. (n - d) - 1 \in S
    BY <2>1, <2>2
  <2> QED
    BY <2>1, <2>3
<1>3. \A d \in Int : 0 <= d => d \in Good
  <2> HIDE DEF Good
  <2> QED
    BY <1>1, <1>2, IntervalInduction
<1>4. ASSUME NEW i \in k .. n PROVE i \in S
  <2>1. n - i \in Int /\ 0 <= n - i /\ n - (n - i) = i /\ k <= i
    OBVIOUS
  <2>2. n - i \in Good
    BY <1>3, <2>1
  <2> QED
    BY <2>1, <2>2
<1> QED
  BY <1>4

\* The members of a finite set of natural numbers can be counted off: the n-th
\* is the one up to which there are n.
LEMMA MembersCounted ==
    ASSUME NEW S \in SUBSET Nat, IsFiniteSet(S)
    PROVE  \A n \in 1 .. Cardinality(S) :
              \E i \in S : Cardinality({j \in S : j <= i}) = n
<1> DEFINE UpTo(i) == {j \in S : j <= i}
           Counted == {n \in Int : n <= Cardinality(S) =>
                                      \E i \in S : Cardinality(UpTo(i)) = n}
<1>1. Cardinality(S) \in Nat
  BY FS_CardinalityType
<1>2. 1 \in Counted
  <2> SUFFICES ASSUME 1 <= Cardinality(S)
               PROVE  \E i \in S : Cardinality(UpTo(i)) = 1
    OBVIOUS
  <2>1. S # {}
    BY FS_EmptySet
  <2>2. PICK i \in S : \A j \in S : i <= j
    BY <2>1, LeastNatural
  <2>3. UpTo(i) = {i}
    <3>1. \A j \in S : j <= i <=> j = i
      BY <2>2
    <3> QED
      BY <3>1
  <2> QED
    BY <2>3, FS_Singleton
<1>3. ASSUME NEW n \in Int, 1 <= n /\ n \in Counted
      PROVE  n + 1 \in Counted
  <2> SUFFICES ASSUME n + 1 <= Cardinality(S)
               PROVE  \E i \in S : Cardinality(UpTo(i)) = n + 1
    OBVIOUS
  <2>1. PICK i \in S : Cardinality(UpTo(i)) = n
    BY <1>1, <1>3
  <2> DEFINE Beyond == S \ UpTo(i)
  <2>2. IsFiniteSet(UpTo(i))
    BY FS_Subset
  <2>3. Beyond # {}
    <3>1. UpTo(i) # S
      <4> HIDE DEF UpTo
      <4> QED
        BY <1>1, <2>1
    <3> QED
      BY <3>1
  <2>4. PICK k \in Beyond : \A j \in Beyond : k <= j
    <3>1. Beyond \in SUBSET Nat
      OBVIOUS
    <3> HIDE DEF Beyond
    <3> QED
      BY <2>3, <3>1, LeastNatural
  <2>5. UpTo(k) = UpTo(i) \cup {k} /\ k \notin UpTo(i)
    <3>1. \A j \in S : j <= k <=> j <= i \/ j = k
      <4>1. k \in Nat /\ i \in Nat /\ i < k
        OBVIOUS
      <4>2. ASSUME NEW j \in S, ~ (j <= i)
            PROVE  k <= j
        BY <2>4, <4>2
      <4> QED
        BY <4>1, <4>2
    <3>2. k \in S /\ ~ (k <= i)
      OBVIOUS
    <3> QED
      BY <3>1, <3>2
  <2> HIDE DEF UpTo
  <2>6. Cardinality(UpTo(i) \cup {k}) = n + 1
    BY <2>1, <2>2, <2>5, FS_AddElement
  <2> QED
    BY <2>4, <2>5, <2>6
<1>4. \A n \in Int : 1 <= n => n \in Counted
  <2> HIDE DEF Counted
  <2> QED
    BY <1>2, <1>3, IntervalInduction
<1> QED
  BY <1>1, <1>4
-----------------------------------------------------------------------------
(* A function on an interval of integers, defined at its first number and at *)
(* each other one from the value before.                                     *)
Steps(f, k, n, base, step) ==
    /\ f[k] = base
    /\ \A i \in k + 1 .. n : f[i] = step[<<i, f[i - 1]>>]

\* There is such a function.
LEMMA StepsExist ==
    ASSUME NEW V, NEW base \in V, NEW step \in [Int \X V -> V],
           NEW k \in Int, NEW n \in Int, k <= n
    PROVE  \E f \in [k .. n -> V] : Steps(f, k, n, base, step)
<1> DEFINE Good == {m \in Int : \E f \in [k .. m -> V] : Steps(f, k, m, base, step)}
<1>1. k \in Good
  <2> DEFINE f == [i \in k .. k |-> base]
  <2>1. f \in [k .. k -> V] /\ f[k] = base
    OBVIOUS
  <2>2. k + 1 .. k = {}
    OBVIOUS
  <2>3. Steps(f, k, k, base, step)
    BY <2>1, <2>2 DEF Steps
  <2> HIDE DEF f
  <2> QED
    BY <2>1, <2>3
<1>2. ASSUME NEW m \in Int, k <= m /\ m \in Good
      PROVE  m + 1 \in Good
  <2>1. PICK f \in [k .. m -> V] : Steps(f, k, m, base, step)
    BY <1>2
  <2>2. f[m] \in V /\ step[<<m + 1, f[m]>>] \in V
    BY <1>2
  <2> DEFINE g == [i \in k .. m + 1 |-> IF i = m + 1 THEN step[<<m + 1, f[m]>>]
                                                     ELSE f[i]]
  <2>3. g \in [k .. m + 1 -> V]
    BY <2>2
  <2>4. /\ g[m + 1] = step[<<m + 1, f[m]>>]
        /\ \A i \in k .. m : g[i] = f[i]
    BY <1>2
  <2> HIDE DEF g
  <2>5. g[k] = base
    BY <1>2, <2>1, <2>4 DEF Steps
  <2>6. ASSUME NEW i \in k + 1 .. m + 1
        PROVE  g[i] = step[<<i, g[i - 1]>>]
    <3>1. CASE i = m + 1
      <4>1. i - 1 = m /\ g[m] = f[m]
        BY <1>2, <2>4, <3>1
      <4> QED
        BY <2>4, <3>1, <4>1
    <3>2. CASE i # m + 1
      <4>1. i \in k + 1 .. m /\ i \in k .. m /\ i - 1 \in k .. m
        BY <3>2
      <4>2. f[i] = step[<<i, f[i - 1]>>]
        BY <2>1, <4>1 DEF Steps
      <4> QED
        BY <2>4, <4>1, <4>2
    <3> QED
      BY <3>1, <3>2
  <2> QED
    BY <2>3, <2>5, <2>6 DEF Steps
<1>3. \A m \in Int : k <= m => m \in Good
  <2> HIDE DEF Good
  <2> QED
    BY <1>1, <1>2, IntervalInduction
<1> QED
  BY <1>3
=============================================================================
