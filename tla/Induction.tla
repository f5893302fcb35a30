------------------------------ MODULE Induction ------------------------------
(***************************************************************************)
(* Induction over the natural numbers, for sets of them: what the proofs   *)
(* about recursive functions and about shortest ways through a graph use.  *)
(***************************************************************************)
EXTENDS WellFoundedInduction, FiniteSetTheorems, TLAPS

\* A set of natural numbers has a least element.
LEMMA LeastElement ==
  ASSUME NEW T, T \subseteq Nat, T # {}
  PROVE  \E m \in T : \A k \in T : m <= k
<1> DEFINE R == {ss \in Nat \X Nat : ss[1] < ss[2]}
<1>1. IsWellFoundedOn(R, Nat)
  BY NatLessThanWellFounded DEF OpToRel
<1>2. PICK m \in T : \A k \in T : ~(<<k, m>> \in R)
  <2> HIDE DEF R
  <2> QED  BY <1>1, WFMin
<1>3. \A k \in T : ~(k < m)
  BY <1>2
<1> QED  BY <1>3

\* A set that holds 0, and n + 1 with n, holds every natural number.
LEMMA SetInduction ==
  ASSUME NEW S, 0 \in S, \A n \in Nat : n \in S => n + 1 \in S
  PROVE  Nat \subseteq S
<1> SUFFICES ASSUME Nat \ S # {} PROVE FALSE
  OBVIOUS
<1>1. PICK m \in Nat \ S : \A k \in Nat \ S : m <= k
  BY LeastElement
<1>2. m # 0 /\ m - 1 \in Nat /\ ~(m <= m - 1) /\ m = (m - 1) + 1
  BY <1>1
<1>3. m - 1 \in S
  BY <1>1, <1>2
<1> QED  BY <1>1, <1>2, <1>3

\* A sequence of N steps from c, each given by the one before.
Steps(N, c, F, g) ==
  /\ g \in [0..N -> Int] /\ g[0] = c
  /\ \A k \in 1..N : g[k] = F[<<g[k - 1], k>>]

\* There is one ...
LEMMA StepsExist ==
  ASSUME NEW N \in Nat, NEW c \in Int, NEW F \in [Int \X (1..N) -> Int]
  PROVE  \E g : Steps(N, c, F, g)
<1> DEFINE Upto(n, g) == /\ g \in [0..n -> Int] /\ g[0] = c
                         /\ \A k \in 1..n : g[k] = F[<<g[k - 1], k>>]
           S == {n \in Nat : n <= N => \E g : Upto(n, g)}
<1>1. 0 \in S
  <2>1. Upto(0, [k \in 0..0 |-> c])
    OBVIOUS
  <2> QED  BY <2>1
<1>2. ASSUME NEW n \in Nat, n \in S PROVE n + 1 \in S
  <2>1. SUFFICES ASSUME n + 1 <= N PROVE \E g : Upto(n + 1, g)
    OBVIOUS
  <2>2. PICK g : Upto(n, g)
    BY <1>2, <2>1
  <2>3. n + 1 \in 1..N /\ g[n] \in Int
    BY <2>1, <2>2
  <2> DEFINE v == F[<<g[n], n + 1>>]
             h == [k \in 0..(n + 1) |-> IF k = n + 1 THEN v ELSE g[k]]
  <2>4. v \in Int
    BY <2>3
  <2>5. h \in [0..(n + 1) -> Int] /\ h[n + 1] = v /\ \A k \in 0..n : h[k] = g[k]
    <3> HIDE DEF v
    <3> QED  BY <2>2, <2>4
  <2>6. ASSUME NEW k \in 1..(n + 1) PROVE h[k] = F[<<h[k - 1], k>>]
    <3> HIDE DEF h
    <3>1. CASE k = n + 1
      <4>1. k - 1 = n /\ n \in 0..n
        BY <3>1
      <4> QED  BY <2>5, <3>1, <4>1
    <3>2. CASE k # n + 1
      <4>1. k \in 1..n /\ k \in 0..n /\ k - 1 \in 0..n
        BY <3>2
      <4> QED  BY <2>2, <2>5, <4>1
    <3> QED  BY <3>1, <3>2
  <2>7. h[0] = c
    BY <2>2, <2>5
  <2> HIDE DEF h
  <2>8. Upto(n + 1, h)
    BY <2>5, <2>6, <2>7
  <2> QED  BY <2>8
<1>3. N \in S
  <2> HIDE DEF S
  <2> QED  BY <1>1, <1>2, SetInduction
<1> QED  BY <1>3 DEF Steps

\* h starts as g does, and agrees with it on k when it does on the number before.
Follows(N, g, h) ==
  /\ h[0] = g[0]
  /\ \A k \in 1..N : h[k - 1] = g[k - 1] => h[k] = g[k]

\* ... and no other: what follows a function agrees with it everywhere.
LEMMA StepsUnique ==
  ASSUME NEW N \in Nat, NEW g, NEW h, Follows(N, g, h)
  PROVE  \A k \in 0..N : h[k] = g[k]
<1> USE DEF Follows
<1> DEFINE S == {n \in Nat : n <= N => h[n] = g[n]}
<1>1. 0 \in S
  OBVIOUS
<1>2. ASSUME NEW n \in Nat, n \in S PROVE n + 1 \in S
  <2>1. SUFFICES ASSUME n + 1 <= N PROVE h[n + 1] = g[n + 1]
    OBVIOUS
  <2>2. n + 1 \in 1..N /\ (n + 1) - 1 = n /\ h[n] = g[n]
    BY <1>2, <2>1
  <2> QED  BY <2>2
<1>3. Nat \subseteq S
  <2> HIDE DEF S
  <2> QED  BY <1>1, <1>2, SetInduction
<1> QED  BY <1>3

-----------------------------------------------------------------------------
(* Powers of two, as the numbers of subsets. *)

LEMMA PowerZero == 2^0 = 1
<1>1. IsFiniteSet({}) /\ Cardinality({}) = 0
  BY FS_EmptySet
<1>2. Cardinality(SUBSET {}) = 2^0
  BY <1>1, FS_SUBSET
<1>3. SUBSET {} = {{}}
  OBVIOUS
<1>4. Cardinality({{}}) = 1
  BY FS_Singleton
<1> QED  BY <1>2, <1>3, <1>4

\* Half of the subsets of 1..(n + 1) hold n + 1.
LEMMA PowerDoubles ==
  ASSUME NEW n \in Nat
  PROVE  2^(n + 1) = 2^n + 2^n /\ 2^n \in Nat
<1> DEFINE S == 1..n
           T == 1..(n + 1)
           B == {x \cup {n + 1} : x \in SUBSET S}
           f == [x \in SUBSET S |-> x \cup {n + 1}]
<1>1. IsFiniteSet(S) /\ Cardinality(S) = n /\ IsFiniteSet(T) /\ Cardinality(T) = n + 1
  BY FS_Interval
<1>2. /\ IsFiniteSet(SUBSET S) /\ Cardinality(SUBSET S) = 2^n
      /\ Cardinality(SUBSET T) = 2^(n + 1)
  BY <1>1, FS_SUBSET
<1>3. n + 1 \notin S /\ T = S \cup {n + 1}
  OBVIOUS
<1> HIDE DEF S, T
<1>4. f \in Bijection(SUBSET S, B)
  <2>1. \A x, y \in SUBSET S : f[x] = f[y] => x = y
    BY <1>3
  <2>2. f \in [SUBSET S -> B] /\ \A b \in B : \E x \in SUBSET S : f[x] = b
    OBVIOUS
  <2> QED  BY <2>1, <2>2 DEF Bijection, Injection, Surjection, IsInjective
<1>5. IsFiniteSet(B) /\ Cardinality(B) = 2^n
  <2> HIDE DEF f, B
  <2> QED  BY <1>2, <1>4, FS_Bijection DEF ExistsBijection
<1>6. SUBSET T = (SUBSET S) \cup B
  <2>1. ASSUME NEW x \in SUBSET T, n + 1 \in x PROVE x \in B
    <3>1. x \ {n + 1} \in SUBSET S /\ x = (x \ {n + 1}) \cup {n + 1}
      BY <1>3, <2>1
    <3> QED  BY <3>1
  <2>2. ASSUME NEW x \in SUBSET T, n + 1 \notin x PROVE x \in SUBSET S
    BY <1>3, <2>2
  <2>3. SUBSET S \subseteq SUBSET T /\ B \subseteq SUBSET T
    BY <1>3
  <2> QED  BY <2>1, <2>2, <2>3
<1>7. (SUBSET S) \cap B = {}
  BY <1>3
<1>8. Cardinality((SUBSET S) \cup B) = 2^n + 2^n - Cardinality({})
  <2> HIDE DEF B
  <2> QED  BY <1>2, <1>5, <1>7, FS_Union
<1>9. Cardinality({}) = 0 /\ 2^n \in Nat
  BY <1>2, FS_EmptySet, FS_CardinalityType
<1>10. 2^(n + 1) = Cardinality((SUBSET S) \cup B)
  BY <1>2, <1>6
<1> HIDE DEF B
<1>11. 2^(n + 1) = 2^n + 2^n - 0
  BY <1>8, <1>9, <1>10
<1> QED  BY <1>9, <1>11

LEMMA PowerPositive ==
  ASSUME NEW n \in Nat
  PROVE  2^n \in Nat \ {0}
<1> DEFINE S == {m \in Nat : 2^m \in Nat \ {0}}
<1>1. 0 \in S
  BY PowerZero
<1>2. \A m \in Nat : m \in S => m + 1 \in S
  BY PowerDoubles
<1> HIDE DEF S
<1>3. n \in S
  BY <1>1, <1>2, SetInduction
<1> QED  BY <1>3 DEF S

\* A power of two is a multiple of each smaller one.
LEMMA PowerDivides ==
  ASSUME NEW m \in Nat, NEW n \in Nat, m <= n
  PROVE  \E q \in Nat \ {0} : 2^n = q * 2^m
<1> DEFINE S == {d \in Nat : \E q \in Nat \ {0} : 2^(m + d) = q * 2^m}
<1>1. 0 \in S
  <2>1. 2^(m + 0) = 1 * 2^m
    BY PowerPositive
  <2> QED  BY <2>1
<1>2. ASSUME NEW d \in Nat, d \in S PROVE d + 1 \in S
  <2>1. PICK q \in Nat \ {0} : 2^(m + d) = q * 2^m
    BY <1>2
  <2>2. m + d \in Nat /\ m + (d + 1) = (m + d) + 1
    OBVIOUS
  <2>3. 2^(m + (d + 1)) = q * 2^m + q * 2^m
    BY <2>1, <2>2, PowerDoubles
  <2>4. q * 2^m + q * 2^m = (q + q) * 2^m /\ q + q \in Nat \ {0} /\ d + 1 \in Nat
    BY PowerPositive
  <2>5. \E r \in Nat \ {0} : 2^(m + (d + 1)) = r * 2^m
    <3>1. 2^(m + (d + 1)) = (q + q) * 2^m
      BY <2>3, <2>4
    <3> HIDE DEF S
    <3> QED  BY <2>4, <3>1, Zenon
  <2> QED  BY <2>4, <2>5
<1> HIDE DEF S
<1>3. n - m \in S /\ m + (n - m) = n
  BY <1>1, <1>2, SetInduction
<1> QED  BY <1>3 DEF S

\* Powers of two multiply by adding their exponents ...
LEMMA PowerSum ==
  ASSUME NEW m \in Nat, NEW n \in Nat
  PROVE  2^(m + n) = 2^m * 2^n
<1> DEFINE S == {d \in Nat : 2^(m + d) = 2^m * 2^d}
<1>1. 0 \in S
  <2>1. 2^m \in Nat /\ m + 0 = m
    BY PowerPositive
  <2> QED  BY <2>1, PowerZero
<1>2. ASSUME NEW d \in Nat, d \in S PROVE d + 1 \in S
  <2>1. 2^(m + d) = 2^m * 2^d /\ m + d \in Nat /\ m + (d + 1) = (m + d) + 1
    BY <1>2
  <2>2. 2^(m + (d + 1)) = 2^m * 2^d + 2^m * 2^d /\ 2^(d + 1) = 2^d + 2^d
    BY <2>1, PowerDoubles
  <2>3. \A a, b \in Nat : a * b + a * b = a * (b + b)
    OBVIOUS
  <2>4. 2^m \in Nat /\ 2^d \in Nat
    BY PowerPositive
  <2>5. 2^m * 2^d + 2^m * 2^d = 2^m * (2^d + 2^d)
    BY <2>3, <2>4, Zenon
  <2> QED  BY <2>2, <2>5
<1> HIDE DEF S
<1>3. n \in S
  BY <1>1, <1>2, SetInduction
<1> QED  BY <1>3 DEF S

\* ... and grow with them.
LEMMA PowerGrows ==
  ASSUME NEW m \in Nat, NEW n \in Nat
  PROVE  /\ m <= n => 2^m <= 2^n
         /\ m < n => 2^m < 2^n /\ 2 * 2^m <= 2^n
<1>1. \A k, l \in Nat : k <= l => 2^k <= 2^l
  <2>1. SUFFICES ASSUME NEW k \in Nat, NEW l \in Nat, k <= l PROVE 2^k <= 2^l
    OBVIOUS
  <2>2. PICK q \in Nat \ {0} : 2^l = q * 2^k
    BY <2>1, PowerDivides
  <2>3. \A a \in Nat : a <= q * a
    OBVIOUS
  <2> QED  BY <2>2, <2>3, PowerPositive
<1>2. ASSUME m < n PROVE 2 * 2^m <= 2^n /\ 2^m < 2^n
  <2>1. 2^(m + 1) = 2^m + 2^m /\ 2^m \in Nat \ {0}
    BY PowerDoubles, PowerPositive
  <2>2. 2^(m + 1) <= 2^n
    BY <1>1, <1>2
  <2>3. 2^n \in Nat
    BY PowerPositive
  <2> QED  BY <2>1, <2>2, <2>3
<1> QED  BY <1>1, <1>2

LEMMA PowerExceeds ==
  ASSUME NEW n \in Nat
  PROVE  n < 2^n
<1> DEFINE S == {m \in Nat : m < 2^m}
<1>1. 0 \in S
  BY PowerZero
<1>2. ASSUME NEW m \in Nat, m \in S PROVE m + 1 \in S
  BY <1>2, PowerDoubles
<1> HIDE DEF S
<1>3. n \in S
  BY <1>1, <1>2, SetInduction
<1> QED  BY <1>3 DEF S
=============================================================================
