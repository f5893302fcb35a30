-------------------------- MODULE ArithmeticProofs ---------------------------
(***************************************************************************)
(* checked_add and checked_multiply answer the exact result when the type  *)
(* can express it and "overflow" when it cannot, for every width; the      *)
(* loops of shape.cc that multiply with them compute the number of         *)
(* elements and row-major strides, for every rank, every extent and every  *)
(* width; and Scalar::to converts to the number that the scalar stands     *)
(* for, or to the nearest one of the format, for all formats and widths.   *)
(***************************************************************************)
EXTENDS Shape, Scalar, SequenceTheorems, Induction

-----------------------------------------------------------------------------
(* Checked arithmetic. *)

\* Division of a natural number, by its defining inequalities.
LEMMA DivFacts ==
  ASSUME NEW a \in Nat, NEW b \in Nat \ {0}
  PROVE  /\ a \div b \in Nat /\ (a \div b) * b <= a /\ a < (a \div b) * b + b
  OBVIOUS

\* checked_add is addition where the sum fits, for signed and unsigned types.
THEOREM AddIsExact ==
  ASSUME NEW max \in Nat, NEW T \in {Signed(max), Unsigned(max)},
         NEW lhs \in Values(T), NEW rhs \in Values(T)
  PROVE  checked_add(T, lhs, rhs) =
           IF lhs + rhs \in Values(T) THEN lhs + rhs ELSE OVERFLOW
  BY DEF checked_add, AddOverflows, Values, Signed, Unsigned, IsUnsigned

\* A factor is larger than a quotient exactly if the product exceeds the dividend.
LEMMA FactorBound ==
  ASSUME NEW a \in Nat, NEW b \in Nat \ {0}, NEW x \in Nat
  PROVE  x > a \div b <=> x * b > a
<1> DEFINE q == a \div b
<1>1. q \in Nat /\ q * b <= a /\ a < q * b + b
  BY DivFacts
<1> HIDE DEF q
<1>2. CASE x <= q
  <2>1. x * b <= q * b
    BY <1>1, <1>2
  <2> QED
    BY <1>1, <1>2, <2>1 DEF q
<1>3. CASE x >= q + 1
  <2>1. x * b >= (q + 1) * b /\ (q + 1) * b = q * b + b
    BY <1>1, <1>3
  <2> QED
    BY <1>1, <1>3, <2>1 DEF q
<1> QED
  BY <1>1, <1>2, <1>3

\* The product of two factors by the signs they have.
LEMMA Signs ==
  ASSUME NEW x \in Int, NEW y \in Int
  PROVE  /\ x * y = y * x
         /\ (-x) * y = -(x * y) /\ x * (-y) = -(x * y) /\ (-x) * (-y) = x * y
         /\ x > 0 /\ y > 0 => x * y > 0
         /\ x < 0 /\ y < 0 => x * y > 0
         /\ x > 0 /\ y < 0 => x * y < 0
         /\ x < 0 /\ y > 0 => x * y < 0
  OBVIOUS

\* The tests find exactly the products that an unsigned type cannot express ...
LEMMA UnsignedTests ==
  ASSUME NEW max \in Nat, NEW lhs \in Values(Unsigned(max)) \ {0},
         NEW rhs \in Values(Unsigned(max)) \ {0}
  PROVE  MultiplyOverflows(Unsigned(max), lhs, rhs) <=> lhs * rhs \notin Values(Unsigned(max))
<1>1. lhs \in Nat \ {0} /\ rhs \in Nat \ {0}
  BY DEF Values, Unsigned
<1>2. MultiplyOverflows(Unsigned(max), lhs, rhs) <=> lhs > max \div rhs
  BY <1>1 DEF MultiplyOverflows, Quotient, IsUnsigned, Unsigned
<1>3. lhs * rhs \in Values(Unsigned(max)) <=> ~(lhs * rhs > max)
  BY <1>1, Signs DEF Values, Unsigned
<1> QED
  BY <1>1, <1>2, <1>3, FactorBound

\* ... and exactly those that a signed type cannot.
LEMMA SignedTests ==
  ASSUME NEW max \in Nat, NEW lhs \in Values(Signed(max)) \ {0},
         NEW rhs \in Values(Signed(max)) \ {0}
  PROVE  MultiplyOverflows(Signed(max), lhs, rhs) <=> lhs * rhs \notin Values(Signed(max))
<1> DEFINE T == Signed(max)
<1>1. /\ lhs \in Int /\ rhs \in Int /\ lhs # 0 /\ rhs # 0 /\ ~IsUnsigned(T)
      /\ T.max = max /\ T.min = -max - 1 /\ lhs >= -max - 1 /\ rhs >= -max - 1
      /\ lhs * rhs \in Int
  BY DEF Values, Signed, IsUnsigned
<1>2. lhs * rhs \in Values(T) <=> lhs * rhs >= -max - 1 /\ lhs * rhs <= max
  BY <1>1 DEF Values
<1>3. CASE lhs > 0 /\ rhs > 0
  <2>1. MultiplyOverflows(T, lhs, rhs) <=> lhs > max \div rhs
    BY <1>1, <1>3 DEF MultiplyOverflows, Quotient
  <2>2. lhs > max \div rhs <=> lhs * rhs > max
    BY <1>1, <1>3, FactorBound
  <2> QED
    BY <1>1, <1>2, <1>3, <2>1, <2>2, Signs
<1>4. CASE lhs > 0 /\ rhs < 0
  <2>1. Quotient(T.min, lhs) = -((max + 1) \div lhs) /\ (max + 1) \div lhs \in Nat
    BY <1>1, <1>4, DivFacts DEF Quotient
  <2>3. MultiplyOverflows(T, lhs, rhs) <=> -rhs > (max + 1) \div lhs
    BY <1>1, <1>4, <2>1 DEF MultiplyOverflows
  <2>4. -rhs > (max + 1) \div lhs <=> (-rhs) * lhs > max + 1
    BY <1>1, <1>4, FactorBound
  <2>5. (-rhs) * lhs = -(lhs * rhs) /\ lhs * rhs < 0
    BY <1>1, <1>4, Signs
  <2> QED
    BY <1>1, <1>2, <2>3, <2>4, <2>5
<1>5. CASE lhs < 0 /\ rhs > 0
  <2>1. Quotient(T.min, rhs) = -((max + 1) \div rhs) /\ (max + 1) \div rhs \in Nat
    BY <1>1, <1>5, DivFacts DEF Quotient
  <2>3. MultiplyOverflows(T, lhs, rhs) <=> -lhs > (max + 1) \div rhs
    BY <1>1, <1>5, <2>1 DEF MultiplyOverflows
  <2>4. -lhs > (max + 1) \div rhs <=> (-lhs) * rhs > max + 1
    BY <1>1, <1>5, FactorBound
  <2>5. (-lhs) * rhs = -(lhs * rhs) /\ lhs * rhs < 0
    BY <1>1, <1>5, Signs
  <2> QED
    BY <1>1, <1>2, <2>3, <2>4, <2>5
<1>6. CASE lhs < 0 /\ rhs < 0
  <2>1. Quotient(T.max, rhs) = -(max \div (-rhs)) /\ max \div (-rhs) \in Nat
    BY <1>1, <1>6, DivFacts DEF Quotient
  <2>2. -lhs > max \div (-rhs) <=> (-lhs) * (-rhs) > max
    BY <1>1, <1>6, FactorBound
  <2>3. (-lhs) * (-rhs) = lhs * rhs /\ lhs * rhs > 0
    BY <1>1, <1>6, Signs
  <2>4. lhs = -1 /\ rhs = T.min => lhs * rhs > max
    BY <1>1
  <2>5. rhs = -1 /\ lhs = T.min => lhs * rhs > max
    BY <1>1
  <2>6. lhs < Quotient(T.max, rhs) <=> lhs * rhs > max
    BY <1>1, <2>1, <2>2, <2>3
  <2>7. MultiplyOverflows(T, lhs, rhs) <=> lhs * rhs > max
    BY <1>1, <1>6, <2>4, <2>5, <2>6 DEF MultiplyOverflows
  <2> QED
    BY <1>1, <1>2, <2>3, <2>7
<1> QED
  BY <1>1, <1>3, <1>4, <1>5, <1>6

\* checked_multiply is multiplication where the product fits.
THEOREM MultiplyIsExact ==
  ASSUME NEW max \in Nat, NEW T \in {Signed(max), Unsigned(max)},
         NEW lhs \in Values(T), NEW rhs \in Values(T)
  PROVE  checked_multiply(T, lhs, rhs) =
           IF lhs * rhs \in Values(T) THEN lhs * rhs ELSE OVERFLOW
<1>1. lhs \in Int /\ rhs \in Int /\ 0 \in Values(T)
  BY DEF Values, Signed, Unsigned
<1>2. CASE lhs = 0 \/ rhs = 0
  <2>1. lhs * rhs = 0
    BY <1>1, <1>2
  <2> QED
    BY <1>1, <1>2, <2>1 DEF checked_multiply
<1>3. CASE lhs # 0 /\ rhs # 0
  BY <1>3, UnsignedTests, SignedTests DEF checked_multiply
<1> QED
  BY <1>2, <1>3

-----------------------------------------------------------------------------
(* Products and offsets. *)

\* The products of the first 0, 1, 2, ... elements of s.
Products(s) == CHOOSE g : Steps(Len(s), 1, [p \in Int \X (1..Len(s)) |-> p[1] * s[p[2]]], g)

LEMMA ProductsOf ==
  ASSUME NEW s \in Seq(Int)
  PROVE  /\ Products(s) \in [0..Len(s) -> Int] /\ Products(s)[0] = 1
         /\ \A k \in 1..Len(s) : Products(s)[k] = Products(s)[k - 1] * s[k]
         /\ Product(s) = Products(s)[Len(s)]
<1> DEFINE F == [p \in Int \X (1..Len(s)) |-> p[1] * s[p[2]]]
           g == Products(s)
<1>1. Len(s) \in Nat /\ \A k \in 1..Len(s) : s[k] \in Int
  BY LenProperties, ElementOfSeq
<1>2. F \in [Int \X (1..Len(s)) -> Int]
  BY <1>1
<1>3. Steps(Len(s), 1, F, g)
  <2> HIDE DEF F
  <2>1. \E f : Steps(Len(s), 1, F, f)
    <3>1. 1 \in Int
      OBVIOUS
    <3> QED  BY <1>1, <1>2, <3>1, StepsExist, Zenon
  <2> QED  BY <2>1 DEF Products, F
<1>4. /\ g \in [0..Len(s) -> Int] /\ g[0] = 1
      /\ \A k \in 1..Len(s) : g[k] = g[k - 1] * s[k]
  <2>1. /\ g \in [0..Len(s) -> Int] /\ g[0] = 1
        /\ \A k \in 1..Len(s) : g[k] = F[<<g[k - 1], k>>]
    BY <1>3 DEF Steps
  <2>2. \A k \in 1..Len(s) : k - 1 \in 0..Len(s)
    BY <1>1
  <2> QED  BY <1>1, <2>1, <2>2
<1>5. \A h : h = [n \in 0..Len(s) |-> IF n = 0 THEN 1 ELSE h[n - 1] * s[n]] => h = g
  <2>1. SUFFICES ASSUME NEW h, h = [n \in 0..Len(s) |-> IF n = 0 THEN 1 ELSE h[n - 1] * s[n]]
                 PROVE  h = g
    OBVIOUS
  <2>2. h[0] = 1
    BY <1>1, <2>1
  <2>3. ASSUME NEW k \in 1..Len(s) PROVE h[k] = h[k - 1] * s[k]
    <3>1. k \in 0..Len(s) /\ k # 0
      BY <1>1
    <3> QED  BY <2>1, <3>1
  <2>4. h[0] = g[0] /\ \A k \in 1..Len(s) : h[k - 1] = g[k - 1] => h[k] = g[k]
    BY <1>4, <2>2, <2>3
  <2>5. \A k \in 0..Len(s) : h[k] = g[k]
    <3> HIDE DEF g
    <3>1. Len(s) \in Nat /\ Follows(Len(s), g, h)
      BY <1>1, <2>4 DEF Follows
    <3> QED  BY <3>1, StepsUnique
  <2> QED  BY <1>4, <2>1, <2>5
<1>6. g = [n \in 0..Len(s) |-> IF n = 0 THEN 1 ELSE g[n - 1] * s[n]]
  BY <1>1, <1>4
<1>7. Product(s) = g[Len(s)]
  <2> HIDE DEF g
  <2> QED  BY <1>5, <1>6 DEF Product
<1> QED  BY <1>4, <1>7

\* The offsets of an element along the first 0, 1, 2, ... axes.
Offsets(ix, s) ==
  CHOOSE g : Steps(Len(s), 0, [p \in Int \X (1..Len(s)) |-> p[1] + ix[p[2]] * s[p[2]]], g)

LEMMA OffsetsOf ==
  ASSUME NEW s \in Seq(Int), NEW ix \in [1..Len(s) -> Int]
  PROVE  /\ Offsets(ix, s) \in [0..Len(s) -> Int] /\ Offsets(ix, s)[0] = 0
         /\ \A k \in 1..Len(s) : Offsets(ix, s)[k] = Offsets(ix, s)[k - 1] + ix[k] * s[k]
         /\ Offset(ix, s) = Offsets(ix, s)[Len(s)]
<1> DEFINE F == [p \in Int \X (1..Len(s)) |-> p[1] + ix[p[2]] * s[p[2]]]
           g == Offsets(ix, s)
<1>1. Len(s) \in Nat /\ \A k \in 1..Len(s) : s[k] \in Int /\ ix[k] \in Int
  BY LenProperties, ElementOfSeq
<1>2. F \in [Int \X (1..Len(s)) -> Int]
  BY <1>1
<1>3. Steps(Len(s), 0, F, g)
  <2> HIDE DEF F
  <2>1. \E f : Steps(Len(s), 0, F, f)
    <3>1. 0 \in Int
      OBVIOUS
    <3> QED  BY <1>1, <1>2, <3>1, StepsExist, Zenon
  <2> QED  BY <2>1 DEF Offsets, F
<1>4. /\ g \in [0..Len(s) -> Int] /\ g[0] = 0
      /\ \A k \in 1..Len(s) : g[k] = g[k - 1] + ix[k] * s[k]
  <2>1. /\ g \in [0..Len(s) -> Int] /\ g[0] = 0
        /\ \A k \in 1..Len(s) : g[k] = F[<<g[k - 1], k>>]
    BY <1>3 DEF Steps
  <2>2. \A k \in 1..Len(s) : k - 1 \in 0..Len(s)
    BY <1>1
  <2> QED  BY <1>1, <2>1, <2>2
<1>5. \A h : h = [n \in 0..Len(s) |-> IF n = 0 THEN 0 ELSE h[n - 1] + ix[n] * s[n]] => h = g
  <2>1. SUFFICES ASSUME NEW h, h = [n \in 0..Len(s) |->
                                      IF n = 0 THEN 0 ELSE h[n - 1] + ix[n] * s[n]]
                 PROVE  h = g
    OBVIOUS
  <2>2. h[0] = 0
    BY <1>1, <2>1
  <2>3. ASSUME NEW k \in 1..Len(s) PROVE h[k] = h[k - 1] + ix[k] * s[k]
    <3>1. k \in 0..Len(s) /\ k # 0
      BY <1>1
    <3> QED  BY <2>1, <3>1
  <2>4. h[0] = g[0] /\ \A k \in 1..Len(s) : h[k - 1] = g[k - 1] => h[k] = g[k]
    BY <1>4, <2>2, <2>3
  <2>5. \A k \in 0..Len(s) : h[k] = g[k]
    <3> HIDE DEF g
    <3>1. Len(s) \in Nat /\ Follows(Len(s), g, h)
      BY <1>1, <2>4 DEF Follows
    <3> QED  BY <3>1, StepsUnique
  <2>6. g = [n \in 0..Len(s) |-> g[n]]
    BY <1>4
  <2>7. h = [n \in 0..Len(s) |-> h[n]]
    BY <2>1
  <2> QED  BY <2>5, <2>6, <2>7
<1>6. g = [n \in 0..Len(s) |-> IF n = 0 THEN 0 ELSE g[n - 1] + ix[n] * s[n]]
  BY <1>1, <1>4
<1>7. Offset(ix, s) = g[Len(s)]
  <2> HIDE DEF g
  <2> QED  BY <1>5, <1>6 DEF Offset
<1> QED  BY <1>4, <1>7

\* An extent of zero makes the product zero, whatever follows it.
LEMMA ZeroProduct ==
  ASSUME NEW s \in Seq(Int), NEW i \in 1..Len(s), s[i] = 0
  PROVE  Product(s) = 0
<1> DEFINE P == Products(s)
           S == {n \in Nat : i + n <= Len(s) => P[i + n] = 0}
<1>1. /\ P \in [0..Len(s) -> Int] /\ \A k \in 1..Len(s) : P[k] = P[k - 1] * s[k]
      /\ Product(s) = P[Len(s)] /\ Len(s) \in Nat /\ \A k \in 1..Len(s) : s[k] \in Int
  BY ProductsOf, LenProperties, ElementOfSeq
<1> HIDE DEF P
<1>2. 0 \in S
  <2>1. i \in 1..Len(s) /\ i - 1 \in 0..Len(s) /\ i + 0 = i
    BY <1>1
  <2>2. P[i] = P[i - 1] * s[i] /\ P[i - 1] \in Int
    BY <1>1, <2>1
  <2>3. P[i] = 0
    BY <2>2
  <2> QED  BY <2>1, <2>3
<1>3. ASSUME NEW n \in Nat, n \in S PROVE n + 1 \in S
  <2>1. SUFFICES ASSUME i + (n + 1) <= Len(s) PROVE P[i + (n + 1)] = 0
    OBVIOUS
  <2>2. i + (n + 1) \in 1..Len(s) /\ (i + (n + 1)) - 1 = i + n /\ P[i + n] = 0
    BY <1>1, <1>3, <2>1
  <2>3. s[i + (n + 1)] \in Int /\ P[i + (n + 1)] = 0 * s[i + (n + 1)]
    BY <1>1, <2>2
  <2> QED  BY <2>3
<1>4. Len(s) - i \in S
  <2> HIDE DEF S
  <2>1. Len(s) - i \in Nat
    BY <1>1
  <2> QED  BY <1>2, <1>3, <2>1, SetInduction
<1>5. Len(s) - i \in Nat /\ i + (Len(s) - i) = Len(s)
  BY <1>1
<1> QED  BY <1>1, <1>4, <1>5

\* A product of positive numbers is not less than a product of the first of them.
LEMMA ProductGrows ==
  ASSUME NEW s \in Seq(Int), \A i \in 1..Len(s) : s[i] >= 1, NEW n \in 0..Len(s)
  PROVE  Products(s)[n] >= 1 /\ Products(s)[n] <= Product(s)
<1> DEFINE P == Products(s)
           S == {m \in Nat : m <= Len(s) => P[m] >= 1 /\ (n <= m => P[n] <= P[m])}
<1>1. /\ P \in [0..Len(s) -> Int] /\ \A k \in 1..Len(s) : P[k] = P[k - 1] * s[k]
      /\ Product(s) = P[Len(s)] /\ Len(s) \in Nat /\ \A k \in 1..Len(s) : s[k] \in Int
      /\ P[0] = 1
  BY ProductsOf, LenProperties, ElementOfSeq
<1> HIDE DEF P
<1>2. 0 \in S
  BY <1>1
<1>3. ASSUME NEW m \in Nat, m \in S PROVE m + 1 \in S
  <2>1. SUFFICES ASSUME m + 1 <= Len(s)
                 PROVE  P[m + 1] >= 1 /\ (n <= m + 1 => P[n] <= P[m + 1])
    OBVIOUS
  <2>2. /\ m + 1 \in 1..Len(s) /\ (m + 1) - 1 = m /\ m \in 0..Len(s) /\ m + 1 \in 0..Len(s)
        /\ P[m] >= 1 /\ (n <= m => P[n] <= P[m])
    BY <1>1, <1>3, <2>1
  <2>3. /\ P[m] \in Int /\ P[n] \in Int /\ s[m + 1] \in Int /\ s[m + 1] >= 1
        /\ P[m + 1] = P[m] * s[m + 1] /\ P[m + 1] \in Int
    BY <1>1, <2>2
  <2>4. P[m] * s[m + 1] >= P[m]
    BY <2>2, <2>3
  <2>5. n <= m + 1 => n <= m \/ n = m + 1
    BY <1>1
  <2> QED  BY <2>2, <2>3, <2>4, <2>5
<1>4. Nat \subseteq S
  <2> HIDE DEF S
  <2> QED  BY <1>2, <1>3, SetInduction
<1>5. n \in S /\ Len(s) \in S /\ n \in Nat /\ n <= Len(s)
  <2> HIDE DEF S
  <2> QED  BY <1>1, <1>4
<1>6. P[n] >= 1 /\ P[n] <= P[Len(s)]
  BY <1>1, <1>5
<1> QED  BY <1>1, <1>6 DEF P

\* The products of the elements of s after the n-th: the row-major strides.
Suffixes(s) ==
  CHOOSE g : /\ g \in [0..Len(s) -> Int] /\ g[Len(s)] = 1
             /\ \A k \in 1..Len(s) : g[k - 1] = g[k] * s[k]

LEMMA SuffixesOf ==
  ASSUME NEW s \in Seq(Int)
  PROVE  /\ Suffixes(s) \in [0..Len(s) -> Int] /\ Suffixes(s)[Len(s)] = 1
         /\ \A k \in 1..Len(s) : Suffixes(s)[k - 1] = Suffixes(s)[k] * s[k]
         /\ Suffixes(s)[0] = Product(s)
<1> DEFINE n == Len(s)
           F == [p \in Int \X (1..n) |-> p[1] * s[n + 1 - p[2]]]
<1>1. n \in Nat /\ \A k \in 1..n : s[k] \in Int /\ n + 1 - k \in 1..n
  BY LenProperties, ElementOfSeq
<1>2. F \in [Int \X (1..n) -> Int]
  BY <1>1
<1>3. PICK f : Steps(n, 1, F, f)
  <2> HIDE DEF F
  <2>1. 1 \in Int
    OBVIOUS
  <2> QED  BY <1>1, <1>2, <2>1, StepsExist, Zenon
<1>4. /\ f \in [0..n -> Int] /\ f[0] = 1
      /\ \A k \in 1..n : f[k] = f[k - 1] * s[n + 1 - k]
  <2>1. /\ f \in [0..n -> Int] /\ f[0] = 1
        /\ \A k \in 1..n : f[k] = F[<<f[k - 1], k>>]
    BY <1>3 DEF Steps
  <2>2. \A k \in 1..n : k - 1 \in 0..n
    BY <1>1
  <2> QED  BY <1>1, <2>1, <2>2
<1> DEFINE g == [k \in 0..n |-> f[n - k]]
<1>5. g \in [0..n -> Int] /\ g[n] = 1 /\ \A k \in 1..n : g[k - 1] = g[k] * s[k]
  <2>1. \A k \in 0..n : n - k \in 0..n /\ n - n = 0 /\ n \in 0..n
    BY <1>1
  <2>2. g \in [0..n -> Int] /\ g[n] = 1
    BY <1>4, <2>1
  <2>3. ASSUME NEW k \in 1..n PROVE g[k - 1] = g[k] * s[k]
    <3>1. /\ n - (k - 1) \in 1..n /\ (n - (k - 1)) - 1 = n - k /\ n + 1 - (n - (k - 1)) = k
          /\ k \in 0..n /\ k - 1 \in 0..n
      BY <1>1
    <3>2. g[k - 1] = f[n - (k - 1)] /\ g[k] = f[n - k]
      BY <3>1
    <3> QED  BY <1>4, <3>1, <3>2
  <2> QED  BY <2>2, <2>3
<1> HIDE DEF g
<1> DEFINE R == Suffixes(s)
           P == Products(s)
<1>6. R \in [0..n -> Int] /\ R[n] = 1 /\ \A k \in 1..n : R[k - 1] = R[k] * s[k]
  BY <1>5 DEF Suffixes
<1>7. /\ P \in [0..n -> Int] /\ P[0] = 1
      /\ \A k \in 1..n : P[k] = P[k - 1] * s[k]
      /\ Product(s) = P[n]
  BY ProductsOf
<1> DEFINE S == {m \in Nat : m <= n => P[m] * R[m] = R[0]}
<1> HIDE DEF R, P, n
<1>8. 0 \in S
  BY <1>1, <1>6, <1>7
<1>9. ASSUME NEW m \in Nat, m \in S PROVE m + 1 \in S
  <2>1. SUFFICES ASSUME m + 1 <= n PROVE P[m + 1] * R[m + 1] = R[0]
    OBVIOUS
  <2>2. /\ m + 1 \in 1..n /\ (m + 1) - 1 = m /\ m \in 0..n /\ m + 1 \in 0..n
        /\ P[m] * R[m] = R[0]
    BY <1>1, <1>9, <2>1
  <2>3. /\ P[m] \in Int /\ R[m] \in Int /\ R[m + 1] \in Int /\ s[m + 1] \in Int
        /\ P[m + 1] = P[m] * s[m + 1] /\ R[m] = R[m + 1] * s[m + 1]
    BY <1>1, <1>6, <1>7, <2>2
  <2>4. (P[m] * s[m + 1]) * R[m + 1] = P[m] * (R[m + 1] * s[m + 1])
    BY <2>3
  <2> QED  BY <2>2, <2>3, <2>4
<1>10. P[n] * R[n] = R[0]
  <2> HIDE DEF S
  <2>1. n \in S
    BY <1>1, <1>8, <1>9, SetInduction
  <2> QED  BY <1>1, <2>1 DEF S
<1>11. P[n] \in Int
  BY <1>1, <1>7
<1> QED  BY <1>6, <1>7, <1>10, <1>11 DEF R, n

\* Strides of extents that are not empty are positive, and grow towards the first axis.
LEMMA SuffixesGrow ==
  ASSUME NEW s \in Seq(Int), \A i \in 1..Len(s) : s[i] >= 1, NEW n \in 0..Len(s)
  PROVE  Suffixes(s)[n] >= 1 /\ Suffixes(s)[n] <= Product(s)
<1> DEFINE R == Suffixes(s)
           S == {m \in Nat : m <= Len(s) =>
                   R[Len(s) - m] >= 1 /\ (Len(s) - m <= n => R[n] <= R[Len(s) - m])}
<1>1. /\ R \in [0..Len(s) -> Int] /\ R[Len(s)] = 1 /\ R[0] = Product(s)
      /\ \A k \in 1..Len(s) : R[k - 1] = R[k] * s[k]
      /\ Len(s) \in Nat /\ \A k \in 1..Len(s) : s[k] \in Int
  BY SuffixesOf, LenProperties, ElementOfSeq
<1> HIDE DEF R
<1>2. 0 \in S
  BY <1>1
<1>3. ASSUME NEW m \in Nat, m \in S PROVE m + 1 \in S
  <2> DEFINE k == Len(s) - m
  <2>1. SUFFICES ASSUME m + 1 <= Len(s) PROVE R[k - 1] >= 1 /\ (k - 1 <= n => R[n] <= R[k - 1])
    BY <1>1
  <2>2. k \in 1..Len(s) /\ k \in 0..Len(s) /\ R[k] >= 1 /\ (k <= n => R[n] <= R[k])
    BY <1>1, <1>3, <2>1
  <2> HIDE DEF k
  <2>3. /\ R[k] \in Int /\ R[n] \in Int /\ s[k] \in Int /\ s[k] >= 1
        /\ R[k - 1] = R[k] * s[k] /\ R[k - 1] \in Int
    <3>1. k - 1 \in 0..Len(s)
      BY <1>1, <2>2
    <3> QED  BY <1>1, <2>2, <3>1
  <2>4. R[k] * s[k] >= R[k]
    <3>1. \A a, b \in Int : a >= 1 /\ b >= 1 => a * b >= a
      <4>1. ASSUME NEW a \in Int, NEW b \in Int, a >= 1, b >= 1 PROVE a * (b - 1) >= 0
        BY <4>1
      <4> QED  BY <4>1
    <3> QED  BY <2>2, <2>3, <3>1
  <2>5. k - 1 <= n => k <= n \/ n = k - 1
    BY <2>2
  <2>6. R[k - 1] >= R[k] /\ R[k - 1] >= 1
    BY <2>2, <2>3, <2>4
  <2>7. ASSUME k - 1 <= n PROVE R[n] <= R[k - 1]
    <3>1. CASE k <= n
      BY <2>2, <2>3, <2>6, <3>1
    <3>2. CASE n = k - 1
      BY <2>3, <3>2
    <3> QED  BY <2>5, <2>7, <3>1, <3>2
  <2> QED  BY <2>6, <2>7
<1>4. Nat \subseteq S
  <2> HIDE DEF S
  <2> QED  BY <1>2, <1>3, SetInduction
<1>5. /\ Len(s) - n \in S /\ Len(s) \in S /\ n \in Nat /\ n <= Len(s)
      /\ Len(s) - n <= Len(s) /\ Len(s) - (Len(s) - n) = n /\ Len(s) - Len(s) = 0
  <2> HIDE DEF S
  <2> QED  BY <1>1, <1>4
<1>6. R[n] >= 1 /\ R[n] <= R[0]
  BY <1>1, <1>5
<1> QED  BY <1>1, <1>6 DEF R

-----------------------------------------------------------------------------
(* The functions of shape.cc. *)

Extents(d) == [i \in 1..Len(d) |-> Extent(d[i])]

\* Contiguous strides, where they fit.
Contiguous(d) == [i \in 1..Len(d) |-> Suffixes(Extents(d))[i]]

\* Where each loop stands, and what each answer was.
NumelLoop ==
  pc = "numel" =>
    /\ \A i \in 1..Len(dims) : dims[i] >= 1
    /\ axis >= 1 /\ acc = Products(dims)[axis - 1]

StridesLoop ==
  pc = "strides" =>
    /\ axis <= Len(dims) /\ acc = Suffixes(Extents(dims))[axis]
    /\ Len(strides) = Len(dims)
    /\ \A i \in (axis + 1)..Len(dims) : strides[i] = Suffixes(Extents(dims))[i]

Unasked == pc = "new" => axis = 0 /\ numel = NULL /\ layout = NULL /\ dense = NULL

LayoutExact ==
  layout # NULL =>
    layout = IF Product(Extents(dims)) > DimMax THEN OVERFLOW ELSE Contiguous(dims)

AnswerExact ==
  /\ dense # NULL => layout # NULL
  /\ dense = "true" => asked = layout /\ Returned(layout)
  /\ dense = "false" => Returned(layout) /\ asked # layout /\ Len(asked) = Len(dims)

ShapeInv ==
  /\ TypeOK /\ Unasked /\ NumelLoop /\ StridesLoop
  /\ NumelExact /\ LayoutExact /\ AnswerExact

LEMMA ExtentsOf ==
  ASSUME NEW d \in Seq(0..DimMax)
  PROVE  /\ d \in Seq(Int) /\ Len(d) \in Nat /\ \A i \in 1..Len(d) : d[i] \in 0..DimMax
         /\ Extents(d) \in Seq(Int) /\ Len(Extents(d)) = Len(d)
         /\ \A i \in 1..Len(d) :
              /\ Extents(d)[i] = Extent(d[i]) /\ Extents(d)[i] \in 1..DimMax
              /\ d[i] >= 1 => Extents(d)[i] = d[i]
         /\ (\A i \in 1..Len(d) : d[i] >= 1) => Extents(d) = d
<1>1. Len(d) \in Nat /\ \A i \in 1..Len(d) : d[i] \in 0..DimMax
  BY LenProperties, ElementOfSeq
<1>2. d \in Seq(Int)
  <2>1. 0..DimMax \subseteq Int
    BY ShapeAssumption
  <2> QED  BY <2>1, SeqMonotonic
<1>3. ASSUME NEW i \in 1..Len(d)
      PROVE  Extent(d[i]) \in 1..DimMax /\ (d[i] >= 1 => Extent(d[i]) = d[i])
  BY <1>1, ShapeAssumption DEF Extent
<1>4. Extents(d) \in [1..Len(d) -> Int]
  BY <1>3 DEF Extents
<1>5. Extents(d) \in Seq(Int) /\ Len(Extents(d)) = Len(d)
  BY <1>1, <1>4
<1>6. ASSUME \A i \in 1..Len(d) : d[i] >= 1 PROVE Extents(d) = d
  <2>1. \A i \in 1..Len(d) : Extents(d)[i] = d[i]
    BY <1>3, <1>6 DEF Extents
  <2> QED  BY <1>2, <1>5, <2>1, SeqEqual
<1>7. \A i \in 1..Len(d) : Extents(d)[i] = Extent(d[i])
  BY DEF Extents
<1> QED  BY <1>1, <1>2, <1>3, <1>5, <1>6, <1>7

\* Counting an empty extent as 1 does not make a product smaller.
LEMMA ProductOfExtents ==
  ASSUME NEW d \in Seq(0..DimMax)
  PROVE  /\ Product(d) \in Nat /\ Product(Extents(d)) \in Nat \ {0}
         /\ Product(d) <= Product(Extents(d))
         /\ (\E i \in 1..Len(d) : d[i] = 0) => Product(d) = 0
<1>1. /\ d \in Seq(Int) /\ Len(d) \in Nat /\ \A i \in 1..Len(d) : d[i] \in 0..DimMax
      /\ Extents(d) \in Seq(Int) /\ Len(Extents(d)) = Len(d)
      /\ \A i \in 1..Len(Extents(d)) : Extents(d)[i] >= 1
      /\ (\A i \in 1..Len(d) : d[i] >= 1) => Extents(d) = d
  BY ExtentsOf, ShapeAssumption
<1>2. Product(Extents(d)) \in Nat \ {0}
  <2> DEFINE e == Extents(d)
             n == Len(e)
  <2> HIDE DEF e
  <2>1. e \in Seq(Int) /\ n \in Nat /\ n \in 0..n /\ \A i \in 1..Len(e) : e[i] >= 1
    BY <1>1 DEF e
  <2>2. Products(e)[n] >= 1 /\ Products(e)[n] <= Product(e)
    BY <2>1, ProductGrows
  <2>3. Products(e)[n] \in Int /\ Product(e) = Products(e)[n]
    BY <2>1, ProductsOf
  <2> QED  BY <2>2, <2>3 DEF e
<1>3. CASE \E i \in 1..Len(d) : d[i] = 0
  BY <1>1, <1>2, <1>3, ZeroProduct
<1>4. CASE ~ \E i \in 1..Len(d) : d[i] = 0
  <2>1. \A i \in 1..Len(d) : d[i] >= 1
    BY <1>1, <1>4
  <2> QED  BY <1>1, <1>2, <1>4, <2>1
<1> QED  BY <1>3, <1>4

LEMMA ContiguousOf ==
  ASSUME NEW d \in Seq(0..DimMax)
  PROVE  /\ Contiguous(d) \in Seq(Int) /\ Len(Contiguous(d)) = Len(d)
         /\ \A i \in 1..Len(d) : Contiguous(d)[i] = Suffixes(Extents(d))[i]
<1>1. /\ Len(d) \in Nat
      /\ Extents(d) \in Seq(Int) /\ Len(Extents(d)) = Len(d)
  BY ExtentsOf
<1>2. Suffixes(Extents(d)) \in [0..Len(d) -> Int]
  BY <1>1, SuffixesOf
<1>3. Contiguous(d) \in [1..Len(d) -> Int]
  BY <1>1, <1>2 DEF Contiguous
<1> QED  BY <1>1, <1>3 DEF Contiguous

LEMMA ShapeInitInv ==
  ASSUME Init PROVE ShapeInv
<1>1. <<>> \in Seq(0..DimMax) /\ <<>> \in Seq(Values(Dim)) /\ Len(<<>>) = 0
  BY EmptySeq
<1>2. 1 \in Values(Count) /\ 0 \in 0..(Len(<<>>) + 1)
  BY <1>1, ShapeAssumption DEF Values, Count, Unsigned
<1> QED
  BY <1>1, <1>2, ShapeAssumption DEF Init, ShapeInv, TypeOK, Unasked, NumelLoop, StridesLoop, NumelExact,
     LayoutExact, AnswerExact

LEMMA FromDimsInv ==
  ASSUME ShapeInv, NEW extents \in Tuples(Values(Dim)), FromDims(extents)
  PROVE  ShapeInv'
<1> USE DEF FromDims
<1>1. pc = "new" /\ axis = 0 /\ numel = NULL /\ layout = NULL /\ dense = NULL /\ TypeOK
  BY DEF ShapeInv, Unasked
<1>2. dims' \in Seq(0..DimMax) /\ Len(dims') \in Nat
  <2>1. CASE dims' = dims
    BY <1>1, <2>1, LenProperties DEF TypeOK
  <2>2. CASE dims' = extents /\ \A i \in 1..Len(extents) : ~(extents[i] < 0)
    <3>1. PICK n \in 0..MaxRank : extents \in [1..n -> Values(Dim)]
      BY DEF Tuples
    <3>2. n \in Nat /\ Len(extents) = n
      BY <3>1, ShapeAssumption
    <3>3. \A i \in 1..n : extents[i] \in 0..DimMax
      BY <2>2, <3>1, <3>2, ShapeAssumption DEF Values, Dim, Signed
    <3>4. extents \in [1..n -> 0..DimMax]
      BY <3>1, <3>3
    <3>5. extents \in Seq(0..DimMax)
      BY <3>2, <3>4, SeqDef
    <3> QED  BY <2>2, <3>2, <3>5
  <2> QED  BY <2>1, <2>2
<1>3. pc' \in {"idle", "rejected"}
  OBVIOUS
<1>4. TypeOK'
  BY <1>1, <1>2, <1>3 DEF TypeOK, answer
<1>5. UNCHANGED <<numel, layout, dense>>
  BY DEF answer
<1> QED
  BY <1>1, <1>3, <1>4, <1>5, ShapeAssumption DEF ShapeInv, Unasked, NumelLoop, StridesLoop,
     NumelExact, LayoutExact, AnswerExact

LEMMA BeginNumelInv ==
  ASSUME ShapeInv, BeginNumel
  PROVE  ShapeInv'
<1> USE DEF BeginNumel
<1>1. /\ TypeOK /\ pc = "idle" /\ numel = NULL /\ dims' = dims
      /\ UNCHANGED <<dims, strides, layout, asked, dense>>
  BY DEF ShapeInv, answer
<1>2. /\ dims \in Seq(Int) /\ Len(dims) \in Nat /\ \A i \in 1..Len(dims) : dims[i] \in 0..DimMax
      /\ Products(dims)[0] = 1 /\ Product(dims) \in Nat
      /\ (\E i \in 1..Len(dims) : dims[i] = 0) => Product(dims) = 0
  BY <1>1, ExtentsOf, ProductsOf, ProductOfExtents DEF TypeOK
<1>3. /\ 0 \in Values(Count) /\ 1 \in Values(Count) /\ Count.max \in Nat
      /\ 1 \in 0..(Len(dims) + 1)
  BY <1>2, ShapeAssumption DEF Values, Count, Unsigned
<1>4. CASE \E i \in 1..Len(dims) : dims[i] = 0
  <2>1. numel' = 0 /\ UNCHANGED <<pc, axis, acc>>
    BY <1>4
  <2>2. TypeOK'
    BY <1>1, <1>3, <2>1 DEF TypeOK
  <2>3. NumelExact'
    BY <1>1, <1>2, <1>3, <1>4, <2>1 DEF NumelExact
  <2> QED
    BY <1>1, <2>1, <2>2, <2>3 DEF ShapeInv, Unasked, NumelLoop, StridesLoop, LayoutExact,
       AnswerExact
<1>5. CASE ~ \E i \in 1..Len(dims) : dims[i] = 0
  <2>1. pc' = "numel" /\ axis' = 1 /\ acc' = 1 /\ numel' = numel
    BY <1>5
  <2>2. TypeOK'
    BY <1>1, <1>3, <2>1 DEF TypeOK
  <2>3. NumelLoop'
    <3>1. \A i \in 1..Len(dims) : dims[i] >= 1
      BY <1>2, <1>5
    <3> QED  BY <1>1, <1>2, <2>1, <3>1 DEF NumelLoop
  <2> QED
    BY <1>1, <2>1, <2>2, <2>3 DEF ShapeInv, Unasked, NumelExact, StridesLoop, LayoutExact,
       AnswerExact
<1> QED  BY <1>4, <1>5

LEMMA NumelStepInv ==
  ASSUME ShapeInv, NumelStep
  PROVE  ShapeInv'
<1> DEFINE P == Products(dims)
           next == checked_multiply(Count, acc, dims[axis])
<1>1. /\ TypeOK /\ NumelLoop /\ pc = "numel" /\ axis <= Len(dims)
      /\ UNCHANGED <<dims, strides, layout, asked, dense>>
      /\ \/ next = OVERFLOW /\ pc' = "idle" /\ numel' = OVERFLOW /\ UNCHANGED <<axis, acc>>
         \/ next # OVERFLOW /\ acc' = next /\ axis' = axis + 1 /\ UNCHANGED <<pc, numel>>
  BY DEF ShapeInv, NumelStep, answer
<1>2. /\ dims \in Seq(Int) /\ Len(dims) \in Nat /\ \A i \in 1..Len(dims) : dims[i] \in 0..DimMax
      /\ axis \in 1..Len(dims) /\ axis \in 0..Len(dims) /\ axis - 1 \in 0..Len(dims)
      /\ \A i \in 1..Len(dims) : dims[i] >= 1
      /\ acc = P[axis - 1] /\ acc \in Values(Count) /\ Len(dims) \in 0..Len(dims)
  BY <1>1, ExtentsOf DEF TypeOK, NumelLoop
<1>3. /\ P[axis] = acc * dims[axis] /\ P[axis] \in Int /\ Product(dims) = P[Len(dims)]
      /\ P[axis] >= 1 /\ P[axis] <= Product(dims)
      /\ Product(dims) \in Int
  <2>1. P[axis] >= 1 /\ P[axis] <= Product(dims)
    BY <1>2, ProductGrows
  <2>2. /\ P \in [0..Len(dims) -> Int] /\ Product(dims) = P[Len(dims)]
        /\ \A k \in 1..Len(dims) : P[k] = P[k - 1] * dims[k]
    BY <1>2, ProductsOf
  <2> HIDE DEF P
  <2> QED  BY <1>2, <2>1, <2>2
<1> HIDE DEF P
<1>4. next = IF acc * dims[axis] \in Values(Count) THEN acc * dims[axis] ELSE OVERFLOW
  <2>1. dims[axis] \in Values(Count) /\ 2 * DimMax + 1 \in Nat
    BY <1>2, ShapeAssumption DEF Values, Count, Unsigned
  <2> QED  BY <1>2, <2>1, MultiplyIsExact DEF Count
<1>5. /\ Values(Count) = 0..Count.max /\ Count.max \in Nat
  BY ShapeAssumption DEF Values, Count, Unsigned
<1>6. OVERFLOW \notin Values(Count) /\ OVERFLOW # NULL /\ NULL \notin Values(Count)
  BY <1>5, ShapeAssumption
<1> HIDE DEF next
<1>7. CASE next = OVERFLOW
  <2>1. pc' = "idle" /\ numel' = OVERFLOW /\ UNCHANGED <<axis, acc>>
    BY <1>1, <1>7
  <2>2. Product(dims) > Count.max
    BY <1>3, <1>4, <1>5, <1>6, <1>7
  <2>3. NumelExact'
    BY <1>1, <1>3, <1>5, <2>1, <2>2 DEF NumelExact
  <2>4. TypeOK'
    BY <1>1, <2>1 DEF TypeOK
  <2> QED
    BY <1>1, <2>1, <2>3, <2>4 DEF ShapeInv, Unasked, NumelLoop, StridesLoop, LayoutExact,
       AnswerExact
<1>8. CASE next # OVERFLOW
  <2>1. acc' = P[axis] /\ P[axis] \in Values(Count) /\ axis' = axis + 1 /\ UNCHANGED <<pc, numel>>
    BY <1>1, <1>3, <1>4, <1>8
  <2>2. TypeOK'
    <3>1. axis' \in 0..(Len(dims') + 1)
      BY <1>1, <1>2, <2>1
    <3> QED  BY <1>1, <2>1, <3>1 DEF TypeOK
  <2>3. NumelLoop'
    <3>1. axis' - 1 = axis /\ axis' >= 1
      BY <1>2, <2>1
    <3> QED  BY <1>1, <1>2, <2>1, <3>1 DEF NumelLoop, P
  <2> QED
    BY <1>1, <2>1, <2>2, <2>3 DEF ShapeInv, Unasked, NumelExact, StridesLoop, LayoutExact,
       AnswerExact
<1> QED  BY <1>7, <1>8

LEMMA NumelReturnsInv ==
  ASSUME ShapeInv, NumelReturns
  PROVE  ShapeInv'
<1>1. /\ TypeOK /\ NumelLoop /\ pc = "numel" /\ axis > Len(dims)
      /\ pc' = "idle" /\ numel' = acc
      /\ UNCHANGED <<dims, axis, acc, strides, layout, asked, dense>>
  BY DEF ShapeInv, NumelReturns, answer
<1>2. dims \in Seq(Int) /\ Len(dims) \in Nat /\ axis - 1 = Len(dims) /\ acc = Product(dims)
  <2>1. dims \in Seq(Int) /\ Len(dims) \in Nat
    BY <1>1, ExtentsOf DEF TypeOK
  <2>2. axis - 1 = Len(dims)
    BY <1>1, <2>1 DEF TypeOK
  <2> QED  BY <1>1, <2>1, <2>2, ProductsOf DEF NumelLoop
<1>3. acc <= Count.max
  BY <1>1, ShapeAssumption DEF TypeOK, Values, Count, Unsigned
<1>4. NumelExact'
  BY <1>1, <1>2, <1>3 DEF NumelExact
<1>5. TypeOK'
  BY <1>1 DEF TypeOK
<1> QED
  BY <1>1, <1>4, <1>5 DEF ShapeInv, Unasked, NumelLoop, StridesLoop, LayoutExact, AnswerExact

LEMMA BeginStridesInv ==
  ASSUME ShapeInv, BeginStrides
  PROVE  ShapeInv'
<1> DEFINE e == Extents(dims)
<1>1. /\ TypeOK /\ layout = NULL /\ pc = "idle"
      /\ pc' = "strides" /\ axis' = Len(dims) /\ acc' = 1
      /\ strides' = [i \in 1..Len(dims) |-> 1]
      /\ UNCHANGED <<dims, numel, layout, asked, dense>>
  BY DEF ShapeInv, BeginStrides, answer
<1>2. Len(dims) \in Nat /\ Suffixes(e)[Len(dims)] = 1
  <2>1. Len(dims) \in Nat /\ e \in Seq(Int) /\ Len(e) = Len(dims)
    BY <1>1, ExtentsOf DEF TypeOK
  <2> HIDE DEF e
  <2> QED  BY <2>1, SuffixesOf
<1>3. 1 \in Values(Dim) /\ 1 \in Values(Count)
  BY ShapeAssumption DEF Values, Dim, Count, Signed, Unsigned
<1>4. strides' \in Seq(Values(Dim)) /\ Len(strides') = Len(dims)
  <2>1. strides' \in [1..Len(dims) -> Values(Dim)]
    BY <1>1, <1>3
  <2> QED  BY <1>2, <2>1, SeqDef
<1>5. TypeOK'
  BY <1>1, <1>2, <1>3, <1>4 DEF TypeOK
<1>6. StridesLoop'
  BY <1>1, <1>2, <1>4 DEF StridesLoop
<1> QED
  BY <1>1, <1>5, <1>6 DEF ShapeInv, Unasked, NumelLoop, NumelExact, LayoutExact, AnswerExact

LEMMA StridesStepInv ==
  ASSUME ShapeInv, StridesStep
  PROVE  ShapeInv'
<1> DEFINE e == Extents(dims)
           R == Suffixes(e)
           next == checked_multiply(Dim, acc, Extent(dims[axis]))
<1>1. /\ TypeOK /\ StridesLoop /\ LayoutExact /\ AnswerExact /\ pc = "strides" /\ axis > 0
      /\ strides' = [strides EXCEPT ![axis] = acc]
      /\ \/ next = OVERFLOW /\ pc' = "idle" /\ layout' = OVERFLOW /\ UNCHANGED <<axis, acc>>
         \/ next # OVERFLOW /\ acc' = next /\ axis' = axis - 1 /\ UNCHANGED <<pc, layout>>
      /\ UNCHANGED <<dims, numel, asked, dense>>
  BY DEF ShapeInv, StridesStep, answer
<1>2. /\ e \in Seq(Int) /\ Len(dims) \in Nat /\ Len(e) = Len(dims)
      /\ axis \in 1..Len(dims) /\ axis \in 0..Len(dims) /\ axis - 1 \in 0..Len(dims)
      /\ e[axis] = Extent(dims[axis]) /\ e[axis] \in 1..DimMax
      /\ \A i \in 1..Len(e) : e[i] >= 1
  BY <1>1, ExtentsOf, ShapeAssumption DEF TypeOK, StridesLoop
<1>3. /\ acc = R[axis] /\ acc \in Values(Dim) /\ acc \in Values(Count)
      /\ strides \in Seq(Values(Dim)) /\ Len(strides) = Len(dims)
      /\ \A i \in (axis + 1)..Len(dims) : strides[i] = R[i]
  BY <1>1 DEF TypeOK, StridesLoop
<1> HIDE DEF e
<1>4. /\ R[axis - 1] = acc * e[axis] /\ R[axis - 1] \in Int
      /\ R[axis - 1] >= 1 /\ R[axis - 1] <= Product(e) /\ Product(e) \in Int
  <2>1. /\ R \in [0..Len(e) -> Int] /\ R[0] = Product(e)
        /\ \A k \in 1..Len(e) : R[k - 1] = R[k] * e[k]
    BY <1>2, SuffixesOf
  <2>2. R[axis - 1] >= 1 /\ R[axis - 1] <= Product(e)
    BY <1>2, SuffixesGrow
  <2>3. 0 \in 0..Len(e)
    BY <1>2
  <2> HIDE DEF R
  <2> QED  BY <1>2, <1>3, <2>1, <2>2, <2>3
<1> HIDE DEF R
<1>5. next = IF acc * e[axis] \in Values(Dim) THEN acc * e[axis] ELSE OVERFLOW
  <2>1. e[axis] \in Values(Dim) /\ DimMax \in Nat
    BY <1>2, ShapeAssumption DEF Values, Dim, Signed
  <2> QED  BY <1>2, <1>3, <2>1, MultiplyIsExact DEF Dim
<1>6. /\ \A v \in Int : v >= 1 => (v \in Values(Dim) <=> v <= DimMax)
      /\ \A v \in Int : v >= 1 /\ v <= DimMax => v \in Values(Count)
      /\ OVERFLOW \notin Values(Dim)
  BY ShapeAssumption DEF Values, Dim, Count, Signed, Unsigned
<1>7. /\ strides' \in Seq(Values(Dim)) /\ Len(strides') = Len(dims)
      /\ \A i \in axis..Len(dims) : strides'[i] = R[i]
  <2>1. /\ strides' \in Seq(Values(Dim)) /\ Len(strides') = Len(dims)
        /\ \A i \in 1..Len(dims) : strides'[i] = IF i = axis THEN acc ELSE strides[i]
    BY <1>1, <1>2, <1>3, ExceptSeq
  <2>2. \A i \in axis..Len(dims) : i \in 1..Len(dims) /\ (i # axis => i \in (axis + 1)..Len(dims))
    BY <1>2
  <2> QED  BY <1>3, <2>1, <2>2
<1>8. CASE next = OVERFLOW
  <2> HIDE DEF next
  <2>1. pc' = "idle" /\ layout' = OVERFLOW /\ UNCHANGED <<axis, acc>>
    BY <1>1, <1>8
  <2>2. Product(e) > DimMax
    BY <1>4, <1>5, <1>6, <1>8, ShapeAssumption
  <2>3. TypeOK'
    BY <1>1, <1>7, <2>1 DEF TypeOK
  <2>4. LayoutExact'
    BY <1>1, <2>1, <2>2 DEF LayoutExact, e
  <2>5. AnswerExact'
    <3>1. dense # NULL => layout # NULL
      BY <1>1 DEF AnswerExact
    <3>2. CASE layout = NULL
      BY <1>1, <3>1, <3>2, ShapeAssumption DEF AnswerExact
    <3>3. CASE layout # NULL
      <4>1. layout = OVERFLOW
        BY <1>1, <2>2, <3>3 DEF LayoutExact, e
      <4> QED  BY <1>1, <2>1, <4>1 DEF AnswerExact
    <3> QED  BY <3>2, <3>3
  <2> QED
    BY <1>1, <2>1, <2>3, <2>4, <2>5 DEF ShapeInv, Unasked, NumelLoop, StridesLoop, NumelExact
<1>9. CASE next # OVERFLOW
  <2>1. acc' = R[axis - 1] /\ axis' = axis - 1 /\ UNCHANGED <<pc, layout>>
    BY <1>1, <1>4, <1>5, <1>9
  <2>2. acc' \in Values(Dim) /\ acc' \in Values(Count)
    BY <1>4, <1>5, <1>6, <1>9, <2>1
  <2>3. axis' \in 0..(Len(dims) + 1) /\ axis' <= Len(dims) /\ axis' + 1 = axis
    BY <1>2, <2>1
  <2>4. TypeOK'
    BY <1>1, <1>7, <2>1, <2>2, <2>3 DEF TypeOK
  <2>5. StridesLoop'
    <3>1. acc' = R[axis']
      BY <2>1
    <3> QED  BY <1>1, <1>7, <2>3, <3>1 DEF StridesLoop, e, R
  <2> QED
    BY <1>1, <2>1, <2>4, <2>5 DEF ShapeInv, Unasked, NumelLoop, NumelExact, LayoutExact,
       AnswerExact
<1> QED  BY <1>8, <1>9

LEMMA StridesReturnInv ==
  ASSUME ShapeInv, StridesReturn
  PROVE  ShapeInv'
<1> DEFINE e == Extents(dims)
<1>1. /\ TypeOK /\ StridesLoop /\ LayoutExact /\ AnswerExact /\ pc = "strides" /\ axis = 0
      /\ pc' = "idle" /\ layout' = strides
      /\ UNCHANGED <<dims, axis, acc, strides, numel, asked, dense>>
  BY DEF ShapeInv, StridesReturn, answer
<1>2. /\ strides \in Seq(Values(Dim)) /\ Len(strides) = Len(dims)
      /\ acc = Suffixes(e)[0] /\ acc \in Values(Dim)
      /\ \A i \in 1..Len(dims) : strides[i] = Suffixes(e)[i]
      /\ dims \in Seq(0..DimMax)
  BY <1>1 DEF TypeOK, StridesLoop
<1>3. acc = Product(e) /\ acc <= DimMax /\ acc \in Int
  <2>1. e \in Seq(Int)
    BY <1>2, ExtentsOf
  <2> HIDE DEF e
  <2>2. Suffixes(e)[0] = Product(e)
    BY <2>1, SuffixesOf
  <2> QED  BY <1>2, <2>2, ShapeAssumption DEF Values, Dim, Signed
<1>4. strides = Contiguous(dims)
  <2>1. Values(Dim) \subseteq Int
    BY ShapeAssumption DEF Values, Dim, Signed
  <2>2. strides \in Seq(Int)
    BY <1>2, <2>1, SeqMonotonic
  <2>3. /\ Contiguous(dims) \in Seq(Int) /\ Len(Contiguous(dims)) = Len(dims)
        /\ \A i \in 1..Len(dims) : Contiguous(dims)[i] = Suffixes(e)[i]
    BY <1>2, ContiguousOf
  <2> QED  BY <1>2, <2>2, <2>3, SeqEqual
<1>5. LayoutExact'
  BY <1>1, <1>3, <1>4, ShapeAssumption DEF LayoutExact
<1>6. TypeOK'
  BY <1>1, <1>2 DEF TypeOK
<1>7. AnswerExact'
  <2>1. layout' # NULL
    <3>1. Values(Dim) \subseteq Int
      BY ShapeAssumption DEF Values, Dim, Signed
    <3>2. strides \in Seq(Int)
      BY <1>2, <3>1, SeqMonotonic
    <3> QED  BY <1>1, <3>2, ShapeAssumption
  <2>2. layout = NULL \/ layout = layout'
    BY <1>1, <1>3, <1>4, ShapeAssumption DEF LayoutExact
  <2>3. layout = NULL => dense = NULL
    BY <1>1 DEF AnswerExact
  <2> QED  BY <1>1, <2>1, <2>2, <2>3, ShapeAssumption DEF AnswerExact
<1> QED
  BY <1>1, <1>5, <1>6, <1>7 DEF ShapeInv, Unasked, NumelLoop, StridesLoop, NumelExact

LEMMA IsContiguousInv ==
  ASSUME ShapeInv, layout # NULL, NEW theirs \in GivenStrides, IsContiguous(theirs)
  PROVE  ShapeInv'
<1>1. /\ TypeOK /\ pc = "idle" /\ layout # NULL /\ asked' = theirs
      /\ dense' = IF Len(theirs) # Len(dims) THEN "InvalidArgument"
                  ELSE IF layout = OVERFLOW THEN OVERFLOW
                  ELSE IF theirs = layout THEN "true" ELSE "false"
      /\ UNCHANGED <<pc, dims, axis, acc, strides, numel, layout>>
  BY DEF ShapeInv, IsContiguous
<1>2. theirs \in Seq(Values(Dim))
  <2>1. /\ Len(dims) \in Nat /\ \A i \in 1..Len(dims) : dims[i] \in Values(Dim)
        /\ dims \in Seq(Values(Dim)) /\ 1 \in Values(Dim)
    <3>1. 0..DimMax \subseteq Values(Dim) /\ 1 \in Values(Dim)
      BY ShapeAssumption DEF Values, Dim, Signed
    <3>2. dims \in Seq(0..DimMax) /\ dims \in Seq(Values(Dim))
      BY <1>1, <3>1, SeqMonotonic DEF TypeOK
    <3> QED  BY <3>1, <3>2, LenProperties, ElementOfSeq
  <2>2. CASE theirs = layout /\ theirs # OVERFLOW
    BY <1>1, <2>2 DEF TypeOK
  <2>3. CASE theirs = Append(dims, 1)
    BY <2>1, <2>3
  <2>4. CASE theirs = [i \in 1..Len(dims) |-> 1]
    <3>1. theirs \in [1..Len(dims) -> Values(Dim)]
      BY <2>1, <2>4
    <3> QED  BY <2>1, <3>1, SeqDef
  <2>5. CASE theirs = [i \in 1..Len(dims) |-> dims[Len(dims) + 1 - i]]
    <3>1. \A i \in 1..Len(dims) : Len(dims) + 1 - i \in 1..Len(dims)
      BY <2>1
    <3>2. theirs \in [1..Len(dims) -> Values(Dim)]
      BY <2>1, <2>5, <3>1
    <3> QED  BY <2>1, <3>2, SeqDef
  <2> QED  BY <2>2, <2>3, <2>4, <2>5 DEF GivenStrides
<1>3. TypeOK'
  BY <1>1, <1>2 DEF TypeOK
<1>4. AnswerExact'
  BY <1>1, ShapeAssumption DEF AnswerExact, Returned
<1> QED
  BY <1>1, <1>3, <1>4 DEF ShapeInv, Unasked, NumelLoop, StridesLoop, NumelExact, LayoutExact

\* The loops keep their invariants, so that what they return is what they should.
LEMMA ShapeIsInductive == Spec => []ShapeInv
<1>1. Init => ShapeInv
  BY ShapeInitInv
<1>2. ShapeInv /\ [Next]_svars => ShapeInv'
  <2> SUFFICES ASSUME ShapeInv, [Next]_svars PROVE ShapeInv'
    OBVIOUS
  <2>1. CASE UNCHANGED svars
    BY <2>1 DEF svars, ShapeInv, TypeOK, Unasked, NumelLoop, StridesLoop, NumelExact,
       LayoutExact, AnswerExact
  <2> QED
    BY <2>1, FromDimsInv, BeginNumelInv, NumelStepInv, NumelReturnsInv, BeginStridesInv,
       StridesStepInv, StridesReturnInv, IsContiguousInv DEF Next
<1> QED  BY <1>1, <1>2, PTL DEF Spec

\* The state of a shape's functions has its type.
THEOREM ShapeTypeCorrect == Spec => []TypeOK
<1>1. ShapeInv => TypeOK
  BY DEF ShapeInv
<1> QED  BY <1>1, ShapeIsInductive, PTL

\* numel() is the product of the extents if 64 bits can express it, and says that it
\* overflows if not, for every rank and width and wherever the zeros are.
THEOREM NumelCountsElements == Spec => []NumelExact
<1>1. ShapeInv => NumelExact
  BY DEF ShapeInv
<1> QED  BY <1>1, ShapeIsInductive, PTL

\* A shape is refused strides exactly if they do not fit, and has a number of elements
\* if it has strides.
THEOREM StridesRefused == Spec => []StridesOverflow
<1>1. ASSUME ShapeInv PROVE StridesOverflow
  <2>1. CASE layout = NULL
    BY <2>1 DEF StridesOverflow
  <2>2. CASE layout # NULL
    <3> DEFINE p == Product(Extents(dims))
    <3>1. /\ dims \in Seq(0..DimMax) /\ NumelExact
          /\ layout = IF p > DimMax THEN OVERFLOW ELSE Contiguous(dims)
      BY <1>1, <2>2 DEF ShapeInv, TypeOK, LayoutExact
    <3>2. Contiguous(dims) # OVERFLOW
      BY <3>1, ContiguousOf, ShapeAssumption
    <3>3. /\ Product(dims) \in Int /\ p \in Int /\ Product(dims) <= p
          /\ Count.max \in Int /\ DimMax <= Count.max
      BY <3>1, ProductOfExtents, ShapeAssumption DEF Count, Unsigned
    <3>4. p <= DimMax => numel # OVERFLOW
      <4> HIDE DEF p
      <4>1. SUFFICES ASSUME p <= DimMax PROVE numel # OVERFLOW
        OBVIOUS
      <4>2. Product(dims) <= Count.max
        BY <3>3, <4>1, ShapeAssumption
      <4> QED  BY <3>1, <3>3, <4>2, ShapeAssumption DEF NumelExact
    <3>5. layout = OVERFLOW <=> p > DimMax
      BY <3>1, <3>2
    <3>6. ~(p > DimMax) <=> p <= DimMax
      BY <3>3, ShapeAssumption
    <3> QED  BY <3>4, <3>5, <3>6 DEF StridesOverflow, Extents, Returned
  <2> QED  BY <2>1, <2>2
<1> QED  BY <1>1, ShapeIsInductive, PTL

-----------------------------------------------------------------------------
(* The order in memory. *)

\* No extent is zero.
Inhabited == dims \in Seq(0..DimMax) /\ \A i \in 1..Len(dims) : dims[i] >= 1

\* The strides are the products of the extents after them.
Packed(s) ==
  s \in Seq(Int) /\ Len(s) = Len(dims) /\ \A i \in 1..Len(dims) : s[i] = Suffixes(dims)[i]

LEMMA PackedFacts ==
  ASSUME Inhabited, NEW s, Packed(s)
  PROVE  /\ Len(dims) \in Nat /\ s \in Seq(Int) /\ Len(s) = Len(dims)
         /\ Suffixes(dims) \in [0..Len(dims) -> Nat \ {0}] /\ Suffixes(dims)[Len(dims)] = 1
         /\ Suffixes(dims)[0] = Product(dims)
         /\ \A i \in 1..Len(dims) : /\ s[i] = Suffixes(dims)[i] /\ dims[i] \in Nat \ {0}
                                    /\ Suffixes(dims)[i - 1] = s[i] * dims[i]
                                    /\ s[i] \in Nat \ {0}
<1> DEFINE R == Suffixes(dims)
<1>1. /\ dims \in Seq(Int) /\ Len(dims) \in Nat /\ \A i \in 1..Len(dims) : dims[i] \in 0..DimMax
      /\ \A i \in 1..Len(dims) : dims[i] >= 1
  BY ExtentsOf DEF Inhabited
<1>2. /\ R \in [0..Len(dims) -> Int] /\ R[Len(dims)] = 1 /\ R[0] = Product(dims)
      /\ \A k \in 1..Len(dims) : R[k - 1] = R[k] * dims[k]
  BY <1>1, SuffixesOf
<1>3. \A i \in 0..Len(dims) : R[i] >= 1
  BY <1>1, SuffixesGrow
<1>4. \A i \in 1..Len(dims) : s[i] = R[i]
  BY DEF Packed
<1> HIDE DEF R
<1>5. R \in [0..Len(dims) -> Nat \ {0}]
  BY <1>2, <1>3
<1>6. \A i \in 1..Len(dims) : dims[i] \in Nat \ {0} /\ s[i] \in Nat \ {0}
  <2>1. \A i \in 1..Len(dims) : i \in 0..Len(dims)
    BY <1>1
  <2> QED  BY <1>1, <1>4, <1>5, <2>1, ShapeAssumption
<1> QED  BY <1>1, <1>2, <1>4, <1>5, <1>6 DEF R, Packed

\* Blocks of r places do not overlap, and the first c of them fill r * c places.
LEMMA NextBlock ==
  ASSUME NEW o \in Int, NEW x \in Nat, NEW r \in Nat, NEW c \in Nat, x < c
  PROVE  o <= o + x * r /\ (o + x * r) + r <= o + r * c
<1>1. x * r >= 0 /\ (c - (x + 1)) * r >= 0
  OBVIOUS
<1> QED  BY <1>1

\* The elements that share the first n indices fill a block of as many places.
LEMMA Blocks ==
  ASSUME Inhabited, NEW s, Packed(s), NEW ix \in Indices, NEW n \in 0..Len(dims)
  PROVE  /\ Offsets(ix, s)[n] <= Offset(ix, s)
         /\ Offset(ix, s) < Offsets(ix, s)[n] + Suffixes(dims)[n]
<1> DEFINE N == Len(dims)
           R == Suffixes(dims)
           O == Offsets(ix, s)
           last == Offset(ix, s)
           S == {m \in Nat : m <= N => O[N - m] <= last /\ last < O[N - m] + R[N - m]}
<1>1. /\ N \in Nat /\ s \in Seq(Int) /\ Len(s) = N
      /\ R \in [0..N -> Nat \ {0}] /\ R[N] = 1
      /\ \A i \in 1..N : /\ s[i] = R[i] /\ dims[i] \in Nat \ {0} /\ s[i] \in Nat \ {0}
                         /\ R[i - 1] = s[i] * dims[i]
  BY PackedFacts
<1>2. ix \in [1..N -> Int] /\ \A i \in 1..N : ix[i] \in Nat /\ ix[i] < dims[i]
  BY ShapeAssumption DEF Indices
<1>3. /\ O \in [0..N -> Int] /\ O[0] = 0 /\ last = O[N]
      /\ \A k \in 1..N : O[k] = O[k - 1] + ix[k] * s[k]
  BY <1>1, <1>2, OffsetsOf
<1> HIDE DEF N, R, O, last
<1>4. 0 \in S
  BY <1>1, <1>3
<1>5. ASSUME NEW m \in Nat, m \in S PROVE m + 1 \in S
  <2> DEFINE k == N - m
  <2>1. SUFFICES ASSUME m + 1 <= N
                 PROVE  O[k - 1] <= last /\ last < O[k - 1] + R[k - 1]
    BY <1>1
  <2>2. /\ k \in 1..N /\ k \in 0..N /\ k - 1 \in 0..N
        /\ O[k] <= last /\ last < O[k] + R[k]
    BY <1>1, <1>5, <2>1
  <2> HIDE DEF k
  <2>3. /\ O[k] \in Int /\ O[k - 1] \in Int /\ last \in Int /\ R[k] \in Nat /\ R[k - 1] \in Nat
    <3>1. N \in 0..N
      BY <1>1
    <3> QED  BY <1>1, <1>3, <2>2, <3>1
  <2>4. /\ ix[k] \in Nat /\ dims[k] \in Nat /\ ix[k] < dims[k]
        /\ O[k] = O[k - 1] + ix[k] * R[k] /\ R[k - 1] = R[k] * dims[k]
    BY <1>1, <1>2, <1>3, <2>2
  <2>5. /\ O[k - 1] <= O[k - 1] + ix[k] * R[k]
        /\ (O[k - 1] + ix[k] * R[k]) + R[k] <= O[k - 1] + R[k] * dims[k]
    BY <2>3, <2>4, NextBlock
  <2>6. O[k - 1] <= O[k] /\ O[k] + R[k] <= O[k - 1] + R[k - 1]
    BY <2>4, <2>5
  <2> QED  BY <2>2, <2>3, <2>6
<1>6. Nat \subseteq S
  <2> HIDE DEF S
  <2> QED  BY <1>4, <1>5, SetInduction
<1>7. N - n \in Nat /\ N - n <= N /\ N - (N - n) = n
  BY <1>1 DEF N
<1>8. O[n] <= last /\ last < O[n] + R[n]
  BY <1>6, <1>7
<1> QED  BY <1>8 DEF O, R, last

\* An element that comes before another has the smaller offset.
LEMMA OffsetsOrdered ==
  ASSUME Inhabited, NEW s, Packed(s), NEW ix \in Indices, NEW jx \in Indices, Before(ix, jx)
  PROVE  Offset(ix, s) < Offset(jx, s)
<1> DEFINE N == Len(dims)
           R == Suffixes(dims)
           O == Offsets(ix, s)
           U == Offsets(jx, s)
<1>1. PICK i \in 1..N : ix[i] < jx[i] /\ \A j \in 1..(i - 1) : ix[j] = jx[j]
  BY DEF Before
<1>2. /\ N \in Nat /\ s \in Seq(Int) /\ Len(s) = N
      /\ \A k \in 1..N : s[k] = R[k] /\ s[k] \in Nat \ {0}
  BY PackedFacts
<1>3. /\ ix \in [1..N -> Int] /\ jx \in [1..N -> Int]
      /\ \A k \in 1..N : ix[k] \in Nat /\ jx[k] \in Nat
  BY ShapeAssumption DEF Indices
<1>4. /\ O \in [0..N -> Int] /\ O[0] = 0 /\ Offset(ix, s) = O[N]
      /\ \A k \in 1..N : O[k] = O[k - 1] + ix[k] * s[k]
  <2>1. s \in Seq(Int) /\ ix \in [1..Len(s) -> Int] /\ Len(s) = N
    BY <1>2, <1>3
  <2>2. /\ O \in [0..Len(s) -> Int] /\ O[0] = 0
        /\ \A k \in 1..Len(s) : O[k] = O[k - 1] + ix[k] * s[k]
        /\ Offset(ix, s) = O[Len(s)]
    BY <2>1, OffsetsOf
  <2> QED  BY <2>1, <2>2
<1>5. /\ U \in [0..N -> Int] /\ U[0] = 0 /\ Offset(jx, s) = U[N]
      /\ \A k \in 1..N : U[k] = U[k - 1] + jx[k] * s[k]
  <2>1. s \in Seq(Int) /\ jx \in [1..Len(s) -> Int] /\ Len(s) = N
    BY <1>2, <1>3
  <2>2. /\ U \in [0..Len(s) -> Int] /\ U[0] = 0
        /\ \A k \in 1..Len(s) : U[k] = U[k - 1] + jx[k] * s[k]
        /\ Offset(jx, s) = U[Len(s)]
    BY <2>1, OffsetsOf
  <2> QED  BY <2>1, <2>2
<1>6. Offset(ix, s) < O[i] + R[i] /\ U[i] <= Offset(jx, s)
  <2>1. i \in 0..N
    BY <1>2
  <2> QED  BY <2>1, Blocks
<1> HIDE DEF N, R, O, U
<1>7. O[i - 1] = U[i - 1]
  <2>1. i - 1 \in Nat /\ i - 1 \in 0..(i - 1) /\ \A k \in 1..(i - 1) : k \in 1..N
    BY <1>2
  <2>2. \A k \in 1..(i - 1) : O[k - 1] = U[k - 1] => O[k] = U[k]
    BY <1>1, <1>4, <1>5, <2>1
  <2>3. O[0] = U[0]
    BY <1>4, <1>5
  <2>4. Follows(i - 1, U, O)
    BY <2>2, <2>3 DEF Follows
  <2>5. \A k \in 0..(i - 1) : O[k] = U[k]
    BY <2>1, <2>4, StepsUnique
  <2> QED  BY <2>1, <2>5
<1>8. /\ O[i - 1] \in Int /\ O[i] \in Int /\ U[i] \in Int
      /\ Offset(ix, s) \in Int /\ Offset(jx, s) \in Int
  <2>1. i - 1 \in 0..N /\ N \in 0..N /\ i \in 0..N
    BY <1>2
  <2> QED  BY <1>4, <1>5, <2>1
<1>9. /\ O[i] = O[i - 1] + ix[i] * R[i] /\ U[i] = O[i - 1] + jx[i] * R[i]
      /\ ix[i] \in Nat /\ jx[i] \in Nat /\ R[i] \in Nat /\ ix[i] < jx[i]
  <2>1. s[i] = R[i] /\ O[i] = O[i - 1] + ix[i] * s[i] /\ U[i] = U[i - 1] + jx[i] * s[i]
    BY <1>2, <1>4, <1>5
  <2>2. ix[i] \in Nat /\ jx[i] \in Nat /\ R[i] \in Nat /\ ix[i] < jx[i]
    BY <1>1, <1>2, <1>3
  <2> QED  BY <1>7, <2>1, <2>2
<1>10. (O[i - 1] + ix[i] * R[i]) + R[i] <= O[i - 1] + R[i] * jx[i]
  BY <1>8, <1>9, NextBlock
<1>11. R[i] * jx[i] = jx[i] * R[i]
  BY <1>9
<1>12. O[i] + R[i] <= U[i]
  BY <1>9, <1>10, <1>11
<1> QED  BY <1>6, <1>8, <1>9, <1>12

\* Euclidean division.
LEMMA Divided ==
  ASSUME NEW a \in Nat, NEW b \in Nat \ {0}, NEW c \in Nat, a < b * c
  PROVE  /\ a \div b \in Nat /\ a \div b < c /\ a % b \in 0..(b - 1)
         /\ a = (a \div b) * b + (a % b)
<1>1. a \div b \in Nat /\ a = (a \div b) * b + (a % b) /\ a % b \in 0..(b - 1)
  OBVIOUS
<1>2. a \div b < c
  <2>1. SUFFICES ASSUME a \div b >= c PROVE FALSE
    BY <1>1
  <2>2. (a \div b) * b >= b * c
    <3>1. (a \div b - c) * b >= 0
      BY <1>1, <2>1
    <3> QED  BY <1>1, <3>1
  <2> QED  BY <1>1, <2>2
<1> QED  BY <1>1, <1>2

\* Every place is taken: its indices are the digits of the offset.
LEMMA OffsetsOnto ==
  ASSUME Inhabited, NEW s, Packed(s), NEW v \in 0..(Product(dims) - 1)
  PROVE  \E ix \in Indices : Offset(ix, s) = v
<1> DEFINE N == Len(dims)
           R == Suffixes(dims)
           F == [p \in Int \X (1..N) |-> p[1] % R[p[2]]]
<1>1. /\ N \in Nat /\ s \in Seq(Int) /\ Len(s) = N
      /\ R \in [0..N -> Nat \ {0}] /\ R[N] = 1 /\ R[0] = Product(dims)
      /\ \A i \in 1..N : /\ s[i] = R[i] /\ dims[i] \in Nat \ {0} /\ s[i] \in Nat \ {0}
                         /\ R[i - 1] = s[i] * dims[i]
  BY PackedFacts
<1>2. \A i \in 1..N : dims[i] \in 0..DimMax
  BY ExtentsOf DEF Inhabited
<1> HIDE DEF N, R
<1>3. 0 \in 0..N /\ N \in 0..N /\ \A i \in 1..N : i \in 0..N /\ i - 1 \in 0..N
  BY <1>1
<1>4. v \in Nat /\ v < R[0]
  BY <1>1, <1>3
<1>5. PICK V : Steps(N, v, F, V)
  <2>1. ASSUME NEW a \in Int, NEW b \in Nat \ {0} PROVE a % b \in Int
    OBVIOUS
  <2>2. \A i \in 1..N : R[i] \in Nat \ {0}
    BY <1>1, <1>3
  <2>3. F \in [Int \X (1..N) -> Int]
    BY <2>1, <2>2
  <2> HIDE DEF F
  <2>4. v \in Int
    BY <1>4
  <2> QED  BY <1>1, <2>3, <2>4, StepsExist, Zenon
<1>6. /\ V \in [0..N -> Int] /\ V[0] = v
      /\ \A k \in 1..N : V[k] = V[k - 1] % R[k]
  <2>1. /\ V \in [0..N -> Int] /\ V[0] = v
        /\ \A k \in 1..N : V[k] = F[<<V[k - 1], k>>]
    BY <1>5 DEF Steps
  <2> QED  BY <1>3, <2>1
<1>7. \A k \in 1..N :
        V[k - 1] \in Nat /\ V[k - 1] < R[k - 1] =>
          /\ V[k - 1] \div R[k] \in Nat /\ V[k - 1] \div R[k] < dims[k]
          /\ V[k] \in Nat /\ V[k] < R[k]
          /\ V[k - 1] = (V[k - 1] \div R[k]) * R[k] + V[k]
  <2>1. SUFFICES ASSUME NEW k \in 1..N, V[k - 1] \in Nat, V[k - 1] < R[k - 1]
                 PROVE  /\ V[k - 1] \div R[k] \in Nat /\ V[k - 1] \div R[k] < dims[k]
                        /\ V[k] \in Nat /\ V[k] < R[k]
                        /\ V[k - 1] = (V[k - 1] \div R[k]) * R[k] + V[k]
    OBVIOUS
  <2>2. R[k] \in Nat \ {0} /\ dims[k] \in Nat /\ V[k - 1] < R[k] * dims[k]
    BY <1>1, <2>1
  <2>3. /\ V[k - 1] \div R[k] \in Nat /\ V[k - 1] \div R[k] < dims[k]
        /\ V[k - 1] % R[k] \in 0..(R[k] - 1)
        /\ V[k - 1] = (V[k - 1] \div R[k]) * R[k] + (V[k - 1] % R[k])
    BY <2>1, <2>2, Divided
  <2>4. V[k] = V[k - 1] % R[k]
    BY <1>6
  <2> QED  BY <2>2, <2>3, <2>4
<1> HIDE DEF F
<1> DEFINE S == {m \in Nat : m <= N => V[m] \in Nat /\ V[m] < R[m]}
<1>8. Nat \subseteq S
  <2>1. 0 \in S
    BY <1>4, <1>6
  <2>2. ASSUME NEW m \in Nat, m \in S PROVE m + 1 \in S
    <3>1. SUFFICES ASSUME m + 1 <= N PROVE V[m + 1] \in Nat /\ V[m + 1] < R[m + 1]
      OBVIOUS
    <3>2. m + 1 \in 1..N /\ (m + 1) - 1 = m /\ V[m] \in Nat /\ V[m] < R[m]
      BY <1>1, <2>2, <3>1
    <3> QED  BY <1>7, <3>2
  <2> HIDE DEF S
  <2> QED  BY <2>1, <2>2, SetInduction
<1>9. \A k \in 1..N : V[k - 1] \in Nat /\ V[k - 1] < R[k - 1]
  <2>1. \A k \in 1..N : k - 1 \in Nat /\ k - 1 <= N
    BY <1>1
  <2> QED  BY <1>8, <2>1
<1> DEFINE ix == [k \in 1..N |-> V[k - 1] \div R[k]]
<1>10. /\ \A k \in 1..N : /\ ix[k] \in Nat /\ ix[k] < dims[k]
                          /\ V[k - 1] = ix[k] * R[k] + V[k] /\ V[k] \in Nat
       /\ ix \in [1..N -> Nat]
  BY <1>7, <1>9
<1> HIDE DEF ix
<1>11. ix \in Indices
  <2>1. \A k \in 1..N : ix[k] \in 0..DimMax
    BY <1>2, <1>10, ShapeAssumption
  <2>2. ix \in [1..N -> 0..DimMax]
    BY <1>10, <2>1
  <2> QED  BY <1>10, <2>2 DEF Indices, N
<1> DEFINE O == Offsets(ix, s)
<1>12. /\ O \in [0..N -> Int] /\ O[0] = 0 /\ Offset(ix, s) = O[N]
       /\ \A k \in 1..N : O[k] = O[k - 1] + ix[k] * s[k]
  <2>1. ix \in [1..N -> Int]
    BY <1>10
  <2> QED  BY <1>1, <2>1, OffsetsOf
<1> HIDE DEF O
<1> DEFINE W == {m \in Nat : m <= N => O[m] + V[m] = v}
<1>13. Nat \subseteq W
  <2>1. 0 \in W
    BY <1>4, <1>6, <1>12
  <2>2. ASSUME NEW m \in Nat, m \in W PROVE m + 1 \in W
    <3>1. SUFFICES ASSUME m + 1 <= N PROVE O[m + 1] + V[m + 1] = v
      OBVIOUS
    <3>2. m + 1 \in 1..N /\ (m + 1) - 1 = m /\ m + 1 \in 0..N /\ m \in 0..N /\ O[m] + V[m] = v
      BY <1>1, <2>2, <3>1
    <3>3. /\ O[m] \in Int /\ V[m] \in Int /\ V[m + 1] \in Int /\ O[m + 1] \in Int
          /\ V[m] = ix[m + 1] * R[m + 1] + V[m + 1]
      BY <1>6, <1>10, <1>12, <3>2
    <3>4. O[m + 1] = O[m] + ix[m + 1] * R[m + 1] /\ ix[m + 1] * R[m + 1] \in Int
      <4>1. s[m + 1] = R[m + 1] /\ R[m + 1] \in Nat /\ ix[m + 1] \in Nat
        BY <1>1, <1>10, <3>2
      <4>2. O[m + 1] = O[m] + ix[m + 1] * s[m + 1]
        BY <1>12, <3>2
      <4> QED  BY <4>1, <4>2
    <3> QED  BY <3>2, <3>3, <3>4
  <2> HIDE DEF W
  <2> QED  BY <2>1, <2>2, SetInduction
<1>14. O[N] + V[N] = v /\ V[N] \in Nat /\ V[N] < 1
  BY <1>1, <1>8, <1>13
<1>15. O[N] = v
  BY <1>3, <1>12, <1>14
<1> QED  BY <1>11, <1>12, <1>15

\* The products of the extents number the elements in row-major order.
LEMMA PackedIsRowMajor ==
  ASSUME Inhabited, NEW s, Packed(s)
  PROVE  RowMajor(s)
<1>1. /\ Len(dims) \in Nat /\ s \in Seq(Int) /\ Len(s) = Len(dims)
      /\ Suffixes(dims)[0] = Product(dims)
      /\ \A i \in 1..Len(s) : s[i] \in Int
  BY PackedFacts
<1>2. Product(dims) \in Int
  BY ProductOfExtents DEF Inhabited
<1>3. ASSUME NEW ix \in Indices PROVE Offset(ix, s) \in 0..(Product(dims) - 1)
  <2>1. /\ Offsets(ix, s) \in [0..Len(s) -> Int] /\ Offsets(ix, s)[0] = 0
        /\ Offset(ix, s) = Offsets(ix, s)[Len(s)]
    <3>1. ix \in [1..Len(s) -> Int]
      BY <1>1, ShapeAssumption DEF Indices
    <3> QED  BY <1>1, <3>1, OffsetsOf
  <2>2. Offset(ix, s) \in Int /\ 0 \in 0..Len(dims)
    BY <1>1, <2>1
  <2>3. Offsets(ix, s)[0] <= Offset(ix, s) /\ Offset(ix, s) < Offsets(ix, s)[0] + Suffixes(dims)[0]
    BY <2>2, Blocks
  <2> QED  BY <1>1, <1>2, <2>1, <2>2, <2>3
<1>4. {Offset(ix, s) : ix \in Indices} = 0..(Product(dims) - 1)
  BY <1>3, OffsetsOnto
<1> QED  BY <1>1, <1>4, OffsetsOrdered DEF RowMajor

\* A shape with an empty extent has no elements to number.
LEMMA EmptyIsRowMajor ==
  ASSUME dims \in Seq(0..DimMax), NEW i \in 1..Len(dims), dims[i] = 0,
         NEW s, Len(s) = Len(dims)
  PROVE  RowMajor(s)
<1>1. Indices = {}
  <2>1. \A ix \in Indices : ix[i] \in 0..DimMax /\ ix[i] < dims[i]
    BY DEF Indices
  <2> QED  BY <2>1, ShapeAssumption
<1>2. Product(dims) = 0
  BY ProductOfExtents
<1> QED  BY <1>1, <1>2 DEF RowMajor

\* Contiguous strides are row-major.
LEMMA ContiguousIsRowMajor ==
  ASSUME dims \in Seq(0..DimMax)
  PROVE  RowMajor(Contiguous(dims))
<1>1. /\ Contiguous(dims) \in Seq(Int) /\ Len(Contiguous(dims)) = Len(dims)
      /\ \A i \in 1..Len(dims) : Contiguous(dims)[i] = Suffixes(Extents(dims))[i]
      /\ \A i \in 1..Len(dims) : dims[i] \in 0..DimMax
      /\ (\A i \in 1..Len(dims) : dims[i] >= 1) => Extents(dims) = dims
  BY ContiguousOf, ExtentsOf
<1>2. CASE \E i \in 1..Len(dims) : dims[i] = 0
  BY <1>1, <1>2, EmptyIsRowMajor
<1>3. CASE ~ \E i \in 1..Len(dims) : dims[i] = 0
  <2>1. \A i \in 1..Len(dims) : dims[i] >= 1
    BY <1>1, <1>3, ShapeAssumption
  <2>2. Inhabited /\ Packed(Contiguous(dims))
    BY <1>1, <2>1 DEF Inhabited, Packed
  <2> QED  BY <2>2, PackedIsRowMajor
<1> QED  BY <1>2, <1>3

\* With contiguous strides no two elements share a place, none is left out, the last
\* index varies fastest, and no offset exceeds what a stride can express, for every
\* shape whose strides are not refused.
THEOREM StridesAreRowMajor == Spec => []StridesRowMajor
<1>1. ASSUME ShapeInv PROVE StridesRowMajor
  <2>1. SUFFICES ASSUME Returned(layout) PROVE RowMajor(layout) /\ Product(dims) <= DimMax
    BY DEF StridesRowMajor
  <2> DEFINE p == Product(Extents(dims))
  <2>2. /\ dims \in Seq(0..DimMax)
        /\ layout = IF p > DimMax THEN OVERFLOW ELSE Contiguous(dims)
    BY <1>1, <2>1 DEF ShapeInv, TypeOK, LayoutExact, Returned
  <2>3. ~(p > DimMax) /\ layout = Contiguous(dims)
    BY <2>1, <2>2 DEF Returned
  <2>4. Product(dims) \in Nat /\ p \in Nat /\ Product(dims) <= p
    BY <2>2, ProductOfExtents
  <2> HIDE DEF p
  <2>5. Product(dims) <= DimMax
    BY <2>3, <2>4, ShapeAssumption
  <2> QED  BY <2>2, <2>3, <2>5, ContiguousIsRowMajor
<1> QED  BY <1>1, ShapeIsInductive, PTL

-----------------------------------------------------------------------------
(* Row-major strides are unique where every extent is at least 2. *)

\* Of two elements one comes first.
LEMMA OneComesFirst ==
  ASSUME Len(dims) \in Nat, NEW ix \in Indices, NEW jx \in Indices, ix # jx
  PROVE  Before(ix, jx) \/ Before(jx, ix)
<1> DEFINE D == {i \in 1..Len(dims) : ix[i] # jx[i]}
<1>1. /\ ix \in [1..Len(dims) -> 0..DimMax] /\ jx \in [1..Len(dims) -> 0..DimMax]
  BY DEF Indices
<1>2. D # {}
  BY <1>1
<1>3. D \subseteq Nat
  OBVIOUS
<1>4. PICK i \in D : \A k \in D : i <= k
  <2> HIDE DEF D
  <2> QED  BY <1>2, <1>3, LeastElement
<1>5. i \in 1..Len(dims) /\ ix[i] # jx[i] /\ \A j \in 1..(i - 1) : ix[j] = jx[j]
  <2>1. ASSUME NEW j \in 1..(i - 1) PROVE ix[j] = jx[j]
    <3>1. j \in 1..Len(dims) /\ ~(i <= j)
      BY <1>4
    <3> QED  BY <1>4, <3>1
  <2> QED  BY <1>4, <2>1
<1>6. ix[i] < jx[i] \/ jx[i] < ix[i]
  BY <1>1, <1>5, ShapeAssumption
<1> QED  BY <1>5, <1>6 DEF Before

\* Two numberings of the elements with the same numbers, both in row-major order, are
\* the same: an element with the least number that they disagree on would have to come
\* after an element that it comes before.
LEMMA OneNumbering ==
  ASSUME Len(dims) \in Nat, Product(dims) \in Int, NEW s, RowMajor(s), NEW t, RowMajor(t)
  PROVE  \A ix \in Indices : Offset(ix, s) = Offset(ix, t)
<1> DEFINE f == [ix \in Indices |-> Offset(ix, s)]
           g == [ix \in Indices |-> Offset(ix, t)]
           P == 0..(Product(dims) - 1)
           D == {v \in P : \E ix \in Indices : g[ix] = v /\ f[ix] # v}
<1>1. /\ \A ix \in Indices : f[ix] \in P
      /\ \A v \in P : \E ix \in Indices : f[ix] = v
      /\ \A ix, jx \in Indices : Before(ix, jx) => f[ix] < f[jx]
  BY DEF RowMajor
<1>2. /\ \A ix \in Indices : g[ix] \in P
      /\ \A v \in P : \E ix \in Indices : g[ix] = v
      /\ \A ix, jx \in Indices : Before(ix, jx) => g[ix] < g[jx]
  BY DEF RowMajor
<1>3. P \subseteq Nat
  OBVIOUS
<1>4. \A ix, jx \in Indices : ix = jx \/ Before(ix, jx) \/ Before(jx, ix)
  BY OneComesFirst
<1>5. SUFFICES ASSUME D # {} PROVE FALSE
  <2>1. SUFFICES ASSUME NEW ix \in Indices PROVE f[ix] = g[ix]
    OBVIOUS
  <2> HIDE DEF f, g, P
  <2> QED  BY <1>2
<1> HIDE DEF f, g, P
<1>6. PICK v \in D : \A w \in D : v <= w
  <2>1. D \subseteq Nat
    BY <1>3
  <2> HIDE DEF D
  <2> QED  BY <1>5, <2>1, LeastElement
<1>7. PICK ix \in Indices : g[ix] = v /\ f[ix] # v
  BY <1>6
<1>8. v \in Nat /\ v \in P /\ f[ix] \in Nat /\ f[ix] \in P
  BY <1>1, <1>3, <1>6, <1>7
<1>9. ASSUME NEW jx \in Indices, g[jx] < v PROVE f[jx] = g[jx]
  <2>1. g[jx] \in Nat /\ g[jx] \in P
    BY <1>2, <1>3
  <2>2. g[jx] \notin D
    BY <1>6, <1>8, <1>9, <2>1
  <2> QED  BY <2>1, <2>2
<1>10. CASE f[ix] < v
  <2>1. PICK jx \in Indices : g[jx] = f[ix]
    BY <1>2, <1>8
  <2>2. f[jx] = f[ix]
    BY <1>9, <1>10, <2>1
  <2>3. ix # jx
    BY <1>7, <2>1
  <2>4. f[ix] < f[jx] \/ f[jx] < f[ix]
    BY <1>1, <1>4, <2>3
  <2> QED  BY <1>8, <2>2, <2>4
<1>11. CASE f[ix] > v
  <2>1. PICK jx \in Indices : f[jx] = v
    BY <1>1, <1>8
  <2>2. ix # jx /\ g[jx] \in Nat
    BY <1>2, <1>3, <1>7, <2>1
  <2>3. ~(g[jx] < v)
    <3>1. SUFFICES ASSUME g[jx] < v PROVE FALSE
      OBVIOUS
    <3>2. f[jx] = g[jx]
      BY <1>9, <3>1
    <3> QED  BY <1>8, <2>1, <3>1, <3>2
  <2>4. ~Before(jx, ix)
    BY <1>2, <1>7, <2>3
  <2>5. f[ix] < f[jx]
    BY <1>1, <1>4, <2>2, <2>4
  <2> QED  BY <1>8, <1>11, <2>1, <2>5
<1> QED  BY <1>7, <1>8, <1>10, <1>11

\* The element that is one step along an axis from the first has that axis's stride
\* for its offset.
LEMMA StrideIsOffset ==
  ASSUME dims \in Seq(0..DimMax), \A k \in 1..Len(dims) : dims[k] >= 2,
         NEW i \in 1..Len(dims), NEW s \in Seq(Int), Len(s) = Len(dims)
  PROVE  LET u == [k \in 1..Len(dims) |-> IF k = i THEN 1 ELSE 0] IN
           u \in Indices /\ Offset(u, s) = s[i]
<1> DEFINE N == Len(dims)
           u == [k \in 1..N |-> IF k = i THEN 1 ELSE 0]
           O == Offsets(u, s)
           h == [k \in 0..N |-> IF k < i THEN 0 ELSE s[i]]
<1>1. N \in Nat /\ \A k \in 1..N : dims[k] \in 0..DimMax /\ s[k] \in Int
  BY LenProperties, ElementOfSeq
<1>2. u \in [1..N -> 0..DimMax]
  BY ShapeAssumption
<1>3. u \in Indices
  <2>1. \A k \in 1..N : u[k] < dims[k]
    BY <1>1, ShapeAssumption
  <2> QED  BY <1>2, <2>1 DEF Indices
<1>4. \A k \in 1..N : u[k] \in Int /\ u[k] = (IF k = i THEN 1 ELSE 0)
  OBVIOUS
<1>5. u \in [1..N -> Int]
  OBVIOUS
<1> HIDE DEF u
<1>6. /\ O \in [0..N -> Int] /\ O[0] = 0 /\ Offset(u, s) = O[N]
      /\ \A k \in 1..N : O[k] = O[k - 1] + u[k] * s[k]
  BY <1>5, OffsetsOf
<1> HIDE DEF O
<1>7. /\ \A k \in 0..N : h[k] = IF k < i THEN 0 ELSE s[i]
      /\ s[i] \in Int
  BY <1>1
<1> HIDE DEF h
<1>8. h[0] = O[0]
  BY <1>1, <1>6, <1>7
<1>9. i \in 1..N
  OBVIOUS
<1> HIDE DEF N
<1>10. \A k \in 1..N : h[k - 1] = O[k - 1] => h[k] = O[k]
  <2>1. SUFFICES ASSUME NEW k \in 1..N, h[k - 1] = O[k - 1] PROVE h[k] = O[k]
    OBVIOUS
  <2>2. k \in 0..N /\ k - 1 \in 0..N
    BY <1>1
  <2>3. O[k] = O[k - 1] + u[k] * s[k] /\ s[k] \in Int /\ O[k - 1] \in Int
    BY <1>1, <1>6, <2>2
  <2>4. CASE k < i
    <3>1. u[k] = 0 /\ u[k] * s[k] = 0
      BY <1>4, <1>9, <2>3, <2>4
    <3>2. h[k - 1] = 0 /\ h[k] = 0
      BY <1>7, <1>9, <2>2, <2>4
    <3>3. O[k - 1] = 0
      BY <2>1, <3>2
    <3> QED  BY <2>3, <3>1, <3>2, <3>3
  <2>5. CASE k = i
    <3>1. u[k] = 1 /\ u[k] * s[k] = s[i]
      BY <1>4, <2>3, <2>5
    <3>2. h[k - 1] = 0 /\ h[k] = s[i]
      BY <1>7, <1>9, <2>2, <2>5
    <3>3. O[k - 1] = 0
      BY <2>1, <3>2
    <3> QED  BY <1>7, <2>3, <3>1, <3>2, <3>3
  <2>6. CASE k > i
    <3>1. u[k] = 0 /\ u[k] * s[k] = 0
      BY <1>4, <1>9, <2>3, <2>6
    <3>2. h[k - 1] = s[i] /\ h[k] = s[i]
      <4>1. ~(k - 1 < i) /\ ~(k < i)
        BY <1>9, <2>6
      <4> QED  BY <1>7, <2>2, <4>1
    <3>3. O[k - 1] = s[i]
      BY <2>1, <3>2
    <3> QED  BY <1>7, <2>3, <3>1, <3>2, <3>3
  <2> QED  BY <1>9, <2>4, <2>5, <2>6
<1>11. \A k \in 0..N : h[k] = O[k]
  <2>1. Follows(N, O, h) /\ N \in Nat
    BY <1>1, <1>8, <1>10 DEF Follows
  <2> QED  BY <2>1, StepsUnique
<1>12. h[N] = s[i] /\ N \in 0..N
  BY <1>1, <1>7, <1>9
<1> QED  BY <1>3, <1>6, <1>11, <1>12 DEF u, N

LEMMA OneLayout ==
  ASSUME dims \in Seq(0..DimMax), \A k \in 1..Len(dims) : dims[k] >= 2,
         NEW s \in Seq(Int), NEW t \in Seq(Int), RowMajor(s), RowMajor(t)
  PROVE  s = t
<1>1. Len(dims) \in Nat /\ Product(dims) \in Int /\ Len(s) = Len(dims) /\ Len(t) = Len(dims)
  BY ExtentsOf, ProductOfExtents DEF RowMajor
<1>2. ASSUME NEW i \in 1..Len(dims) PROVE s[i] = t[i]
  <2> DEFINE u == [k \in 1..Len(dims) |-> IF k = i THEN 1 ELSE 0]
  <2>1. u \in Indices /\ Offset(u, s) = s[i] /\ Offset(u, t) = t[i]
    BY <1>1, StrideIsOffset
  <2> HIDE DEF u
  <2>2. Offset(u, s) = Offset(u, t)
    BY <1>1, <2>1, OneNumbering
  <2> QED  BY <2>1, <2>2
<1> QED  BY <1>1, <1>2, SeqEqual

\* is_contiguous() says yes only to row-major strides, and no to row-major strides only
\* where an extent of at most 1 leaves a stride without meaning.
THEOREM ContiguityDecided == Spec => []DenseExact
<1>1. ASSUME ShapeInv PROVE DenseExact
  <2>1. /\ dims \in Seq(0..DimMax) /\ asked \in Seq(Values(Dim)) /\ AnswerExact
        /\ layout # NULL =>
             layout = IF Product(Extents(dims)) > DimMax THEN OVERFLOW ELSE Contiguous(dims)
    BY <1>1 DEF ShapeInv, TypeOK, LayoutExact
  <2>2. Returned(layout) => layout = Contiguous(dims)
    BY <2>1 DEF Returned
  <2>3. RowMajor(Contiguous(dims)) /\ Contiguous(dims) \in Seq(Int)
    BY <2>1, ContiguousIsRowMajor, ContiguousOf
  <2>4. asked \in Seq(Int)
    <3>1. Values(Dim) \subseteq Int
      BY ShapeAssumption DEF Values, Dim, Signed
    <3> QED  BY <2>1, <3>1, SeqMonotonic
  <2>5. dense = "true" => RowMajor(asked)
    BY <2>1, <2>2, <2>3 DEF AnswerExact
  <2>6. ASSUME dense = "false", RowMajor(asked) PROVE \E i \in 1..Len(dims) : dims[i] <= 1
    <3>1. asked # Contiguous(dims)
      BY <2>1, <2>2, <2>6 DEF AnswerExact
    <3>2. SUFFICES ASSUME \A i \in 1..Len(dims) : ~(dims[i] <= 1) PROVE FALSE
      OBVIOUS
    <3>3. \A i \in 1..Len(dims) : dims[i] >= 2
      <4>1. \A i \in 1..Len(dims) : dims[i] \in 0..DimMax
        BY <2>1, ExtentsOf
      <4> QED  BY <3>2, <4>1, ShapeAssumption
    <3> QED  BY <2>1, <2>3, <2>4, <2>6, <3>1, <3>3, OneLayout
  <2> QED  BY <2>5, <2>6 DEF DenseExact
<1> QED  BY <1>1, ShapeIsInductive, PTL

-----------------------------------------------------------------------------
(* Rounding to a multiple. *)

Far(a, b) == IF a < b THEN b - a ELSE a - b

Abs(n) == IF n < 0 THEN -n ELSE n

\* Division by a positive number, negative numbers included.
LEMMA Euclid ==
  ASSUME NEW x \in Int, NEW g \in Nat \ {0}
  PROVE  /\ x \div g \in Int /\ x % g \in Nat /\ x % g < g /\ x = (x \div g) * g + (x % g)
         /\ \A c \in Int : x = c * g => x % g = 0 /\ x \div g = c
<1>1. x \div g \in Int /\ x % g \in Nat /\ x % g < g /\ x = (x \div g) * g + (x % g)
  OBVIOUS
<1> DEFINE q == x \div g
           r == x % g
<1>2. ASSUME NEW c \in Int, x = c * g PROVE r = 0 /\ q = c
  <2> HIDE DEF q, r
  <2>1. (c - q) * g = r /\ r \in Nat /\ r < g /\ q \in Int
    BY <1>1, <1>2 DEF q, r
  <2>2. ~(c - q >= 1)
    <3>1. \A k \in Nat \ {0} : k * g >= g
      OBVIOUS
    <3> QED  BY <2>1, <3>1
  <2>3. ~(c - q <= -1)
    <3>1. \A k \in Int : k <= -1 => k * g < 0
      OBVIOUS
    <3> QED  BY <2>1, <3>1
  <2>4. c = q
    BY <2>1, <2>2, <2>3
  <2> QED  BY <2>1, <2>4
<1> QED  BY <1>1, <1>2

\* The multiple of g that Cast rounds x to.
Rounded(x, g) ==
  (IF 2 * (x % g) > g \/ (2 * (x % g) = g /\ (x \div g) % 2 = 1)
   THEN x \div g + 1 ELSE x \div g) * g

\* No multiple is nearer, and none lies in between.
LEMMA RoundedIsNearest ==
  ASSUME NEW x \in Int, NEW g \in Nat \ {0}
  PROVE  /\ \E c \in Int : Rounded(x, g) = c * g
         /\ \A c \in Int : /\ Far(Rounded(x, g), x) <= Far(c * g, x)
                           /\ x <= c * g => Rounded(x, g) <= c * g
                           /\ x >= c * g => Rounded(x, g) >= c * g
<1> DEFINE q == x \div g
           r == x % g
           up == 2 * r > g \/ (2 * r = g /\ q % 2 = 1)
           p == IF up THEN q + 1 ELSE q
<1>1. q \in Int /\ r \in Nat /\ r < g /\ x = q * g + r
  BY Euclid
<1>2. Rounded(x, g) = p * g
  BY DEF Rounded
<1>3. (p = q /\ 2 * r <= g) \/ (p = q + 1 /\ 2 * r >= g)
  BY <1>1
<1> HIDE DEF q, r, up, p
<1>4. p \in Int /\ (q + 1) * g = q * g + g /\ q * g \in Int
  BY <1>1, <1>3
<1>5. ASSUME NEW c \in Int
      PROVE  (c * g \in Int) /\ (c <= q => c * g <= q * g) /\ (c >= q + 1 => c * g >= q * g + g)
  <2>1. c * g = q * g + (c - q) * g
    BY <1>1
  <2>2. \A k \in Int : (k <= 0 => k * g <= 0) /\ (k >= 1 => k * g >= g) /\ k * g \in Int
    <3>1. \A k \in Int : k * g \in Int
      OBVIOUS
    <3>2. \A k \in Int : k <= 0 => k * g <= 0
      OBVIOUS
    <3>3. \A k \in Int : k >= 1 => k * g >= g
      OBVIOUS
    <3> QED  BY <3>1, <3>2, <3>3
  <2>3. c - q \in Int
    BY <1>1
  <2> DEFINE k == c - q
  <2>4. (k <= 0 => k * g <= 0) /\ (k >= 1 => k * g >= g) /\ k * g \in Int
    BY <2>2, <2>3
  <2> HIDE DEF k
  <2>5. c * g = q * g + k * g /\ (c <= q => k <= 0) /\ (c >= q + 1 => k >= 1)
    BY <1>1, <2>1 DEF k
  <2> QED  BY <1>4, <2>4, <2>5
<1>6. p * g = q * g \/ p * g = q * g + g
  BY <1>3, <1>4
<1>7. (p * g = q * g /\ 2 * r <= g) \/ (p * g = q * g + g /\ 2 * r >= g)
  BY <1>3, <1>4
<1>8. ASSUME NEW c \in Int
      PROVE  /\ Far(p * g, x) <= Far(c * g, x)
             /\ x <= c * g => p * g <= c * g
             /\ x >= c * g => p * g >= c * g
  <2>1. c <= q \/ c >= q + 1
    BY <1>1
  <2>2. c * g <= q * g \/ c * g >= q * g + g
    BY <1>5, <2>1
  <2> DEFINE a == q * g
             b == c * g
             d == p * g
  <2>3. /\ a \in Int /\ b \in Int /\ (b <= a \/ b >= a + g) /\ x = a + r /\ r \in Nat /\ r < g
        /\ (d = a /\ 2 * r <= g) \/ (d = a + g /\ 2 * r >= g)
        /\ (b = x => r = 0)
    <3>1. b = x => c = q
      BY Euclid DEF q
    <3> QED  BY <1>1, <1>4, <1>5, <1>7, <2>2, <3>1
  <2> HIDE DEF a, b, d
  <2>4. Far(d, x) <= Far(b, x)
    BY <2>3 DEF Far
  <2>5. (x <= b => d <= b) /\ (x >= b => d >= b)
    BY <2>3
  <2> QED  BY <2>4, <2>5 DEF a, b, d
<1>9. \E c \in Int : Rounded(x, g) = c * g
  BY <1>2, <1>4
<1> QED  BY <1>2, <1>8, <1>9

-----------------------------------------------------------------------------
(* The numbers of a format. *)

\* A number of F, by its digits, its exponent and its sign.
LEMMA FiniteNumbers ==
  ASSUME NEW F \in Formats
  PROVE  /\ F.digits \in Nat /\ F.top \in Nat
         /\ FinitesOf(F) \subseteq Int
         /\ \A n \in FinitesOf(F) :
              -n \in FinitesOf(F)
              /\ \E c \in Int, e \in 0..F.top : n = c * 2^e /\ Abs(c) < 2^F.digits
         /\ \A c \in Int, e \in 0..F.top : Abs(c) < 2^F.digits => c * 2^e \in FinitesOf(F)
<1> DEFINE d == F.digits
           P == 2^d
           M == {m * 2^e : m \in 0..(P - 1), e \in 0..F.top}
<1>1. d \in Nat /\ F.top \in Nat /\ P \in Nat \ {0} /\ \A e \in 0..F.top : 2^e \in Nat \ {0}
  BY PowerPositive DEF Formats
<1>2. FinitesOf(F) = M \cup {-n : n \in M}
  BY DEF FinitesOf
<1> HIDE DEF P
<1>3. \A m \in 0..(P - 1), e \in 0..F.top :
        m * 2^e \in Int /\ -(m * 2^e) = (-m) * 2^e /\ -m \in Int /\ Abs(m) < P /\ Abs(-m) < P
  <2>1. \A a, b \in Nat : a * b \in Int /\ -(a * b) = (-a) * b
    OBVIOUS
  <2>2. \A m \in 0..(P - 1) : m \in Nat /\ -m \in Int /\ Abs(m) < P /\ Abs(-m) < P
    BY <1>1 DEF Abs
  <2> QED  BY <1>1, <2>1, <2>2
<1>4. ASSUME NEW n \in FinitesOf(F)
      PROVE  /\ n \in Int /\ -n \in FinitesOf(F)
             /\ \E c \in Int, e \in 0..F.top : n = c * 2^e /\ Abs(c) < P
  <2>1. PICK m \in 0..(P - 1), e \in 0..F.top : n = m * 2^e \/ n = -(m * 2^e)
    BY <1>2
  <2>2. m * 2^e \in M
    OBVIOUS
  <2>3. m * 2^e \in Int /\ m \in Int
    BY <1>3
  <2> HIDE DEF M
  <2>4. n \in Int /\ -n \in FinitesOf(F)
    <3>1. CASE n = m * 2^e
      BY <1>2, <2>2, <2>3, <3>1
    <3>2. CASE n = -(m * 2^e)
      <4>1. -n = m * 2^e
        BY <2>3, <3>2
      <4> QED  BY <1>2, <2>2, <2>3, <3>2, <4>1
    <3> QED  BY <2>1, <3>1, <3>2
  <2> QED
    <3>1. CASE n = m * 2^e
      BY <1>3, <2>3, <2>4, <3>1
    <3>2. CASE n = -(m * 2^e)
      <4>1. n = (-m) * 2^e /\ -m \in Int /\ Abs(-m) < P
        BY <1>3, <3>2
      <4> QED  BY <2>4, <4>1
    <3> QED  BY <2>1, <3>1, <3>2
<1>5. ASSUME NEW c \in Int, NEW e \in 0..F.top, Abs(c) < P PROVE c * 2^e \in FinitesOf(F)
  <2>1. CASE c >= 0
    <3>1. c \in 0..(P - 1)
      BY <1>1, <1>5, <2>1 DEF Abs
    <3>2. c * 2^e \in M
      BY <3>1
    <3> QED  BY <1>2, <3>2
  <2>2. CASE c < 0
    <3>1. -c \in 0..(P - 1)
      BY <1>1, <1>5, <2>2 DEF Abs
    <3>2. PICK m \in 0..(P - 1) : m = -c
      BY <3>1
    <3>3. m * 2^e \in M
      OBVIOUS
    <3>4. -(m * 2^e) = c * 2^e
      <4>1. -m = c
        BY <3>2
      <4> QED  BY <1>3, <4>1
    <3> HIDE DEF M
    <3>5. -(m * 2^e) \in FinitesOf(F)
      BY <1>2, <3>3
    <3> QED  BY <3>4, <3>5
  <2> QED  BY <2>1, <2>2
<1> QED  BY <1>1, <1>4, <1>5 DEF P

\* The largest number of F is one of them, and bounds them.
LEMMA LargestNumber ==
  ASSUME NEW F \in Formats
  PROVE  /\ Largest(F) \in Nat /\ Largest(F) \in FinitesOf(F)
         /\ Largest(F) < 2^(F.digits + F.top)
         /\ \A n \in FinitesOf(F) : -Largest(F) <= n /\ n <= Largest(F)
<1> DEFINE d == F.digits
           P == 2^d
           T == 2^F.top
<1>1. /\ d \in Nat /\ F.top \in Nat /\ P \in Nat \ {0} /\ T \in Nat \ {0}
      /\ 2^(d + F.top) = P * T
  BY FiniteNumbers, PowerPositive, PowerSum
<1>2. Largest(F) = (P - 1) * T /\ F.top \in 0..F.top
  BY <1>1 DEF Largest
<1>3. Largest(F) \in FinitesOf(F)
  <2>1. P - 1 \in Int /\ Abs(P - 1) < P
    BY <1>1 DEF Abs
  <2> QED  BY <1>2, <2>1, FiniteNumbers
<1>4. \A n \in FinitesOf(F) : Abs(n) <= Largest(F) /\ n \in Int
  <2>1. SUFFICES ASSUME NEW n \in FinitesOf(F) PROVE Abs(n) <= Largest(F) /\ n \in Int
    OBVIOUS
  <2>2. PICK c \in Int, e \in 0..F.top : n = c * 2^e /\ Abs(c) < P
    BY FiniteNumbers
  <2> DEFINE E == 2^e
  <2>3. E \in Nat \ {0} /\ E <= T
    BY <1>1, PowerPositive, PowerGrows
  <2> HIDE DEF E, P, T
  <2>4. n = c * E /\ Abs(c) \in Nat /\ Abs(c) <= P - 1
    BY <1>1, <2>2 DEF E, Abs
  <2>5. Abs(n) = Abs(c) * E /\ n \in Int
    <3>1. (c >= 0 => c * E >= 0) /\ (c < 0 => c * E < 0 /\ -(c * E) = (-c) * E)
      BY <2>3
    <3> QED  BY <2>3, <2>4, <3>1 DEF Abs
  <2>6. \A a, b, x, y \in Nat : a <= x /\ b <= y => a * b <= x * y
    <3>1. SUFFICES ASSUME NEW a \in Nat, NEW b \in Nat, NEW x \in Nat, NEW y \in Nat, a <= x, b <= y
                   PROVE  a * b <= x * y
      OBVIOUS
    <3>2. a * b <= x * b
      <4>1. (x - a) * b >= 0
        BY <3>1
      <4> QED  BY <4>1
    <3>3. x * b <= x * y
      <4>1. x * (y - b) >= 0
        BY <3>1
      <4> QED  BY <4>1
    <3> QED  BY <3>2, <3>3
  <2>7. Abs(c) * E <= (P - 1) * T
    BY <1>1, <2>3, <2>4, <2>6
  <2> QED  BY <1>2, <2>5, <2>7
<1>5. Largest(F) \in Nat /\ Largest(F) < P * T
  <2> HIDE DEF P, T
  <2>1. (P - 1) * T = P * T - T
    BY <1>1
  <2>2. (P - 1) * T \in Nat
    BY <1>1
  <2> QED  BY <1>1, <1>2, <2>1, <2>2
<1>6. \A n \in FinitesOf(F) : -Largest(F) <= n /\ n <= Largest(F)
  BY <1>4, <1>5 DEF Abs
<1> QED  BY <1>1, <1>3, <1>5, <1>6

\* A longer format with the same exponents has the numbers of a shorter one.
LEMMA LongerFormat ==
  ASSUME NEW F \in Formats, NEW G \in Formats, F.digits <= G.digits, F.top <= G.top
  PROVE  FinitesOf(F) \subseteq FinitesOf(G)
<1> SUFFICES ASSUME NEW n \in FinitesOf(F) PROVE n \in FinitesOf(G)
  OBVIOUS
<1>1. PICK c \in Int, e \in 0..F.top : n = c * 2^e /\ Abs(c) < 2^F.digits
  BY FiniteNumbers
<1>2. e \in 0..G.top /\ 2^F.digits <= 2^G.digits /\ 2^F.digits \in Nat /\ 2^G.digits \in Nat
  BY FiniteNumbers, PowerGrows, PowerPositive
<1>3. Abs(c) < 2^G.digits
  BY <1>1, <1>2 DEF Abs
<1> QED  BY <1>1, <1>2, <1>3, FiniteNumbers

\* The spacing of F around n is a power of two, the one that lets F's digits reach n.
LEMMA SpacingOf ==
  ASSUME NEW F \in Formats, NEW n \in Int
  PROVE  \E e \in Nat : /\ Spacing(F, n) = 2^e /\ Abs(n) < 2^(F.digits + e)
                        /\ e = 0 \/ Abs(n) >= 2^(F.digits + e - 1)
<1> DEFINE d == F.digits
           m == Abs(n)
           Reaches(k) == m < 2^(d + k) /\ (k = 0 \/ m >= 2^(d + k - 1))
           S == {k \in Nat : m < 2^(d + k)}
<1>1. d \in Nat /\ m \in Nat
  BY FiniteNumbers DEF Abs
<1>2. m \in S
  <2>1. m < 2^m /\ 2^m <= 2^(d + m) /\ 2^m \in Nat /\ 2^(d + m) \in Nat
    BY <1>1, PowerExceeds, PowerGrows, PowerPositive
  <2> QED  BY <1>1, <2>1
<1>3. PICK k \in S : \A l \in S : k <= l
  BY <1>2, LeastElement
<1>4. k \in 0..m /\ Reaches(k)
  <2>1. k \in Nat /\ k <= m /\ m < 2^(d + k)
    BY <1>2, <1>3
  <2>2. CASE k # 0
    <3>1. k - 1 \in Nat /\ k - 1 \notin S /\ d + (k - 1) = d + k - 1
      BY <1>1, <1>3, <2>1, <2>2
    <3>2. ~(m < 2^(d + k - 1)) /\ 2^(d + k - 1) \in Nat
      BY <1>1, <3>1, PowerPositive
    <3> QED  BY <1>1, <2>1, <3>2
  <2> QED  BY <1>1, <2>1, <2>2
<1> DEFINE e == CHOOSE l \in 0..m : Reaches(l)
<1>5. e \in 0..m /\ Reaches(e)
  BY <1>4
<1>6. Spacing(F, n) = 2^e
  BY DEF Spacing, Abs
<1> HIDE DEF e
<1> QED  BY <1>1, <1>5, <1>6

\* FactorsGrow of natural numbers grow with their factors.
LEMMA FactorsGrow ==
  /\ \A a, b, x, y \in Nat : a <= x /\ b <= y => a * b <= x * y
  /\ \A a, x \in Nat, b \in Nat \ {0} : a * b <= x * b <=> a <= x
  /\ \A a \in Int, b \in Nat \ {0} : Abs(a * b) = Abs(a) * b /\ a * b \in Int /\ Abs(a) \in Nat
<1>1. ASSUME NEW a \in Nat, NEW b \in Nat, NEW x \in Nat, NEW y \in Nat, a <= x, b <= y
      PROVE  a * b <= x * y
  <2>1. a * b <= x * b
    <3>1. (x - a) * b >= 0
      BY <1>1
    <3> QED  BY <3>1
  <2>2. x * b <= x * y
    <3>1. x * (y - b) >= 0
      BY <1>1
    <3> QED  BY <3>1
  <2> QED  BY <2>1, <2>2
<1>2. ASSUME NEW a \in Nat, NEW x \in Nat, NEW b \in Nat \ {0} PROVE a * b <= x * b <=> a <= x
  <2>1. CASE a <= x
    BY <1>1, <2>1
  <2>2. CASE a > x
    <3>1. (a - x) * b > 0
      BY <2>2
    <3> QED  BY <2>2, <3>1
  <2> QED  BY <2>1, <2>2
<1>3. ASSUME NEW a \in Int, NEW b \in Nat \ {0}
      PROVE  Abs(a * b) = Abs(a) * b /\ a * b \in Int /\ Abs(a) \in Nat
  <2>1. (a >= 0 => a * b >= 0) /\ (a < 0 => a * b < 0 /\ -(a * b) = (-a) * b)
    OBVIOUS
  <2> QED  BY <2>1 DEF Abs
<1> QED  BY <1>1, <1>2, <1>3

\* Conversion to F yields the nearest number of F, whatever is within its range.
LEMMA CastIsNearest ==
  ASSUME NEW F \in Formats, F.digits # 0, NEW x \in Int, -Largest(F) <= x, x <= Largest(F)
  PROVE  \E y \in FinitesOf(F) :
           /\ Cast(F, Finite(x)) = Finite(y)
           /\ \A n \in FinitesOf(F) : Far(y, x) <= Far(n, x)
<1> DEFINE d == F.digits
           P == 2^d
           L == Largest(F)
<1>0. /\ d \in Nat \ {0} /\ F.top \in Nat /\ P \in Nat \ {0} /\ L \in Nat
      /\ L < 2^(d + F.top) /\ FinitesOf(F) \subseteq Int
  BY FiniteNumbers, LargestNumber, PowerPositive
<1>1. PICK e \in Nat : /\ Spacing(F, x) = 2^e /\ Abs(x) < 2^(d + e)
                       /\ e = 0 \/ Abs(x) >= 2^(d + e - 1)
  BY SpacingOf
<1> DEFINE G == 2^e
           y == Rounded(x, G)
<1>2. G \in Nat \ {0} /\ 2^(d + e) = P * G /\ Abs(x) \in Nat /\ Abs(x) <= L
  <2>1. G \in Nat \ {0} /\ 2^(d + e) = P * G
    BY <1>0, PowerPositive, PowerSum
  <2>2. Abs(x) \in Nat /\ Abs(x) <= L
    <3> HIDE DEF d, P, G
    <3> QED  BY <1>0 DEF Abs
  <2> QED  BY <2>1, <2>2
<1>3. e \in 0..F.top
  <2>1. CASE e = 0
    BY <1>0, <2>1
  <2>2. CASE e # 0
    <3>1. d + e - 1 \in Nat /\ d + F.top \in Nat
      BY <1>0, <2>2
    <3>2. 2^(d + e - 1) < 2^(d + F.top) /\ 2^(d + e - 1) \in Nat /\ 2^(d + F.top) \in Nat
      BY <1>0, <1>1, <1>2, <2>2, <3>1, PowerPositive
    <3>3. ~(d + F.top <= d + e - 1)
      BY <3>1, <3>2, PowerGrows
    <3> QED  BY <1>0, <3>1, <3>3
  <2> QED  BY <2>1, <2>2
<1>4. /\ \E c \in Int : y = c * G
      /\ \A c \in Int : /\ Far(y, x) <= Far(c * G, x)
                        /\ x <= c * G => y <= c * G
                        /\ x >= c * G => y >= c * G
  BY <1>2, RoundedIsNearest
\* What the code's tests and arithmetic come to.
<1>5. Cast(F, Finite(x)) =
        IF y > L THEN Infinity(1) ELSE IF y < -L THEN Infinity(-1) ELSE Finite(y)
  BY <1>1 DEF Cast, Finite, IsFinite, Rounded
<1> HIDE DEF y, G, P, L
<1>6. PICK c \in Int : y = c * G
  BY <1>4
<1>7. y \in Int
  BY <1>2, <1>6
\* The largest number is a multiple of the spacing, so that rounding stays below it.
<1>8. -L <= y /\ y <= L
  <2>1. PICK k \in Nat \ {0} : 2^F.top = k * G
    <3>1. F.top \in Nat /\ e <= F.top
      BY <1>0, <1>3
    <3> QED  BY <3>1, PowerDivides DEF G
  <2>2. L = ((P - 1) * k) * G
    <3>1. L = (P - 1) * (k * G)
      BY <2>1 DEF L, Largest, P
    <3> QED  BY <1>0, <1>2, <3>1
  <2>3. PICK l \in Int : l = (P - 1) * k
    BY <1>0
  <2>4. L = l * G /\ -L = (-l) * G /\ -l \in Int
    BY <1>2, <2>2, <2>3
  <2>5. x <= L /\ x >= -L
    BY DEF L
  <2> QED  BY <1>4, <2>4, <2>5
<1>9. Abs(c) <= P
  <2>1. x <= P * G /\ x >= (-P) * G
    <3>1. (-P) * G = -(P * G) /\ P * G \in Nat
      BY <1>0, <1>2
    <3> QED  BY <1>1, <1>2, <3>1 DEF Abs
  <2>2. y <= P * G /\ y >= (-P) * G
    BY <1>0, <1>4, <2>1
  <2>3. Abs(y) <= P * G
    <3>1. (-P) * G = -(P * G) /\ P * G \in Nat
      BY <1>0, <1>2
    <3> QED  BY <1>7, <2>2, <3>1 DEF Abs
  <2>4. Abs(c) * G <= P * G /\ Abs(c) \in Nat
    BY <1>2, <1>6, <2>3, FactorsGrow
  <2> QED  BY <1>0, <1>2, <2>4, FactorsGrow
<1>10. y \in FinitesOf(F)
  <2>1. CASE Abs(c) < P
    BY <1>3, <1>6, <2>1, FiniteNumbers DEF P, G
  <2>2. CASE Abs(c) = P
    <3>1. Abs(y) = 2^(d + e)
      BY <1>2, <1>6, <2>2, FactorsGrow
    <3>2. Abs(y) <= L /\ Abs(y) \in Nat
      BY <1>0, <1>7, <1>8 DEF Abs
    <3>3. e < F.top
      <4>1. ASSUME e = F.top PROVE FALSE
        <5>1. 2^(d + F.top) = Abs(y)
          BY <3>1, <4>1
        <5>2. L < Abs(y)
          BY <1>0, <5>1
        <5> HIDE DEF d
        <5> QED  BY <1>0, <3>2, <5>2
      <4> QED  BY <1>0, <1>3, <4>1
    <3> DEFINE h == 2^(d - 1)
    <3>4. h \in Nat \ {0} /\ P = h + h
      <4>1. d - 1 \in Nat /\ d = (d - 1) + 1
        BY <1>0
      <4> QED  BY <4>1, PowerDoubles, PowerPositive DEF P
    <3>5. 2^(e + 1) = G + G /\ e + 1 \in 0..F.top
      <4>1. e + 1 \in 0..F.top
        BY <1>0, <1>3, <3>3
      <4> QED  BY <4>1, PowerDoubles DEF G
    <3> HIDE DEF h
    <3>6. h < P /\ Abs(h) < P /\ Abs(-h) < P
      BY <1>0, <3>4 DEF Abs
    <3>7. h * 2^(e + 1) \in FinitesOf(F) /\ (-h) * 2^(e + 1) \in FinitesOf(F)
      BY <3>4, <3>5, <3>6, FiniteNumbers DEF P
    <3>8. c = P \/ c = -P
      BY <2>2 DEF Abs
    <3>9. y = h * 2^(e + 1) \/ y = (-h) * 2^(e + 1)
      <4>1. (h + h) * G = h * (G + G) /\ (-(h + h)) * G = (-h) * (G + G)
        BY <1>2, <3>4
      <4> QED  BY <1>6, <3>4, <3>5, <3>8, <4>1
    <3> QED  BY <3>7, <3>9
  <2> QED  BY <1>0, <1>9, <2>1, <2>2, FactorsGrow DEF Abs
<1>11. ASSUME NEW n \in FinitesOf(F) PROVE Far(y, x) <= Far(n, x)
  <2>1. PICK a \in Int, k \in 0..F.top : n = a * 2^k /\ Abs(a) < P
    BY FiniteNumbers DEF P
\* Either n is a multiple of the spacing, too ...
  <2>2. CASE e <= k
    <3>1. PICK q \in Nat \ {0} : 2^k = q * G
      BY <2>2, PowerDivides DEF G
    <3>2. n = (a * q) * G /\ a * q \in Int
      BY <1>2, <2>1, <3>1
    <3> QED  BY <1>4, <3>2
\* ... or it lies beyond a multiple that is nearer to x.
  <2>3. CASE k < e
    <3> DEFINE h == 2^(d - 1)
               B == h * G
    <3>1. d - 1 \in Nat /\ d + e - 1 = (d - 1) + e /\ d + e - 1 \in Nat /\ k \in Nat /\ e # 0
      BY <1>0, <2>3
    <3>2. h \in Nat \ {0} /\ 2^(d + e - 1) = B /\ B \in Nat
      <4>1. h \in Nat \ {0} /\ 2^((d - 1) + e) = h * G
        BY <3>1, PowerPositive, PowerSum DEF G
      <4> HIDE DEF h
      <4> QED  BY <1>2, <3>1, <4>1
    <3>3. Abs(x) >= B
      BY <1>1, <3>1, <3>2
    <3>4. Abs(n) < B
      <4> DEFINE K == 2^k
      <4>1. K \in Nat \ {0} /\ 2^(d + k) = P * K
        BY <1>0, <3>1, PowerPositive, PowerSum DEF P
      <4>2. 2^(d + k) <= 2^(d + e - 1)
        <5>1. d + k \in Nat /\ d + k <= d + e - 1
          BY <1>0, <2>3, <3>1
        <5> QED  BY <3>1, <5>1, PowerGrows
      <4>3. Abs(n) = Abs(a) * K /\ Abs(a) \in Nat
        BY <2>1, <4>1, FactorsGrow
      <4> HIDE DEF K
      <4>4. Abs(a) * K < P * K
        <5>1. ~(P * K <= Abs(a) * K)
          <6>1. P * K <= Abs(a) * K <=> P <= Abs(a)
            BY ONLY <1>0, <4>1, <4>3, FactorsGrow, Zenon
          <6>2. ~(P <= Abs(a))
            BY <1>0, <2>1, <4>3
          <6> QED  BY <6>1, <6>2
        <5>2. Abs(a) * K \in Nat /\ P * K \in Nat
          BY <1>0, <4>1, <4>3
        <5> QED  BY <5>1, <5>2
      <4>5. Abs(a) * K \in Nat /\ P * K \in Nat
        BY <1>0, <4>1, <4>3
      <4> QED  BY <3>2, <4>1, <4>2, <4>3, <4>4, <4>5
    <3> HIDE DEF h
    <3>5. B = h * G /\ -B = (-h) * G /\ h \in Int /\ -h \in Int
      BY <1>2, <3>2
    <3>6. Far(y, x) <= Far(B, x) /\ Far(y, x) <= Far(-B, x)
      BY <1>4, <3>5
    <3> HIDE DEF B
    <3>7. n \in Int
      BY <1>0
    <3>8. CASE x >= 0
      <4>1. Far(B, x) <= Far(n, x)
        BY <3>2, <3>3, <3>4, <3>7, <3>8 DEF Far, Abs
      <4> QED  BY <1>7, <3>2, <3>6, <3>7, <4>1 DEF Far
    <3>9. CASE x < 0
      <4>1. Far(-B, x) <= Far(n, x)
        BY <3>2, <3>3, <3>4, <3>7, <3>9 DEF Far, Abs
      <4> QED  BY <1>7, <3>2, <3>6, <3>7, <4>1 DEF Far
    <3> QED  BY <3>8, <3>9
  <2> QED  BY <1>3, <2>2, <2>3
<1>12. Cast(F, Finite(x)) = Finite(y)
  BY <1>0, <1>5, <1>7, <1>8
<1> QED  BY <1>10, <1>11, <1>12

\* So a number of F stays what it is.
LEMMA CastIsExact ==
  ASSUME NEW F \in Formats, F.digits # 0, NEW x \in FinitesOf(F)
  PROVE  Cast(F, Finite(x)) = Finite(x)
<1>1. x \in Int /\ -Largest(F) <= x /\ x <= Largest(F) /\ FinitesOf(F) \subseteq Int
  BY FiniteNumbers, LargestNumber
<1>2. PICK y \in FinitesOf(F) : Cast(F, Finite(x)) = Finite(y) /\ Far(y, x) <= Far(x, x)
  BY <1>1, CastIsNearest
<1>3. y = x
  BY <1>1, <1>2 DEF Far
<1> QED  BY <1>2, <1>3

-----------------------------------------------------------------------------
(* The formats of the platform. *)

\* Every integer that a scalar keeps.
Integer == -(2^Long)..(2^(Long + 1) - 1)

\* What the assumption on the formats gives: each is a part of the next one, a long
\* double has every integer, and none is beyond a float.
LEMMA Platform ==
  /\ {Float, Double, LongDouble} \subseteq Formats
  /\ \A F \in {Float, Double, LongDouble} : F.digits # 0 /\ FinitesOf(F) \subseteq Int
  /\ FinitesOf(Float) \subseteq FinitesOf(Double)
  /\ FinitesOf(Double) \subseteq FinitesOf(LongDouble)
  /\ Unit \in Nat \ {0} /\ Long \in Nat \ {0} /\ Short \in Nat \ {0}
  /\ 2^Long \in Nat \ {0} /\ 2^(Long + 1) = 2^Long + 2^Long /\ 2^Short <= 2^Long
  /\ 2^(Short + 1) <= 2^(Long + 1) /\ 2^Short \in Nat \ {0} /\ 2^(Short + 1) \in Nat \ {0}
  /\ \A v \in Integer : v * Unit \in FinitesOf(LongDouble)
  /\ \A v \in Integer : -Largest(Float) <= v * Unit /\ v * Unit <= Largest(Float)
<1>1. {Float, Double, LongDouble} \subseteq Formats
  BY ScalarAssumption
<1>2. PICK u \in 0..Unit : Unit = 2^u
  BY ScalarAssumption
<1>3. /\ Float.digits \in Nat /\ Double.digits \in Nat /\ LongDouble.digits \in Nat
      /\ Float.top \in Nat /\ Double.top \in Nat /\ LongDouble.top \in Nat
      /\ Short \in Nat \ {0} /\ Long \in Nat \ {0} /\ Short < Long
  BY <1>1, ScalarAssumption, FiniteNumbers
<1>4. u \in Nat
  BY <1>2, ScalarAssumption
<1>5. Unit \in Nat \ {0}
  BY <1>2, <1>4, PowerPositive
<1>6. /\ 2^Long \in Nat \ {0} /\ 2^(Long + 1) = 2^Long + 2^Long
      /\ 2^Short \in Nat \ {0} /\ 2^(Short + 1) \in Nat \ {0}
  BY <1>3, PowerPositive, PowerDoubles
<1>7. 2^Short <= 2^Long /\ 2^(Short + 1) <= 2^(Long + 1)
  <2>1. Short <= Long /\ Short + 1 \in Nat /\ Long + 1 \in Nat /\ Short + 1 <= Long + 1
    BY <1>3
  <2> QED  BY <1>3, <2>1, PowerGrows
<1> DEFINE N == 2^(Long + 1)
<1>8. N * Unit <= Largest(Float) /\ Largest(Float) \in Nat
      /\ Largest(Float) < 2^(Float.digits + Float.top)
  BY <1>1, LargestNumber, ScalarAssumption
<1>9. \A v \in Integer : v \in Int /\ Abs(v) < N
  BY <1>6 DEF Integer, Abs
<1> HIDE DEF N
<1>10. N \in Nat \ {0} /\ N = 2^(Long + 1)
  BY <1>6 DEF N
<1>11. Float.digits # 0
  <2>1. ASSUME Float.digits = 0 PROVE FALSE
    <3>1. (2^0 - 1) * 2^Float.top = 0
      BY <1>3, PowerZero, PowerPositive
    <3>2. Largest(Float) = 0
      BY <2>1, <3>1 DEF Largest
    <3>3. N * Unit \in Nat \ {0}
      BY <1>5, <1>10
    <3> QED  BY <1>8, <3>2, <3>3
  <2> QED  BY <2>1
\* The unit is the least of the numbers of a float that are 1 or more.
<1>12. u \in 0..LongDouble.top
  <2>1. N * Unit = 2^((Long + 1) + u)
    BY <1>2, <1>3, <1>4, <1>10, PowerSum
  <2>2. ~(Float.digits + Float.top <= (Long + 1) + u)
    <3>1. Float.digits + Float.top \in Nat /\ (Long + 1) + u \in Nat
      BY <1>3, <1>4
    <3>2. 2^((Long + 1) + u) < 2^(Float.digits + Float.top)
          /\ 2^((Long + 1) + u) \in Nat /\ 2^(Float.digits + Float.top) \in Nat
      BY <1>5, <1>8, <1>10, <2>1, <3>1, PowerPositive
    <3> QED  BY <3>1, <3>2, PowerGrows
  <2>3. Float.digits < Long /\ Float.top <= LongDouble.top
    BY <1>3, ScalarAssumption
  <2> QED  BY <1>3, <1>4, <2>2, <2>3
<1>13. ASSUME NEW v \in Integer
       PROVE  /\ v * Unit \in FinitesOf(LongDouble)
              /\ -Largest(Float) <= v * Unit /\ v * Unit <= Largest(Float)
  <2>1. v \in Int /\ Abs(v) < N
    BY <1>9
  <2>2. N <= 2^LongDouble.digits /\ 2^LongDouble.digits \in Nat
    <3>1. Long + 1 <= LongDouble.digits /\ Long + 1 \in Nat
      BY <1>3, ScalarAssumption
    <3> QED  BY <1>3, <1>10, <3>1, PowerGrows, PowerPositive
  <2>3. v * 2^u \in FinitesOf(LongDouble)
    <3>1. Abs(v) < 2^LongDouble.digits
      BY <1>10, <2>1, <2>2 DEF Abs
    <3> QED  BY <1>1, <1>12, <2>1, <3>1, FiniteNumbers
  <2>4. Abs(v * Unit) <= Largest(Float)
    <3>1. Abs(v * Unit) = Abs(v) * Unit /\ Abs(v) \in Nat /\ v * Unit \in Int
      BY <1>5, <2>1, FactorsGrow
    <3>2. Abs(v) * Unit <= N * Unit
      <4>1. Abs(v) <= N
        BY <1>10, <2>1, <3>1
      <4> QED  BY <1>5, <1>10, <3>1, <4>1, FactorsGrow
    <3>3. Abs(v) * Unit \in Nat /\ N * Unit \in Nat
      BY <1>5, <1>10, <3>1
    <3> QED  BY <1>8, <3>1, <3>2, <3>3
  <2>5. v * Unit \in Int
    BY <1>5, <2>1
  <2> QED  BY <1>2, <1>8, <2>3, <2>4, <2>5 DEF Abs
<1>14. /\ Float.digits <= Double.digits /\ Double.digits <= LongDouble.digits
       /\ Float.top <= Double.top /\ Double.top <= LongDouble.top
       /\ Double.digits # 0 /\ LongDouble.digits # 0
  BY <1>3, <1>11, ScalarAssumption
<1>15. /\ FinitesOf(Float) \subseteq FinitesOf(Double)
       /\ FinitesOf(Double) \subseteq FinitesOf(LongDouble)
  BY <1>1, <1>14, LongerFormat
<1>16. \A F \in {Float, Double, LongDouble} : F.digits # 0 /\ FinitesOf(F) \subseteq Int
  BY <1>1, <1>11, <1>14, FiniteNumbers
<1> QED  BY <1>1, <1>3, <1>5, <1>6, <1>7, <1>13, <1>15, <1>16

\* Multiples of the unit compare as the numbers that they are of.
LEMMA Units ==
  /\ \A a, b \in Int : /\ a * Unit \in Int
                       /\ a * Unit = b * Unit <=> a = b
                       /\ a * Unit <= b * Unit <=> a <= b
                       /\ (a * Unit) % Unit = 0 /\ (a * Unit) \div Unit = a
  /\ \A x \in Int : x % Unit = 0 => x = (x \div Unit) * Unit /\ x \div Unit \in Int
<1>1. Unit \in Nat \ {0}
  BY Platform
<1>2. ASSUME NEW a \in Int, NEW b \in Int
      PROVE  /\ a * Unit \in Int
             /\ a * Unit = b * Unit <=> a = b
             /\ a * Unit <= b * Unit <=> a <= b
  <2>1. \A k \in Int, u \in Nat \ {0} : k > 0 => k * u > 0
    OBVIOUS
  <2>2. a < b => (b - a) * Unit > 0
    <3>1. b - a \in Int
      OBVIOUS
    <3> QED  BY <1>1, <2>1, <3>1
  <2>3. b < a => (a - b) * Unit > 0
    <3>1. a - b \in Int
      OBVIOUS
    <3> QED  BY <1>1, <2>1, <3>1
  <2>4. (b - a) * Unit = b * Unit - a * Unit /\ (a - b) * Unit = a * Unit - b * Unit
    BY <1>1
  <2>5. a * Unit \in Int /\ b * Unit \in Int
    BY <1>1
  <2> DEFINE A == a * Unit
             B == b * Unit
  <2>6. (a < b => B - A > 0) /\ (b < a => A - B > 0) /\ A \in Int /\ B \in Int
    BY <2>2, <2>3, <2>4, <2>5
  <2> HIDE DEF A, B
  <2>7. (A = B <=> a = b) /\ (A <= B <=> a <= b)
    <3>1. a = b => A = B
      BY DEF A, B
    <3> QED  BY <2>6, <3>1
  <2> QED  BY <2>5, <2>7 DEF A, B
<1>3. ASSUME NEW a \in Int PROVE (a * Unit) % Unit = 0 /\ (a * Unit) \div Unit = a
  <2>1. a * Unit \in Int
    BY <1>2
  <2> QED  BY <1>1, <2>1, Euclid
<1>4. ASSUME NEW x \in Int, x % Unit = 0 PROVE x = (x \div Unit) * Unit /\ x \div Unit \in Int
  <2>1. x \div Unit \in Int /\ x = (x \div Unit) * Unit + (x % Unit)
    BY <1>1, Euclid
  <2> DEFINE q == x \div Unit
  <2>2. q * Unit \in Int
    BY <1>2, <2>1
  <2> HIDE DEF q
  <2>3. x = q * Unit
    BY <1>4, <2>1, <2>2 DEF q
  <2> QED  BY <2>1, <2>3 DEF q
<1> QED  BY <1>2, <1>3, <1>4

\* A value of F, finite or not, stays what it is in a longer format.
LEMMA CastKeeps ==
  ASSUME NEW F \in {Float, Double, LongDouble}, NEW G \in {Float, Double, LongDouble},
         FinitesOf(F) \subseteq FinitesOf(G), NEW x \in FloatsOf(F)
  PROVE  Cast(G, x) = x
<1>1. CASE IsFinite(x)
  <2>1. PICK n \in FinitesOf(F) : x = Finite(n)
    BY <1>1 DEF FloatsOf, IsFinite, Infinity, NaN
  <2> QED  BY <2>1, Platform, CastIsExact
<1>2. CASE ~IsFinite(x)
  BY <1>2 DEF Cast
<1> QED  BY <1>1, <1>2

\* What checked_floating_cast returns, and that it is the nearest number.
LEMMA CheckedCast ==
  ASSUME NEW F \in {Float, Double, LongDouble}, NEW x,
         \/ \E n \in Int : x = Finite(n)
         \/ x \in {Infinity(1), Infinity(-1), NaN}
  PROVE  /\ TooLarge(F, x) => checked_floating_cast(F, x) = Failure("OutOfRange")
         /\ ~TooLarge(F, x) => /\ checked_floating_cast(F, x) = Value(Cast(F, x))
                               /\ Nearest(F, x, Cast(F, x))
<1>1. Largest(F) \in Nat
  BY Platform, LargestNumber
<1>2. CASE \E n \in Int : x = Finite(n)
  <2>1. PICK n \in Int : x = Finite(n)
    BY <1>2
  <2>2. IsFinite(x) /\ x.n = n
    BY <2>1 DEF Finite, IsFinite
  <2>3. CASE n > Largest(F) \/ n < -Largest(F)
    BY <2>2, <2>3 DEF TooLarge, checked_floating_cast
  <2>4. CASE -Largest(F) <= n /\ n <= Largest(F)
    <3>1. PICK y \in FinitesOf(F) :
             /\ Cast(F, Finite(n)) = Finite(y)
             /\ \A k \in FinitesOf(F) : Far(y, n) <= Far(k, n)
      BY <2>4, Platform, CastIsNearest
    <3>2. Nearest(F, x, Cast(F, x))
      BY <2>1, <2>2, <3>1 DEF Nearest, Finite, IsFinite, Far
    <3>3. ~TooLarge(F, x) /\ checked_floating_cast(F, x) = Value(Cast(F, x))
      BY <1>1, <2>2, <2>4 DEF TooLarge, checked_floating_cast
    <3> QED  BY <3>2, <3>3
  <2> QED  BY <1>1, <2>3, <2>4
<1>3. CASE x \in {Infinity(1), Infinity(-1), NaN}
  <2>1. ~IsFinite(x)
    BY <1>3 DEF Infinity, NaN, IsFinite
  <2> QED  BY <2>1 DEF TooLarge, checked_floating_cast, Nearest, Cast
<1> QED  BY <1>2, <1>3

-----------------------------------------------------------------------------
(* Types, and the scalars that the constructors make. *)

\* The case that Construct and Convert take is the one of the type.
LEMMA ByType ==
  /\ \A v : Construct(Bool, v) = [kind |-> "boolean", value |-> v]
  /\ \A T \in Integral : \A v : Construct(T, v) = [kind |-> T.of, value |-> v]
  /\ \A T \in Floating : \A v : Construct(T, v) = [kind |-> "floating", value |-> Cast(Double, v)]
  /\ \A T \in Complex : \A v :
       Construct(T, v) =
         [kind |-> "complex", value |-> <<Cast(Double, v[1]), Cast(Double, v[2])>>]
  /\ ValuesOf(Bool) = BOOLEAN
  /\ \A T \in Integral : ValuesOf(T) = IntegersOf(T) /\ T # Bool
  /\ \A T \in Floating :
       ValuesOf(T) = IF T.format = LongDouble THEN {} ELSE FloatsOf(T.format)
  /\ \A T \in Complex : ValuesOf(T) = FloatsOf(T.format) \X (FloatsOf(T.format) \cap Imaginary)
  /\ \A s : Convert(Bool, s) = to_bool(s)
  /\ \A T \in Integral : \A s : Convert(T, s) = to_integer(T, s)
  /\ \A T \in Floating : \A s :
       Convert(T, s) = LET real == to_real(s) IN
                       IF ~HasValue(real) THEN Failure(real.code)
                       ELSE checked_floating_cast(T.format, real.value)
  /\ \A T \in Complex : \A s :
       Convert(T, s) =
         LET parts == complex_parts(s)
             real == checked_floating_cast(T.format, parts[1])
             imaginary == checked_floating_cast(T.format, parts[2]) IN
         IF ~HasValue(real) THEN Failure(real.code)
         ELSE IF ~HasValue(imaginary) THEN Failure(imaginary.code)
         ELSE Value(<<real.value, imaginary.value>>)
<1>1. /\ \A T \in Integral : T.of \in {"signed", "unsigned"}
      /\ \A T \in Floating : T.of = "floating"
      /\ \A T \in Complex : T.of = "complex"
      /\ Bool.of = "bool"
  BY DEF Integral, Floating, Complex, Bool
<1>2. /\ \A T \in Integral : T # Bool
      /\ \A T \in Floating : T # Bool /\ T \notin Integral
      /\ \A T \in Complex : T # Bool /\ T \notin Integral /\ T \notin Floating
      /\ Bool \notin Integral /\ Bool \notin Floating /\ Bool \notin Complex
  BY <1>1
<1>3. /\ \A v : Construct(Bool, v) = [kind |-> "boolean", value |-> v]
      /\ \A T \in Integral : \A v : Construct(T, v) = [kind |-> T.of, value |-> v]
  BY <1>2 DEF Construct
<1>4. \A T \in Floating : \A v : Construct(T, v) = [kind |-> "floating", value |-> Cast(Double, v)]
  BY <1>2 DEF Construct
<1>5. \A T \in Complex : \A v :
        Construct(T, v) =
          [kind |-> "complex", value |-> <<Cast(Double, v[1]), Cast(Double, v[2])>>]
  BY <1>2 DEF Construct
<1>6. /\ ValuesOf(Bool) = BOOLEAN
      /\ \A T \in Integral : ValuesOf(T) = IntegersOf(T)
      /\ \A T \in Floating :
           ValuesOf(T) = IF T.format = LongDouble THEN {} ELSE FloatsOf(T.format)
      /\ \A T \in Complex : ValuesOf(T) = FloatsOf(T.format) \X (FloatsOf(T.format) \cap Imaginary)
  BY <1>2 DEF ValuesOf
<1>7. /\ \A s : Convert(Bool, s) = to_bool(s)
      /\ \A T \in Integral : \A s : Convert(T, s) = to_integer(T, s)
  BY <1>2 DEF Convert
<1>8. \A T \in Floating : \A s :
       Convert(T, s) = LET real == to_real(s) IN
                       IF ~HasValue(real) THEN Failure(real.code)
                       ELSE checked_floating_cast(T.format, real.value)
  BY <1>2 DEF Convert
<1>9. \A T \in Complex : \A s :
       Convert(T, s) =
         LET parts == complex_parts(s)
             real == checked_floating_cast(T.format, parts[1])
             imaginary == checked_floating_cast(T.format, parts[2]) IN
         IF ~HasValue(real) THEN Failure(real.code)
         ELSE IF ~HasValue(imaginary) THEN Failure(imaginary.code)
         ELSE Value(<<real.value, imaginary.value>>)
  BY <1>2 DEF Convert
<1> QED  BY <1>2, <1>3, <1>4, <1>5, <1>6, <1>7, <1>8, <1>9

\* The formats of the types, and what the numbers of the integer types are.
LEMMA TypeFacts ==
  /\ \A T \in Floating : T.format \in {Float, Double, LongDouble}
  /\ \A T \in Complex : T.format \in {Float, Double}
  /\ \A T \in Integral : /\ T.of \in {"signed", "unsigned"}
                         /\ IntegersOf(T) \subseteq Integer /\ 0 \in IntegersOf(T)
                         /\ 1 \in IntegersOf(T) /\ 2^T.digits \in Nat
  /\ Integer \subseteq Int
  /\ \A F \in {Float, Double} : /\ FinitesOf(F) \subseteq FinitesOf(Double)
                                /\ FinitesOf(F) \subseteq FinitesOf(LongDouble)
                                /\ F # LongDouble
<1>1. \A T \in Integral : \/ T.of = "signed" /\ T.digits \in {Short, Long}
                          \/ T.of = "unsigned" /\ T.digits \in {Short + 1, Long + 1}
  BY DEF Integral
<1>2. 2^Short >= 2 /\ 2^Long >= 2 /\ 2^(Short + 1) >= 2 /\ 2^(Long + 1) >= 2
  <2>1. \A n \in Nat \ {0} : 2^n >= 2
    <3>1. SUFFICES ASSUME NEW n \in Nat \ {0} PROVE 2^n >= 2
      OBVIOUS
    <3>2. n - 1 \in Nat /\ n = (n - 1) + 1
      OBVIOUS
    <3> DEFINE h == 2^(n - 1)
    <3>3. h \in Nat \ {0} /\ 2^n = h + h
      BY <3>2, PowerPositive, PowerDoubles
    <3> HIDE DEF h
    <3> QED  BY <3>3
  <2>2. Short \in Nat \ {0} /\ Long \in Nat \ {0} /\ Short + 1 \in Nat \ {0} /\ Long + 1 \in Nat \ {0}
    BY Platform
  <2> QED  BY <2>1, <2>2
<1> DEFINE A == 2^Short
           B == 2^Long
           C == 2^(Short + 1)
           D == 2^(Long + 1)
<1>3. /\ A \in Nat /\ B \in Nat /\ C \in Nat /\ D = B + B /\ A <= B /\ C <= D
      /\ A >= 2 /\ B >= 2 /\ C >= 2
  BY <1>2, Platform
<1>4. Integer = -B..(D - 1)
  BY DEF Integer
<1>5. ASSUME NEW T \in Integral
      PROVE  /\ T.of \in {"signed", "unsigned"}
             /\ IntegersOf(T) \subseteq Integer /\ 0 \in IntegersOf(T)
             /\ 1 \in IntegersOf(T) /\ 2^T.digits \in Nat
  <2>1. CASE T.of = "signed"
    <3>1. 2^T.digits = A \/ 2^T.digits = B
      BY <1>1, <2>1
    <3>2. IntegersOf(T) = -(2^T.digits)..(2^T.digits - 1)
      BY <2>1 DEF IntegersOf
    <3> HIDE DEF A, B, C, D
    <3> QED  BY <1>3, <1>4, <2>1, <3>1, <3>2
  <2>2. CASE T.of = "unsigned"
    <3>1. 2^T.digits = C \/ 2^T.digits = D
      BY <1>1, <2>2
    <3>2. IntegersOf(T) = 0..(2^T.digits - 1)
      BY <2>2 DEF IntegersOf
    <3> HIDE DEF A, B, C, D
    <3> QED  BY <1>3, <1>4, <2>2, <3>1, <3>2
  <2> QED  BY <1>1, <2>1, <2>2
<1>6. Integer \subseteq Int
  BY <1>3, <1>4
<1>7. Float # LongDouble /\ Double # LongDouble
  BY ScalarAssumption, Platform, FiniteNumbers
<1>8. /\ \A T \in Floating : T.format \in {Float, Double, LongDouble}
      /\ \A T \in Complex : T.format \in {Float, Double}
  BY DEF Floating, Complex
<1> QED  BY <1>5, <1>6, <1>7, <1>8, Platform

\* What a scalar can hold.
Scalars ==
  [kind : {"boolean"}, value : BOOLEAN]
    \cup [kind : {"signed", "unsigned"}, value : Integer]
    \cup [kind : {"floating"}, value : FloatsOf(Double)]
    \cup [kind : {"complex"}, value : FloatsOf(Double) \X FloatsOf(Double)]

\* The constructors lose nothing: a scalar holds the value that it has been made from.
LEMMA ConstructKeeps ==
  ASSUME NEW T \in Type, NEW v \in ValuesOf(T)
  PROVE  /\ Construct(T, v) \in Scalars /\ Construct(T, v).value = v
         /\ T = Bool => Construct(T, v) = [kind |-> "boolean", value |-> v] /\ v \in BOOLEAN
         /\ T \in Integral =>
              Construct(T, v) = [kind |-> T.of, value |-> v] /\ v \in IntegersOf(T)
         /\ T \in Floating => /\ Construct(T, v) = [kind |-> "floating", value |-> v]
                              /\ T.format \in {Float, Double} /\ v \in FloatsOf(T.format)
         /\ T \in Complex =>
              /\ Construct(T, v) = [kind |-> "complex", value |-> v]
              /\ v \in FloatsOf(T.format) \X FloatsOf(T.format) /\ v[2] \in Imaginary
<1>0. \A F \in {Float, Double} : FloatsOf(F) \subseteq FloatsOf(Double)
  BY TypeFacts DEF FloatsOf
<1>1. CASE T = Bool
  <2>1. T \notin Integral /\ T \notin Floating /\ T \notin Complex
    BY <1>1 DEF Bool, Integral, Floating, Complex
  <2> QED  BY <1>1, <2>1, ByType DEF Scalars
<1>2. CASE T \in Integral
  <2>1. T # Bool /\ T \notin Floating /\ T \notin Complex
    BY <1>2 DEF Bool, Integral, Floating, Complex
  <2>2. Construct(T, v) = [kind |-> T.of, value |-> v] /\ v \in IntegersOf(T)
    BY <1>2, ByType
  <2>3. v \in Integer /\ T.of \in {"signed", "unsigned"}
    BY <1>2, <2>2, TypeFacts
  <2>4. Construct(T, v) \in Scalars
    BY <2>2, <2>3 DEF Scalars
  <2> QED  BY <2>1, <2>2, <2>4
<1>3. CASE T \in Floating
  <2>1. T # Bool /\ T \notin Integral /\ T \notin Complex
    BY <1>3 DEF Bool, Integral, Floating, Complex
  <2>2. T.format \in {Float, Double} /\ v \in FloatsOf(T.format)
    BY <1>3, ByType, TypeFacts
  <2>3. Cast(Double, v) = v /\ v \in FloatsOf(Double)
    BY <1>0, <2>2, TypeFacts, CastKeeps
  <2>4. Construct(T, v) = [kind |-> "floating", value |-> v]
    BY <1>3, <2>3, ByType
  <2>5. Construct(T, v) \in Scalars
    BY <2>3, <2>4 DEF Scalars
  <2> QED  BY <2>1, <2>2, <2>4, <2>5
<1>4. CASE T \in Complex
  <2>1. T # Bool /\ T \notin Integral /\ T \notin Floating
    BY <1>4 DEF Bool, Integral, Floating, Complex
  <2>2. T.format \in {Float, Double}
        /\ v \in FloatsOf(T.format) \X (FloatsOf(T.format) \cap Imaginary)
    BY <1>4, ByType, TypeFacts
  <2>3. /\ v = <<v[1], v[2]>> /\ v[2] \in Imaginary
        /\ v[1] \in FloatsOf(T.format) /\ v[2] \in FloatsOf(T.format)
    BY <2>2
  <2>4. /\ Cast(Double, v[1]) = v[1] /\ v[1] \in FloatsOf(Double)
        /\ Cast(Double, v[2]) = v[2] /\ v[2] \in FloatsOf(Double)
    BY <1>0, <2>2, <2>3, TypeFacts, CastKeeps
  <2>5. Construct(T, v) = [kind |-> "complex", value |-> v]
    <3>1. Construct(T, v) = [kind |-> "complex", value |-> <<v[1], v[2]>>]
      BY <1>4, <2>4, ByType
    <3> QED  BY <2>3, <3>1
  <2>6. v \in FloatsOf(T.format) \X FloatsOf(T.format)
        /\ v \in FloatsOf(Double) \X FloatsOf(Double)
    BY <2>3, <2>4
  <2>7. Construct(T, v) \in Scalars
    BY <2>5, <2>6 DEF Scalars
  <2> QED  BY <2>1, <2>3, <2>5, <2>6, <2>7
<1> QED  BY <1>1, <1>2, <1>3, <1>4 DEF Type

\* A value of a format is a finite integer of units, or not finite, and never too large.
LEMMA ValuesOfFormats ==
  ASSUME NEW F \in {Float, Double, LongDouble}, NEW x \in FloatsOf(F)
  PROVE  /\ \/ IsFinite(x) /\ x.n \in FinitesOf(F) /\ x.n \in Int /\ x = Finite(x.n)
            \/ ~IsFinite(x) /\ x \in {Infinity(1), Infinity(-1), NaN}
         /\ ~TooLarge(F, x)
<1>1. CASE IsFinite(x)
  <2>1. PICK n \in FinitesOf(F) : x = Finite(n)
    BY <1>1 DEF FloatsOf, IsFinite, Infinity, NaN
  <2>2. n \in Int /\ -Largest(F) <= n /\ n <= Largest(F) /\ Largest(F) \in Nat
    BY Platform, LargestNumber
  <2>3. x.n = n
    BY <2>1 DEF Finite
  <2> QED  BY <1>1, <2>1, <2>2, <2>3 DEF TooLarge
<1>2. CASE ~IsFinite(x)
  BY <1>2 DEF FloatsOf, TooLarge, Finite, IsFinite
<1> QED  BY <1>1, <1>2

LEMMA Results ==
  /\ \A v : HasValue(Value(v)) /\ Value(v).value = v
  /\ \A c \in {"OutOfRange", "InvalidArgument"} :
       ~HasValue(Failure(c)) /\ Failure(c).code = c /\ Failure(Failure(c).code) = Failure(c)
BY DEF Value, Failure, HasValue

\* Any value converts back to the type that it is of.
LEMMA OwnType ==
  ASSUME NEW T \in Type, NEW v \in ValuesOf(T)
  PROVE  Convert(T, Construct(T, v)) = Value(v)
<1> DEFINE s == Construct(T, v)
<1>1. CASE T = Bool
  <2>1. s = [kind |-> "boolean", value |-> v]
    BY <1>1, ConstructKeeps
  <2>2. Convert(T, s) = to_bool(s)
    BY <1>1, ByType
  <2> QED  BY <2>1, <2>2 DEF to_bool
<1>2. CASE T \in Integral
  <2>1. s = [kind |-> T.of, value |-> v] /\ v \in IntegersOf(T) /\ T.of \in {"signed", "unsigned"}
    BY <1>2, ConstructKeeps, TypeFacts
  <2>2. Convert(T, s) = to_integer(T, s)
    BY <1>2, ByType
  <2> HIDE DEF s
  <2>3. s.kind \in {"signed", "unsigned"} /\ s.value = v
    BY <2>1
  <2> QED  BY <2>1, <2>2, <2>3 DEF to_integer, s
<1>3. CASE T \in Floating
  <2> DEFINE F == T.format
  <2>1. s = [kind |-> "floating", value |-> v] /\ F \in {Float, Double} /\ v \in FloatsOf(F)
    BY <1>3, ConstructKeeps
  <2>2. Cast(LongDouble, v) = v /\ Cast(F, v) = v
    BY <2>1, TypeFacts, CastKeeps
  <2>3. to_real(s) = Value(v)
    BY <2>1, <2>2 DEF to_real
  <2>4. Convert(T, s) = checked_floating_cast(F, v)
    <3>1. Convert(T, s) = LET real == to_real(s) IN
                       IF ~HasValue(real) THEN Failure(real.code)
                       ELSE checked_floating_cast(T.format, real.value)
      BY <1>3, ByType
    <3> QED  BY <2>3, <3>1, Results
  <2>5. checked_floating_cast(F, v) = Value(Cast(F, v))
    BY <2>1, ValuesOfFormats, CheckedCast
  <2> QED  BY <2>2, <2>4, <2>5
<1>4. CASE T \in Complex
  <2> DEFINE F == T.format
  <2>1. s = [kind |-> "complex", value |-> v] /\ F \in {Float, Double}
        /\ v \in FloatsOf(F) \X FloatsOf(F)
    BY <1>4, ConstructKeeps, TypeFacts
  <2>2. v[1] \in FloatsOf(F) /\ v[2] \in FloatsOf(F) /\ v = <<v[1], v[2]>>
    BY <2>1
  <2>3. Cast(F, v[1]) = v[1] /\ Cast(F, v[2]) = v[2]
    BY <2>1, <2>2, CastKeeps
  <2>4. complex_parts(s) = v
    BY <2>1 DEF complex_parts
  <2>5. /\ checked_floating_cast(F, v[1]) = Value(v[1])
        /\ checked_floating_cast(F, v[2]) = Value(v[2])
    <3>1. \A x \in FloatsOf(F) : checked_floating_cast(F, x) = Value(Cast(F, x))
      BY <2>1, ValuesOfFormats, CheckedCast
    <3> QED  BY <2>2, <2>3, <3>1
  <2>6. Convert(T, s) =
         LET parts == complex_parts(s)
             real == checked_floating_cast(T.format, parts[1])
             imaginary == checked_floating_cast(T.format, parts[2]) IN
         IF ~HasValue(real) THEN Failure(real.code)
         ELSE IF ~HasValue(imaginary) THEN Failure(imaginary.code)
         ELSE Value(<<real.value, imaginary.value>>)
    BY <1>4, ByType
  <2>7. Convert(T, s) = Value(<<v[1], v[2]>>)
    BY <2>4, <2>5, <2>6, Results
  <2> QED  BY <2>2, <2>7
<1> QED  BY <1>1, <1>2, <1>3, <1>4 DEF Type

\* And what a scalar holds is a value of its dtype(), of which it could have been made.
LEMMA KeptType ==
  ASSUME NEW T \in Type, NEW v \in ValuesOf(T), NEW s, s = Construct(T, v)
  PROVE  /\ dtype(s) \in Type /\ s.value \in ValuesOf(dtype(s))
         /\ Construct(dtype(s), s.value) = s
<1>0. \A F \in {Float, Double} : FloatsOf(F) \subseteq FloatsOf(Double)
  BY TypeFacts DEF FloatsOf
<1>1. CASE T = Bool
  <2>1. s = [kind |-> "boolean", value |-> v] /\ v \in BOOLEAN
    BY <1>1, ConstructKeeps
  <2>2. dtype(s) = Bool /\ s.value = v
    BY <2>1 DEF dtype
  <2> QED  BY <1>1, <2>1, <2>2, ByType DEF Type
<1>2. CASE T \in Integral
  <2>1. s = [kind |-> T.of, value |-> v] /\ v \in IntegersOf(T)
    BY <1>2, ConstructKeeps
  <2>2. s.kind = T.of /\ s.value = v
    BY <2>1
  <2> DEFINE S == [of |-> "signed", digits |-> Long]
             U == [of |-> "unsigned", digits |-> Long + 1]
  <2>3. S \in Integral /\ U \in Integral
    BY DEF Integral
  <2>4. CASE T.of = "signed"
    <3>1. dtype(s) = S /\ S.of = "signed" /\ S.digits = Long
      BY <2>2, <2>4 DEF dtype
    <3>2. v \in IntegersOf(S)
      <4>1. T.digits \in {Short, Long}
        BY <1>2, <2>4 DEF Integral
      <4>2. 2^Short <= 2^Long /\ 2^Short \in Nat /\ 2^Long \in Nat
        BY Platform
      <4>3. v \in -(2^T.digits)..(2^T.digits - 1)
        BY <2>1, <2>4 DEF IntegersOf
      <4>4. IntegersOf(S) = -(2^Long)..(2^Long - 1)
        BY <3>1 DEF IntegersOf
      <4> DEFINE A == 2^Short
                 B == 2^Long
      <4>5. v \in -A..(A - 1) \/ v \in -B..(B - 1)
        BY <4>1, <4>3
      <4>6. A <= B /\ A \in Nat /\ B \in Nat /\ IntegersOf(S) = -B..(B - 1)
        BY <4>2, <4>4
      <4> HIDE DEF A, B, S
      <4> QED  BY <4>5, <4>6
    <3>3. Construct(S, v) = s
      <4>1. Construct(S, v) = [kind |-> S.of, value |-> v]
        BY <2>3, ByType
      <4> QED  BY <2>1, <2>4, <3>1, <4>1
    <3>4. ValuesOf(S) = IntegersOf(S) /\ S \in Type
      BY <2>3, ByType DEF Type
    <3> HIDE DEF S
    <3> QED  BY <2>2, <3>1, <3>2, <3>3, <3>4
  <2>5. CASE T.of = "unsigned"
    <3>1. dtype(s) = U /\ U.of = "unsigned" /\ U.digits = Long + 1
      BY <2>2, <2>5 DEF dtype
    <3>2. v \in IntegersOf(U)
      <4>1. T.digits \in {Short + 1, Long + 1}
        BY <1>2, <2>5 DEF Integral
      <4>2. 2^(Short + 1) <= 2^(Long + 1) /\ 2^(Short + 1) \in Nat /\ 2^(Long + 1) \in Nat
        BY Platform
      <4>3. v \in 0..(2^T.digits - 1)
        BY <2>1, <2>5 DEF IntegersOf
      <4>4. IntegersOf(U) = 0..(2^(Long + 1) - 1)
        BY <3>1 DEF IntegersOf
      <4> DEFINE A == 2^(Short + 1)
                 B == 2^(Long + 1)
      <4>5. v \in 0..(A - 1) \/ v \in 0..(B - 1)
        BY <4>1, <4>3
      <4>6. A <= B /\ A \in Nat /\ B \in Nat /\ IntegersOf(U) = 0..(B - 1)
        BY <4>2, <4>4
      <4> HIDE DEF A, B, U
      <4> QED  BY <4>5, <4>6
    <3>3. Construct(U, v) = s
      <4>1. Construct(U, v) = [kind |-> U.of, value |-> v]
        BY <2>3, ByType
      <4> QED  BY <2>1, <2>5, <3>1, <4>1
    <3>4. ValuesOf(U) = IntegersOf(U) /\ U \in Type
      BY <2>3, ByType DEF Type
    <3> HIDE DEF U
    <3> QED  BY <2>2, <3>1, <3>2, <3>3, <3>4
  <2> QED  BY <1>2, <2>4, <2>5, TypeFacts
<1>3. CASE T \in Floating
  <2> DEFINE D == [of |-> "floating", format |-> Double]
  <2>1. s = [kind |-> "floating", value |-> v] /\ v \in FloatsOf(Double)
    BY <1>0, <1>3, ConstructKeeps
  <2>2. dtype(s) = D /\ s.value = v /\ D \in Floating /\ D \in Type /\ D.format = Double
    BY <2>1 DEF dtype, Floating, Type
  <2> HIDE DEF D
  <2>3. ValuesOf(D) = FloatsOf(Double) /\ Construct(D, v) = [kind |-> "floating", value |-> Cast(Double, v)]
    BY <2>2, ByType, TypeFacts
  <2>4. Cast(Double, v) = v
    BY <2>1, CastKeeps
  <2> QED  BY <2>1, <2>2, <2>3, <2>4
<1>4. CASE T \in Complex
  <2> DEFINE D == [of |-> "complex", format |-> Double]
  <2>1. /\ s = [kind |-> "complex", value |-> v]
        /\ v \in FloatsOf(T.format) \X FloatsOf(T.format) /\ v[2] \in Imaginary
    BY <1>4, ConstructKeeps
  <2>2. v[1] \in FloatsOf(Double) /\ v[2] \in FloatsOf(Double) /\ v = <<v[1], v[2]>>
    BY <1>0, <1>4, <2>1, TypeFacts
  <2>3. dtype(s) = D /\ s.value = v /\ D \in Complex /\ D \in Type /\ D.format = Double
    BY <2>1 DEF dtype, Complex, Type
  <2> HIDE DEF D
  <2>4. /\ ValuesOf(D) = FloatsOf(Double) \X (FloatsOf(Double) \cap Imaginary)
        /\ Construct(D, v) =
             [kind |-> "complex", value |-> <<Cast(Double, v[1]), Cast(Double, v[2])>>]
    BY <2>3, ByType
  <2>5. Cast(Double, v[1]) = v[1] /\ Cast(Double, v[2]) = v[2]
    BY <2>2, CastKeeps
  <2>6. v \in ValuesOf(D)
    <3>1. <<v[1], v[2]>> \in ValuesOf(D)
      BY <2>1, <2>2, <2>4
    <3> QED  BY <2>2, <3>1
  <2>7. Construct(D, v) = s
    <3>1. Construct(D, v) = [kind |-> "complex", value |-> <<v[1], v[2]>>]
      BY <2>4, <2>5
    <3> QED  BY <2>1, <2>2, <3>1
  <2> QED  BY <2>3, <2>6, <2>7
<1> QED  BY <1>1, <1>2, <1>3, <1>4 DEF Type

-----------------------------------------------------------------------------
(* What a scalar answers. *)

\* The scalar is the one that its value makes, and the reply the one that it gives.
ScalarInv ==
  \E T \in Type : \E v \in ValuesOf(T) :
    /\ given = <<T, v>> /\ scalar = Construct(T, v)
    /\ reply # NoReply => \E A \in Type : reply = <<A, Convert(A, scalar)>>

LEMMA ScalarIsInductive == ScalarSpec => []ScalarInv
<1>1. ScalarInit => ScalarInv
  BY DEF ScalarInit, ScalarInv
<1>2. ScalarInv /\ [ScalarNext]_scvars => ScalarInv'
  <2>1. SUFFICES ASSUME ScalarInv, [ScalarNext]_scvars PROVE ScalarInv'
    OBVIOUS
  <2>2. PICK T \in Type : \E v \in ValuesOf(T) :
           /\ given = <<T, v>> /\ scalar = Construct(T, v)
           /\ reply # NoReply => \E A \in Type : reply = <<A, Convert(A, scalar)>>
    BY <2>1 DEF ScalarInv
  <2>3. given' = given /\ scalar' = scalar
    BY <2>1 DEF ScalarNext, Ask, scvars
  <2>4. reply' # NoReply => \E A \in Type : reply' = <<A, Convert(A, scalar)>>
    BY <2>1, <2>2 DEF ScalarNext, Ask, scvars
  <2> QED  BY <2>2, <2>3, <2>4 DEF ScalarInv
<1> QED  BY <1>1, <1>2, PTL DEF ScalarSpec

\* What ScalarInv says of a reply.
LEMMA Replies ==
  ASSUME ScalarInv, reply # NoReply
  PROVE  /\ scalar \in Scalars
         /\ reply[1] \in Type /\ reply[2] = Convert(reply[1], scalar)
<1>1. PICK T \in Type : \E v \in ValuesOf(T) :
         /\ given = <<T, v>> /\ scalar = Construct(T, v)
         /\ reply # NoReply => \E A \in Type : reply = <<A, Convert(A, scalar)>>
  BY DEF ScalarInv
<1>2. PICK A \in Type : reply = <<A, Convert(A, scalar)>>
  BY <1>1
<1>3. reply[1] = A /\ reply[2] = Convert(A, scalar)
  BY <1>2
<1> QED  BY <1>1, <1>3, ConstructKeeps

\* A value given to a Scalar comes back from to() for its own type and for the one
\* that dtype() names: the constructors lose nothing (RoundTrip).
THEOREM ScalarsRoundTrip == ScalarSpec => []RoundTrip
<1>1. ScalarInv => RoundTrip
  <2>1. SUFFICES ASSUME ScalarInv, reply # NoReply PROVE RoundTrip
    BY DEF RoundTrip, Asks
  <2>2. PICK T \in Type : \E v \in ValuesOf(T) : given = <<T, v>> /\ scalar = Construct(T, v)
    BY <2>1 DEF ScalarInv
  <2>3. PICK v \in ValuesOf(T) : given = <<T, v>> /\ scalar = Construct(T, v)
    BY <2>2
  <2>4. given[1] = T /\ given[2] = v
    BY <2>3
  <2>5. reply[2] = Convert(reply[1], scalar)
    BY <2>1, Replies
  <2>6. Convert(T, scalar) = Value(v)
    BY <2>3, OwnType
  <2>7. dtype(scalar) \in Type /\ scalar.value \in ValuesOf(dtype(scalar))
        /\ Construct(dtype(scalar), scalar.value) = scalar
    BY <2>3, KeptType
  <2>8. Convert(dtype(scalar), scalar) = Value(scalar.value)
    BY <2>7, OwnType
  <2> QED  BY <2>4, <2>5, <2>6, <2>8 DEF RoundTrip, Asks
<1> QED  BY <1>1, ScalarIsInductive, PTL

\* What a scalar stands for, kind by kind.
LEMMA NumberOf ==
  ASSUME scalar \in Scalars
  PROVE  \/ /\ scalar.kind = "boolean" /\ scalar.value \in BOOLEAN /\ IsReal
            /\ Number = IF scalar.value THEN One ELSE Zero
         \/ /\ scalar.kind \in {"signed", "unsigned"} /\ scalar.value \in Integer /\ IsReal
            /\ Number = Finite(scalar.value * Unit)
         \/ /\ scalar.kind = "floating" /\ scalar.value \in FloatsOf(Double) /\ IsReal
            /\ Number = scalar.value
         \/ /\ scalar.kind = "complex" /\ scalar.value \in FloatsOf(Double) \X FloatsOf(Double)
            /\ Number = scalar.value[1] /\ (IsReal <=> scalar.value[2] = Zero)
BY DEF Scalars, Number, IsReal

\* floating_to_integer takes the whole numbers of the type, and no others.
LEMMA WholeNumbers ==
  ASSUME NEW T \in Integral, NEW x, ~IsFinite(x) \/ x.n \in Int
  PROVE  floating_to_integer(T, x) =
           IF ~IsFinite(x) THEN Failure("OutOfRange")
           ELSE IF x.n % Unit # 0 THEN Failure("InvalidArgument")
           ELSE IF x.n \div Unit \in IntegersOf(T) THEN Value(x.n \div Unit)
           ELSE Failure("OutOfRange")
<1>1. CASE ~IsFinite(x)
  BY <1>1 DEF floating_to_integer
<1>2. CASE IsFinite(x) /\ x.n % Unit # 0
  BY <1>2 DEF floating_to_integer
<1>3. CASE IsFinite(x) /\ x.n % Unit = 0
  <2> DEFINE q == x.n \div Unit
             P == 2^T.digits
  <2>1. q \in Int /\ x.n = q * Unit /\ P \in Nat /\ x.n \in Int
    BY <1>3, Units, TypeFacts
  <2> HIDE DEF q, P
  <2>2. P * Unit \in Int /\ (-P) * Unit = -(P * Unit) /\ 0 * Unit = 0
    <3>1. Unit \in Nat
      BY Platform
    <3> QED  BY <2>1, <3>1
  <2>3. /\ P * Unit <= x.n <=> P <= q
        /\ -(P * Unit) <= x.n <=> -P <= q
        /\ 0 <= x.n <=> 0 <= q
    <3>1. \A a, b \in Int : a * Unit <= b * Unit <=> a <= b
      BY Units
    <3>2. P \in Int /\ -P \in Int /\ 0 \in Int
      BY <2>1
    <3> QED  BY <2>1, <2>2, <3>1, <3>2
  <2>4. q \in IntegersOf(T) <=>
          ~(x.n < (IF T.of = "signed" THEN -(P * Unit) ELSE 0) \/ x.n >= P * Unit)
    <3>1. IntegersOf(T) = (IF T.of = "signed" THEN -P ELSE 0)..(P - 1)
      BY DEF IntegersOf, P
    <3>2. CASE T.of = "signed"
      BY <2>1, <2>2, <2>3, <3>1, <3>2
    <3>3. CASE T.of # "signed"
      BY <2>1, <2>2, <2>3, <3>1, <3>3
    <3> QED  BY <3>2, <3>3
  <2> QED  BY <1>3, <2>4 DEF floating_to_integer, q, P
<1> QED  BY <1>1, <1>2, <1>3

\* What IntegersExact asks of a result.
Exact(A, result) ==
  LET numbers == IF A = Bool THEN 0..1 ELSE IntegersOf(A)
      fits == IsReal /\ IsFinite(Number) /\ \E n \in numbers : Number.n = n * Unit IN
  /\ HasValue(result) <=> fits
  /\ HasValue(result) =>
       Number.n = Unit * (IF A # Bool THEN result.value ELSE IF result.value THEN 1 ELSE 0)
  /\ ~HasValue(result) =>
       result.code = IF A = Bool \/ ~IsReal \/ (IsFinite(Number) /\ Number.n % Unit # 0)
                     THEN "InvalidArgument" ELSE "OutOfRange"

\* An integer type gets an integer that it has, whole and unchanged, or an error.
LEMMA ToIntegerIsExact ==
  ASSUME scalar \in Scalars, NEW A \in Integral
  PROVE  Exact(A, Convert(A, scalar))
<1>1. Convert(A, scalar) = to_integer(A, scalar) /\ A # Bool
  BY ByType
<1>2. /\ IntegersOf(A) \subseteq Integer /\ 0 \in IntegersOf(A) /\ 1 \in IntegersOf(A)
      /\ Integer \subseteq Int /\ Unit \in Nat \ {0}
  BY TypeFacts, Platform
<1>3. \A v \in Int : v * Unit = Unit * v /\ v * Unit \in Int
  BY <1>2
<1>3a. ASSUME NEW v \in Int
       PROVE  (\E n \in IntegersOf(A) : v * Unit = n * Unit) <=> v \in IntegersOf(A)
  <2>1. \A n \in IntegersOf(A) : v * Unit = n * Unit => n = v
    <3>1. \A a, b \in Int : a * Unit = b * Unit => a = b
      BY Units
    <3> QED  BY <1>2, <3>1
  <2> QED  BY <2>1
\* What is kept as an integer
<1>4. ASSUME NEW v \in Int, IsReal, Number = Finite(v * Unit),
             Convert(A, scalar) = IF v \in IntegersOf(A) THEN Value(v) ELSE Failure("OutOfRange")
      PROVE  Exact(A, Convert(A, scalar))
  <2>1. IsFinite(Number) /\ Number.n = v * Unit /\ Number.n % Unit = 0
    BY <1>4, Units DEF Finite, IsFinite
  <2>2. (\E n \in IntegersOf(A) : Number.n = n * Unit) <=> v \in IntegersOf(A)
    BY <1>3a, <2>1
  <2>3. CASE v \in IntegersOf(A)
    BY <1>1, <1>3, <1>4, <2>1, <2>2, <2>3, Results DEF Exact
  <2>4. CASE v \notin IntegersOf(A)
    BY <1>1, <1>4, <2>1, <2>2, <2>4, Results DEF Exact
  <2> QED  BY <2>3, <2>4
\* What is kept as a floating-point number
<1>5. ASSUME IsReal, Number \in FloatsOf(Double),
             Convert(A, scalar) = floating_to_integer(A, Cast(LongDouble, Number))
      PROVE  Exact(A, Convert(A, scalar))
  <2>1. Cast(LongDouble, Number) = Number
    BY <1>5, TypeFacts, CastKeeps
  <2> DEFINE x == Number
             q == x.n \div Unit
  <2>2. ~IsFinite(x) \/ x.n \in Int
    BY <1>5, ValuesOfFormats
  <2>3. Convert(A, scalar) =
          IF ~IsFinite(x) THEN Failure("OutOfRange")
          ELSE IF x.n % Unit # 0 THEN Failure("InvalidArgument")
          ELSE IF q \in IntegersOf(A) THEN Value(q) ELSE Failure("OutOfRange")
    BY <1>5, <2>1, <2>2, WholeNumbers
  <2>4. CASE ~IsFinite(x)
    BY <1>1, <1>5, <2>3, <2>4, Results DEF Exact
  <2>5. CASE IsFinite(x) /\ x.n % Unit # 0
    <3>1. ~\E n \in IntegersOf(A) : x.n = n * Unit
      BY <1>2, <2>5, Units
    <3> QED  BY <1>1, <1>5, <2>3, <2>5, <3>1, Results DEF Exact
  <2>6. CASE IsFinite(x) /\ x.n % Unit = 0
    <3>1. q \in Int /\ x.n = q * Unit
      BY <2>2, <2>6, Units
    <3> HIDE DEF q
    <3>2. (\E n \in IntegersOf(A) : x.n = n * Unit) <=> q \in IntegersOf(A)
      BY <1>3a, <3>1
    <3>3. CASE q \in IntegersOf(A)
      BY <1>1, <1>3, <1>5, <2>3, <2>6, <3>1, <3>2, <3>3, Results DEF Exact
    <3>4. CASE q \notin IntegersOf(A)
      BY <1>1, <1>5, <2>3, <2>6, <3>2, <3>4, Results DEF Exact
    <3> QED  BY <3>3, <3>4
  <2> QED  BY <2>4, <2>5, <2>6
<1>6. CASE scalar.kind = "boolean"
  <2>1. scalar.value \in BOOLEAN /\ IsReal /\ Number = IF scalar.value THEN One ELSE Zero
    BY <1>6, NumberOf
  <2> DEFINE v == IF scalar.value THEN 1 ELSE 0
  <2>2. v \in Int /\ v \in IntegersOf(A) /\ Number = Finite(v * Unit)
    <3>1. 1 * Unit = Unit /\ 0 * Unit = 0
      BY <1>2
    <3> QED  BY <1>2, <2>1, <3>1 DEF One, Zero
  <2>3. Convert(A, scalar) = Value(v)
    BY <1>1, <1>6 DEF to_integer
  <2> HIDE DEF v
  <2> QED  BY <1>4, <2>1, <2>2, <2>3
<1>7. CASE scalar.kind \in {"signed", "unsigned"}
  <2>1. scalar.value \in Int /\ IsReal /\ Number = Finite(scalar.value * Unit)
    BY <1>2, <1>7, NumberOf
  <2>2. Convert(A, scalar) = IF scalar.value \in IntegersOf(A) THEN Value(scalar.value)
                             ELSE Failure("OutOfRange")
    BY <1>1, <1>7 DEF to_integer
  <2> QED  BY <1>4, <2>1, <2>2
<1>8. CASE scalar.kind = "floating"
  <2>1. scalar.value \in FloatsOf(Double) /\ IsReal /\ Number = scalar.value
    BY <1>8, NumberOf
  <2>2. Convert(A, scalar) = floating_to_integer(A, Cast(LongDouble, scalar.value))
    BY <1>1, <1>8 DEF to_integer
  <2> QED  BY <1>5, <2>1, <2>2
<1>9. CASE scalar.kind = "complex"
  <2>1. /\ scalar.value \in FloatsOf(Double) \X FloatsOf(Double) /\ Number = scalar.value[1]
        /\ IsReal <=> scalar.value[2] = Zero
    BY <1>9, NumberOf
  <2>2. CASE IsReal
    <3>1. Convert(A, scalar) = floating_to_integer(A, Cast(LongDouble, Number))
      BY <1>1, <1>9, <2>1, <2>2 DEF to_integer
    <3>2. Number \in FloatsOf(Double)
      BY <2>1
    <3> QED  BY <1>5, <2>2, <3>1, <3>2
  <2>3. CASE ~IsReal
    <3>1. Convert(A, scalar) = Failure("InvalidArgument")
      BY <1>1, <1>9, <2>1, <2>3 DEF to_integer
    <3> QED  BY <2>3, <3>1, Results DEF Exact
  <2> QED  BY <2>2, <2>3
<1> QED  BY <1>6, <1>7, <1>8, <1>9, NumberOf

\* bool takes the numbers 0 and 1.
LEMMA ToBoolIsExact ==
  ASSUME scalar \in Scalars
  PROVE  Exact(Bool, Convert(Bool, scalar))
<1>1. Convert(Bool, scalar) = to_bool(scalar)
  BY ByType
<1>2. Unit \in Nat \ {0} /\ 0 * Unit = 0 /\ 1 * Unit = Unit /\ Unit * 1 = Unit /\ Unit * 0 = 0
  BY Platform
<1>3. (\E n \in 0..1 : Number.n = n * Unit) <=> Number.n = 0 \/ Number.n = Unit
  <2>1. 0..1 = {0, 1}
    OBVIOUS
  <2> QED  BY <1>2, <2>1
<1> DEFINE fits == IsReal /\ IsFinite(Number) /\ (Number.n = 0 \/ Number.n = Unit)
\* It is enough that the numbers 0 and 1 yield false and true, and no others a value.
<1>4. ASSUME fits => Convert(Bool, scalar) = Value(Number.n = Unit),
             ~fits => Convert(Bool, scalar) = Failure("InvalidArgument")
      PROVE  Exact(Bool, Convert(Bool, scalar))
  <2>1. CASE fits
    <3> DEFINE b == Number.n = Unit
    <3>1. Convert(Bool, scalar) = Value(b)
      BY <1>4, <2>1
    <3>2. Value(b).value = b /\ HasValue(Value(b))
      BY Results
    <3>3. Number.n = Unit * (IF b THEN 1 ELSE 0)
      BY <1>2, <2>1
    <3> HIDE DEF b
    <3>4. Exact(Bool, Value(b))
      BY <1>3, <2>1, <3>2, <3>3 DEF Exact
    <3> QED  BY <3>1, <3>4
  <2>2. CASE ~fits
    BY <1>3, <1>4, <2>2, Results DEF Exact
  <2> QED  BY <2>1, <2>2
<1>5. CASE scalar.kind = "boolean"
  <2>1. scalar.value \in BOOLEAN /\ IsReal /\ Number = IF scalar.value THEN One ELSE Zero
    BY <1>5, NumberOf
  <2>2. Convert(Bool, scalar) = Value(scalar.value)
    BY <1>1, <1>5 DEF to_bool
  <2>3. fits /\ (Number.n = Unit <=> scalar.value)
    BY <1>2, <2>1 DEF One, Zero, Finite, IsFinite
  <2>4. Convert(Bool, scalar) = Value(Number.n = Unit)
    <3>1. CASE scalar.value
      <4>1. scalar.value = TRUE /\ (Number.n = Unit) = TRUE
        BY <2>1, <2>3, <3>1
      <4> QED  BY <2>2, <4>1
    <3>2. CASE ~scalar.value
      <4>1. scalar.value = FALSE /\ (Number.n = Unit) = FALSE
        BY <2>1, <2>3, <3>2
      <4> QED  BY <2>2, <4>1
    <3> QED  BY <3>1, <3>2
  <2> QED  BY <1>4, <2>3, <2>4
<1>6. CASE scalar.kind \in {"signed", "unsigned"}
  <2>1. scalar.value \in Int /\ IsReal /\ Number = Finite(scalar.value * Unit)
    BY <1>6, NumberOf, TypeFacts
  <2>2. Convert(Bool, scalar) = IF scalar.value \in {0, 1} THEN Value(scalar.value = 1)
                                ELSE Failure("InvalidArgument")
    BY <1>1, <1>6 DEF to_bool
  <2>3. /\ IsFinite(Number)
        /\ Number.n = 0 <=> scalar.value = 0
        /\ Number.n = Unit <=> scalar.value = 1
    <3>1. /\ scalar.value * Unit = 0 * Unit <=> scalar.value = 0
          /\ scalar.value * Unit = 1 * Unit <=> scalar.value = 1
      BY <2>1, Units
    <3> QED  BY <1>2, <2>1, <3>1 DEF Finite, IsFinite
  <2>4. (scalar.value = 1) = (Number.n = Unit)
    BY <2>3
  <2> QED  BY <1>4, <2>1, <2>2, <2>3, <2>4
<1>7. \A x \in FloatsOf(Double) :
        (x = Zero <=> IsFinite(x) /\ x.n = 0) /\ (x = One <=> IsFinite(x) /\ x.n = Unit)
  <2>1. \A x \in FloatsOf(Double) : IsFinite(x) => x = Finite(x.n)
    BY ValuesOfFormats
  <2> QED  BY <2>1 DEF Zero, One, Finite, IsFinite
<1>8. CASE scalar.kind = "floating"
  <2>1. scalar.value \in FloatsOf(Double) /\ IsReal /\ Number = scalar.value
    BY <1>8, NumberOf
  <2>2. Convert(Bool, scalar) = IF scalar.value \in {Zero, One} THEN Value(scalar.value = One)
                                ELSE Failure("InvalidArgument")
    BY <1>1, <1>8 DEF to_bool
  <2>3. fits <=> scalar.value \in {Zero, One}
    BY <1>7, <2>1
  <2>4. fits => (scalar.value = One) = (Number.n = Unit)
    BY <1>7, <2>1
  <2> QED  BY <1>4, <2>2, <2>3, <2>4
<1>9. CASE scalar.kind = "complex"
  <2>1. /\ scalar.value \in FloatsOf(Double) \X FloatsOf(Double) /\ Number = scalar.value[1]
        /\ IsReal <=> scalar.value[2] = Zero
    BY <1>9, NumberOf
  <2>2. Convert(Bool, scalar) =
          IF scalar.value \in {<<Zero, Zero>>, <<One, Zero>>}
          THEN Value(scalar.value = <<One, Zero>>) ELSE Failure("InvalidArgument")
    BY <1>1, <1>9 DEF to_bool
  <2>3. scalar.value = <<scalar.value[1], scalar.value[2]>> /\ Number \in FloatsOf(Double)
    BY <2>1
  <2>4. scalar.value = <<Zero, Zero>> <=> Number = Zero /\ IsReal
    BY <2>1, <2>3
  <2>5. scalar.value = <<One, Zero>> <=> Number = One /\ IsReal
    BY <2>1, <2>3
  <2>6. fits <=> scalar.value \in {<<Zero, Zero>>, <<One, Zero>>}
    BY <1>7, <2>3, <2>4, <2>5
  <2>7. fits => (scalar.value = <<One, Zero>>) = (Number.n = Unit)
    BY <1>7, <2>3, <2>5
  <2> QED  BY <1>4, <2>2, <2>6, <2>7
<1> QED  BY <1>5, <1>6, <1>8, <1>9, NumberOf

\* to<bool>() and to() for the integer types return exactly the number that the scalar
\* stands for, or say whether it is no integer or out of range (IntegersExact).
THEOREM IntegersAreExact == ScalarSpec => []IntegersExact
<1>1. ScalarInv => IntegersExact
  <2>1. SUFFICES ASSUME ScalarInv, Asks({Bool} \cup Integral)
                 PROVE  Exact(reply[1], reply[2])
    BY DEF IntegersExact, Exact
  <2>2. scalar \in Scalars /\ reply[2] = Convert(reply[1], scalar)
    BY <2>1, Replies DEF Asks
  <2>3. reply[1] = Bool \/ reply[1] \in Integral
    BY <2>1 DEF Asks
  <2> QED  BY <2>2, <2>3, ToIntegerIsExact, ToBoolIsExact
<1> QED  BY <1>1, ScalarIsInductive, PTL

\* The number that a scalar stands for is finite or not, and a long double has it.
LEMMA NumberKinds ==
  ASSUME scalar \in Scalars
  PROVE  /\ (\E n \in Int : Number = Finite(n)) \/ Number \in {Infinity(1), Infinity(-1), NaN}
         /\ Cast(LongDouble, Number) = Number
<1>1. CASE Number \in FloatsOf(Double)
  BY <1>1, ValuesOfFormats, TypeFacts, CastKeeps
<1>2. CASE \E v \in Integer : Number = Finite(v * Unit)
  <2>1. PICK v \in Integer : Number = Finite(v * Unit)
    BY <1>2
  <2>2. v * Unit \in FinitesOf(LongDouble) /\ v * Unit \in Int
    BY Platform
  <2>3. Number \in FloatsOf(LongDouble)
    BY <2>1, <2>2 DEF FloatsOf
  <2> QED  BY <2>1, <2>2, <2>3, CastKeeps
<1>3. CASE Number \in {Zero, One}
  <2>1. 0 \in Integer /\ 1 \in Integer
    <3>1. 2^Long \in Nat \ {0} /\ 2^(Long + 1) = 2^Long + 2^Long
      BY Platform
    <3> QED  BY <3>1 DEF Integer
  <2>2. 0 * Unit = 0 /\ 1 * Unit = Unit
    BY Platform
  <2>3. Zero = Finite(0 * Unit) /\ One = Finite(1 * Unit)
    BY <2>2 DEF Zero, One
  <2> QED  BY <1>2, <1>3, <2>1, <2>3
<1>4. \/ Number \in FloatsOf(Double)
      \/ \E v \in Integer : Number = Finite(v * Unit)
      \/ Number \in {Zero, One}
  <2>1. scalar.kind = "complex" => scalar.value[1] \in FloatsOf(Double)
    <3>1. scalar.kind = "complex" => scalar.value \in FloatsOf(Double) \X FloatsOf(Double)
      BY NumberOf
    <3> QED  BY <3>1
  <2> QED  BY <2>1, NumberOf
<1> QED  BY <1>1, <1>2, <1>3, <1>4

\* to_real yields the number itself, whatever it is, but for a complex one.
LEMMA ToReal ==
  ASSUME scalar \in Scalars
  PROVE  to_real(scalar) = IF IsReal THEN Value(Number) ELSE Failure("InvalidArgument")
<1>1. Cast(LongDouble, Number) = Number
  BY NumberKinds
<1>2. CASE scalar.kind = "boolean"
  BY <1>2, NumberOf DEF to_real
<1>3. CASE scalar.kind \in {"signed", "unsigned"}
  BY <1>1, <1>3, NumberOf DEF to_real
<1>4. CASE scalar.kind = "floating"
  BY <1>1, <1>4, NumberOf DEF to_real
<1>5. CASE scalar.kind = "complex"
  BY <1>1, <1>5, NumberOf DEF to_real
<1> QED  BY <1>2, <1>3, <1>4, <1>5, NumberOf

\* to() for a floating-point type rounds once, to the nearest number of the type, and
\* refuses only what is complex or lies beyond its largest number (RealsNearest).
THEOREM RealsAreNearest == ScalarSpec => []RealsNearest
<1>1. ScalarInv => RealsNearest
  <2>1. SUFFICES ASSUME ScalarInv, Asks(Floating) PROVE RealsNearest
    BY DEF RealsNearest
  <2> DEFINE A == reply[1]
             F == A.format
  <2>2. scalar \in Scalars /\ reply[2] = Convert(A, scalar) /\ A \in Floating
    BY <2>1, Replies DEF Asks
  <2>3. F \in {Float, Double, LongDouble}
    BY <2>2, TypeFacts
  <2>4. to_real(scalar) = IF IsReal THEN Value(Number) ELSE Failure("InvalidArgument")
    BY <2>2, ToReal
  <2>5. reply[2] = IF ~HasValue(to_real(scalar)) THEN Failure(to_real(scalar).code)
                   ELSE checked_floating_cast(F, to_real(scalar).value)
    <3>1. Convert(A, scalar) = LET real == to_real(scalar) IN
                       IF ~HasValue(real) THEN Failure(real.code)
                       ELSE checked_floating_cast(A.format, real.value)
      BY <2>2, ByType
    <3> QED  BY <2>2, <3>1
  <2>6. CASE ~IsReal
    <3>1. reply[2] = Failure("InvalidArgument")
      BY <2>4, <2>5, <2>6, Results
    <3> QED  BY <2>6, <3>1 DEF RealsNearest
  <2>7. CASE IsReal
    <3>1. reply[2] = checked_floating_cast(F, Number)
      BY <2>4, <2>5, <2>7, Results
    <3>2. /\ TooLarge(F, Number) => reply[2] = Failure("OutOfRange")
          /\ ~TooLarge(F, Number) => /\ reply[2] = Value(Cast(F, Number))
                                     /\ Nearest(F, Number, Cast(F, Number))
      BY <2>2, <2>3, <3>1, NumberKinds, CheckedCast
    <3> QED  BY <2>7, <3>2, Results DEF RealsNearest
  <2> QED  BY <2>6, <2>7
<1> QED  BY <1>1, ScalarIsInductive, PTL

\* Through a double, an integer is rounded to a float, or to a double, that it lies next
\* to: the double is at least as near as the numbers of the float.
LEMMA RoundedTwice ==
  ASSUME NEW F \in {Float, Double}, NEW v \in Integer
  PROVE  LET x == Finite(v * Unit)
             d == Cast(Double, x)
             got == Cast(F, d) IN
         /\ ~TooLarge(F, x)
         /\ checked_floating_cast(F, d) = Value(got)
         /\ \/ Nearest(F, x, got)
            \/ /\ x.n \notin FinitesOf(Double)
               /\ \A n \in FinitesOf(F) :
                    ~(x.n < n /\ n < got.n) /\ ~(got.n < n /\ n < x.n)
<1> DEFINE i == v * Unit
           L == Largest(F)
<1>1. /\ i \in Int /\ -Largest(Float) <= i /\ i <= Largest(Float)
      /\ FinitesOf(F) \subseteq FinitesOf(Double) /\ FinitesOf(Double) \subseteq Int
      /\ F \in Formats /\ Double \in Formats /\ F.digits # 0 /\ Double.digits # 0
  <2>1. i \in Int
    BY TypeFacts, Units
  <2> QED  BY <2>1, Platform, TypeFacts
<1>2. \A G \in {Float, Double} : Largest(G) \in Nat /\ Largest(Float) <= Largest(G)
  <2>1. \A G \in {Float, Double} : Largest(G) \in Nat
    BY Platform, LargestNumber
  <2>2. Largest(Float) \in FinitesOf(Double)
    BY Platform, LargestNumber
  <2>3. Largest(Float) <= Largest(Double)
    BY <1>1, <2>2, LargestNumber
  <2> QED  BY <2>1, <2>3
<1>3. L \in Nat /\ -L <= i /\ i <= L /\ L \in FinitesOf(F) /\ -L \in FinitesOf(F)
  <2>1. L \in FinitesOf(F) /\ -L \in FinitesOf(F)
    BY <1>1, LargestNumber, FiniteNumbers
  <2>2. L \in Nat /\ Largest(Float) <= L /\ Largest(Float) \in Nat
    BY <1>2
  <2> HIDE DEF L, i
  <2> QED  BY <1>1, <2>1, <2>2
<1>4. PICK y \in FinitesOf(Double) :
         /\ Cast(Double, Finite(i)) = Finite(y)
         /\ \A n \in FinitesOf(Double) : Far(y, i) <= Far(n, i)
  <2>1. -Largest(Double) <= i /\ i <= Largest(Double)
    <3>1. Largest(Double) \in Nat /\ Largest(Float) <= Largest(Double) /\ Largest(Float) \in Nat
      BY <1>2
    <3> HIDE DEF i
    <3> QED  BY <1>1, <3>1
  <2> HIDE DEF i
  <2> QED  BY <1>1, <2>1, CastIsNearest
<1> HIDE DEF i, L
<1>5. y \in Int /\ -L <= y /\ y <= L
  <2>1. Far(y, i) <= Far(L, i) /\ Far(y, i) <= Far(-L, i) /\ y \in Int
    BY <1>1, <1>3, <1>4
  <2> QED  BY <1>1, <1>3, <2>1 DEF Far
<1>6. PICK z \in FinitesOf(F) :
         /\ Cast(F, Finite(y)) = Finite(z)
         /\ \A n \in FinitesOf(F) : Far(z, y) <= Far(n, y)
  BY <1>1, <1>5, CastIsNearest DEF L
<1>7. ~TooLarge(F, Finite(i)) /\ checked_floating_cast(F, Finite(y)) = Value(Finite(z))
  BY <1>1, <1>3, <1>5, <1>6 DEF TooLarge, checked_floating_cast, Finite, IsFinite, L
<1>8. CASE i \in FinitesOf(Double)
  <2>1. y = i
    <3>1. Far(y, i) <= Far(i, i)
      BY <1>4, <1>8
    <3> QED  BY <1>1, <1>5, <3>1 DEF Far
  <2>2. Nearest(F, Finite(i), Finite(z))
    BY <1>6, <2>1 DEF Nearest, Finite, IsFinite, Far
  <2> QED  BY <1>4, <1>6, <1>7, <2>2 DEF i
<1>9. CASE i \notin FinitesOf(Double)
  <2>1. ASSUME NEW n \in FinitesOf(F) PROVE ~(i < n /\ n < z) /\ ~(z < n /\ n < i)
    <3>1. n \in Int /\ z \in Int /\ Far(y, i) <= Far(n, i) /\ Far(z, y) <= Far(n, y)
      BY <1>1, <1>4, <1>6
    <3> QED  BY <1>1, <1>5, <3>1 DEF Far
  <2>2. Finite(i).n = i /\ Finite(z).n = z
    BY DEF Finite
  <2> QED  BY <1>4, <1>6, <1>7, <1>9, <2>1, <2>2 DEF i
<1> QED  BY <1>8, <1>9

\* What ComplexFaithful asks of the real part.
Faithful(F, x, got) ==
  \/ Nearest(F, x, got)
  \/ /\ x.n \notin FinitesOf(Double)
     /\ \A n \in FinitesOf(F) : ~(x.n < n /\ n < got.n) /\ ~(got.n < n /\ n < x.n)

\* The parts of a complex number, once they are cast.
LEMMA PartsCast ==
  ASSUME scalar \in Scalars, NEW F \in {Float, Double}
  PROVE  LET parts == complex_parts(scalar)
             imaginary == IF scalar.kind = "complex" THEN scalar.value[2] ELSE Zero IN
         /\ TooLarge(F, Number) => checked_floating_cast(F, parts[1]) = Failure("OutOfRange")
         /\ ~TooLarge(F, Number) =>
              \E got : checked_floating_cast(F, parts[1]) = Value(got) /\ Faithful(F, Number, got)
         /\ parts[2] = imaginary
         /\ TooLarge(F, imaginary) => checked_floating_cast(F, parts[2]) = Failure("OutOfRange")
         /\ ~TooLarge(F, imaginary) =>
              \E got : checked_floating_cast(F, parts[2]) = Value(got) /\ Nearest(F, imaginary, got)
<1> DEFINE parts == complex_parts(scalar)
           imaginary == IF scalar.kind = "complex" THEN scalar.value[2] ELSE Zero
<1>1. \A x : (\E n \in Int : x = Finite(n)) \/ x \in {Infinity(1), Infinity(-1), NaN} =>
        /\ TooLarge(F, x) => checked_floating_cast(F, x) = Failure("OutOfRange")
        /\ ~TooLarge(F, x) =>
             \E got : checked_floating_cast(F, x) = Value(got) /\ Nearest(F, x, got)
  BY CheckedCast
<1>2. parts[2] = imaginary
  BY NumberOf DEF complex_parts
<1>3. (\E n \in Int : imaginary = Finite(n)) \/ imaginary \in {Infinity(1), Infinity(-1), NaN}
  <2>1. CASE scalar.kind = "complex"
    <3>1. imaginary \in FloatsOf(Double)
      <4>1. scalar.value \in FloatsOf(Double) \X FloatsOf(Double)
        BY <2>1, NumberOf
      <4> QED  BY <2>1, <4>1
    <3> QED  BY <3>1, ValuesOfFormats
  <2>2. CASE scalar.kind # "complex"
    BY <2>2 DEF Zero
  <2> QED  BY <2>1, <2>2
<1>4. /\ TooLarge(F, imaginary) => checked_floating_cast(F, parts[2]) = Failure("OutOfRange")
      /\ ~TooLarge(F, imaginary) =>
           \E got : checked_floating_cast(F, parts[2]) = Value(got) /\ Nearest(F, imaginary, got)
  BY <1>1, <1>2, <1>3
<1>5. /\ TooLarge(F, Number) => checked_floating_cast(F, parts[1]) = Failure("OutOfRange")
      /\ ~TooLarge(F, Number) =>
           \E got : checked_floating_cast(F, parts[1]) = Value(got) /\ Faithful(F, Number, got)
  <2>1. CASE scalar.kind \in {"signed", "unsigned"}
    <3>1. scalar.value \in Integer /\ Number = Finite(scalar.value * Unit)
      BY <2>1, NumberOf
    <3>2. parts[1] = Cast(Double, Number)
      BY <2>1, <3>1 DEF complex_parts
    <3>3. /\ ~TooLarge(F, Number)
          /\ checked_floating_cast(F, parts[1]) = Value(Cast(F, parts[1]))
          /\ Faithful(F, Number, Cast(F, parts[1]))
      BY <3>1, <3>2, RoundedTwice DEF Faithful
    <3> QED  BY <3>3
  <2>2. CASE scalar.kind \notin {"signed", "unsigned"}
    <3>1. parts[1] = Number
      BY <2>2, NumberOf DEF complex_parts
    <3> QED  BY <1>1, <3>1, NumberKinds DEF Faithful
  <2> QED  BY <2>1, <2>2
<1> QED  BY <1>2, <1>4, <1>5

\* to() for a complex type gives each part as to() for its format does; only an integer
\* that no double has is rounded twice, and still not beyond a neighbour
\* (ComplexFaithful).
THEOREM ComplexIsFaithful == ScalarSpec => []ComplexFaithful
<1>1. ScalarInv => ComplexFaithful
  <2>1. SUFFICES ASSUME ScalarInv, Asks(Complex) PROVE ComplexFaithful
    BY DEF ComplexFaithful
  <2> DEFINE A == reply[1]
             F == A.format
             imaginary == IF scalar.kind = "complex" THEN scalar.value[2] ELSE Zero
             P == <<Number, imaginary>>
             real == checked_floating_cast(F, complex_parts(scalar)[1])
             second == checked_floating_cast(F, complex_parts(scalar)[2])
  <2>2. scalar \in Scalars /\ reply[2] = Convert(A, scalar) /\ A \in Complex
    BY <2>1, Replies DEF Asks
  <2>3. F \in {Float, Double}
    BY <2>2, TypeFacts
  <2>4. reply[2] = IF ~HasValue(real) THEN Failure(real.code)
                   ELSE IF ~HasValue(second) THEN Failure(second.code)
                   ELSE Value(<<real.value, second.value>>)
    <3>1. Convert(A, scalar) =
            LET parts == complex_parts(scalar)
                re == checked_floating_cast(A.format, parts[1])
                im == checked_floating_cast(A.format, parts[2]) IN
            IF ~HasValue(re) THEN Failure(re.code)
            ELSE IF ~HasValue(im) THEN Failure(im.code)
            ELSE Value(<<re.value, im.value>>)
      BY <2>2, ByType
    <3> QED  BY <2>2, <3>1
  <2>5. /\ TooLarge(F, Number) => real = Failure("OutOfRange")
        /\ ~TooLarge(F, Number) => \E got : real = Value(got) /\ Faithful(F, Number, got)
        /\ TooLarge(F, imaginary) => second = Failure("OutOfRange")
        /\ ~TooLarge(F, imaginary) => \E got : second = Value(got) /\ Nearest(F, imaginary, got)
    BY <2>2, <2>3, PartsCast
  <2>6. (\E i \in 1..2 : TooLarge(F, P[i])) <=> TooLarge(F, Number) \/ TooLarge(F, imaginary)
    <3>1. 1..2 = {1, 2} /\ P[1] = Number /\ P[2] = imaginary
      OBVIOUS
    <3> QED  BY <3>1
  <2>7. P[1] = Number /\ P[2] = imaginary
    OBVIOUS
  <2>8. ComplexFaithful <=>
          IF \E i \in 1..2 : TooLarge(F, P[i]) THEN reply[2] = Failure("OutOfRange")
          ELSE /\ HasValue(reply[2])
               /\ Nearest(F, P[2], reply[2].value[2])
               /\ Faithful(F, P[1], reply[2].value[1])
    BY <2>1 DEF ComplexFaithful, Faithful
  <2> HIDE DEF F, real, second, imaginary, P
  <2>9. CASE TooLarge(F, Number)
    <3>1. reply[2] = Failure("OutOfRange")
      BY <2>4, <2>5, <2>9, Results
    <3> QED  BY <2>6, <2>8, <2>9, <3>1
  <2>10. CASE ~TooLarge(F, Number)
    <3>1. PICK x : real = Value(x) /\ Faithful(F, Number, x)
      BY <2>5, <2>10
    <3>2. CASE TooLarge(F, imaginary)
      <4>1. reply[2] = Failure("OutOfRange")
        BY <2>4, <2>5, <3>1, <3>2, Results
      <4> QED  BY <2>6, <2>8, <3>2, <4>1
    <3>3. CASE ~TooLarge(F, imaginary)
      <4>1. PICK y : second = Value(y) /\ Nearest(F, imaginary, y)
        BY <2>5, <3>3
      <4>2. reply[2] = Value(<<x, y>>)
        BY <2>4, <3>1, <4>1, Results
      <4>3. HasValue(reply[2]) /\ reply[2].value = <<x, y>>
        BY <4>2, Results
      <4>4. reply[2].value[1] = x /\ reply[2].value[2] = y
        BY <4>3
      <4> QED  BY <2>6, <2>7, <2>8, <2>10, <3>1, <3>3, <4>1, <4>3, <4>4
    <3> QED  BY <3>2, <3>3
  <2> QED  BY <2>9, <2>10
<1> QED  BY <1>1, ScalarIsInductive, PTL
=============================================================================
