------------------------ MODULE DataProcessingProofs ------------------------
(***************************************************************************)
(* Proofs about the data-processing instructions, for words of any width   *)
(* and any guest: every register holds a word, the values and the carries  *)
(* are exact, and the flags N and Z are those of the value written.        *)
(***************************************************************************)
EXTENDS DataProcessing, FiniteSetTheorems, TLAPS

\* The registers hold words and the status register its flags.
TypeOK == r \in [Reg -> Word] /\ cpsr \in Cpsr
-----------------------------------------------------------------------------
(***************************************************************************)
(* What the proofs use of the natural numbers: least elements, which stand *)
(* for induction, powers of two, and division.                             *)
(***************************************************************************)
\* A set of naturals has a least element.
LEMMA LeastNatural ==
  ASSUME NEW T \in SUBSET Nat, T # {}
  PROVE  \E m \in T : \A n \in T : m <= n
<1> DEFINE Below(n) == 0 .. n - 1
           U == {Below(n) : n \in T}
<1>1. \A n \in Nat : IsFiniteSet(Below(n)) /\ Below(n) \in SUBSET Nat
  BY FS_Interval, SMT
<1>2. U \subseteq FiniteSubsetsOf(Nat) /\ U # {}
  <2> HIDE DEF Below
  <2> QED BY <1>1 DEF FiniteSubsetsOf
<1>3. PICK X \in U : \A Y \in U : ~(<<Y, X>> \in StrictSubsetOrdering(Nat))
  <2> HIDE DEF U
  <2> QED BY <1>2, FS_StrictSubsetOrderingWellFounded, WFMin
<1>4. PICK m \in T : X = Below(m)
  BY <1>3
<1>5. ASSUME NEW n \in T, n < m PROVE FALSE
  <2>1. Below(n) \in SUBSET Below(m) /\ Below(n) # Below(m)
    <3>1. n \in Nat /\ m \in Nat
      OBVIOUS
    <3>2. n \in Below(m) /\ n \notin Below(n)
      BY <1>5, <3>1, SMT
    <3>3. \A k \in Below(n) : k \in Below(m)
      BY <1>5, <3>1, SMT
    <3> QED BY <3>2, <3>3
  <2>2. Below(n) \in U /\ Below(n) \in SUBSET Nat /\ Below(m) \in SUBSET Nat
    BY <1>1
  <2> HIDE DEF Below, U
  <2>3. <<Below(n), X>> \in StrictSubsetOrdering(Nat)
    BY <1>4, <2>1, <2>2 DEF StrictSubsetOrdering
  <2> QED BY <1>3, <2>2, <2>3
<1> QED
  <2>1. ASSUME NEW n \in T PROVE m <= n
    BY <1>5, SMT
  <2> QED BY <2>1
-----------------------------------------------------------------------------
(***************************************************************************)
(* Powers of two.                                                          *)
(***************************************************************************)

\* 2^n counts the subsets of n elements.
LEMMA PowerCounts ==
  ASSUME NEW n \in Nat
  PROVE  /\ IsFiniteSet(1 .. n) /\ IsFiniteSet(SUBSET (1 .. n))
         /\ Cardinality(SUBSET (1 .. n)) = 2^n
<1>1. IsFiniteSet(1 .. n) /\ Cardinality(1 .. n) = n
  <2>1. IsFiniteSet(1 .. n) /\ Cardinality(1 .. n) = IF 1 > n THEN 0 ELSE n - 1 + 1
    BY FS_Interval
  <2> QED BY <2>1, SMT
<1> QED BY <1>1, FS_SUBSET

LEMMA PowerPositive ==
  ASSUME NEW n \in Nat
  PROVE  2^n \in Nat /\ 2^n > 0
<1> DEFINE S == SUBSET (1 .. n)
<1>1. IsFiniteSet(S) /\ Cardinality(S) = 2^n /\ S # {}
  BY PowerCounts
<1> HIDE DEF S
<1>2. Cardinality(S) \in Nat /\ Cardinality(S) # 0
  BY <1>1, FS_CardinalityType, FS_EmptySet
<1>3. Cardinality(S) > 0
  BY <1>2, SMT
<1> QED BY <1>1, <1>2, <1>3

LEMMA PowerDoubles ==
  ASSUME NEW n \in Nat
  PROVE  2^(n + 1) = 2 * 2^n
<1> DEFINE S == SUBSET (1 .. n)
           f == [X \in S |-> X \union {n + 1}]
           T == {f[X] : X \in S}
<1>1. SUBSET (1 .. n + 1) = S \union T
  <2>1. n + 1 \notin 1 .. n /\ 1 .. n + 1 = (1 .. n) \union {n + 1}
    BY SMT
  <2>2. ASSUME NEW X \in SUBSET (1 .. n + 1), n + 1 \in X PROVE X \in T
    <3>1. X \ {n + 1} \in S
      BY <2>1
    <3>2. X = f[X \ {n + 1}]
      BY <2>2, <3>1
    <3> QED BY <3>1, <3>2
  <2>3. ASSUME NEW X \in SUBSET (1 .. n + 1), n + 1 \notin X PROVE X \in S
    BY <2>1, <2>3
  <2>4. S \subseteq SUBSET (1 .. n + 1) /\ T \subseteq SUBSET (1 .. n + 1)
    BY <2>1
  <2> HIDE DEF S, T
  <2> QED BY <2>2, <2>3, <2>4
<1>2. S \intersect T = {}
  <2>1. n + 1 \notin 1 .. n
    BY SMT
  <2> QED BY <2>1
<1>3. ExistsBijection(S, T)
  <2>1. f \in Bijection(S, T)
    <3>1. f \in [S -> T]
      OBVIOUS
    <3>2. ASSUME NEW X \in S, NEW Y \in S, f[X] = f[Y] PROVE X = Y
      <4>1. n + 1 \notin 1 .. n
        BY SMT
      <4>2. X = f[X] \ {n + 1} /\ Y = f[Y] \ {n + 1}
        BY <4>1
      <4> QED BY <3>2, <4>2
    <3>3. \A t \in T : \E X \in S : f[X] = t
      OBVIOUS
    <3> HIDE DEF S, T, f
    <3> QED BY <3>1, <3>2, <3>3
          DEF Bijection, Injection, Surjection, IsInjective
  <2> HIDE DEF f
  <2> QED BY <2>1 DEF ExistsBijection
<1>4. IsFiniteSet(S) /\ Cardinality(S) = 2^n
  BY PowerCounts
<1>5. Cardinality(SUBSET (1 .. n + 1)) = 2^(n + 1)
  <2>1. n + 1 \in Nat
    OBVIOUS
  <2> QED BY <2>1, PowerCounts
<1> HIDE DEF S, T
<1>6. IsFiniteSet(T) /\ Cardinality(T) = Cardinality(S)
  BY <1>3, <1>4, FS_Bijection
<1>7. Cardinality(S \union T) = 2^n + 2^n - Cardinality(S \intersect T)
  BY <1>4, <1>6, FS_Union
<1>8. Cardinality(S \intersect T) = 0
  BY <1>2, FS_EmptySet
<1>9. 2^(n + 1) = 2^n + 2^n - 0
  BY <1>1, <1>5, <1>7, <1>8
<1>10. 2^n \in Nat
  BY PowerPositive
<1> QED BY <1>9, <1>10, SMT

LEMMA PowerZero == 2^0 = 1
BY SMT

\* 2^(a + b) for every b, from the least b that fails.
LEMMA PowerAdds ==
  ASSUME NEW a \in Nat, NEW b \in Nat
  PROVE  2^(a + b) = 2^a * 2^b
<1> DEFINE T == {k \in Nat : 2^(a + k) # 2^a * 2^k}
<1>1. ASSUME T # {} PROVE FALSE
  <2>1. PICK m \in T : \A k \in T : m <= k
    BY <1>1, LeastNatural
  <2>2. CASE m = 0
    <3>1. 2^(a + m) = 2^a * 2^m
      BY <2>2, PowerZero, PowerPositive, SMT
    <3> QED BY <3>1
  <2>3. CASE m # 0
    <3> DEFINE k == m - 1
    <3>1. k \in Nat /\ k \notin T /\ m = k + 1 /\ a + m = (a + k) + 1
      BY <2>1, <2>3, SMT
    <3> HIDE DEF k
    <3>2. 2^(a + k) = 2^a * 2^k
      BY <3>1
    <3>3. /\ 2^m = 2 * 2^k /\ 2^(a + m) = 2 * 2^(a + k)
          /\ 2^a \in Nat /\ 2^k \in Nat
      BY <3>1, PowerDoubles, PowerPositive
    <3>4. 2 * (2^a * 2^k) = 2^a * (2 * 2^k)
      BY <3>3, SMT
    <3> QED BY <3>2, <3>3, <3>4
  <2> QED BY <2>2, <2>3
<1> QED BY <1>1

LEMMA PowerMonotone ==
  ASSUME NEW a \in Nat, NEW b \in Nat, a <= b
  PROVE  2^a <= 2^b
<1>1. b - a \in Nat /\ b = a + (b - a)
  BY SMT
<1>2. 2^b = 2^a * 2^(b - a)
  BY <1>1, PowerAdds
<1>3. 2^a \in Nat /\ 2^(b - a) \in Nat /\ 2^(b - a) >= 1
  BY <1>1, PowerPositive, SMT
<1> DEFINE x == 2^a  y == 2^(b - a)
<1>4. x \in Nat /\ y \in Nat /\ y >= 1 => x <= x * y
  <2> HIDE DEF x, y
  <2> QED BY SMT
<1> QED BY <1>2, <1>3, <1>4
-----------------------------------------------------------------------------
(***************************************************************************)
(* Division.                                                               *)
(***************************************************************************)

LEMMA Division ==
  ASSUME NEW x \in Int, NEW m \in Nat, m > 0
  PROVE  /\ x \div m \in Int /\ x % m \in 0 .. m - 1
         /\ x = m * (x \div m) + (x % m)
BY SMT

\* Quotient and remainder are the only ones.
LEMMA DivisionUnique ==
  ASSUME NEW m \in Nat, m > 0, NEW q \in Int, NEW s \in 0 .. m - 1
  PROVE  (m * q + s) \div m = q /\ (m * q + s) % m = s
<1> DEFINE x == m * q + s
           p == x \div m
           t == x % m
<1>1. x \in Int /\ p \in Int /\ t \in 0 .. m - 1 /\ x = m * p + t
  <2>1. x \in Int
    BY SMT
  <2> HIDE DEF x
  <2> QED BY <2>1, Division
<1>2. m * q + s = m * p + t
  BY <1>1
<1> HIDE DEF p, t, x
<1>3. m * (q - p) = t - s
  BY <1>1, <1>2, SMT
<1>4. CASE q - p >= 1
  <2>1. m * (q - p) >= m
    BY <1>1, <1>4, SMT
  <2> QED BY <1>1, <1>3, <2>1, SMT
<1>5. CASE q - p <= -1
  <2>1. m * (q - p) <= -m
    BY <1>1, <1>5, SMT
  <2> QED BY <1>1, <1>3, <2>1, SMT
<1>6. CASE q = p
  <2>1. t = s
    BY <1>1, <1>2, <1>6, SMT
  <2> QED BY <1>6, <2>1 DEF p, t, x
<1> QED BY <1>1, <1>4, <1>5, <1>6, SMT

\* Division of a natural number.
LEMMA DivisionNatural ==
  ASSUME NEW x \in Nat, NEW m \in Nat, m > 0
  PROVE  x \div m \in 0 .. x
<1>1. x \div m \in Int /\ x % m \in 0 .. m - 1 /\ x = m * (x \div m) + (x % m)
  BY Division
<1> DEFINE q == x \div m  s == x % m
<1>2. q \in Int /\ s \in 0 .. m - 1 /\ x = m * q + s
  BY <1>1
<1> HIDE DEF q, s
<1>3. q >= 0
  <2>1. CASE q <= -1
    <3>1. m * q <= -m
      BY <1>2, <2>1, SMT
    <3> QED BY <1>2, <3>1, SMT
  <2> QED BY <1>2, <2>1, SMT
<1>4. q <= m * q
  BY <1>2, <1>3, SMT
<1>5. q \in 0 .. x
  BY <1>2, <1>3, <1>4, SMT
<1> QED BY <1>5 DEF q

\* A term of a sum may be reduced before.
LEMMA ReducedTerm ==
  ASSUME NEW x \in Int, NEW y \in Int, NEW m \in Nat, m > 0
  PROVE  (x + (y % m)) % m = (x + y) % m
<1> DEFINE s == y % m  q == y \div m
           t == (x + s) % m  p == (x + s) \div m
<1>1. s \in Int /\ q \in Int /\ y = m * q + s
  BY Division, SMT
<1> HIDE DEF s, q
<1>2. t \in 0 .. m - 1 /\ p \in Int /\ x + s = m * p + t
  <2>1. x + s \in Int
    BY <1>1, SMT
  <2> QED BY <2>1, Division
<1>3. x + y = m * (p + q) + t /\ p + q \in Int
  <2> HIDE DEF p, t
  <2> QED BY <1>1, <1>2, SMT
<1>4. (x + y) % m = t
  <2> HIDE DEF p, t
  <2> QED BY <1>2, <1>3, DivisionUnique
<1> QED BY <1>4 DEF t, s

\* Numbers of the same remainder that are less than m apart are equal.
LEMMA SameRemainder ==
  ASSUME NEW x \in Int, NEW y \in Int, NEW m \in Nat, m > 0,
         x % m = y % m, x - y < m, y - x < m
  PROVE  x = y
<1> DEFINE p == x \div m  q == y \div m  t == x % m
<1>1. p \in Int /\ q \in Int /\ t \in Int /\ x = m * p + t /\ y = m * q + t
  BY Division, SMT
<1> HIDE DEF p, q, t
<1>2. x - y = m * (p - q)
  BY <1>1, SMT
<1>3. CASE p - q >= 1
  <2>1. m * (p - q) >= m
    BY <1>1, <1>3, SMT
  <2> QED BY <1>2, <2>1, SMT
<1>4. CASE p - q <= -1
  <2>1. m * (p - q) <= -m
    BY <1>1, <1>4, SMT
  <2> QED BY <1>2, <2>1, SMT
<1>5. CASE p = q
  BY <1>1, <1>5
<1> QED BY <1>1, <1>3, <1>4, <1>5, SMT
-----------------------------------------------------------------------------
(***************************************************************************)
(* Words and bits.                                                         *)
(***************************************************************************)
LEMMA Widths ==
  /\ W \in Nat /\ W >= 4 /\ W - 1 \in Nat
  /\ W \div 2 \in Nat /\ 0 < W \div 2 /\ 2 * (W \div 2) = W
  /\ W \div 4 \in Nat /\ W \div 4 <= W
  /\ Modulus \in Nat /\ Modulus >= 16 /\ Modulus = 2 * 2^(W - 1)
<1>1. /\ W \in Nat /\ W >= 4 /\ W - 1 \in Nat
      /\ W \div 2 \in Nat /\ 0 < W \div 2 /\ 2 * (W \div 2) = W
      /\ W \div 4 \in Nat /\ W \div 4 <= W
  BY WidthAssumption, SMT
<1>2. Modulus \in Nat /\ 2^4 <= Modulus
  BY <1>1, PowerPositive, PowerMonotone DEF Modulus
<1>3. 2^4 = 16
  BY SMT
<1>4. Modulus = 2 * 2^(W - 1)
  <2>1. W = (W - 1) + 1
    BY <1>1, SMT
  <2>2. 2^((W - 1) + 1) = 2 * 2^(W - 1)
    BY <1>1, PowerDoubles
  <2> QED BY <2>1, <2>2 DEF Modulus
<1> QED BY <1>1, <1>2, <1>3, <1>4

\* A quotient by a power of two is no greater than the number.
LEMMA Quotient ==
  ASSUME NEW x \in Nat, NEW i \in Nat
  PROVE  x \div 2^i \in Nat /\ x \div 2^i <= x
<1>1. x \div 2^i \in 0 .. x
  BY PowerPositive, DivisionNatural
<1> QED BY <1>1, SMT

LEMMA BitType ==
  ASSUME NEW x \in Nat, NEW i \in Nat
  PROVE  BitOf(x, i) \in Bit
<1>1. x \div 2^i \in Nat
  BY Quotient
<1> QED BY <1>1, SMT DEF BitOf, Bit

LEMMA WordNat == ASSUME NEW x \in Word PROVE x \in Nat /\ x < Modulus
BY Widths, SMT DEF Word

\* What is reduced to a word is one.
LEMMA Reduced == ASSUME NEW x \in Int PROVE x % Modulus \in Word
BY Widths, Division DEF Word

\* For any bits below n there is a number below 2^n that has them.
LEMMA BitsExist ==
  ASSUME NEW f \in [0 .. W - 1 -> Bit], NEW n \in 0 .. W
  PROVE  \E x \in 0 .. 2^n - 1 : \A i \in 0 .. n - 1 : BitOf(x, i) = f[i]
<1> DEFINE P(k) == \E x \in 0 .. 2^k - 1 :
                      \A i \in 0 .. k - 1 : BitOf(x, i) = f[i]
           T == {k \in Nat : k <= W /\ ~P(k)}
<1>1. ASSUME T # {} PROVE FALSE
  <2>1. PICK m \in T : \A k \in T : m <= k
    BY <1>1, LeastNatural
  <2>2. CASE m = 0
    <3>1. 0 \in 0 .. 2^0 - 1
      BY PowerZero, SMT
    <3>2. 0 .. 0 - 1 = {}
      BY SMT
    <3> QED BY <2>1, <2>2, <3>1, <3>2
  <2>3. CASE m # 0
    <3> DEFINE k == m - 1
    <3>1. k \in Nat /\ m = k + 1 /\ k <= W /\ k \in 0 .. W - 1
      BY <2>1, <2>3, Widths, SMT
    <3>2. ~(m <= k)
      BY <3>1, SMT
    <3>3. P(k)
      BY <2>1, <3>1, <3>2
    <3> HIDE DEF k
    <3>4. PICK x \in 0 .. 2^k - 1 : \A i \in 0 .. k - 1 : BitOf(x, i) = f[i]
      BY <3>3
    <3> DEFINE b == f[k]
               y == 2^k * b + x
    <3>5. b \in Bit /\ 2^k \in Nat /\ 2^k > 0 /\ 2^m = 2 * 2^k /\ x \in Nat
      BY <3>1, PowerPositive, PowerDoubles, SMT
    <3>6. y \in 0 .. 2^m - 1
      <4> DEFINE p == 2^k  d == 2^m
      <4>1. /\ b \in {0, 1} /\ p \in Nat /\ d = 2 * p
            /\ x \in 0 .. p - 1 /\ y = p * b + x
        BY <3>5 DEF Bit
      <4> HIDE DEF b, p, d, y
      <4>2. y \in 0 .. d - 1
        <5>1. CASE b = 0
          BY <4>1, <5>1, SMT
        <5>2. CASE b = 1
          BY <4>1, <5>2, SMT
        <5> QED BY <4>1, <5>1, <5>2
      <4> QED BY <4>2 DEF d
    <3>7. BitOf(y, k) = f[k]
      <4>1. y \div 2^k = b
        <5>1. b \in Int
          BY <3>5, SMT DEF Bit
        <5> HIDE DEF b
        <5> QED BY <3>5, <5>1, DivisionUnique
      <4>2. b % 2 = b
        BY <3>5, SMT DEF Bit
      <4> QED BY <4>1, <4>2 DEF BitOf
    <3>8. ASSUME NEW i \in 0 .. k - 1 PROVE BitOf(y, i) = f[i]
      <4> DEFINE p == 2^i  h == 2^(k - i - 1)
                 q == x \div p  s == x % p
      <4>1. i \in Nat /\ k - i - 1 \in Nat /\ k = (i + (k - i - 1)) + 1
        BY <3>1, SMT
      <4>2. p \in Nat /\ p > 0 /\ h \in Nat
        BY <4>1, PowerPositive
      <4>3. 2^k = 2 * (p * h)
        <5>1. i + (k - i - 1) \in Nat
          BY <4>1, SMT
        <5>2. 2^((i + (k - i - 1)) + 1) = 2 * 2^(i + (k - i - 1))
          BY <5>1, PowerDoubles
        <5>3. 2^(i + (k - i - 1)) = p * h
          BY <4>1, PowerAdds
        <5> QED BY <4>1, <5>2, <5>3
      <4>4. q \in Nat /\ s \in 0 .. p - 1 /\ x = p * q + s
        <5>1. q \in Nat
          BY <3>5, <4>1, Quotient
        <5>2. x \in Int
          BY <3>5, SMT
        <5> HIDE DEF p
        <5> QED BY <4>2, <5>1, <5>2, Division
      <4> HIDE DEF p, h, q, s, b
      <4>5. y = p * (2 * (h * b) + q) + s /\ 2 * (h * b) + q \in Int
            /\ h * b \in Nat
        <5>1. CASE b = 0
          BY <4>2, <4>3, <4>4, <5>1, SMT
        <5>2. CASE b = 1
          BY <4>2, <4>3, <4>4, <5>2, SMT
        <5> QED BY <3>5, <5>1, <5>2 DEF Bit
      <4> HIDE DEF y
      <4>6. y \div p = 2 * (h * b) + q
        BY <4>2, <4>4, <4>5, DivisionUnique
      <4>7. (2 * (h * b) + q) % 2 = q % 2
        <5> DEFINE g == h * b
        <5>1. g \in Nat /\ q \in Nat
          BY <4>4, <4>5
        <5> HIDE DEF g
        <5>2. (2 * g + q) % 2 = q % 2
          BY <5>1, SMT
        <5> QED BY <5>2 DEF g
      <4>8. BitOf(y, i) = BitOf(x, i)
        BY <4>6, <4>7 DEF BitOf, p, q
      <4> QED BY <3>4, <4>8
    <3>9. \A i \in 0 .. m - 1 : BitOf(y, i) = f[i]
      <4> HIDE DEF y, b
      <4>1. ASSUME NEW i \in 0 .. m - 1 PROVE i = k \/ i \in 0 .. k - 1
        BY <3>1, SMT
      <4> QED BY <3>7, <3>8, <4>1
    <3> HIDE DEF y
    <3>10. P(m)
      BY <3>6, <3>9
    <3> QED BY <2>1, <3>10
  <2> QED BY <2>2, <2>3
<1>2. n \in Nat /\ n <= W
  BY Widths, SMT
<1> QED BY <1>1, <1>2

\* The word with given bits is a word and has them.
LEMMA FromBitsWord ==
  ASSUME NEW f \in [0 .. W - 1 -> Bit]
  PROVE  /\ FromBits(f) \in Word
         /\ \A i \in 0 .. W - 1 : BitOf(FromBits(f), i) = f[i]
<1>1. W \in 0 .. W
  BY Widths, SMT
<1>2. \E x \in Word : \A i \in 0 .. W - 1 : BitOf(x, i) = f[i]
  BY <1>1, BitsExist DEF Word, Modulus
<1> QED BY <1>2 DEF FromBits

\* The bits of the four operations on bits.
LEMMA BitwiseAnd ==
  ASSUME NEW x \in Nat, NEW y \in Nat
  PROVE  /\ BitAnd(x, y) \in Word
         /\ \A i \in 0 .. W - 1 :
              BitOf(BitAnd(x, y), i) = BitOf(x, i) * BitOf(y, i)
<1> DEFINE f == [i \in 0 .. W - 1 |-> BitOf(x, i) * BitOf(y, i)]
<1>1. ASSUME NEW i \in 0 .. W - 1 PROVE f[i] \in Bit
  <2>1. BitOf(x, i) \in Bit /\ BitOf(y, i) \in Bit
    BY Widths, BitType, SMT
  <2> QED BY <2>1, SMT DEF Bit
<1>2. f \in [0 .. W - 1 -> Bit]
  BY <1>1
<1>3. BitAnd(x, y) = FromBits(f) /\ \A i \in 0 .. W - 1 :
        f[i] = BitOf(x, i) * BitOf(y, i)
  BY DEF BitAnd
<1> HIDE DEF f
<1> QED BY <1>2, <1>3, FromBitsWord

LEMMA BitwiseOr ==
  ASSUME NEW x \in Nat, NEW y \in Nat
  PROVE  /\ BitOr(x, y) \in Word
         /\ \A i \in 0 .. W - 1 :
              BitOf(BitOr(x, y), i) = Truth(BitOf(x, i) + BitOf(y, i) > 0)
<1> DEFINE f == [i \in 0 .. W - 1 |-> Truth(BitOf(x, i) + BitOf(y, i) > 0)]
<1>1. f \in [0 .. W - 1 -> Bit]
  BY DEF Truth, Bit
<1>2. BitOr(x, y) = FromBits(f) /\ \A i \in 0 .. W - 1 :
        f[i] = Truth(BitOf(x, i) + BitOf(y, i) > 0)
  BY DEF BitOr
<1> HIDE DEF f
<1> QED BY <1>1, <1>2, FromBitsWord

LEMMA BitwiseXor ==
  ASSUME NEW x \in Nat, NEW y \in Nat
  PROVE  /\ BitXor(x, y) \in Word
         /\ \A i \in 0 .. W - 1 :
              BitOf(BitXor(x, y), i) = (BitOf(x, i) + BitOf(y, i)) % 2
<1> DEFINE f == [i \in 0 .. W - 1 |-> (BitOf(x, i) + BitOf(y, i)) % 2]
<1>1. ASSUME NEW i \in 0 .. W - 1 PROVE f[i] \in Bit
  <2>1. BitOf(x, i) \in Bit /\ BitOf(y, i) \in Bit
    BY Widths, BitType, SMT
  <2> QED BY <2>1, SMT DEF Bit
<1>2. f \in [0 .. W - 1 -> Bit]
  BY <1>1
<1>3. BitXor(x, y) = FromBits(f) /\ \A i \in 0 .. W - 1 :
        f[i] = (BitOf(x, i) + BitOf(y, i)) % 2
  BY DEF BitXor
<1> HIDE DEF f
<1> QED BY <1>2, <1>3, FromBitsWord

LEMMA BitwiseNot ==
  ASSUME NEW x \in Word
  PROVE  /\ BitNot(x) \in Word
         /\ \A i \in 0 .. W - 1 : BitOf(BitNot(x), i) = 1 - BitOf(x, i)
<1>1. x \in Nat /\ BitNot(x) \in Word /\ BitNot(x) \in Nat
  BY Widths, SMT DEF Word, BitNot
<1>2. ASSUME NEW i \in 0 .. W - 1
      PROVE  BitOf(BitNot(x), i) = 1 - BitOf(x, i)
  <2> DEFINE p == 2^i  h == 2^(W - i - 1)
             q == x \div p  s == x % p
  <2>1. i \in Nat /\ W - i - 1 \in Nat /\ W = (i + (W - i - 1)) + 1
    BY Widths, SMT
  <2>2. p \in Nat /\ p > 0 /\ h \in Nat
    BY <2>1, PowerPositive
  <2>3. Modulus = 2 * (p * h)
    <3>1. i + (W - i - 1) \in Nat
      BY <2>1, SMT
    <3>2. 2^((i + (W - i - 1)) + 1) = 2 * 2^(i + (W - i - 1))
      BY <3>1, PowerDoubles
    <3>3. 2^(i + (W - i - 1)) = p * h
      BY <2>1, PowerAdds
    <3> QED BY <2>1, <3>2, <3>3 DEF Modulus
  <2>4. q \in Nat /\ s \in 0 .. p - 1 /\ x = p * q + s
    <3>1. q \in Nat
      BY <1>1, <2>1, Quotient
    <3>2. x \in Int
      BY <1>1, SMT
    <3> HIDE DEF p
    <3> QED BY <2>2, <3>1, <3>2, Division
  <2> HIDE DEF p, h, q, s
  <2>5. /\ BitNot(x) = p * (2 * h - q - 1) + (p - 1 - s)
        /\ 2 * h - q - 1 \in Int /\ p - 1 - s \in 0 .. p - 1
    BY <2>2, <2>3, <2>4, SMT DEF BitNot
  <2>6. BitNot(x) \div p = 2 * h - q - 1
    BY <2>2, <2>5, DivisionUnique
  <2>7. (2 * h - q - 1) % 2 = 1 - (q % 2)
    BY <2>2, <2>4, SMT
  <2> QED BY <2>6, <2>7 DEF BitOf, p, q
<1> QED BY <1>1, <1>2
-----------------------------------------------------------------------------
(***************************************************************************)
(* The shifter yields words and bits.                                      *)
(***************************************************************************)
LEMMA LeftWord ==
  ASSUME NEW x \in Nat, NEW n \in Int
  PROVE  ShiftLeft(x, n) \subseteq Word
<1>1. ASSUME NEW k \in Nat PROVE (x * 2^k) % Modulus \in Word
  <2>1. 2^k \in Nat
    BY PowerPositive
  <2>2. x * 2^k \in Int
    BY <2>1, SMT
  <2> QED BY <2>2, Reduced
<1>2. 0 \in Word
  BY Widths, SMT DEF Word
<1>3. n % W \in Nat /\ (n \in 0 .. W - 1 => n \in Nat)
  BY Widths, SMT
<1>4. (x * 2^(n % W)) % Modulus \in Word
  BY <1>1, <1>3
<1>5. n \in 0 .. W - 1 => (x * 2^n) % Modulus \in Word
  BY <1>1, <1>3
<1> QED BY <1>2, <1>4, <1>5 DEF ShiftLeft

LEMMA RightWord ==
  ASSUME NEW x \in Word, NEW n \in Int
  PROVE  ShiftRight(x, n) \subseteq Word
<1>1. ASSUME NEW k \in Nat PROVE x \div 2^k \in Word
  <2>1. x \in Nat /\ x < Modulus
    BY WordNat
  <2>2. x \div 2^k \in Nat /\ x \div 2^k <= x
    BY <2>1, Quotient
  <2> DEFINE y == x \div 2^k
  <2>3. y \in Nat /\ y <= x
    BY <2>2
  <2> HIDE DEF y
  <2>4. y \in 0 .. Modulus - 1
    BY <2>1, <2>3, Widths, SMT
  <2> QED BY <2>4 DEF Word, y
<1>2. 0 \in Word
  BY Widths, SMT DEF Word
<1>3. n % W \in Nat /\ (n \in 0 .. W - 1 => n \in Nat)
  BY Widths, SMT
<1>4. x \div 2^(n % W) \in Word
  BY <1>1, <1>3
<1>5. n \in 0 .. W - 1 => x \div 2^n \in Word
  BY <1>1, <1>3
<1> QED BY <1>2, <1>4, <1>5 DEF ShiftRight

LEMMA BitsOfType ==
  ASSUME NEW x \in Word, NEW n \in Int
  PROVE  BitsOf(x, n) \subseteq Bit
<1>1. ASSUME NEW y \in Word PROVE y % 2 \in Bit
  BY WordNat, SMT DEF Bit
<1> QED BY <1>1, RightWord DEF BitsOf

LEMMA RotatedWord ==
  ASSUME NEW x \in Word, NEW n \in Int
  PROVE  Asr(x, n) \subseteq Word /\ Ror(x, n) \subseteq Word
<1>1. W - n \in Int /\ Modulus - 1 \in Nat /\ x \in Nat
  BY Widths, WordNat, SMT
<1>2. ASSUME NEW a \in Word, NEW b \in Word PROVE BitOr(a, b) \in Word
  BY WordNat, BitwiseOr
<1>3. /\ ShiftRight(x, n) \subseteq Word /\ ShiftLeft(x, W - n) \subseteq Word
      /\ ShiftLeft(Modulus - 1, W - n) \subseteq Word /\ 0 \in Word
  <2>1. 0 \in Word
    BY Widths, SMT DEF Word
  <2> QED BY <1>1, <2>1, RightWord, LeftWord
<1>4. (IF Top(x) = 1 THEN ShiftLeft(Modulus - 1, W - n) ELSE {0})
        \subseteq Word
  BY <1>3
<1> QED BY <1>2, <1>3, <1>4 DEF Asr, Ror

LEMMA TopType == ASSUME NEW x \in Word PROVE Top(x) \in Bit
BY Widths, WordNat, BitType DEF Top

LEMMA ReadWord ==
  ASSUME TypeOK, NEW i \in Reg
  PROVE  Read(i) \in Word
<1>1. CASE i # 15
  BY <1>1 DEF TypeOK, Read
<1>2. CASE i = 15
  <2> DEFINE pc == (r[15] + 4) % Modulus
  <2>1. r[15] \in Int
    BY <1>2, WordNat, SMT DEF TypeOK
  <2>2. pc \in Word /\ pc \in Nat
    <3>1. r[15] + 4 \in Int
      BY <2>1, SMT
    <3>2. pc \in Word
      BY <3>1, Reduced
    <3> HIDE DEF pc
    <3> QED BY <3>2, WordNat
  <2>3. BitOf(pc, 1) = (pc \div 2) % 2
    <3>1. 2^1 = 2
      BY SMT
    <3> QED BY <3>1 DEF BitOf
  <2>4. Read(i) = pc - 2 * ((pc \div 2) % 2)
    BY <1>2, <2>3 DEF Read
  <2> HIDE DEF pc
  <2>5. pc - 2 * ((pc \div 2) % 2) \in 0 .. pc
    BY <2>2, SMT
  <2> QED BY <2>2, <2>4, <2>5, Widths, SMT DEF Word
<1> QED BY <1>1, <1>2

\* The pairs of an operand and a carry.
Shiftings == Word \X Bit

LEMMA ImmediateType ==
  ASSUME TypeOK, NEW mode \in LSL .. ROR, NEW x \in Word,
         NEW amount \in 0 .. W - 1
  PROVE  ShiftByImmediate(mode, x, amount) \subseteq Shiftings
<1>1. /\ x \in Nat /\ amount \in Int /\ W - 1 \in Nat
      /\ (amount # 0 => W - amount \in Nat /\ amount - 1 \in Nat)
      /\ 0 \in Nat
  BY Widths, WordNat, SMT
<1>2. cpsr.c \in Bit /\ Top(x) \in Bit /\ BitOf(x, 0) \in Bit
  BY <1>1, TopType, BitType DEF TypeOK, Cpsr
<1>3. amount # 0 =>
        BitOf(x, W - amount) \in Bit /\ BitOf(x, amount - 1) \in Bit
  BY <1>1, BitType
<1>4. CASE mode = LSL
  BY <1>1, <1>2, <1>3, <1>4, LeftWord
     DEF ShiftByImmediate, Shiftings, LSL, LSR, ASR, ROR
<1>5. CASE mode = LSR
  BY <1>1, <1>2, <1>3, <1>5, RightWord
     DEF ShiftByImmediate, Shiftings, LSL, LSR, ASR, ROR
<1>6. CASE mode = ASR
  <2>1. Top(x) * (Modulus - 1) \in Word
    <3>1. CASE Top(x) = 0
      BY <3>1, Widths, SMT DEF Word
    <3>2. CASE Top(x) = 1
      BY <3>2, Widths, SMT DEF Word
    <3> QED BY <1>2, <3>1, <3>2 DEF Bit
  <2> QED BY <1>1, <1>2, <1>3, <1>6, <2>1, RotatedWord
          DEF ShiftByImmediate, Shiftings, LSL, LSR, ASR, ROR
<1>7. CASE mode = ROR
  <2>1. x \div 2 \in Nat
    BY <1>1, SMT
  <2>2. cpsr.c * 2^(W - 1) \in Nat
    <3>1. 2^(W - 1) \in Nat
      BY <1>1, PowerPositive
    <3> QED BY <1>2, <3>1, SMT DEF Bit
  <2>3. BitOr(x \div 2, cpsr.c * 2^(W - 1)) \in Word
    BY <2>1, <2>2, BitwiseOr
  <2> QED BY <1>1, <1>2, <1>3, <1>7, <2>3, RotatedWord
          DEF ShiftByImmediate, Shiftings, LSL, LSR, ASR, ROR
<1>8. mode \in {LSL, LSR, ASR, ROR}
  BY SMT DEF LSL, LSR, ASR, ROR
<1> QED BY <1>4, <1>5, <1>6, <1>7, <1>8

\* The value and the carries of a shift by a register, by name.
RegisterValue(mode, x, amount) ==
  CASE mode = LSL -> ShiftLeft(x, amount)
    [] mode = LSR -> ShiftRight(x, amount)
    [] mode = ASR -> Asr(x, amount)
    [] mode = ROR -> Ror(x, amount)

RegisterCarry(mode, x, amount) ==
  CASE amount = 0 -> {cpsr.c}
    [] amount # 0 /\ mode = ROR -> BitsOf(x, (amount % (W \div 2)) - 1)
    [] amount \in 1 .. W - 1 /\ mode = LSL -> {BitOf(x, W - amount)}
    [] amount \in 1 .. W - 1 /\ mode \in {LSR, ASR} -> {BitOf(x, amount - 1)}
    [] amount = W /\ mode = LSL -> {BitOf(x, 0)}
    [] amount = W /\ mode = LSR -> {Top(x)}
    [] OTHER -> {0}

LEMMA RegisterType ==
  ASSUME TypeOK, NEW mode \in LSL .. ROR, NEW x \in Word, NEW amount \in Nat
  PROVE  ShiftByRegister(mode, x, amount) \subseteq Shiftings
<1>1. ShiftByRegister(mode, x, amount)
        = RegisterValue(mode, x, amount) \X RegisterCarry(mode, x, amount)
  BY DEF ShiftByRegister, RegisterValue, RegisterCarry
<1>2. RegisterValue(mode, x, amount) \subseteq Word
  <2>1. mode \in {LSL, LSR, ASR, ROR} /\ x \in Nat /\ amount \in Int
    BY WordNat, SMT DEF LSL, LSR, ASR, ROR
  <2>2. /\ ShiftLeft(x, amount) \subseteq Word
        /\ ShiftRight(x, amount) \subseteq Word
        /\ Asr(x, amount) \subseteq Word /\ Ror(x, amount) \subseteq Word
    BY <2>1, LeftWord, RightWord, RotatedWord
  <2> QED BY <2>1, <2>2 DEF RegisterValue, LSL, LSR, ASR, ROR
<1>3. RegisterCarry(mode, x, amount) \subseteq Bit
  <2>1. (amount % (W \div 2)) - 1 \in Int /\ x \in Nat /\ 0 \in Nat
    BY Widths, WordNat, SMT
  <2>2. amount \in 1 .. W - 1 => W - amount \in Nat /\ amount - 1 \in Nat
    BY Widths, SMT
  <2>3. /\ cpsr.c \in Bit /\ Top(x) \in Bit /\ BitOf(x, 0) \in Bit
        /\ 0 \in Bit /\ BitsOf(x, (amount % (W \div 2)) - 1) \subseteq Bit
    BY <2>1, TopType, BitType, BitsOfType DEF TypeOK, Cpsr, Bit
  <2>4. amount \in 1 .. W - 1 =>
          BitOf(x, W - amount) \in Bit /\ BitOf(x, amount - 1) \in Bit
    BY <2>1, <2>2, BitType
  <2> QED BY <2>3, <2>4, Zenon DEF RegisterCarry
<1> QED BY <1>1, <1>2, <1>3 DEF Shiftings

LEMMA RotateType ==
  ASSUME TypeOK, NEW immed \in 0 .. 2^(W \div 4) - 1,
         NEW rotate_imm \in 0 .. W \div 2 - 1
  PROVE  Rotate(immed, rotate_imm) \subseteq Shiftings
<1>1. immed \in Word
  <2>1. 2^(W \div 4) <= 2^W /\ 2^(W \div 4) \in Nat /\ 2^W \in Nat
    BY Widths, PowerMonotone, PowerPositive
  <2> DEFINE a == 2^(W \div 4)  b == 2^W
  <2>2. a <= b /\ a \in Nat /\ b \in Nat /\ immed \in 0 .. a - 1
    BY <2>1
  <2> HIDE DEF a, b
  <2>3. immed \in 0 .. b - 1
    BY <2>2, SMT
  <2> QED BY <2>3 DEF Word, Modulus, b
<1>2. 2 * rotate_imm \in Int
  BY Widths, SMT
<1>3. Ror(immed, 2 * rotate_imm) \subseteq Word
  BY <1>1, <1>2, RotatedWord
<1>4. cpsr.c \in Bit
  BY DEF TypeOK, Cpsr
<1> QED BY <1>1, <1>3, <1>4, TopType DEF Rotate, Shiftings

LEMMA ShiftedType ==
  ASSUME TypeOK, NEW operand \in Operand
  PROVE  Shifted(operand) \subseteq Shiftings
<1>1. CASE operand.kind = "shift_imm"
  <2>1. /\ operand.mode \in LSL .. ROR /\ operand.rm \in Reg
        /\ operand.amount \in 0 .. W - 1
    BY <1>1 DEF Operand
  <2>2. Shifted(operand)
          = ShiftByImmediate(operand.mode, Read(operand.rm), operand.amount)
    BY <1>1 DEF Shifted
  <2> QED BY <2>1, <2>2, ReadWord, ImmediateType
<1>2. CASE operand.kind = "shift_reg"
  <2>1. /\ operand.mode \in LSL .. ROR /\ operand.rm \in Reg
        /\ operand.rs \in Reg
    BY <1>2 DEF Operand
  <2>2. Read(operand.rs) % Amounts \in Nat
    <3>1. Read(operand.rs) \in Nat
      BY <2>1, ReadWord, WordNat
    <3> QED BY <3>1, InstructionAssumption, SMT
  <2>3. Shifted(operand)
          = ShiftByRegister(operand.mode, Read(operand.rm),
                            Read(operand.rs) % Amounts)
    BY <1>2 DEF Shifted
  <2> QED BY <2>1, <2>2, <2>3, ReadWord, RegisterType
<1>3. CASE operand.kind = "rotate"
  <2>1. /\ operand.immed \in 0 .. 2^(W \div 4) - 1
        /\ operand.rotate_imm \in 0 .. W \div 2 - 1
    BY <1>3 DEF Operand
  <2>2. Shifted(operand) = Rotate(operand.immed, operand.rotate_imm)
    BY <1>3 DEF Shifted
  <2> QED BY <2>1, <2>2, RotateType
<1>4. operand.kind \in {"shift_imm", "shift_reg", "rotate"}
  BY DEF Operand
<1> QED BY <1>1, <1>2, <1>3, <1>4
-----------------------------------------------------------------------------
(***************************************************************************)
(* The operations yield words, and the instructions keep the types.        *)
(***************************************************************************)
Yields == [value : Word, seen : Word, c : Bit, v : {-1} \union Bit]

LEMMA OutType ==
  ASSUME NEW value \in Word, NEW seen \in Word, NEW c \in Bit,
         NEW v \in {-1} \union Bit
  PROVE  /\ Out(value, seen, c, v) \in Yields
         /\ Out(value, seen, c, v).value = value
         /\ Out(value, seen, c, v).seen = seen
         /\ Out(value, seen, c, v).c = c
BY DEF Out, Yields

\* Sums and differences of words, with what is carried in.
LEMMA ArithmeticType ==
  ASSUME TypeOK, NEW x \in Word, NEW y \in Word
  PROVE  /\ Total(x, y) \in Yields /\ TotalWithCarry(x, y) \in Yields
         /\ Difference(x, y) \in Yields
         /\ DifferenceWithCarry(x, y) \in Yields
<1>1. x \in Nat /\ y \in Nat
  BY WordNat
<1>2. cpsr.c \in Bit /\ cpsr.c \in Int
  <2>1. cpsr.c \in Bit
    BY DEF TypeOK, Cpsr
  <2> QED BY <2>1, SMT DEF Bit
<1>4. ASSUME NEW z \in Word PROVE Total(x, z) \in Yields
  <2>1. z \in Nat
    BY WordNat
  <2>2. (x + z) % Modulus \in Word
    <3>1. x + z \in Int
      BY <1>1, <2>1, SMT
    <3> QED BY <3>1, Reduced
  <2>3. Truth(x + z >= Modulus) \in Bit
    BY DEF Truth, Bit
  <2> QED BY <2>2, <2>3, OutType DEF Total
<1>5. TotalWithCarry(x, y) \in Yields
  <2>1. (y + cpsr.c) % Modulus \in Word
    <3>1. y + cpsr.c \in Int
      BY <1>1, <1>2, SMT
    <3> QED BY <3>1, Reduced
  <2> QED BY <1>4, <2>1 DEF TotalWithCarry
<1>6. ASSUME NEW z \in Int PROVE Minus(x, z) \in Word
  <2>1. x - z \in Int
    BY <1>1, SMT
  <2> QED BY <2>1, Reduced DEF Minus
<1>7. Difference(x, y) \in Yields
  <2>1. Minus(x, y) \in Word
    BY <1>1, <1>6
  <2>2. Truth(x >= y) \in Bit /\ Truth(x < y) \in Bit
    BY DEF Truth, Bit
  <2> QED BY <2>1, <2>2, OutType DEF Difference
<1>8. DifferenceWithCarry(x, y) \in Yields
  <2> DEFINE notCarry == 1 - cpsr.c
             complement == (y + 1 + notCarry) % Modulus
  <2>1. notCarry \in Int /\ y + notCarry \in Int /\ y + 1 + notCarry \in Int
    BY <1>1, <1>2, SMT
  <2>2. complement \in Int
    <3>1. complement \in Word
      BY <2>1, Reduced
    <3> HIDE DEF complement
    <3> QED BY <3>1, WordNat, SMT
  <2>3. Minus(x, y + notCarry) \in Word /\ Minus(x, complement) \in Word
    <3> HIDE DEF notCarry, complement
    <3> QED BY <1>6, <2>1, <2>2
  <2>4. DifferenceWithCarry(x, y)
          = Out(Minus(x, y + notCarry), Minus(x, complement),
                Truth(x >= Minus(y, notCarry)), Truth(x < complement))
    BY DEF DifferenceWithCarry
  <2> HIDE DEF notCarry, complement
  <2>5. /\ Truth(x >= Minus(y, notCarry)) \in Bit
        /\ Truth(x < complement) \in Bit
    BY DEF Truth, Bit
  <2>6. \A a, b \in Word : \A c, d \in Bit : Out(a, b, c, d) \in Yields
    BY OutType
  <2> QED BY <2>3, <2>4, <2>5, <2>6, Zenon
<1> QED BY <1>1, <1>4, <1>5, <1>7, <1>8

LEMMA OperateType ==
  ASSUME TypeOK, NEW op \in Operation, NEW src \in Word, NEW y \in Word,
         NEW old \in Word, NEW carry_out \in Bit
  PROVE  Operate(op, src, y, old, carry_out) \in Yields
<1>1. src \in Nat /\ y \in Nat
  BY WordNat
<1>2. BitNot(y) \in Word /\ BitNot(y) \in Nat
  BY BitwiseNot, WordNat
<1>3. /\ BitAnd(src, y) \in Word /\ BitXor(src, y) \in Word
      /\ BitOr(src, y) \in Word /\ BitAnd(src, BitNot(y)) \in Word
  BY <1>1, <1>2, BitwiseAnd, BitwiseOr, BitwiseXor
<1>4. ASSUME NEW a \in Word, NEW b \in Word
      PROVE  Out(a, b, carry_out, -1) \in Yields
  BY OutType
<1>5. CASE op \in {"and", "eor", "tst", "teq", "orr", "mov", "bic", "mvn"}
  <2>1. \A a \in Word : Logical(a, carry_out) \in Yields
    BY <1>4 DEF Logical
  <2> QED BY <1>2, <1>3, <1>4, <1>5, <2>1 DEF Operate
<1>6. CASE op \in {"sub", "cmp", "rsb", "add", "cmn", "adc", "sbc", "rsc"}
  BY <1>6, ArithmeticType DEF Operate
<1> QED BY <1>5, <1>6 DEF Operation

LEMMA UpdateType ==
  ASSUME TypeOK, NEW out \in Yields, NEW s, NEW rd
  PROVE  UpdateCpsr(out, s, rd) \in Cpsr
<1>1. cpsr \in Cpsr /\ Spsr \in Cpsr
  BY DEF TypeOK, Cpsr, Spsr, Bit
<1>2. /\ Top(out.seen) \in Bit /\ Truth(out.seen = 0) \in Bit /\ out.c \in Bit
      /\ (IF out.v = -1 THEN 0 ELSE out.v) \in Bit
  BY TopType DEF Yields, Bit, Truth
<1> QED BY <1>1, <1>2 DEF UpdateCpsr, Cpsr

\* What an instruction leaves in the registers are words and flags.
LEMMA OutcomesType ==
  ASSUME TypeOK, NEW ins, ins.op \in Operation, ins.operand \in Operand,
         ins.rn \in Reg, ins.rd \in Reg,
         NEW o \in Outcomes(ins)
  PROVE  o.r \in [Reg -> Word] /\ o.cpsr \in Cpsr
<1>1. PICK sh \in Shifted(ins.operand) :
        o = LET out == Operate(ins.op, Read(ins.rn), sh[1], Read(ins.rd), sh[2])
            IN IF Test(ins.op)
                 THEN [r |-> r, cpsr |-> UpdateCpsr(out, 1, 0)]
                 ELSE [r |-> [r EXCEPT ![ins.rd] = out.value],
                       cpsr |-> UpdateCpsr(out, ins.s, ins.rd)]
  BY DEF Outcomes
<1> DEFINE out == Operate(ins.op, Read(ins.rn), sh[1], Read(ins.rd), sh[2])
<1>2. sh[1] \in Word /\ sh[2] \in Bit
  BY ShiftedType DEF Shiftings
<1>3. out \in Yields
  BY <1>2, ReadWord, OperateType
<1>4. \/ o = [r |-> r, cpsr |-> UpdateCpsr(out, 1, 0)]
      \/ o = [r |-> [r EXCEPT ![ins.rd] = out.value],
              cpsr |-> UpdateCpsr(out, ins.s, ins.rd)]
  BY <1>1
<1> HIDE DEF out
<1>5. out.value \in Word
  BY <1>3 DEF Yields
<1>6. \A s, rd : UpdateCpsr(out, s, rd) \in Cpsr
  BY <1>3, UpdateType
<1> QED BY <1>4, <1>5, <1>6 DEF TypeOK

\* The fields of an instruction of the guest.
LEMMA GuestFields ==
  ASSUME NEW ins \in Guest
  PROVE  /\ ins.op \in Operation /\ ins.operand \in Operand
         /\ ins.rn \in Reg /\ ins.rd \in Reg /\ ins.s \in Bit
BY InstructionAssumption

\* Registers and flags stay in their words, whatever the guest executes
\* (arm_data_processing.c:356-493).
THEOREM TypeCorrect == Spec => []TypeOK
<1>1. Init => TypeOK
  BY InstructionAssumption DEF Init, TypeOK, ResetCpsr, Cpsr, Bit
<1>2. TypeOK /\ [Next]_regs => TypeOK'
  <2> SUFFICES ASSUME TypeOK, [Next]_regs PROVE TypeOK'
    OBVIOUS
  <2>1. ASSUME NEW ins \in Guest, Execute(ins) PROVE TypeOK'
    BY <2>1, GuestFields, OutcomesType DEF Execute, TypeOK
  <2>2. CASE UNCHANGED regs
    BY <2>2 DEF TypeOK, regs
  <2> QED BY <2>1, <2>2 DEF Next
<1> QED BY <1>1, <1>2, PTL DEF Spec
-----------------------------------------------------------------------------
(***************************************************************************)
(* The values, the carries and the signs.                                  *)
(***************************************************************************)
\* What an instruction yields, by its parts.
LEMMA ResultParts ==
  ASSUME TypeOK, NEW ins \in Guest, NEW res \in Results(ins)
  PROVE  /\ res.y \in Word /\ res.carry_out \in Bit
         /\ res.out = Operate(ins.op, Read(ins.rn), res.y, Read(ins.rd),
                              res.carry_out)
         /\ Read(ins.rn) \in Word /\ Read(ins.rd) \in Word
<1>1. PICK sh \in Shifted(ins.operand) :
        res = [y |-> sh[1], carry_out |-> sh[2],
               out |-> Operate(ins.op, Read(ins.rn), sh[1], Read(ins.rd),
                               sh[2])]
  BY DEF Results
<1>2. sh[1] \in Word /\ sh[2] \in Bit
  BY GuestFields, ShiftedType DEF Shiftings
<1>3. Read(ins.rn) \in Word /\ Read(ins.rd) \in Word
  BY GuestFields, ReadWord
<1> QED BY <1>1, <1>2, <1>3

LEMMA CarryIn == ASSUME TypeOK PROVE cpsr.c \in Bit /\ cpsr.c \in Int
<1>1. cpsr.c \in Bit
  BY DEF TypeOK, Cpsr
<1> QED BY <1>1, SMT DEF Bit

\* Arithmetic modulo a word is exact.
LEMMA ArithmeticExact ==
  ASSUME TypeOK, NEW x \in Word, NEW y \in Word
  PROVE  /\ Total(x, y).value = (x + y) % Modulus
         /\ TotalWithCarry(x, y).value = (x + y + cpsr.c) % Modulus
         /\ Difference(x, y).value = (x - y) % Modulus
         /\ DifferenceWithCarry(x, y).value
              = (x - y - (1 - cpsr.c)) % Modulus
<1>1. x \in Int /\ y \in Int
  BY WordNat, SMT
<1>2. cpsr.c \in Int
  BY CarryIn
<1>3. /\ Total(x, y).value = (x + y) % Modulus
      /\ Difference(x, y).value = (x - y) % Modulus
  BY DEF Total, Difference, Minus, Out
<1>4. TotalWithCarry(x, y).value = (x + y + cpsr.c) % Modulus
  <2>1. TotalWithCarry(x, y).value
          = (x + ((y + cpsr.c) % Modulus)) % Modulus
    BY DEF TotalWithCarry, Total, Out
  <2>2. y + cpsr.c \in Int /\ x + (y + cpsr.c) = x + y + cpsr.c
    BY <1>1, <1>2, SMT
  <2>3. Modulus \in Nat /\ Modulus > 0
    BY Widths, SMT
  <2>4. (x + ((y + cpsr.c) % Modulus)) % Modulus
          = (x + (y + cpsr.c)) % Modulus
    BY <1>1, <2>2, <2>3, ReducedTerm
  <2> QED BY <2>1, <2>2, <2>4
<1>5. DifferenceWithCarry(x, y).value = (x - y - (1 - cpsr.c)) % Modulus
  <2>1. DifferenceWithCarry(x, y).value
          = (x - (y + (1 - cpsr.c))) % Modulus
    BY DEF DifferenceWithCarry, Minus, Out
  <2>2. x - (y + (1 - cpsr.c)) = x - y - (1 - cpsr.c)
    BY <1>1, <1>2, SMT
  <2> QED BY <2>1, <2>2
<1> QED BY <1>3, <1>4, <1>5

LEMMA ArithmeticValue ==
  ASSUME TypeOK, NEW op \in Additive \union Subtractive,
         NEW x \in Word, NEW y \in Word, NEW old, NEW carry_out
  PROVE  Operate(op, x, y, old, carry_out).value = Exact(op, x, y) % Modulus
<1>1. CASE op \in {"add", "cmn"}
  <2>1. Exact(op, x, y) = x + y
    BY <1>1 DEF Exact
  <2>2. Operate(op, x, y, old, carry_out) = Total(x, y)
    BY <1>1 DEF Operate
  <2> QED BY <2>1, <2>2, ArithmeticExact
<1>2. CASE op = "adc"
  <2>1. Exact(op, x, y) = x + y + cpsr.c
    BY <1>2 DEF Exact
  <2>2. Operate(op, x, y, old, carry_out) = TotalWithCarry(x, y)
    BY <1>2 DEF Operate
  <2> QED BY <2>1, <2>2, ArithmeticExact
<1>3. CASE op \in {"sub", "cmp"}
  <2>1. Exact(op, x, y) = x - y
    BY <1>3 DEF Exact
  <2>2. Operate(op, x, y, old, carry_out) = Difference(x, y)
    BY <1>3 DEF Operate
  <2> QED BY <2>1, <2>2, ArithmeticExact
<1>4. CASE op = "rsb"
  <2>1. Exact(op, x, y) = y - x
    BY <1>4 DEF Exact
  <2>2. Operate(op, x, y, old, carry_out) = Difference(y, x)
    BY <1>4 DEF Operate
  <2> QED BY <2>1, <2>2, ArithmeticExact
<1>5. CASE op = "sbc"
  <2>1. Exact(op, x, y) = x - y - (1 - cpsr.c)
    BY <1>5 DEF Exact
  <2>2. Operate(op, x, y, old, carry_out) = DifferenceWithCarry(x, y)
    BY <1>5 DEF Operate
  <2> QED BY <2>1, <2>2, ArithmeticExact
<1>6. CASE op = "rsc"
  <2>1. Exact(op, x, y) = y - x - (1 - cpsr.c)
    BY <1>6 DEF Exact
  <2>2. Operate(op, x, y, old, carry_out) = DifferenceWithCarry(y, x)
    BY <1>6 DEF Operate
  <2> QED BY <2>1, <2>2, ArithmeticExact
<1> QED BY <1>1, <1>2, <1>3, <1>4, <1>5, <1>6 DEF Additive, Subtractive

Bitwise == {"and", "eor", "tst", "teq", "orr", "mov", "bic", "mvn"}

\* The bits of the logical operations.
LEMMA LogicalExact ==
  ASSUME NEW op \in Bitwise, NEW src \in Word, NEW y \in Word, NEW old,
         NEW carry_out, NEW i \in 0 .. W - 1
  PROVE  BitOf(Operate(op, src, y, old, carry_out).value, i)
           = LogicalBit(op, BitOf(src, i), BitOf(y, i))
<1> DEFINE a == BitOf(src, i)  b == BitOf(y, i)
           value == Operate(op, src, y, old, carry_out).value
<1>1. src \in Nat /\ y \in Nat /\ BitNot(y) \in Nat
  BY WordNat, BitwiseNot
<1>2. a \in Bit /\ b \in Bit
  BY <1>1, Widths, BitType, SMT
<1>3. /\ BitOf(BitAnd(src, y), i) = a * b
      /\ BitOf(BitOr(src, y), i) = Truth(a + b > 0)
      /\ BitOf(BitXor(src, y), i) = (a + b) % 2
      /\ BitOf(BitNot(y), i) = 1 - b
      /\ BitOf(BitAnd(src, BitNot(y)), i) = a * (1 - b)
  <2>1. BitOf(BitNot(y), i) = 1 - b
    BY BitwiseNot
  <2>2. BitOf(BitAnd(src, BitNot(y)), i) = a * BitOf(BitNot(y), i)
    BY <1>1, BitwiseAnd
  <2> QED BY <1>1, <2>1, <2>2, BitwiseAnd, BitwiseOr, BitwiseXor
<1>4. /\ a * b = Truth(a = 1 /\ b = 1)
      /\ (a + b) % 2 = Truth(a # b)
      /\ Truth(a + b > 0) = Truth(a = 1 \/ b = 1)
      /\ a * (1 - b) = Truth(a = 1 /\ b = 0)
  <2> HIDE DEF a, b
  <2> QED BY <1>2, SMT DEF Bit, Truth
<1> HIDE DEF a, b
<1>5. CASE op \in {"and", "tst"}
  <2>1. value = BitAnd(src, y)
    BY <1>5 DEF Operate, Out, Logical
  <2>2. LogicalBit(op, a, b) = Truth(a = 1 /\ b = 1)
    BY <1>5 DEF LogicalBit
  <2> QED BY <1>3, <1>4, <2>1, <2>2 DEF a, b
<1>6. CASE op \in {"eor", "teq"}
  <2>1. value = BitXor(src, y)
    BY <1>6 DEF Operate, Out, Logical
  <2>2. LogicalBit(op, a, b) = Truth(a # b)
    BY <1>6 DEF LogicalBit
  <2> QED BY <1>3, <1>4, <2>1, <2>2 DEF a, b
<1>7. CASE op = "orr"
  <2>1. value = BitOr(src, y)
    BY <1>7 DEF Operate, Out, Logical
  <2>2. LogicalBit(op, a, b) = Truth(a = 1 \/ b = 1)
    BY <1>7 DEF LogicalBit
  <2> QED BY <1>3, <1>4, <2>1, <2>2 DEF a, b
<1>8. CASE op = "mov"
  <2>1. value = y
    BY <1>8 DEF Operate, Out, Logical
  <2>2. LogicalBit(op, a, b) = b
    BY <1>8 DEF LogicalBit
  <2> QED BY <2>1, <2>2 DEF a, b
<1>9. CASE op = "bic"
  <2>1. value = BitAnd(src, BitNot(y))
    BY <1>9 DEF Operate, Out, Logical
  <2>2. LogicalBit(op, a, b) = Truth(a = 1 /\ b = 0)
    BY <1>9 DEF LogicalBit
  <2> QED BY <1>3, <1>4, <2>1, <2>2 DEF a, b
<1>10. CASE op = "mvn"
  <2>1. value = BitNot(y)
    BY <1>10 DEF Operate, Out, Logical
  <2>2. LogicalBit(op, a, b) = 1 - b
    BY <1>10 DEF LogicalBit
  <2> QED BY <1>3, <2>1, <2>2 DEF a, b
<1> QED BY <1>5, <1>6, <1>7, <1>8, <1>9, <1>10 DEF Bitwise

\* Every operation yields the exact value, for words of any width and all
\* registers and flags (arm_data_processing.c:56-236).
THEOREM ValuesCorrect == Spec => []ValuesTrue
<1>1. TypeOK => ValuesTrue
  <2> SUFFICES ASSUME TypeOK, NEW ins \in Guest, NEW res \in Results(ins)
               PROVE  IF ins.op \in Additive \union Subtractive
                        THEN res.out.value
                               = Exact(ins.op, Read(ins.rn), res.y) % Modulus
                        ELSE \A i \in 0 .. W - 1 :
                               BitOf(res.out.value, i)
                                 = LogicalBit(ins.op, BitOf(Read(ins.rn), i),
                                              BitOf(res.y, i))
    BY DEF ValuesTrue
  <2> DEFINE src == Read(ins.rn)  y == res.y
  <2>1. /\ y \in Word /\ src \in Word
        /\ res.out = Operate(ins.op, src, y, Read(ins.rd), res.carry_out)
    BY ResultParts
  <2> HIDE DEF src, y
  <2>2. CASE ins.op \in Additive \union Subtractive
    <3>1. res.out.value = Exact(ins.op, src, y) % Modulus
      BY <2>1, <2>2, ArithmeticValue
    <3> QED BY <2>2, <3>1 DEF src, y
  <2>3. CASE ins.op \notin Additive \union Subtractive
    <3>1. ins.op \in Bitwise
      BY <2>3, GuestFields DEF Operation, Bitwise, Additive, Subtractive
    <3>2. \A i \in 0 .. W - 1 :
            BitOf(res.out.value, i)
              = LogicalBit(ins.op, BitOf(src, i), BitOf(y, i))
      BY <2>1, <3>1, LogicalExact
    <3> QED BY <2>3, <3>2 DEF src, y
  <2> QED BY <2>2, <2>3
<1> QED BY <1>1, TypeCorrect, PTL

\* A word is its own remainder.
LEMMA WordReduced == ASSUME NEW x \in Word PROVE x % Modulus = x
<1>1. x \in Nat /\ x < Modulus /\ Modulus \in Nat
  BY WordNat, Widths
<1> QED BY <1>1, SMT

\* The carry is that of the exact sum and not the borrow of the exact
\* difference, outside the three cases in which the code narrows a carry in
\* too early (arm_data_processing.c:75-160, 177-195).
LEMMA CarryExact ==
  ASSUME TypeOK, NEW op \in Additive \union Subtractive,
         NEW x \in Word, NEW y \in Word, NEW old, NEW carry_out,
         op = "adc" => ~(y = Modulus - 1 /\ cpsr.c = 1),
         op \in {"sbc", "rsc"} => cpsr.c = 1
  PROVE  Operate(op, x, y, old, carry_out).c = ExactCarry(op, x, y)
<1>1. x \in Int /\ y \in Int /\ Modulus \in Int
  BY WordNat, Widths, SMT
<1>2. \A a, b \in Word : Difference(a, b).c = Truth(a - b >= 0)
  <2> TAKE a, b \in Word
  <2>1. a >= b <=> a - b >= 0
    BY WordNat, SMT
  <2> QED BY <2>1 DEF Difference, Out, Truth
<1>3. \A a, b \in Word : Total(a, b).c = Truth(a + b >= Modulus)
  BY DEF Total, Out
<1>4. ASSUME cpsr.c = 1
      PROVE  \A a, b \in Word :
               DifferenceWithCarry(a, b).c = Truth(a - b - (1 - cpsr.c) >= 0)
  <2> TAKE a, b \in Word
  <2>1. DifferenceWithCarry(a, b).c = Truth(a >= Minus(b, 1 - cpsr.c))
    BY DEF DifferenceWithCarry, Out
  <2>2. Minus(b, 1 - cpsr.c) = b
    <3>1. b - (1 - cpsr.c) = b
      BY <1>4, WordNat, SMT
    <3> QED BY <3>1, WordReduced DEF Minus
  <2>3. a >= b <=> a - b - (1 - cpsr.c) >= 0
    BY <1>4, WordNat, SMT
  <2> QED BY <2>1, <2>2, <2>3 DEF Truth
<1>5. CASE op \in {"add", "cmn"}
  <2>1. ExactCarry(op, x, y) = Truth(x + y >= Modulus)
    BY <1>5 DEF ExactCarry, Exact, Additive
  <2>2. Operate(op, x, y, old, carry_out) = Total(x, y)
    BY <1>5 DEF Operate
  <2> QED BY <1>3, <2>1, <2>2
<1>6. CASE op = "adc"
  <2>1. ExactCarry(op, x, y) = Truth(x + y + cpsr.c >= Modulus)
    BY <1>6 DEF ExactCarry, Exact, Additive
  <2>2. Operate(op, x, y, old, carry_out)
          = Total(x, (y + cpsr.c) % Modulus)
    BY <1>6 DEF Operate, TotalWithCarry
  <2>3. y + cpsr.c \in Word
    <3>1. cpsr.c \in Bit /\ y \in Nat /\ y < Modulus /\ Modulus \in Nat
      BY CarryIn, WordNat, Widths
    <3> QED BY <1>6, <3>1, SMT DEF Word, Bit
  <2>4. (y + cpsr.c) % Modulus = y + cpsr.c
    BY <2>3, WordReduced
  <2>5. x + (y + cpsr.c) = x + y + cpsr.c
    BY <1>1, CarryIn, SMT
  <2> QED BY <1>3, <2>1, <2>2, <2>3, <2>4, <2>5
<1>7. CASE op \in {"sub", "cmp"}
  <2>1. ExactCarry(op, x, y) = Truth(x - y >= 0)
    BY <1>7 DEF ExactCarry, Exact, Additive
  <2>2. Operate(op, x, y, old, carry_out) = Difference(x, y)
    BY <1>7 DEF Operate
  <2> QED BY <1>2, <2>1, <2>2
<1>8. CASE op = "rsb"
  <2>1. ExactCarry(op, x, y) = Truth(y - x >= 0)
    BY <1>8 DEF ExactCarry, Exact, Additive
  <2>2. Operate(op, x, y, old, carry_out) = Difference(y, x)
    BY <1>8 DEF Operate
  <2> QED BY <1>2, <2>1, <2>2
<1>9. CASE op = "sbc"
  <2>1. ExactCarry(op, x, y) = Truth(x - y - (1 - cpsr.c) >= 0)
    BY <1>9 DEF ExactCarry, Exact, Additive
  <2>2. Operate(op, x, y, old, carry_out) = DifferenceWithCarry(x, y)
    BY <1>9 DEF Operate
  <2> QED BY <1>4, <1>9, <2>1, <2>2
<1>10. CASE op = "rsc"
  <2>1. ExactCarry(op, x, y) = Truth(y - x - (1 - cpsr.c) >= 0)
    BY <1>10 DEF ExactCarry, Exact, Additive
  <2>2. Operate(op, x, y, old, carry_out) = DifferenceWithCarry(y, x)
    BY <1>10 DEF Operate
  <2> QED BY <1>4, <1>10, <2>1, <2>2
<1> QED BY <1>5, <1>6, <1>7, <1>8, <1>9, <1>10 DEF Additive, Subtractive

\* The carries are exact, for words of any width and all registers and
\* flags, but for the three cases that the property names
\* (arm_data_processing.c:75-160, 177-195).
THEOREM CarryCorrect == Spec => []CarryTrue
<1>1. TypeOK => CarryTrue
  <2> SUFFICES ASSUME TypeOK, NEW ins \in Guest, NEW res \in Results(ins),
                      ins.op \in Additive \union Subtractive,
                      ins.op = "adc" => ~(res.y = Modulus - 1 /\ cpsr.c = 1),
                      ins.op \in {"sbc", "rsc"} => cpsr.c = 1
               PROVE  res.out.c = ExactCarry(ins.op, Read(ins.rn), res.y)
    BY DEF CarryTrue
  <2>1. /\ res.y \in Word /\ Read(ins.rn) \in Word
        /\ res.out = Operate(ins.op, Read(ins.rn), res.y, Read(ins.rd),
                             res.carry_out)
    BY ResultParts
  <2> QED BY <2>1, CarryExact
<1> QED BY <1>1, TypeCorrect, PTL

\* The sign of a word is its top bit.
LEMMA SignIsTop ==
  ASSUME NEW x \in Word
  PROVE  Top(x) = 1 <=> Signed(x) < 0
<1>1. x \in Nat /\ x < Modulus /\ Modulus \in Nat
  BY WordNat, Widths
<1>2. CASE Top(x) = 1
  <2>1. Signed(x) = x - Modulus
    BY <1>2 DEF Signed
  <2> QED BY <1>1, <1>2, <2>1, SMT
<1>3. CASE Top(x) # 1
  <2>1. Signed(x) = x
    BY <1>3 DEF Signed
  <2> QED BY <1>1, <1>3, <2>1, SMT
<1> QED BY <1>2, <1>3

\* After an instruction that sets the flags, N and Z tell the sign and the
\* zero of what it wrote, for the operations that do not take them from
\* elsewhere (arm_data_processing.c:32-49).
THEOREM SignCorrect == Spec => SignTrue
<1>1. TypeOK =>
        \A ins \in Guest :
          /\ ins.s = 1 /\ ins.rd # 15 /\ ~Test(ins.op)
          /\ ins.op \notin {"and", "eor", "sbc", "rsc"}
          /\ Execute(ins)
          => /\ cpsr'.n = 1 <=> Signed(r'[ins.rd]) < 0
             /\ cpsr'.z = 1 <=> r'[ins.rd] = 0
  <2> SUFFICES ASSUME TypeOK, NEW ins \in Guest, ins.s = 1, ins.rd # 15,
                      ~Test(ins.op), Execute(ins),
                      ins.op \notin {"and", "eor", "sbc", "rsc"}
               PROVE  /\ cpsr'.n = 1 <=> Signed(r'[ins.rd]) < 0
                      /\ cpsr'.z = 1 <=> r'[ins.rd] = 0
    OBVIOUS
  <2>0. PICK o \in Outcomes(ins) : r' = o.r /\ cpsr' = o.cpsr
    BY DEF Execute
  <2>1. PICK sh \in Shifted(ins.operand) :
          o = LET out == Operate(ins.op, Read(ins.rn), sh[1], Read(ins.rd),
                                 sh[2])
              IN IF Test(ins.op)
                   THEN [r |-> r, cpsr |-> UpdateCpsr(out, 1, 0)]
                   ELSE [r |-> [r EXCEPT ![ins.rd] = out.value],
                         cpsr |-> UpdateCpsr(out, ins.s, ins.rd)]
    BY DEF Outcomes
  <2> DEFINE out == Operate(ins.op, Read(ins.rn), sh[1], Read(ins.rd), sh[2])
  <2>2. out \in Yields
    <3>1. sh[1] \in Word /\ sh[2] \in Bit
      BY GuestFields, ShiftedType DEF Shiftings
    <3> QED BY <3>1, GuestFields, ReadWord, OperateType
  <2>3. out.seen = out.value
    <3>1. ins.op \in {"sub", "rsb", "add", "adc", "orr", "mov", "bic", "mvn"}
      BY GuestFields DEF Operation, Test
    <3> QED BY <3>1 DEF Operate, Difference, Total, TotalWithCarry, Logical,
                        Out
  <2>4. /\ r' = [r EXCEPT ![ins.rd] = out.value]
        /\ cpsr' = UpdateCpsr(out, ins.s, ins.rd)
    BY <2>0, <2>1
  <2> HIDE DEF out
  <2>5. r'[ins.rd] = out.value /\ out.value \in Word
    BY <2>2, <2>4, GuestFields DEF TypeOK, Yields
  <2>6. cpsr'.n = Top(out.value) /\ cpsr'.z = Truth(out.value = 0)
    BY <2>3, <2>4 DEF UpdateCpsr, TypeOK, Cpsr
  <2>7. Truth(out.value = 0) = 1 <=> out.value = 0
    BY DEF Truth
  <2> QED BY <2>5, <2>6, <2>7, SignIsTop DEF Signed
<1> QED BY <1>1, TypeCorrect, PTL DEF SignTrue
-----------------------------------------------------------------------------
(***************************************************************************)
(* The bits of quotients, multiples and sums.                              *)
(***************************************************************************)
LEMMA QuotientOfQuotient ==
  ASSUME NEW x \in Nat, NEW i \in Nat, NEW j \in Nat
  PROVE  (x \div 2^i) \div 2^j = x \div 2^(i + j)
<1> DEFINE p == 2^i  h == 2^j
           q == x \div p  s == x % p
           u == q \div h  t == q % h
<1>1. p \in Nat /\ p > 0 /\ h \in Nat /\ h > 0 /\ 2^(i + j) = p * h
  BY PowerPositive, PowerAdds
<1>2. q \in Nat
  BY Quotient
<1>3. s \in 0 .. p - 1 /\ x = p * q + s
  <2> HIDE DEF p
  <2> QED BY <1>1, Division
<1>4. u \in Int /\ t \in 0 .. h - 1 /\ q = h * u + t
  <2> HIDE DEF q, h
  <2> QED BY <1>1, <1>2, Division
<1> HIDE DEF p, h, q, s, u, t
<1>5. p * h \in Nat /\ p * h > 0
  BY <1>1, SMT
<1>6. x = (p * h) * u + (p * t + s)
  BY <1>1, <1>2, <1>3, <1>4, SMT
<1>7. p * t + s \in 0 .. p * h - 1
  <2>1. p * t <= p * (h - 1) /\ p * t >= 0
    BY <1>1, <1>4, SMT
  <2>2. p * (h - 1) = p * h - p
    BY <1>1, SMT
  <2> QED BY <1>1, <1>3, <1>4, <1>5, <2>1, <2>2, SMT
<1>8. x \div (p * h) = u
  <2> DEFINE d == p * h  e == p * t + s
  <2>1. d \in Nat /\ d > 0 /\ e \in 0 .. d - 1 /\ x = d * u + e
    BY <1>5, <1>6, <1>7
  <2> HIDE DEF d, e
  <2>2. x \div d = u
    BY <1>4, <2>1, DivisionUnique
  <2> QED BY <2>2 DEF d
<1> QED BY <1>1, <1>8 DEF p, h, q, u

LEMMA BitOfQuotient ==
  ASSUME NEW x \in Nat, NEW i \in Nat, NEW j \in Nat
  PROVE  BitOf(x \div 2^i, j) = BitOf(x, i + j)
BY QuotientOfQuotient DEF BitOf

\* A quotient, from the next one and a bit.
LEMMA Halving ==
  ASSUME NEW x \in Nat, NEW j \in Nat
  PROVE  x \div 2^j = 2 * (x \div 2^(j + 1)) + BitOf(x, j)
<1> DEFINE q == x \div 2^j
<1>1. q \in Nat
  BY Quotient
<1>2. q \div 2 = x \div 2^(j + 1)
  <2>1. 2^1 = 2 /\ 1 \in Nat
    BY SMT
  <2>2. (x \div 2^j) \div 2^1 = x \div 2^(j + 1)
    BY <2>1, QuotientOfQuotient
  <2> QED BY <2>1, <2>2
<1>3. BitOf(x, j) = q % 2
  BY DEF BitOf
<1> HIDE DEF q
<1>4. q = 2 * (q \div 2) + (q % 2)
  BY <1>1, SMT
<1> QED BY <1>2, <1>3, <1>4 DEF q

\* Below a power of two the quotient is 0, and so are the bits.
LEMMA SmallQuotient ==
  ASSUME NEW x \in Nat, NEW n \in Nat, x < 2^n
  PROVE  x \div 2^n = 0 /\ \A i \in Nat : i >= n => BitOf(x, i) = 0
<1>1. ASSUME NEW i \in Nat, i >= n PROVE x \div 2^i = 0
  <2> DEFINE p == 2^i  h == 2^n
  <2>1. h <= p /\ h \in Nat /\ p \in Nat /\ x < h /\ p > 0
    BY <1>1, PowerMonotone, PowerPositive
  <2> HIDE DEF p, h
  <2>2. 0 \in Int /\ x \in 0 .. p - 1 /\ x = p * 0 + x
    BY <2>1, SMT
  <2>3. (p * 0 + x) \div p = 0
    BY <2>1, <2>2, DivisionUnique
  <2> QED BY <2>2, <2>3 DEF p
<1>2. ASSUME NEW i \in Nat, i >= n PROVE BitOf(x, i) = 0
  <2>1. x \div 2^i = 0
    BY <1>1, <1>2
  <2>2. 0 % 2 = 0
    BY SMT
  <2> QED BY <2>1, <2>2 DEF BitOf
<1>3. n >= n
  BY SMT
<1> QED BY <1>1, <1>2, <1>3

\* Words with the same bits are the same.
LEMMA BitsDetermine ==
  ASSUME NEW x \in Word, NEW y \in Word,
         \A i \in 0 .. W - 1 : BitOf(x, i) = BitOf(y, i)
  PROVE  x = y
<1> DEFINE T == {k \in Nat : k <= W /\ x \div 2^(W - k) # y \div 2^(W - k)}
<1>0. x \in Nat /\ y \in Nat /\ x < 2^W /\ y < 2^W /\ W \in Nat
  BY WordNat, Widths DEF Modulus
<1>1. ASSUME T # {} PROVE FALSE
  <2>1. PICK m \in T : \A k \in T : m <= k
    BY <1>1, LeastNatural
  <2>2. CASE m = 0
    <3>1. W - m = W
      BY <2>2, <1>0, SMT
    <3>2. x \div 2^W = 0 /\ y \div 2^W = 0
      BY <1>0, SmallQuotient
    <3> QED BY <2>1, <3>1, <3>2
  <2>3. CASE m # 0
    <3> DEFINE k == m - 1  j == W - m
    <3>1. /\ k \in Nat /\ k <= W /\ ~(m <= k) /\ j \in 0 .. W - 1 /\ j \in Nat
          /\ W - k = j + 1
      BY <2>1, <2>3, <1>0, SMT
    <3>2. x \div 2^(W - k) = y \div 2^(W - k)
      <4> HIDE DEF k, j
      <4> QED BY <2>1, <3>1
    <3>3. BitOf(x, j) = BitOf(y, j)
      BY <3>1
    <3>4. /\ x \div 2^j = 2 * (x \div 2^(j + 1)) + BitOf(x, j)
          /\ y \div 2^j = 2 * (y \div 2^(j + 1)) + BitOf(y, j)
      <4> HIDE DEF j, k
      <4> QED BY <1>0, <3>1, Halving
    <3> QED BY <2>1, <3>1, <3>2, <3>3, <3>4
  <2> QED BY <2>2, <2>3
<1>2. W \notin T
  BY <1>1
<1>3. W - W = 0 /\ W <= W
  BY <1>0, SMT
<1>4. x \div 2^0 = y \div 2^0
  BY <1>0, <1>2, <1>3
<1>5. x \div 1 = x /\ y \div 1 = y
  BY <1>0, SMT
<1> QED BY <1>4, <1>5, PowerZero

\* The bits of a number below 2^c with a multiple of 2^c added: its own below
\* c, those of the multiple from c on.
LEMMA BitsOfSum ==
  ASSUME NEW c \in Nat, NEW x \in 0 .. 2^c - 1, NEW m \in Nat
  PROVE  /\ (2^c * m + x) \div 2^c = m
         /\ \A i \in Nat : i < c => BitOf(2^c * m + x, i) = BitOf(x, i)
         /\ \A i \in Nat : i >= c => BitOf(2^c * m + x, i) = BitOf(m, i - c)
<1> DEFINE y == 2^c * m + x
<1>1. 2^c \in Nat /\ 2^c > 0 /\ x \in Nat
  BY PowerPositive, SMT
<1>2. y \in Nat
  <2> DEFINE p == 2^c
  <2>1. p \in Nat
    BY <1>1
  <2> HIDE DEF p
  <2>2. p * m + x \in Nat
    BY <1>1, <2>1, SMT
  <2> QED BY <2>2 DEF p
<1>3. y \div 2^c = m
  BY <1>1, DivisionUnique
<1>4. ASSUME NEW i \in Nat, i >= c PROVE BitOf(y, i) = BitOf(m, i - c)
  <2>1. i - c \in Nat /\ i = c + (i - c)
    BY <1>4, SMT
  <2>2. BitOf(y \div 2^c, i - c) = BitOf(y, c + (i - c))
    <3> HIDE DEF y
    <3> QED BY <1>2, <2>1, BitOfQuotient
  <2> QED BY <1>3, <2>1, <2>2
<1>5. ASSUME NEW i \in Nat, i < c PROVE BitOf(y, i) = BitOf(x, i)
  <2> DEFINE p == 2^i  h == 2^(c - i - 1)
             q == x \div p  s == x % p
  <2>1. c - i - 1 \in Nat /\ c = (i + (c - i - 1)) + 1
    BY <1>5, SMT
  <2>2. p \in Nat /\ p > 0 /\ h \in Nat
    BY <2>1, PowerPositive
  <2>3. 2^c = 2 * (p * h)
    <3>1. i + (c - i - 1) \in Nat
      BY <2>1, SMT
    <3>2. 2^((i + (c - i - 1)) + 1) = 2 * 2^(i + (c - i - 1))
      BY <3>1, PowerDoubles
    <3>3. 2^(i + (c - i - 1)) = p * h
      BY <2>1, PowerAdds
    <3> QED BY <2>1, <3>2, <3>3
  <2>4. q \in Nat /\ s \in 0 .. p - 1 /\ x = p * q + s
    <3>1. q \in Nat /\ x \in Int
      BY <1>1, Quotient, SMT
    <3> HIDE DEF p
    <3> QED BY <2>2, <3>1, Division
  <2> HIDE DEF p, h, q, s
  <2>5. y = p * (2 * (h * m) + q) + s /\ 2 * (h * m) + q \in Int
        /\ h * m \in Nat
    <3> DEFINE g == h * m
    <3>1. g \in Nat
      BY <2>2, SMT
    <3>2. (p * h) * m = p * g
      BY <2>2, SMT
    <3>3. y = 2 * (p * g) + (p * q + s)
      <4>1. y = (2 * (p * h)) * m + (p * q + s)
        BY <2>3, <2>4
      <4>2. (2 * (p * h)) * m = 2 * ((p * h) * m)
        BY <2>2, SMT
      <4> QED BY <3>2, <4>1, <4>2
    <3> HIDE DEF g, y
    <3>4. y = p * (2 * g + q) + s /\ 2 * g + q \in Int
      BY <2>2, <2>4, <3>1, <3>3, SMT
    <3> QED BY <3>1, <3>4 DEF g
  <2> HIDE DEF y
  <2>6. y \div p = 2 * (h * m) + q
    BY <2>2, <2>4, <2>5, DivisionUnique
  <2>7. (2 * (h * m) + q) % 2 = q % 2
    <3> DEFINE g == h * m
    <3>1. g \in Nat /\ q \in Nat
      BY <2>4, <2>5
    <3> HIDE DEF g
    <3>2. (2 * g + q) % 2 = q % 2
      BY <3>1, SMT
    <3> QED BY <3>2 DEF g
  <2> QED BY <2>6, <2>7 DEF BitOf, p, q
<1> QED BY <1>3, <1>4, <1>5

\* Numbers without a common bit: their union is their sum.
LEMMA OrIsSum ==
  ASSUME NEW c \in Nat, NEW x \in 0 .. 2^c - 1, NEW m \in Nat,
         2^c * m + x \in Word
  PROVE  BitOr(x, 2^c * m) = 2^c * m + x
<1> DEFINE b == 2^c * m  y == 2^c * m + x
<1>1. 2^c \in Nat /\ 2^c > 0 /\ x \in Nat /\ 0 \in 0 .. 2^c - 1
  BY PowerPositive, SMT
<1>2. b \in Nat /\ b + 0 = b
  <2> DEFINE p == 2^c
  <2>1. p \in Nat
    BY <1>1
  <2> HIDE DEF p
  <2>2. p * m \in Nat /\ p * m + 0 = p * m
    BY <2>1, SMT
  <2> QED BY <2>2 DEF p
<1>3. ASSUME NEW i \in 0 .. W - 1
      PROVE  BitOf(BitOr(x, b), i) = BitOf(y, i)
  <2>1. i \in Nat
    BY Widths, SMT
  <2>2. BitOf(BitOr(x, b), i) = Truth(BitOf(x, i) + BitOf(b, i) > 0)
    <3> HIDE DEF b
    <3> QED BY <1>1, <1>2, BitwiseOr
  <2>3. BitOf(x, i) \in Bit /\ BitOf(b, i) \in Bit
    <3> HIDE DEF b
    <3> QED BY <1>1, <1>2, <2>1, BitType
  <2>4. CASE i < c
    <3>1. BitOf(y, i) = BitOf(x, i)
      BY <2>1, <2>4, BitsOfSum
    <3>0. \A z \in 0 .. 2^c - 1 : BitOf(2^c * m + z, i) = BitOf(z, i)
      BY <2>1, <2>4, BitsOfSum
    <3>2. BitOf(2^c * m + 0, i) = BitOf(0, i)
      BY <1>1, <3>0, Zenon
    <3>3. BitOf(0, i) = 0
      <4>1. 0 < 2^0 /\ i >= 0 /\ 0 \in Nat
        BY <2>1, PowerZero, SMT
      <4> QED BY <2>1, <4>1, SmallQuotient
    <3>4. BitOf(b, i) = 0
      BY <1>2, <3>2, <3>3
    <3> HIDE DEF b, y
    <3>5. Truth(BitOf(x, i) + 0 > 0) = BitOf(x, i)
      BY <2>3, SMT DEF Bit, Truth
    <3> QED BY <2>2, <3>1, <3>4, <3>5
  <2>5. CASE i >= c
    <3>1. BitOf(y, i) = BitOf(m, i - c)
      BY <2>1, <2>5, BitsOfSum
    <3>0. \A z \in 0 .. 2^c - 1 : BitOf(2^c * m + z, i) = BitOf(m, i - c)
      BY <2>1, <2>5, BitsOfSum
    <3>2. BitOf(2^c * m + 0, i) = BitOf(m, i - c)
      BY <1>1, <3>0, Zenon
    <3>3. BitOf(x, i) = 0
      <4>1. x < 2^c
        BY <1>1, SMT
      <4> QED BY <1>1, <2>1, <2>5, <4>1, SmallQuotient
    <3>4. BitOf(b, i) = BitOf(y, i)
      BY <1>2, <3>1, <3>2
    <3> HIDE DEF b, y
    <3>5. Truth(0 + BitOf(b, i) > 0) = BitOf(b, i)
      BY <2>3, SMT DEF Bit, Truth
    <3> QED BY <2>2, <3>3, <3>4, <3>5
  <2>6. i < c \/ i >= c
    BY <2>1, SMT
  <2> QED BY <2>4, <2>5, <2>6
<1>4. BitOr(x, b) \in Word
  <2> HIDE DEF b
  <2> QED BY <1>1, <1>2, BitwiseOr
<1>5. y \in Word
  OBVIOUS
<1> HIDE DEF b, y
<1>6. BitOr(x, b) = y
  BY <1>3, <1>4, <1>5, BitsDetermine
<1> QED BY <1>6 DEF b, y

\* The union with nothing, and with itself.
LEMMA OrSame ==
  ASSUME NEW x \in Word
  PROVE  BitOr(x, 0) = x /\ BitOr(x, x) = x
<1>1. x \in Nat /\ 0 \in Nat /\ 0 < 2^0
  BY WordNat, PowerZero, SMT
<1>2. ASSUME NEW i \in 0 .. W - 1
      PROVE  BitOf(BitOr(x, 0), i) = BitOf(x, i)
             /\ BitOf(BitOr(x, x), i) = BitOf(x, i)
  <2>1. i \in Nat /\ i >= 0
    BY Widths, SMT
  <2>2. BitOf(0, i) = 0
    BY <1>1, <2>1, SmallQuotient
  <2>3. /\ BitOf(BitOr(x, 0), i) = Truth(BitOf(x, i) + BitOf(0, i) > 0)
        /\ BitOf(BitOr(x, x), i) = Truth(BitOf(x, i) + BitOf(x, i) > 0)
    BY <1>1, BitwiseOr
  <2>4. BitOf(x, i) \in Bit
    BY <1>1, <2>1, BitType
  <2>5. \A b \in Bit : Truth(b + 0 > 0) = b /\ Truth(b + b > 0) = b
    BY SMT DEF Bit, Truth
  <2> QED BY <2>2, <2>3, <2>4, <2>5
<1>3. BitOr(x, 0) \in Word /\ BitOr(x, x) \in Word
  BY <1>1, BitwiseOr
<1> QED BY <1>2, <1>3, BitsDetermine
-----------------------------------------------------------------------------
(***************************************************************************)
(* The shifts by a part of a word.                                         *)
(***************************************************************************)
\* A word, cut in two at an amount: W - amount bits above, amount below.
LEMMA Cut ==
  ASSUME NEW a \in 1 .. W - 1
  PROVE  /\ a \in Nat /\ a - 1 \in Nat /\ W - a \in 1 .. W - 1 /\ W - a \in Nat
         /\ 2^a \in Nat /\ 2^a > 0 /\ 2^(W - a) \in Nat /\ 2^(W - a) > 0
         /\ Modulus = 2^(W - a) * 2^a
         /\ 2^(a - 1) \in Nat /\ 2^(a - 1) > 0 /\ 2^a = 2 * 2^(a - 1)
<1>1. /\ a \in Nat /\ a - 1 \in Nat /\ W - a \in 1 .. W - 1 /\ W - a \in Nat
      /\ (W - a) + a = W /\ (a - 1) + 1 = a
  BY Widths, SMT
<1>2. 2^((W - a) + a) = 2^(W - a) * 2^a
  BY <1>1, PowerAdds
<1>3. 2^((a - 1) + 1) = 2 * 2^(a - 1)
  BY <1>1, PowerDoubles
<1> QED BY <1>1, <1>2, <1>3, PowerPositive DEF Modulus

\* The sign, by the value of a word.
LEMMA SignedIs ==
  ASSUME NEW x \in Word
  PROVE  /\ x < 2^(W - 1) => Top(x) = 0 /\ Signed(x) = x
         /\ x >= 2^(W - 1) => Top(x) = 1 /\ Signed(x) = x - Modulus
<1> DEFINE h == 2^(W - 1)
<1>1. h \in Nat /\ h > 0 /\ Modulus = 2 * h /\ x \in Nat /\ x < Modulus
  BY Widths, WordNat, PowerPositive
<1>2. Top(x) = (x \div h) % 2
  BY DEF Top, BitOf
<1> HIDE DEF h
<1>3. CASE x < h
  <2>1. 0 \in Int /\ x \in 0 .. h - 1 /\ x = h * 0 + x
    BY <1>1, <1>3, SMT
  <2>2. (h * 0 + x) \div h = 0
    BY <1>1, <2>1, DivisionUnique
  <2>3. 0 % 2 = 0
    BY SMT
  <2>4. Top(x) = 0 /\ ~(x >= h)
    BY <1>1, <1>2, <1>3, <2>1, <2>2, <2>3, SMT
  <2> QED BY <1>3, <2>4 DEF Signed, h
<1>4. CASE x >= h
  <2>1. 1 \in Int /\ x - h \in 0 .. h - 1 /\ x = h * 1 + (x - h)
    BY <1>1, <1>4, SMT
  <2>2. (h * 1 + (x - h)) \div h = 1
    BY <1>1, <2>1, DivisionUnique
  <2>3. 1 % 2 = 1
    BY SMT
  <2>4. Top(x) = 1 /\ ~(x < h)
    BY <1>1, <1>2, <1>4, <2>1, <2>2, <2>3, SMT
  <2> QED BY <1>4, <2>4 DEF Signed, h
<1>5. x < h \/ x >= h
  BY <1>1, SMT
<1> QED BY <1>3, <1>4, <1>5 DEF h

LEMMA LeftExact ==
  ASSUME NEW x \in Word, NEW a \in 1 .. W - 1
  PROVE  BitOf(x, W - a) * Modulus + ((x * 2^a) % Modulus)
           = (x * 2^a) % (2 * Modulus)
<1> DEFINE p == 2^(W - a)  h == 2^a
           q == x \div p  s == x % p
           u == q \div 2  v == q % 2
<1>1. p \in Nat /\ p > 0 /\ h \in Nat /\ h > 0 /\ Modulus = p * h
  BY Cut
<1>2. q \in Nat
  BY Cut, WordNat, Quotient
<1>3. s \in 0 .. p - 1 /\ x = p * q + s
  <2>1. x \in Int
    BY WordNat, SMT
  <2> HIDE DEF p
  <2> QED BY <1>1, <2>1, Division
<1>4. u \in Int /\ v \in {0, 1} /\ q = 2 * u + v
  <2> HIDE DEF q
  <2> QED BY <1>2, SMT
<1>5. BitOf(x, W - a) = v
  BY DEF BitOf
<1> HIDE DEF p, h, q, s, u, v
<1> DEFINE M == p * h  e == s * h
<1>6. M \in Nat /\ M > 0 /\ e \in 0 .. M - 1
  <2>1. s * h <= (p - 1) * h /\ s * h >= 0 /\ s * h \in Int
    BY <1>1, <1>3, SMT
  <2>2. (p - 1) * h = p * h - h
    BY <1>1, SMT
  <2>3. p * h \in Nat /\ p * h > 0
    BY <1>1, SMT
  <2> QED BY <1>1, <2>1, <2>2, <2>3, SMT
<1>7. x * h = M * q + e
  <2>1. (p * q + s) * h = (p * h) * q + s * h
    BY <1>1, <1>2, <1>3, SMT
  <2> QED BY <1>3, <2>1
<1> HIDE DEF M, e
<1>8. (x * h) % M = e
  BY <1>2, <1>6, <1>7, DivisionUnique
<1>9. (x * h) % (2 * M) = M * v + e
  <2> DEFINE D == 2 * M  f == M * v + e
  <2>1. M * q + e = D * u + f /\ D \in Nat /\ D > 0 /\ f \in 0 .. D - 1
    <3>1. CASE v = 0
      BY <1>2, <1>4, <1>6, <3>1, SMT
    <3>2. CASE v = 1
      BY <1>2, <1>4, <1>6, <3>2, SMT
    <3> QED BY <1>4, <3>1, <3>2
  <2> HIDE DEF D, f
  <2>2. (D * u + f) % D = f
    BY <1>4, <2>1, DivisionUnique
  <2> QED BY <1>7, <2>1, <2>2 DEF D, f
<1>10. v * M + e = M * v + e
  BY <1>4, <1>6, SMT
<1> QED BY <1>1, <1>5, <1>8, <1>9, <1>10 DEF M, h

LEMMA RightExact ==
  ASSUME NEW x \in Word, NEW a \in 1 .. W - 1
  PROVE  2 * (x \div 2^a) + BitOf(x, a - 1) = x \div 2^(a - 1)
<1>1. a - 1 \in Nat /\ (a - 1) + 1 = a /\ x \in Nat
  BY Cut, WordNat, SMT
<1>2. x \div 2^(a - 1) = 2 * (x \div 2^((a - 1) + 1)) + BitOf(x, a - 1)
  BY <1>1, Halving
<1> QED BY <1>1, <1>2

\* What is left of a word shifted right by an amount.
LEMMA RightBelow ==
  ASSUME NEW x \in Word, NEW a \in 1 .. W - 1
  PROVE  /\ x \div 2^a \in 0 .. 2^(W - a) - 1
         /\ 2^(W - a) <= 2^(W - 1)
<1> DEFINE p == 2^(W - a)  h == 2^a  y == x \div h
<1>1. p \in Nat /\ p > 0 /\ h \in Nat /\ h > 0 /\ Modulus = p * h
  BY Cut
<1>2. y \in Nat /\ x \in Nat /\ x < Modulus
  BY Cut, WordNat, Quotient
<1>3. x % h \in 0 .. h - 1 /\ x = h * y + (x % h)
  <2> HIDE DEF h
  <2> QED BY <1>1, <1>2, Division
<1>4. p <= 2^(W - 1)
  <2>1. W - a <= W - 1 /\ W - a \in Nat /\ W - 1 \in Nat
    BY Cut, Widths, SMT
  <2> QED BY <2>1, PowerMonotone
<1> HIDE DEF p, h, y
<1>5. y < p
  <2>1. h * y < p * h
    BY <1>1, <1>2, <1>3, SMT
  <2>2. CASE y >= p
    <3>1. h * y >= h * p
      BY <1>1, <1>2, <2>2, SMT
    <3>2. h * p = p * h /\ h * y \in Nat /\ p * h \in Nat
      BY <1>1, <1>2, SMT
    <3> QED BY <2>1, <3>1, <3>2, SMT
  <2> QED BY <1>1, <1>2, <2>2, SMT
<1>6. y \in 0 .. p - 1
  BY <1>1, <1>2, <1>5, SMT
<1> QED BY <1>4, <1>6 DEF p, h, y

LEMMA AsrExact ==
  ASSUME NEW x \in Word, NEW a \in 1 .. W - 1, NEW v \in Asr(x, a)
  PROVE  2 * Signed(v) + BitOf(x, a - 1) = Signed(x) \div 2^(a - 1)
<1> DEFINE p == 2^(W - a)  h == 2^a  y == x \div h
<1>1. p \in Nat /\ p > 0 /\ h \in Nat /\ h > 0 /\ Modulus = p * h
  BY Cut
<1>2. /\ y \in 0 .. p - 1 /\ p <= 2^(W - 1) /\ 2^(W - 1) \in Nat
      /\ Modulus = 2 * 2^(W - 1)
  BY RightBelow, Widths, PowerPositive
<1>3. ShiftRight(x, a) = {y}
  <2>1. a \in 0 .. W - 1
    BY Widths, SMT
  <2> QED BY <2>1 DEF ShiftRight
<1>4. 2 * y + BitOf(x, a - 1) = x \div 2^(a - 1)
  BY RightExact
<1>5. x \in Nat /\ x < Modulus /\ Top(x) \in Bit
  BY WordNat, TopType
<1> HIDE DEF p, h, y
<1>6. CASE Top(x) # 1
  <2>1. v = BitOr(y, 0)
    BY <1>3, <1>6 DEF Asr
  <2>3. y \in Word /\ y < 2^(W - 1)
    <3> DEFINE k == 2^(W - 1)
    <3>1. y \in 0 .. p - 1 /\ p <= k /\ k \in Nat /\ Modulus = 2 * k
      BY <1>2
    <3> HIDE DEF k
    <3>2. y \in 0 .. Modulus - 1 /\ y < k
      BY <1>1, <3>1, SMT
    <3> QED BY <3>2 DEF Word, k
  <2>2. v = y
    BY <2>1, <2>3, OrSame
  <2>4. Signed(v) = y
    BY <2>2, <2>3, SignedIs
  <2>5. Signed(x) = x
    BY <1>6 DEF Signed
  <2> QED BY <1>4, <2>4, <2>5
<1>7. CASE Top(x) = 1
  <2>1. p <= p * h /\ p * (h - 1) = p * h - p /\ h - 1 \in Nat
    BY <1>1, SMT
  <2>2. ((Modulus - 1) * p) % Modulus = p * (h - 1)
    <3> DEFINE M == Modulus
    <3>1. M \in Nat /\ M > 0 /\ M = p * h
      BY <1>1, Widths, SMT
    <3> HIDE DEF M
    <3>2. /\ p - 1 \in Int /\ p * (h - 1) \in 0 .. M - 1
          /\ (M - 1) * p = M * (p - 1) + p * (h - 1)
      BY <1>1, <2>1, <3>1, SMT
    <3>3. (M * (p - 1) + p * (h - 1)) % M = p * (h - 1)
      BY <3>1, <3>2, DivisionUnique
    <3> QED BY <3>2, <3>3 DEF M
  <2>3. ShiftLeft(Modulus - 1, W - a) = {p * (h - 1)}
    <3>1. W - a \in 0 .. W - 1
      BY Cut, SMT
    <3> QED BY <2>2, <3>1 DEF ShiftLeft, p
  <2>4. v = BitOr(y, p * (h - 1))
    BY <1>3, <1>7, <2>3 DEF Asr
  <2>5. p * (h - 1) + y \in Word
    BY <1>1, <1>2, <2>1, Widths, SMT DEF Word
  <2>6. v = p * (h - 1) + y
    BY <1>2, <2>1, <2>4, <2>5, Cut, OrIsSum DEF p
  <2>7. v >= 2^(W - 1)
    <3> DEFINE k == 2^(W - 1)
    <3>1. k \in Nat /\ p <= k /\ p * h = 2 * k
      BY <1>1, <1>2
    <3> HIDE DEF k
    <3>2. v >= k
      BY <1>1, <1>2, <2>1, <2>6, <3>1, SMT
    <3> QED BY <3>2 DEF k
  <2>8. Signed(v) = v - Modulus /\ Signed(x) = x - Modulus
    BY <1>7, <2>5, <2>6, <2>7, SignedIs DEF Signed
  <2>9. Signed(v) = y - p
    BY <1>1, <1>2, <2>1, <2>6, <2>8, SMT
  <2> DEFINE g == 2^(a - 1)  s == x % g  b == BitOf(x, a - 1)
  <2>10. g \in Nat /\ g > 0 /\ h = 2 * g
    BY Cut DEF h
  <2>11. b \in Int
    <3>1. b \in Bit
      BY <1>5, Cut, BitType
    <3> HIDE DEF b
    <3> QED BY <3>1, SMT DEF Bit
  <2>12. s \in 0 .. g - 1 /\ x = g * (2 * y + b) + s
    <3>1. x \div g = 2 * y + b
      BY <1>4
    <3> HIDE DEF g, b
    <3> QED BY <1>5, <2>10, <3>1, Division
  <2> HIDE DEF g, s, b
  <2>13. x - Modulus = g * (2 * (y - p) + b) + s /\ 2 * (y - p) + b \in Int
    <3>1. Modulus = g * (2 * p)
      BY <1>1, <2>10, SMT
    <3>2. g * (2 * y + b) - g * (2 * p) = g * (2 * (y - p) + b)
      BY <1>1, <1>2, <2>10, <2>11, SMT
    <3> QED BY <1>1, <1>2, <2>10, <2>11, <2>12, <3>1, <3>2, SMT
  <2>14. (x - Modulus) \div g = 2 * (y - p) + b
    BY <2>10, <2>12, <2>13, DivisionUnique
  <2> QED BY <2>8, <2>9, <2>14 DEF g, b
<1> QED BY <1>6, <1>7

LEMMA RorExact ==
  ASSUME NEW x \in Word, NEW a \in 1 .. W - 1, NEW v \in Ror(x, a),
         NEW i \in 0 .. W - 1
  PROVE  BitOf(v, i) = BitOf(x, (i + a) % W)
<1> DEFINE c == W - a  p == 2^c  h == 2^a  y == x \div h  s == x % h
<1>1. /\ p \in Nat /\ p > 0 /\ h \in Nat /\ h > 0 /\ Modulus = p * h
      /\ c \in Nat /\ c \in 1 .. W - 1 /\ a \in Nat
  BY Cut
<1>2. y \in 0 .. p - 1 /\ y \in Nat /\ x \in Nat /\ i \in Nat /\ W \in Nat
  BY <1>1, RightBelow, WordNat, Widths, Quotient, SMT
<1>3. s \in 0 .. h - 1 /\ x = h * y + s /\ s \in Nat
  <2>1. s \in 0 .. h - 1 /\ x = h * y + s
    <3> HIDE DEF h
    <3> QED BY <1>1, <1>2, Division
  <2> HIDE DEF h, s, y
  <2> QED BY <1>1, <2>1, SMT
<1>4. ShiftRight(x, a) = {y}
  <2>1. a \in 0 .. W - 1
    BY Widths, SMT
  <2> QED BY <2>1 DEF ShiftRight
<1>5. p * s + y \in Word /\ p * s \in 0 .. Modulus - 1
  <2> HIDE DEF p, h, s, y, c
  <2>1. p * s <= p * (h - 1) /\ p * s >= 0 /\ p * s \in Int
    BY <1>1, <1>3, SMT
  <2>2. p * (h - 1) = Modulus - p
    BY <1>1, SMT
  <2> QED BY <1>1, <1>2, <2>1, <2>2, Widths, SMT DEF Word
<1>6. ShiftLeft(x, c) = {p * s}
  <2>1. c \in 0 .. W - 1
    BY <1>1, SMT
  <2>2. (x * p) % Modulus = p * s
    <3> HIDE DEF p, h, s, y, c
    <3> DEFINE M == Modulus
    <3>1. M \in Nat /\ M > 0 /\ M = p * h /\ p * s \in 0 .. M - 1
      BY <1>1, <1>5, Widths, SMT
    <3> HIDE DEF M
    <3>2. x * p = M * y + p * s /\ y \in Int
      <4>1. (h * y + s) * p = (p * h) * y + p * s
        BY <1>1, <1>2, <1>3, SMT
      <4> QED BY <1>2, <1>3, <3>1, <4>1
    <3>3. (M * y + p * s) % M = p * s
      BY <3>1, <3>2, DivisionUnique
    <3> QED BY <3>2, <3>3 DEF M
  <2> HIDE DEF s, c
  <2> QED BY <2>1, <2>2 DEF ShiftLeft
<1>7. v = p * s + y
  <2>1. v = BitOr(y, p * s)
    BY <1>4, <1>6 DEF Ror
  <2> HIDE DEF s, y, c
  <2> QED BY <1>1, <1>2, <1>3, <1>5, <2>1, OrIsSum
<1> HIDE DEF s, y
<1>8. CASE i < c
  <2>1. BitOf(v, i) = BitOf(y, i)
    <3>1. \A z \in Nat : z < c => BitOf(p * s + y, z) = BitOf(y, z)
      <4>1. c \in Nat /\ y \in 0 .. 2^c - 1 /\ s \in Nat
        BY <1>1, <1>2, <1>3
      <4> HIDE DEF c
      <4> QED BY <4>1, BitsOfSum
    <3> HIDE DEF c, p
    <3> QED BY <1>2, <1>7, <1>8, <3>1
  <2>2. BitOf(y, i) = BitOf(x, a + i)
    <3> HIDE DEF c
    <3> QED BY <1>1, <1>2, BitOfQuotient DEF y
  <2>3. a + i = (i + a) % W
    BY <1>1, <1>2, <1>8, SMT
  <2> QED BY <2>1, <2>2, <2>3
<1>9. CASE i >= c
  <2>1. BitOf(v, i) = BitOf(s, i - c)
    <3>1. \A z \in Nat : z >= c => BitOf(p * s + y, z) = BitOf(s, z - c)
      <4>1. c \in Nat /\ y \in 0 .. 2^c - 1 /\ s \in Nat
        BY <1>1, <1>2, <1>3
      <4> HIDE DEF c
      <4> QED BY <4>1, BitsOfSum
    <3> HIDE DEF c, p
    <3> QED BY <1>2, <1>7, <1>9, <3>1
  <2>2. i - c \in Nat /\ i - c < a /\ i - c = (i + a) % W
    <3>1. i + a - W \in 0 .. W - 1 /\ i + a = W * 1 + (i + a - W) /\ W > 0
          /\ i - c = i + a - W /\ i + a - W < a
      BY <1>1, <1>2, <1>9, SMT
    <3>2. (W * 1 + (i + a - W)) % W = i + a - W
      BY <1>2, <3>1, DivisionUnique
    <3> HIDE DEF c
    <3> QED BY <1>1, <1>2, <3>1, <3>2, SMT
  <2>3. BitOf(x, i - c) = BitOf(s, i - c)
    <3>1. \A z \in Nat : z < a => BitOf(h * y + s, z) = BitOf(s, z)
      <4>1. a \in Nat /\ s \in 0 .. 2^a - 1 /\ y \in Nat
        BY <1>1, <1>2, <1>3
      <4> QED BY <4>1, BitsOfSum
    <3> HIDE DEF c, h
    <3> QED BY <1>3, <2>2, <3>1
  <2> QED BY <2>1, <2>2, <2>3
<1>10. i < c \/ i >= c
  BY <1>1, <1>2, SMT
<1> QED BY <1>8, <1>9, <1>10

\* Both halves of shift, for an amount that leaves a part of the word.
LEMMA PartExact ==
  ASSUME NEW x \in Word, NEW mode \in LSL .. ROR, NEW a \in 1 .. W - 1,
         NEW sh \in ShiftByImmediate(mode, x, a) \union ShiftByRegister(mode, x, a)
  PROVE  MovedBy(mode, x, a, sh)
<1> USE DEF MovedBy
<1>1. a # 0 /\ a # W /\ a \in 0 .. W - 1 /\ W \in Nat
  BY Widths, SMT
<1>2. /\ LSL # LSR /\ LSL # ASR /\ LSL # ROR
      /\ LSR # ASR /\ LSR # ROR /\ ASR # ROR
  BY SMT DEF LSL, LSR, ASR, ROR
<1>3. mode = LSL \/ mode = LSR \/ mode = ASR \/ mode = ROR
  BY SMT DEF LSL, LSR, ASR, ROR
<1>4. CASE mode = LSL
  <2>1. sh \in {(x * 2^a) % Modulus} \X {BitOf(x, W - a)}
    BY <1>1, <1>2, <1>4 DEF ShiftByImmediate, ShiftByRegister, ShiftLeft
  <2>2. sh[1] = (x * 2^a) % Modulus /\ sh[2] = BitOf(x, W - a)
    BY <2>1
  <2> QED BY <1>2, <1>4, <2>2, LeftExact
<1>5. CASE mode = LSR
  <2>1. sh \in {x \div 2^a} \X {BitOf(x, a - 1)}
    BY <1>1, <1>2, <1>5 DEF ShiftByImmediate, ShiftByRegister, ShiftRight
  <2>2. sh[1] = x \div 2^a /\ sh[2] = BitOf(x, a - 1)
    BY <2>1
  <2> QED BY <1>2, <1>5, <2>2, RightExact
<1>6. CASE mode = ASR
  <2>1. sh \in Asr(x, a) \X {BitOf(x, a - 1)}
    BY <1>1, <1>2, <1>6 DEF ShiftByImmediate, ShiftByRegister
  <2>2. sh[1] \in Asr(x, a) /\ sh[2] = BitOf(x, a - 1)
    BY <2>1
  <2> QED BY <1>2, <1>6, <2>2, AsrExact
<1>7. CASE mode = ROR
  <2>1. \E carry : sh \in Ror(x, a) \X carry
    BY <1>1, <1>2, <1>7 DEF ShiftByImmediate, ShiftByRegister
  <2>2. sh[1] \in Ror(x, a)
    BY <2>1
  <2> QED BY <1>2, <1>7, <2>2, RorExact
<1> QED BY <1>3, <1>4, <1>5, <1>6, <1>7

\* The modes, apart.
LEMMA Modes ==
  /\ LSL # LSR /\ LSL # ASR /\ LSL # ROR
  /\ LSR # ASR /\ LSR # ROR /\ ASR # ROR
  /\ \A mode \in LSL .. ROR :
       mode = LSL \/ mode = LSR \/ mode = ASR \/ mode = ROR
BY SMT DEF LSL, LSR, ASR, ROR

\* The union with the word of ones.
LEMMA OrAll == ASSUME NEW x \in Word PROVE BitOr(x, Modulus - 1) = Modulus - 1
<1> DEFINE ones == BitNot(0)
<1>1. ones = Modulus - 1 /\ 0 \in Word /\ x \in Nat /\ 0 \in Nat /\ 0 < 2^0
  BY Widths, WordNat, PowerZero, SMT DEF Word, BitNot
<1>2. ones \in Word /\ \A i \in 0 .. W - 1 : BitOf(ones, i) = 1 - BitOf(0, i)
  BY <1>1, BitwiseNot
<1>3. ones \in Nat
  BY <1>2, WordNat
<1> HIDE DEF ones
<1>4. ASSUME NEW i \in 0 .. W - 1
      PROVE  BitOf(BitOr(x, ones), i) = BitOf(ones, i)
  <2>1. i \in Nat /\ i >= 0
    BY Widths, SMT
  <2>2. BitOf(0, i) = 0
    BY <1>1, <2>1, SmallQuotient
  <2>3. BitOf(BitOr(x, ones), i) = Truth(BitOf(x, i) + BitOf(ones, i) > 0)
    BY <1>1, <1>3, BitwiseOr
  <2>4. BitOf(x, i) \in Bit /\ BitOf(ones, i) = 1
    BY <1>1, <1>2, <2>1, <2>2, BitType
  <2>5. \A b \in Bit : Truth(b + 1 > 0) = 1
    BY SMT DEF Bit, Truth
  <2> QED BY <2>3, <2>4, <2>5
<1>5. BitOr(x, ones) \in Word
  BY <1>1, <1>3, BitwiseOr
<1> QED BY <1>1, <1>2, <1>4, <1>5, BitsDetermine

\* The second half of shift, for an amount of 0.
LEMMA ByZero ==
  ASSUME NEW x \in Word, NEW mode \in LSL .. ROR,
         NEW sh \in ShiftByRegister(mode, x, 0)
  PROVE  ZeroInRegister(mode, x, sh)
<1>1. /\ 0 # W /\ 0 \in 0 .. W - 1 /\ 0 \notin 1 .. W - 1 /\ W - 0 = W
      /\ W \notin 0 .. W - 1 /\ W % W = 0 /\ x \in Nat
  BY Widths, WordNat, SMT
<1>2. /\ x * 2^0 = x /\ x \div 2^0 = x /\ x % Modulus = x
      /\ ((Modulus - 1) * 2^0) % Modulus = Modulus - 1
  <2>1. x * 1 = x /\ x \div 1 = x
    BY <1>1, SMT
  <2>2. Modulus - 1 \in Word /\ (Modulus - 1) * 1 = Modulus - 1
    BY Widths, SMT DEF Word
  <2> QED BY <2>1, <2>2, PowerZero, WordReduced
<1>3. ShiftRight(x, 0) = {x} /\ ShiftLeft(x, 0) = {x}
  BY <1>1, <1>2 DEF ShiftRight, ShiftLeft
<1>4. /\ ShiftLeft(x, W) = {x, 0}
      /\ ShiftLeft(Modulus - 1, W) = {Modulus - 1, 0}
  BY <1>1, <1>2 DEF ShiftLeft
<1>5. /\ Top(x) # 1 => Asr(x, 0) = {x}
      /\ Top(x) = 1 => Asr(x, 0) \subseteq {x, Modulus - 1}
  <2>1. BitOr(x, 0) = x /\ BitOr(x, Modulus - 1) = Modulus - 1
    BY OrSame, OrAll
  <2> QED BY <1>1, <1>3, <1>4, <2>1 DEF Asr
<1>6. Ror(x, 0) = {x}
  <2>1. BitOr(x, 0) = x /\ BitOr(x, x) = x
    BY OrSame
  <2> QED BY <1>1, <1>3, <1>4, <2>1 DEF Ror
<1>7. CASE mode = LSL
  <2>1. sh \in {x} \X {cpsr.c}
    BY <1>1, <1>3, <1>7, Modes DEF ShiftByRegister
  <2> QED BY <2>1 DEF ZeroInRegister
<1>8. CASE mode = LSR
  <2>1. sh \in {x} \X {cpsr.c}
    BY <1>1, <1>3, <1>8, Modes DEF ShiftByRegister
  <2> QED BY <2>1 DEF ZeroInRegister
<1>9. CASE mode = ASR
  <2>1. sh \in Asr(x, 0) \X {cpsr.c}
    BY <1>1, <1>9, Modes DEF ShiftByRegister
  <2> QED BY <1>5, <1>9, <2>1 DEF ZeroInRegister
<1>10. CASE mode = ROR
  <2>1. sh \in {x} \X {cpsr.c}
    BY <1>1, <1>6, <1>10, Modes DEF ShiftByRegister
  <2> QED BY <2>1 DEF ZeroInRegister
<1> QED BY <1>7, <1>8, <1>9, <1>10, Modes

\* Its first half, for an amount of 0.
LEMMA ByNothing ==
  ASSUME TypeOK, NEW x \in Word, NEW mode \in LSL .. ROR,
         NEW sh \in ShiftByImmediate(mode, x, 0)
  PROVE  ZeroInInstruction(mode, x, sh)
<1> DEFINE h == 2^(W - 1)  c == cpsr.c
<1>1. /\ h \in Nat /\ h > 0 /\ Modulus = 2 * h /\ W - 1 \in Nat
      /\ x \in Nat /\ x < Modulus /\ c \in Bit
  BY Widths, WordNat, PowerPositive DEF TypeOK, Cpsr
<1>2. CASE mode = LSL
  <2>1. sh = <<x, cpsr.c>>
    BY <1>2, Modes DEF ShiftByImmediate
  <2> QED BY <1>2, <2>1, Modes DEF ZeroInInstruction
<1>3. CASE mode = LSR
  <2>1. sh \in ShiftRight(x, 0) \X {Top(x)}
    BY <1>3, Modes DEF ShiftByImmediate
  <2>2. sh[2] = Top(x)
    BY <2>1
  <2> QED BY <1>3, <2>2, Modes DEF ZeroInInstruction
<1>4. CASE mode = ASR
  <2>1. sh[1] = Top(x) * (Modulus - 1) /\ sh[2] = Top(x)
    BY <1>4, Modes DEF ShiftByImmediate
  <2>2. Signed(sh[1]) = 0 - Top(x)
    <3>1. CASE Top(x) = 0
      <4>1. 0 * (Modulus - 1) = 0 /\ 0 \in Word /\ 0 < h
        BY <1>1, Widths, SMT DEF Word
      <4>2. 0 - 0 = 0
        BY SMT
      <4> QED BY <2>1, <3>1, <4>1, <4>2, SignedIs
    <3>2. CASE Top(x) = 1
      <4>1. sh[1] = Modulus - 1 /\ Modulus - 1 \in Word
        BY <1>1, <2>1, <3>2, SMT DEF Word
      <4>2. Modulus - 1 >= h /\ (Modulus - 1) - Modulus = 0 - 1
        BY <1>1, SMT
      <4> QED BY <3>2, <4>1, <4>2, SignedIs
    <3> QED BY <3>1, <3>2, TopType DEF Bit
  <2> QED BY <1>4, <2>1, <2>2, Modes DEF ZeroInInstruction
<1>5. CASE mode = ROR
  <2> DEFINE y == x \div 2
  <2>1. sh[1] = BitOr(y, c * h) /\ sh[2] = BitOf(x, 0)
    BY <1>5, Modes DEF ShiftByImmediate
  <2>2. BitOf(x, 0) = x % 2
    <3>1. x \div 1 = x
      BY <1>1, SMT
    <3> QED BY <3>1, PowerZero DEF BitOf
  <2>3. /\ y \in 0 .. h - 1 /\ y \in Nat /\ c \in Nat /\ c * h = h * c
        /\ h * c + y \in 0 .. Modulus - 1 /\ x = 2 * y + (x % 2)
        /\ 2 * (h * c + y) + (x % 2) = c * Modulus + x
    <3>1. CASE c = 0
      <4> HIDE DEF h, c
      <4> QED BY <1>1, <3>1, SMT
    <3>2. CASE c = 1
      <4> HIDE DEF h, c
      <4> QED BY <1>1, <3>2, SMT
    <3> QED BY <1>1, <3>1, <3>2 DEF Bit
  <2>4. BitOr(y, h * c) = h * c + y
    <3> DEFINE k == W - 1
    <3>1. k \in Nat /\ y \in 0 .. 2^k - 1 /\ c \in Nat /\ 2^k * c + y \in Word
      BY <1>1, <2>3 DEF Word
    <3> HIDE DEF k, y, c
    <3>2. BitOr(y, 2^k * c) = 2^k * c + y
      BY <3>1, OrIsSum
    <3> QED BY <3>2 DEF k
  <2>5. 2 * sh[1] + sh[2] = c * Modulus + x
    <3>1. sh[1] = h * c + y /\ sh[2] = x % 2
      BY <2>1, <2>2, <2>3, <2>4
    <3> HIDE DEF y, h, c
    <3> QED BY <2>3, <3>1
  <2> QED BY <1>5, <2>5, Modes DEF ZeroInInstruction
<1> QED BY <1>2, <1>3, <1>4, <1>5, Modes

\* The carry of a rotation by part of a word, and that of the long shifts.
LEMMA RotationCarry ==
  ASSUME NEW x \in Word, NEW a \in 1 .. W - 1, NEW sh,
         \/ sh \in ShiftByImmediate(ROR, x, a)
         \/ sh \in ShiftByRegister(ROR, x, a) /\ a < W \div 2
  PROVE  sh[2] = BitOf(x, a - 1)
<1>1. a # 0 /\ a - 1 \in 0 .. W - 1
  BY Widths, SMT
<1>2. CASE sh \in ShiftByImmediate(ROR, x, a)
  <2>1. sh \in Ror(x, a) \X {BitOf(x, a - 1)}
    BY <1>1, <1>2, Modes DEF ShiftByImmediate
  <2> QED BY <2>1
<1>3. CASE sh \in ShiftByRegister(ROR, x, a) /\ a < W \div 2
  <2>1. a % (W \div 2) = a
    BY <1>3, Widths, SMT
  <2>2. sh \in Ror(x, a) \X BitsOf(x, a - 1)
    BY <1>1, <1>3, <2>1, Modes DEF ShiftByRegister
  <2>3. BitsOf(x, a - 1) = {BitOf(x, a - 1)}
    BY <1>1 DEF BitsOf, ShiftRight, BitOf
  <2> QED BY <2>2, <2>3
<1> QED BY <1>2, <1>3

LEMMA LongCarry ==
  ASSUME NEW x \in Word, NEW mode \in {LSL, LSR}, NEW a \in Nat, a >= W,
         NEW sh \in ShiftByRegister(mode, x, a)
  PROVE  sh[2] = IF a > W THEN 0 ELSE IF mode = LSL THEN BitOf(x, 0) ELSE Top(x)
<1>1. a # 0 /\ a \notin 1 .. W - 1 /\ (a > W <=> a # W)
  BY Widths, SMT
<1>2. sh \in RegisterValue(mode, x, a) \X RegisterCarry(mode, x, a)
  BY DEF ShiftByRegister, RegisterValue, RegisterCarry
<1>3. RegisterCarry(mode, x, a)
        = {IF a > W THEN 0 ELSE IF mode = LSL THEN BitOf(x, 0) ELSE Top(x)}
  BY <1>1, Modes DEF RegisterCarry
<1> QED BY <1>2, <1>3

\* What the shifter yields, for all words and all amounts but the cases that
\* the property names (arm_data_processing.c:237-354).
THEOREM ShiftCorrect == Spec => []ShiftTrue
<1>1. TypeOK => ShiftTrue
  <2> SUFFICES ASSUME TypeOK, NEW ins \in Guest, ins.operand.kind # "rotate",
                      NEW sh \in Shifted(ins.operand)
      PROVE  LET x == Read(ins.operand.rm)
                 byRegister == ins.operand.kind = "shift_reg"
                 amount == IF byRegister THEN Read(ins.operand.rs) % Amounts
                                         ELSE ins.operand.amount
                 mode == ins.operand.mode
             IN /\ amount \in 1 .. W - 1 => MovedBy(mode, x, amount, sh)
                /\ mode = ROR /\ amount \in 1 .. W - 1
                     /\ (byRegister => amount < W \div 2)
                     => sh[2] = BitOf(x, amount - 1)
                /\ amount = 0 =>
                     IF byRegister THEN ZeroInRegister(mode, x, sh)
                                   ELSE ZeroInInstruction(mode, x, sh)
                /\ amount = W => CASE mode = LSL -> sh[2] = BitOf(x, 0)
                                   [] mode = LSR -> sh[2] = Top(x)
                                   [] OTHER -> TRUE
                /\ amount > W /\ mode \in {LSL, LSR} => sh[2] = 0
    BY DEF ShiftTrue
  <2> DEFINE x == Read(ins.operand.rm)
             byRegister == ins.operand.kind = "shift_reg"
             amount == IF byRegister THEN Read(ins.operand.rs) % Amounts
                                     ELSE ins.operand.amount
             mode == ins.operand.mode
  <2>1. /\ ins.operand.kind \in {"shift_imm", "shift_reg"}
        /\ ins.operand.rm \in Reg /\ mode \in LSL .. ROR
        /\ byRegister => ins.operand.rs \in Reg
        /\ ~byRegister => ins.operand.amount \in 0 .. W - 1
    BY GuestFields DEF Operand
  <2>2. x \in Word
    BY <2>1, ReadWord
  <2>3. IF byRegister THEN sh \in ShiftByRegister(mode, x, amount)
                      ELSE sh \in ShiftByImmediate(mode, x, amount)
    BY <2>1 DEF Shifted
  <2>4. amount \in Nat /\ (~byRegister => amount < W)
    <3>1. CASE byRegister
      <4>1. Read(ins.operand.rs) \in Nat
        BY <2>1, <3>1, ReadWord, WordNat
      <4> QED BY <3>1, <4>1, InstructionAssumption, SMT
    <3>2. CASE ~byRegister
      BY <2>1, <3>2, Widths, SMT
    <3> QED BY <3>1, <3>2
  <2> HIDE DEF x, byRegister, amount, mode
  <2>5. ASSUME amount \in 1 .. W - 1
        PROVE  MovedBy(mode, x, amount, sh)
    BY <2>1, <2>2, <2>3, <2>5, PartExact
  <2>6. ASSUME mode = ROR, amount \in 1 .. W - 1,
               byRegister => amount < W \div 2
        PROVE  sh[2] = BitOf(x, amount - 1)
    BY <2>2, <2>3, <2>6, RotationCarry
  <2>7. ASSUME amount = 0
        PROVE  IF byRegister THEN ZeroInRegister(mode, x, sh)
                             ELSE ZeroInInstruction(mode, x, sh)
    BY <2>1, <2>2, <2>3, <2>7, ByZero, ByNothing
  <2>8. ASSUME amount >= W, mode \in {LSL, LSR}
        PROVE  sh[2] = IF amount > W THEN 0
                         ELSE IF mode = LSL THEN BitOf(x, 0) ELSE Top(x)
    <3>1. byRegister
      BY <2>4, <2>8, Widths, SMT
    <3> QED BY <2>2, <2>3, <2>4, <2>8, <3>1, LongCarry
  <2>9. /\ amount = W => amount >= W /\ ~(amount > W)
        /\ amount > W => amount >= W
    BY <2>4, Widths, SMT
  <2>10. amount = W => CASE mode = LSL -> sh[2] = BitOf(x, 0)
                         [] mode = LSR -> sh[2] = Top(x)
                         [] OTHER -> TRUE
    BY <2>8, <2>9, Modes
  <2>11. amount > W /\ mode \in {LSL, LSR} => sh[2] = 0
    BY <2>8, <2>9
  <2> QED BY <2>5, <2>6, <2>7, <2>10, <2>11 DEF x, byRegister, amount, mode
<1> QED BY <1>1, TypeCorrect, PTL DEF Spec
=============================================================================
