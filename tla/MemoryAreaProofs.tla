------------------------- MODULE MemoryAreaProofs -------------------------
(***************************************************************************)
(* Proofs about the memory, for any size, any address space and any radix: *)
(* the state keeps its type, what is written is read back in either        *)
(* endianness, and a call changes only the bytes of its own write.         *)
(***************************************************************************)
EXTENDS MemoryArea, TLAPS

\* Division with remainder.
LEMMA DivMod ==
  ASSUME NEW v \in Nat, NEW r \in Nat, r > 1
  PROVE  v = ((v \div r) * r) + (v % r) /\ v \div r \in Nat /\ v % r \in 0 .. r - 1
BY SMT

\* Two shifts by r and by s are one by both.
LEMMA DivDiv ==
  ASSUME NEW v \in Nat, NEW r \in Nat, NEW s \in Nat, r > 1, s > 1
  PROVE  v \div (r * s) = (v \div r) \div s
BY SMT

\* A bound on a product bounds the quotient.
LEMMA DivBound ==
  ASSUME NEW v \in Nat, NEW r \in Nat, NEW s \in Nat, r > 1, s > 0, v < r * s
  PROVE  v \div r < s
BY SMT

\* The digits of a value are bytes (memory.c:101-125 store into uint8_t).
LEMMA DigitsType ==
  ASSUME NEW v \in Nat
  PROVE  /\ Digit0(v) \in Byte /\ Digit1(v) \in Byte
         /\ Digit2(v) \in Byte /\ Digit3(v) \in Byte
<1>1. Digit0(v) \in Byte /\ Digit1(v) \in Byte
  BY RadixAssumption, SMT DEF Digit0, Digit1, Byte
<1>2. Radix * Radix \in Nat /\ Radix * Radix > 1
  BY RadixAssumption, SMT
<1>3. v \div (Radix * Radix) \in Nat
  BY <1>2, DivMod
<1>4. Radix * Radix * Radix \in Nat /\ Radix * Radix * Radix > 1
  BY <1>2, RadixAssumption, SMT
<1>5. v \div (Radix * Radix * Radix) \in Nat
  BY <1>4, DivMod
<1> QED BY <1>1, <1>3, <1>5, RadixAssumption, DivMod DEF Digit2, Digit3, Byte

\* Two digits make up a half-word (memory.c:64-67).
LEMMA HalfDigits ==
  ASSUME NEW v \in Half
  PROVE  Digit1(v) * Radix + Digit0(v) = v
BY RadixAssumption, SMT DEF Half, Digit1, Digit0

\* Four digits make up a word (memory.c:77-80).
LEMMA WordDigits ==
  ASSUME NEW v \in Word
  PROVE  ((Digit3(v) * Radix + Digit2(v)) * Radix + Digit1(v)) * Radix
           + Digit0(v) = v
<1> DEFINE v1 == v \div Radix
           v2 == v1 \div Radix
           v3 == v2 \div Radix
           R2 == Radix * Radix
<1>1. v \in Nat /\ Radix \in Nat /\ Radix > 1
  BY RadixAssumption, SMT DEF Word
<1>2. v1 \in Nat /\ v = (v1 * Radix) + (v % Radix)
  BY <1>1, DivMod
<1>3. v2 \in Nat /\ v1 = (v2 * Radix) + (v1 % Radix)
  BY <1>1, <1>2, DivMod
<1>4. v3 \in Nat /\ v2 = (v3 * Radix) + (v2 % Radix)
  BY <1>1, <1>3, DivMod
<1>5. R2 \in Nat /\ R2 > 1
  BY <1>1, SMT
<1>6. v \div (Radix * Radix) = v2
  BY <1>1, DivDiv
<1>7. v \div (Radix * Radix * Radix) = v3
  <2>1. v \div (R2 * Radix) = (v \div R2) \div Radix
    <3> HIDE DEF R2
    <3> QED BY <1>1, <1>5, DivDiv
  <2> QED BY <2>1, <1>6
<1>8. v3 < Radix
  <2>1. v < Radix * (Radix * R2)
    BY <1>1, SMT DEF Word
  <2>2. v1 < Radix * R2
    <3> DEFINE R3 == Radix * R2
    <3>1. R3 \in Nat /\ R3 > 0 /\ v < Radix * R3
      BY <1>1, <1>5, <2>1, SMT
    <3> HIDE DEF R3
    <3>2. v \div Radix < R3
      BY <1>1, <3>1, DivBound
    <3> QED BY <3>2 DEF R3
  <2>3. v2 < R2
    <3>1. v1 \in Nat /\ R2 \in Nat /\ R2 > 0
      BY <1>2, <1>5, SMT
    <3> HIDE DEF v1, R2
    <3> QED BY <1>1, <2>2, <3>1, DivBound
  <2>4. v2 \in Nat /\ v2 < Radix * Radix /\ Radix \in Nat /\ Radix > 0
    BY <1>1, <1>3, <2>3, SMT
  <2> HIDE DEF v2
  <2> QED BY <1>1, <2>4, DivBound
<1>9. v3 % Radix = v3
  BY <1>1, <1>4, <1>8, SMT
<1>10. /\ Digit0(v) = v % Radix /\ Digit1(v) = v1 % Radix
       /\ Digit2(v) = v2 % Radix /\ Digit3(v) = v3
  BY <1>6, <1>7, <1>9 DEF Digit0, Digit1, Digit2, Digit3
<1> HIDE DEF v1, v2, v3
<1> QED BY <1>2, <1>3, <1>4, <1>10

\* The digits of two bytes side by side (memory.c:60-71).
LEMMA DigitsOfHalf ==
  ASSUME NEW a \in Byte, NEW b \in Byte
  PROVE  LET v == a * Radix + b
         IN  v \in Half /\ Digit1(v) = a /\ Digit0(v) = b
<1>1. Digit1(a * Radix + b) = a /\ Digit0(a * Radix + b) = b
  BY RadixAssumption, SMT DEF Byte, Digit1, Digit0
<1>2. a * Radix + b \in Half
  BY RadixAssumption, SMT DEF Byte, Half
<1> QED BY <1>1, <1>2

\* The digits of four bytes side by side (memory.c:73-85).
LEMMA DigitsOfWord ==
  ASSUME NEW a \in Byte, NEW b \in Byte, NEW c \in Byte, NEW d \in Byte
  PROVE  LET v == ((a * Radix + b) * Radix + c) * Radix + d
         IN  /\ v \in Word
             /\ Digit3(v) = a /\ Digit2(v) = b /\ Digit1(v) = c
             /\ Digit0(v) = d
<1> DEFINE v2 == a * Radix + b
           v1 == v2 * Radix + c
           v == v1 * Radix + d
           R2 == Radix * Radix
<1>1. /\ Radix \in Nat /\ Radix > 1
      /\ a \in Nat /\ b \in Nat /\ c \in Nat /\ d \in Nat
      /\ a < Radix /\ b < Radix /\ c < Radix /\ d < Radix
  BY RadixAssumption, SMT DEF Byte
<1>2. R2 \in Nat /\ R2 > 1
  BY <1>1, SMT
<1>3. v2 \in Nat /\ v2 < R2 /\ v2 \div Radix = a /\ v2 % Radix = b
  BY <1>1, SMT
<1> HIDE DEF v2
<1>4. v1 \in Nat /\ v1 < R2 * Radix /\ v1 \div Radix = v2 /\ v1 % Radix = c
  <2>1. v1 \in Nat /\ v1 \div Radix = v2 /\ v1 % Radix = c
    BY <1>1, <1>3, SMT
  <2>2. v1 < R2 * Radix
    BY <1>1, <1>2, <1>3, SMT
  <2> QED BY <2>1, <2>2
<1> HIDE DEF v1
<1>5. /\ v \in Nat /\ v < R2 * Radix * Radix
      /\ v \div Radix = v1 /\ v % Radix = d
  <2>1. v \in Nat /\ v \div Radix = v1 /\ v % Radix = d
    BY <1>1, <1>4, SMT
  <2>2. R2 * Radix \in Nat
    BY <1>1, <1>2, SMT
  <2> DEFINE R3 == R2 * Radix
  <2>3. v1 < R3 /\ R3 \in Nat
    BY <1>4, <2>2
  <2> HIDE DEF R3
  <2>4. v < R3 * Radix
    BY <1>1, <1>4, <2>3, SMT
  <2> QED BY <2>1, <2>4 DEF R3
<1> HIDE DEF v
<1>6. v \div R2 = v2
  <2>1. v \div (Radix * Radix) = (v \div Radix) \div Radix
    <3>1. v \in Nat /\ Radix \in Nat /\ Radix > 1
      BY <1>1, <1>5
    <3> QED BY <3>1, DivDiv
  <2> QED BY <2>1, <1>4, <1>5
<1>7. v \div (R2 * Radix) = a
  <2>1. v \div (R2 * Radix) = (v \div R2) \div Radix
    <3>1. /\ v \in Nat /\ Radix \in Nat /\ Radix > 1
          /\ R2 \in Nat /\ R2 > 1
      BY <1>1, <1>2, <1>5
    <3> HIDE DEF R2
    <3> QED BY <3>1, DivDiv
  <2> QED BY <2>1, <1>3, <1>6
<1>8. a % Radix = a
  BY <1>1, SMT
<1>9. /\ Digit3(v) = a /\ Digit2(v) = b /\ Digit1(v) = c /\ Digit0(v) = d
  BY <1>3, <1>4, <1>5, <1>6, <1>7, <1>8
     DEF Digit0, Digit1, Digit2, Digit3
<1>10. v \in Word
  BY <1>1, <1>5, SMT DEF Word
<1> QED BY <1>9, <1>10 DEF v, v1, v2

\* An access inside the memory does not wrap: a wrapping one touches the last
\* address, which is no index (memory.c:60-129).
LEMMA InsideAt ==
  ASSUME NEW a \in Address
  PROVE  /\ Inside(a, 1) => a \in Index
         /\ Inside(a, 2) => a \in Index /\ At(a, 1) = a + 1 /\ a + 1 \in Index
         /\ Inside(a, 4) =>
              /\ a \in Index /\ a + 1 \in Index /\ a + 2 \in Index
              /\ a + 3 \in Index
              /\ At(a, 1) = a + 1 /\ At(a, 2) = a + 2 /\ At(a, 3) = a + 3
<1>1. /\ Size \in Nat /\ Space \in Nat /\ Size < Space /\ Space >= 4
      /\ a \in Nat /\ a < Space
  BY SizeAssumption, SMT DEF Address
<1>2. \A i \in Nat : a + i < Space => At(a, i) = a + i
  BY <1>1, SMT DEF At
<1>3. At(a, 0) = a
  BY <1>1, <1>2, SMT
<1>4. \A n \in {1, 2, 4}, i \in Nat : i < n /\ Inside(a, n) => At(a, i) \in Index
  BY DEF Inside, Touched
<1>5. \A i \in Nat : a + i \in Index => At(a, i + 1) = a + (i + 1)
  BY <1>1, <1>2, SMT DEF Index
<1>6. ASSUME NEW n \in {1, 2, 4}, Inside(a, n) PROVE a \in Index
  BY <1>3, <1>4, <1>6
<1>7. ASSUME NEW n \in {2, 4}, Inside(a, n)
      PROVE  At(a, 1) = a + 1 /\ a + 1 \in Index
  <2>1. a + 0 \in Index
    BY <1>1, <1>6, <1>7
  <2>2. At(a, 1) = a + 1
    BY <1>1, <1>5, <2>1
  <2> QED BY <1>4, <1>7, <2>2
<1>8. ASSUME Inside(a, 4)
      PROVE  /\ At(a, 2) = a + 2 /\ a + 2 \in Index
             /\ At(a, 3) = a + 3 /\ a + 3 \in Index
  <2>1. a + 1 \in Index
    BY <1>7, <1>8
  <2>2. At(a, 2) = a + 2
    BY <1>1, <1>5, <2>1
  <2>3. a + 2 \in Index
    BY <1>4, <1>8, <2>2
  <2>4. At(a, 3) = a + 3
    BY <1>1, <1>5, <2>3
  <2> QED BY <1>4, <1>8, <2>2, <2>3, <2>4
<1> QED BY <1>6, <1>7, <1>8

\* A half-word is read back whole, or reversed in the other endianness, and
\* writing it touches nothing else (memory.c:96-109).
LEMMA HalfBack ==
  ASSUME NEW m \in [Index -> Byte], NEW a \in Address, Inside(a, 2),
         NEW v \in Half, NEW be \in Endianness,
         NEW stored, stored = HalfStored(m, a, v, be)
  PROVE  /\ stored \in [Index -> Byte]
         /\ HalfAt(stored, a, be) = v
         /\ HalfAt(stored, a, 1 - be) = Reverse2(v)
         /\ \A i \in Index : i \notin {a, At(a, 1)} => stored[i] = m[i]
<1>1. a \in Index /\ a + 1 \in Index /\ At(a, 1) = a + 1 /\ a # a + 1
  <2>1. a \in Int
    BY DEF Address
  <2> QED BY <2>1, InsideAt
<1>2. /\ Digit0(v) \in Byte /\ Digit1(v) \in Byte
      /\ Digit1(v) * Radix + Digit0(v) = v
  <2>1. v \in Nat
    BY RadixAssumption, SMT DEF Half
  <2> QED BY <2>1, DigitsType, HalfDigits
<1>3. CASE be = 1
  <2>1. /\ stored \in [Index -> Byte]
        /\ stored[a] = Digit1(v) /\ stored[a + 1] = Digit0(v)
        /\ \A i \in Index : i \notin {a, a + 1} => stored[i] = m[i]
    BY <1>1, <1>2, <1>3 DEF HalfStored
  <2> QED BY <1>1, <1>2, <1>3, <2>1 DEF HalfAt
<1>4. CASE be = 0
  <2>1. /\ stored \in [Index -> Byte]
        /\ stored[a] = Digit0(v) /\ stored[a + 1] = Digit1(v)
        /\ \A i \in Index : i \notin {a, a + 1} => stored[i] = m[i]
    BY <1>1, <1>2, <1>4 DEF HalfStored
  <2>2. Reverse2(Digit0(v) * Radix + Digit1(v)) = v
    BY <1>2, DigitsOfHalf DEF Reverse2
  <2> QED BY <1>1, <1>4, <2>1, <2>2 DEF HalfAt, Reverse2
<1> QED BY <1>3, <1>4 DEF Endianness

\* The same of a word (memory.c:111-129).
LEMMA WordBack ==
  ASSUME NEW m \in [Index -> Byte], NEW a \in Address, Inside(a, 4),
         NEW v \in Word, NEW be \in Endianness,
         NEW stored, stored = WordStored(m, a, v, be)
  PROVE  /\ stored \in [Index -> Byte]
         /\ WordAt(stored, a, be) = v
         /\ WordAt(stored, a, 1 - be) = Reverse4(v)
         /\ \A i \in Index :
              i \notin {a, At(a, 1), At(a, 2), At(a, 3)} => stored[i] = m[i]
<1>1. /\ a \in Index /\ a + 1 \in Index /\ a + 2 \in Index /\ a + 3 \in Index
      /\ At(a, 1) = a + 1 /\ At(a, 2) = a + 2 /\ At(a, 3) = a + 3
  BY InsideAt
<1>d. /\ a # a + 1 /\ a # a + 2 /\ a # a + 3
      /\ a + 1 # a + 2 /\ a + 1 # a + 3 /\ a + 2 # a + 3
  <2>1. a \in Int
    BY DEF Address
  <2> QED BY <2>1
<1>2. /\ Digit0(v) \in Byte /\ Digit1(v) \in Byte
      /\ Digit2(v) \in Byte /\ Digit3(v) \in Byte
      /\ ((Digit3(v) * Radix + Digit2(v)) * Radix + Digit1(v)) * Radix
           + Digit0(v) = v
  <2>1. v \in Nat
    BY RadixAssumption, SMT DEF Word
  <2> QED BY <2>1, DigitsType, WordDigits
<1>3. CASE be = 1
  <2>1. /\ stored \in [Index -> Byte]
        /\ stored[a] = Digit3(v) /\ stored[a + 1] = Digit2(v)
        /\ stored[a + 2] = Digit1(v) /\ stored[a + 3] = Digit0(v)
        /\ \A i \in Index :
             i \notin {a, a + 1, a + 2, a + 3} => stored[i] = m[i]
    BY <1>1, <1>d, <1>2, <1>3 DEF WordStored
  <2> QED BY <1>1, <1>2, <1>3, <2>1 DEF WordAt
<1>4. CASE be = 0
  <2>1. /\ stored \in [Index -> Byte]
        /\ stored[a] = Digit0(v) /\ stored[a + 1] = Digit1(v)
        /\ stored[a + 2] = Digit2(v) /\ stored[a + 3] = Digit3(v)
        /\ \A i \in Index :
             i \notin {a, a + 1, a + 2, a + 3} => stored[i] = m[i]
    BY <1>1, <1>d, <1>2, <1>4 DEF WordStored
  <2>2. Reverse4(((Digit0(v) * Radix + Digit1(v)) * Radix + Digit2(v)) * Radix
                   + Digit3(v)) = v
    BY <1>2, DigitsOfWord DEF Reverse4
  <2> QED BY <1>1, <1>4, <2>1, <2>2 DEF WordAt, Reverse4
<1> QED BY <1>3, <1>4 DEF Endianness

\* What a read yields fits a word (memory.c:60-85).
LEMMA ReadType ==
  ASSUME NEW m \in [Index -> Byte], NEW a \in Address, NEW be \in Endianness
  PROVE  /\ Byte \subseteq Word
         /\ Inside(a, 2) => HalfAt(m, a, be) \in Word
         /\ Inside(a, 4) => WordAt(m, a, be) \in Word
<1>1. Half \subseteq Word
  <2>1. /\ Radix \in Nat /\ Radix > 1 /\ Radix * Radix \in Nat
        /\ Radix * Radix > 1
    BY RadixAssumption, SMT
  <2> DEFINE R2 == Radix * Radix
  <2>2. R2 * R2 >= R2 /\ R2 * R2 = Radix * Radix * Radix * Radix
    BY <2>1, SMT
  <2>3. \A x \in Nat : x < R2 => x < Radix * Radix * Radix * Radix
    BY <2>1, <2>2, SMT
  <2> QED BY <2>1, <2>3, SMT DEF Half, Word
<1>2. Byte \subseteq Half
  BY RadixAssumption, SMT DEF Byte, Half
<1>3. ASSUME Inside(a, 2) PROVE HalfAt(m, a, be) \in Half
  <2>1. m[a] \in Byte /\ m[At(a, 1)] \in Byte
    BY <1>3, InsideAt
  <2>2. ASSUME NEW x \in Byte, NEW y \in Byte PROVE x * Radix + y \in Half
    BY DigitsOfHalf
  <2>3. Reverse2(m[a] * Radix + m[At(a, 1)]) \in Half
    BY <2>1, <2>2, DigitsOfHalf DEF Reverse2
  <2> QED BY <2>1, <2>2, <2>3 DEF HalfAt
<1>4. ASSUME Inside(a, 4) PROVE WordAt(m, a, be) \in Word
  <2>1. /\ m[a] \in Byte /\ m[At(a, 1)] \in Byte
        /\ m[At(a, 2)] \in Byte /\ m[At(a, 3)] \in Byte
    BY <1>4, InsideAt
  <2> DEFINE big == ((m[a] * Radix + m[At(a, 1)]) * Radix + m[At(a, 2)])
                       * Radix + m[At(a, 3)]
  <2>2. /\ big \in Word
        /\ Digit3(big) = m[a] /\ Digit2(big) = m[At(a, 1)]
        /\ Digit1(big) = m[At(a, 2)] /\ Digit0(big) = m[At(a, 3)]
    BY <2>1, DigitsOfWord
  <2> HIDE DEF big
  <2>3. Reverse4(big) \in Word
    BY <2>1, <2>2, DigitsOfWord DEF Reverse4
  <2> QED BY <2>2, <2>3 DEF WordAt, big
<1> QED BY <1>1, <1>2, <1>3, <1>4

IndInv == TypeOK /\ ReadsBack

\* The memory starts with the type invariant and nothing written
\* (memory.c:33-40).
LEMMA InitIndInv == Init => IndInv
<1>1. 0 \in Word
  <2>1. Radix * Radix \in Nat /\ Radix * Radix > 1
    BY RadixAssumption, SMT
  <2>2. Radix * Radix * Radix \in Nat /\ Radix * Radix * Radix > 1
    BY <2>1, RadixAssumption, SMT
  <2>3. Radix * Radix * Radix * Radix \in Nat
        /\ Radix * Radix * Radix * Radix > 1
    BY <2>2, RadixAssumption, SMT
  <2> QED BY <2>3, SMT DEF Word
<1> QED BY <1>1 DEF Init, IndInv, TypeOK, ReadsBack, NoWrite

\* The effect of every step: nothing written, or one write that reads back
\* and leaves the other bytes alone (memory.c:51-129).
LEMMA Step ==
  ASSUME TypeOK, Next
  PROVE  /\ TypeOK'
         /\ \/ UNCHANGED <<mem, written>>
            \/ /\ status' = "success" /\ ReadsBack' /\ written' # NoWrite
               /\ \A i \in Index :
                    i \notin Touched(written'.address, written'.size)
                      => mem'[i] = mem[i]
<1> DEFINE Goal == /\ TypeOK'
                   /\ \/ UNCHANGED <<mem, written>>
                      \/ /\ status' = "success" /\ ReadsBack'
                         /\ written' # NoWrite
                         /\ \A i \in Index :
                              i \notin Touched(written'.address,
                                               written'.size)
                                => mem'[i] = mem[i]
<1>t. /\ mem \in [Index -> Byte] /\ value \in Word
      /\ written \in Write \union {NoWrite}
      /\ written # NoWrite => Inside(written.address, written.size)
  BY DEF TypeOK
<1>1. ASSUME NEW a \in Address, NEW n \in {1, 2, 4},
             Refused(a, n) \/ Outside(a, n)
      PROVE  Goal
  BY <1>1, <1>t DEF Refused, Outside, TypeOK
<1>2. ASSUME NEW a \in Address, ReadByte(a) PROVE Goal
  <2>1. mem[a] \in Word
    BY <1>2, <1>t, InsideAt, ReadType DEF ReadByte, Served, Endianness
  <2> QED BY <1>2, <1>t, <2>1 DEF ReadByte, Served, TypeOK
<1>3. ASSUME NEW a \in Address, NEW be \in Endianness, ReadHalf(a, be)
      PROVE  Goal
  BY <1>3, <1>t, ReadType DEF ReadHalf, Served, TypeOK
<1>4. ASSUME NEW a \in Address, NEW be \in Endianness, ReadWord(a, be)
      PROVE  Goal
  BY <1>4, <1>t, ReadType DEF ReadWord, Served, TypeOK
<1>5. ASSUME NEW a \in Address, NEW v \in Byte, WriteByte(a, v) PROVE Goal
  <2>1. /\ a \in Index /\ Inside(a, 1)
        /\ mem' \in [Index -> Byte] /\ mem'[a] = v
        /\ \A i \in Index : i # a => mem'[i] = mem[i]
    BY <1>5, <1>t, InsideAt DEF WriteByte, Served
  <2>2. /\ written' = [size |-> 1, address |-> a, value |-> v]
        /\ value' = value /\ status' = "success"
    BY <1>5 DEF WriteByte, Served
  <2>3. TypeOK'
    BY <1>t, <2>1, <2>2 DEF TypeOK, Write, NoWrite
  <2>4. a \in Touched(a, 1)
    <3>1. At(a, 0) = a
      BY SizeAssumption, SMT DEF At, Address
    <3> QED BY <3>1 DEF Touched
  <2> QED BY <2>1, <2>2, <2>3, <2>4 DEF ReadsBack, NoWrite
<1>6. ASSUME NEW a \in Address, NEW be \in Endianness, NEW v \in Half,
             WriteHalf(a, v, be)
      PROVE  Goal
  <2>1. /\ Inside(a, 2) /\ mem' \in [Index -> Byte]
        /\ HalfAt(mem', a, be) = v /\ HalfAt(mem', a, 1 - be) = Reverse2(v)
        /\ \A i \in Index : i \notin {a, At(a, 1)} => mem'[i] = mem[i]
    BY <1>6, <1>t, HalfBack DEF WriteHalf, Served
  <2>2. /\ written' = [size |-> 2, address |-> a, value |-> v, be |-> be]
        /\ value' = value /\ status' = "success"
    BY <1>6 DEF WriteHalf, Served
  <2>3. TypeOK'
    BY <1>t, <2>1, <2>2 DEF TypeOK, Write, NoWrite
  <2>4. {a, At(a, 1)} \subseteq Touched(a, 2)
    <3>1. At(a, 0) = a
      BY SizeAssumption, SMT DEF At, Address
    <3> QED BY <3>1 DEF Touched
  <2> QED BY <2>1, <2>2, <2>3, <2>4 DEF ReadsBack, NoWrite
<1>7. ASSUME NEW a \in Address, NEW be \in Endianness, NEW v \in Word,
             WriteWord(a, v, be)
      PROVE  Goal
  <2>1. /\ Inside(a, 4) /\ mem' \in [Index -> Byte]
        /\ WordAt(mem', a, be) = v /\ WordAt(mem', a, 1 - be) = Reverse4(v)
        /\ \A i \in Index :
             i \notin {a, At(a, 1), At(a, 2), At(a, 3)} => mem'[i] = mem[i]
    BY <1>7, <1>t, WordBack DEF WriteWord, Served
  <2>2. /\ written' = [size |-> 4, address |-> a, value |-> v, be |-> be]
        /\ value' = value /\ status' = "success"
    BY <1>7 DEF WriteWord, Served
  <2>3. TypeOK'
    BY <1>t, <2>1, <2>2 DEF TypeOK, Write, NoWrite
  <2>4. {a, At(a, 1), At(a, 2), At(a, 3)} \subseteq Touched(a, 4)
    <3>1. At(a, 0) = a
      BY SizeAssumption, SMT DEF At, Address
    <3> QED BY <3>1 DEF Touched
  <2> QED BY <2>1, <2>2, <2>3, <2>4 DEF ReadsBack, NoWrite
<1>8. CASE Aborted
  BY <1>8, <1>t DEF Aborted, vars, TypeOK
<1> QED BY <1>1, <1>2, <1>3, <1>4, <1>5, <1>6, <1>7, <1>8 DEF Next

\* Both hold in every reachable state.
LEMMA Inductive == Spec => []IndInv
<1>1. IndInv /\ [Next]_vars => IndInv'
  <2> SUFFICES ASSUME TypeOK, ReadsBack, [Next]_vars PROVE TypeOK' /\ ReadsBack'
    BY DEF IndInv
  <2>1. CASE Next
    BY <2>1, Step DEF ReadsBack
  <2>2. CASE UNCHANGED vars
    BY <2>2 DEF vars, TypeOK, ReadsBack
  <2> QED BY <2>1, <2>2
<1> QED BY InitIndInv, <1>1, PTL DEF Spec

\* The contents, the answers and the history keep their types
\* (memory.c:33-129).
THEOREM TypeCorrect == Spec => []TypeOK
<1>1. IndInv => TypeOK
  BY DEF IndInv
<1> QED BY <1>1, Inductive, PTL

\* The last write is read back, whole or reversed, whatever happened since
\* (memory.c:60-129).
THEOREM ReadsBackCorrect == Spec => []ReadsBack
<1>1. IndInv => ReadsBack
  BY DEF IndInv
<1> QED BY <1>1, Inductive, PTL

\* A call changes no byte but those of its own write (memory.c:51-129).
THEOREM FrameCorrect == Spec => WritesOnlyTouched
<1> DEFINE A == \A i \in Index :
                  mem'[i] # mem[i] =>
                    /\ status' = "success" /\ written' # NoWrite
                    /\ i \in Touched(written'.address, written'.size)
<1>1. TypeOK /\ Next => A
  BY Step
<1>2. TypeOK /\ [Next]_vars => [A]_vars
  BY <1>1
<1> QED BY <1>2, TypeCorrect, PTL DEF Spec, WritesOnlyTouched

\* What the check accepts lies within the memory, ends at the byte after it,
\* or wraps (memory.c:52, 61, 74, 88, 97, 112).
LEMMA AcceptedEnds ==
  ASSUME NEW a \in Address, NEW n \in {1, 2, 4}, Checked(a, n)
  PROVE  Inside(a, n) \/ a + n = Size + 1 \/ a + n > Space
<1> SUFFICES ASSUME a + n # Size + 1, a + n <= Space PROVE Inside(a, n)
  <2>1. a + n \in Int /\ Space \in Int
    BY SizeAssumption, SMT DEF Address
  <2> QED BY <2>1, SMT
<1>1. a \in Nat /\ n \in Nat /\ Size \in Nat /\ Space \in Nat
  BY SizeAssumption, SMT DEF Address
<1>2. ASSUME NEW i \in 0 .. n - 1 PROVE At(a, i) = a + i
  BY <1>1, <1>2, SMT DEF At
<1>3. n - 1 \in 0 .. n - 1
  BY SMT
<1>4. a + (n - 1) <= Size
  BY <1>2, <1>3 DEF Checked
<1>5. ASSUME NEW i \in 0 .. n - 1 PROVE At(a, i) \in Index
  <2>1. a + i \in 0 .. Size - 1
    BY <1>1, <1>4, SMT
  <2> QED BY <1>2, <2>1 DEF Index
<1> QED BY <1>5 DEF Inside, Touched

\* No access within the memory is refused, and what is accepted outside ends
\* at the byte after its last or wraps, for any size of the memory
\* (memory.c:52, 61, 74, 88, 97, 112).
THEOREM AcceptsCorrect == Spec => AcceptsInside
<1>1. ASSUME NEW a \in Address, NEW n \in {1, 2, 4}, Refused(a, n)
      PROVE  ~Inside(a, n)
  <2>1. /\ a \in Nat /\ Size \in Nat /\ Space \in Nat /\ Space >= 4
        /\ At(a, 0) = a
    BY SizeAssumption, SMT DEF Address, At
  <2>2. Inside(a, n) => At(a, n - 1) \in Index
    BY DEF Inside, Touched
  <2>3. Inside(a, n) => At(a, n - 1) <= Size
    BY <2>1, <2>2, SMT DEF Index
  <2> QED BY <1>1, <2>3 DEF Refused, Checked
<1>2. \A a \in Address, n \in {1, 2, 4} :
        /\ Refused(a, n) => ~Inside(a, n)
        /\ Checked(a, n) =>
             Inside(a, n) \/ a + n = Size + 1 \/ a + n > Space
  BY <1>1, AcceptedEnds
<1> QED BY <1>2, PTL DEF AcceptsInside
=============================================================================
