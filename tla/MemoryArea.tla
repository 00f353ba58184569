---------------------------- MODULE MemoryArea ----------------------------
(***************************************************************************)
(* The memory of the simulated machine (memory.c): an array of bytes with  *)
(* accesses of a byte, a half-word or a word in either endianness.         *)
(*                                                                         *)
(* The digits of a half-word and a word are bytes: Radix is 256 in the     *)
(* code.  An address is a uint32_t, Space is 2^32 in the code, and the     *)
(* index of each byte of an access wraps as the address does.              *)
(***************************************************************************)
EXTENDS Integers

CONSTANTS
  Size,    \* the size of the memory in bytes
  Space,   \* the number of addresses
  Radix    \* the number of values of a byte

ASSUME SizeAssumption ==
  Size \in Nat /\ Space \in Nat /\ Size < Space /\ Space >= 4
ASSUME RadixAssumption == Radix \in Nat /\ Radix > 1

Address == 0 .. Space - 1
Index == 0 .. Size - 1
Byte == 0 .. Radix - 1
Half == 0 .. Radix * Radix - 1
Word == 0 .. Radix * Radix * Radix * Radix - 1
Endianness == {0, 1}  \* 1 is big endian, as the parameter be

VARIABLES
  mem,      \* the bytes
  status,   \* how the last call ended: 0 is "success", -1 "failure"
  value,    \* what the last successful read stored
  written   \* history: the last successful write

vars == <<mem, status, value, written>>

NoWrite == [size |-> 0]
Write ==
  [size : {1}, address : Address, value : Byte]
    \union [size : {2}, address : Address, value : Half, be : Endianness]
    \union [size : {4}, address : Address, value : Word, be : Endianness]
-----------------------------------------------------------------------------
\* Digit k of a value, that of the lowest weight being digit 0.
Digit0(v) == v % Radix
Digit1(v) == (v \div Radix) % Radix
Digit2(v) == (v \div (Radix * Radix)) % Radix
Digit3(v) == (v \div (Radix * Radix * Radix)) % Radix

\* The macros reverse_2 and reverse_4.
Reverse2(x) == Digit0(x) * Radix + Digit1(x)
Reverse4(x) == ((Digit0(x) * Radix + Digit1(x)) * Radix + Digit2(x)) * Radix
                  + Digit3(x)

\* The index of byte i of an access.
At(a, i) == (a + i) % Space

\* A slip of Checked: the last byte counts twice.
CheckedTooStrict(a, n) == At(a, n) < Size

\* The check at the head of every function, for an access of n bytes.  It
\* compares the wrapped address of the last byte with the size.
Checked(a, n) == At(a, n - 1) <= Size

\* The bytes an access touches, and whether the memory has them all.
Touched(a, n) == {At(a, i) : i \in 0 .. n - 1}
Inside(a, n) == Touched(a, n) \subseteq Index

HalfAt(m, a, be) ==
  LET big == m[a] * Radix + m[At(a, 1)]
  IN IF be = 0 THEN Reverse2(big) ELSE big

WordAt(m, a, be) ==
  LET big == ((m[a] * Radix + m[At(a, 1)]) * Radix + m[At(a, 2)]) * Radix
                + m[At(a, 3)]
  IN IF be = 0 THEN Reverse4(big) ELSE big

\* A slip of HalfStored: the bytes are in the same order both ways.
HalfStoredOneWay(m, a, v, be) ==
  [m EXCEPT ![a] = Digit1(v), ![At(a, 1)] = Digit0(v)]

HalfStored(m, a, v, be) ==
  IF be = 1 THEN [m EXCEPT ![a] = Digit1(v), ![At(a, 1)] = Digit0(v)]
            ELSE [m EXCEPT ![a] = Digit0(v), ![At(a, 1)] = Digit1(v)]

\* A slip of WordStored: the lowest byte of a little endian word is stored
\* one place before the word.
WordStoredBefore(m, a, v, be) ==
  IF be = 1
    THEN [m EXCEPT ![a] = Digit3(v), ![At(a, 1)] = Digit2(v),
                   ![At(a, 2)] = Digit1(v), ![At(a, 3)] = Digit0(v)]
    ELSE [m EXCEPT ![At(a, Space - 1)] = Digit0(v), ![At(a, 1)] = Digit1(v),
                   ![At(a, 2)] = Digit2(v), ![At(a, 3)] = Digit3(v)]

WordStored(m, a, v, be) ==
  IF be = 1
    THEN [m EXCEPT ![a] = Digit3(v), ![At(a, 1)] = Digit2(v),
                   ![At(a, 2)] = Digit1(v), ![At(a, 3)] = Digit0(v)]
    ELSE [m EXCEPT ![a] = Digit0(v), ![At(a, 1)] = Digit1(v),
                   ![At(a, 2)] = Digit2(v), ![At(a, 3)] = Digit3(v)]
-----------------------------------------------------------------------------
(***************************************************************************)
(* The operations.  The bytes come from malloc: any contents.              *)
(***************************************************************************)
Init ==
  /\ mem \in [Index -> Byte]
  /\ status = "success" /\ value = 0 /\ written = NoWrite

Alive == status # "aborted"

\* The failed check of an access of n bytes: no effect.
Refused(a, n) ==
  /\ Alive /\ ~Checked(a, n)
  /\ status' = "failure" /\ UNCHANGED <<mem, value, written>>

\* The access passes the check but leaves the memory: AddressSanitizer, with
\* which the simulator is built, aborts before any byte outside is touched.
Outside(a, n) ==
  /\ Alive /\ Checked(a, n) /\ ~Inside(a, n)
  /\ status' = "aborted" /\ UNCHANGED <<mem, value, written>>

Served(a, n) == Alive /\ Checked(a, n) /\ Inside(a, n) /\ status' = "success"

ReadByte(a) ==
  /\ Served(a, 1) /\ value' = mem[a]
  /\ UNCHANGED <<mem, written>>

ReadHalf(a, be) ==
  /\ Served(a, 2) /\ value' = HalfAt(mem, a, be)
  /\ UNCHANGED <<mem, written>>

ReadWord(a, be) ==
  /\ Served(a, 4) /\ value' = WordAt(mem, a, be)
  /\ UNCHANGED <<mem, written>>

WriteByte(a, v) ==
  /\ Served(a, 1) /\ mem' = [mem EXCEPT ![a] = v]
  /\ written' = [size |-> 1, address |-> a, value |-> v]
  /\ UNCHANGED value

WriteHalf(a, v, be) ==
  /\ Served(a, 2) /\ mem' = HalfStored(mem, a, v, be)
  /\ written' = [size |-> 2, address |-> a, value |-> v, be |-> be]
  /\ UNCHANGED value

WriteWord(a, v, be) ==
  /\ Served(a, 4) /\ mem' = WordStored(mem, a, v, be)
  /\ written' = [size |-> 4, address |-> a, value |-> v, be |-> be]
  /\ UNCHANGED value

Aborted == ~Alive /\ UNCHANGED vars

Next ==
  \/ \E a \in Address :
       \/ \E n \in {1, 2, 4} : Refused(a, n) \/ Outside(a, n)
       \/ ReadByte(a) \/ \E v \in Byte : WriteByte(a, v)
       \/ \E be \in Endianness :
            \/ ReadHalf(a, be) \/ \E v \in Half : WriteHalf(a, v, be)
            \/ ReadWord(a, be) \/ \E v \in Word : WriteWord(a, v, be)
  \/ Aborted

Spec == Init /\ [][Next]_vars
-----------------------------------------------------------------------------
(***************************************************************************)
(* Properties.                                                             *)
(***************************************************************************)

\* The contents, the answers and the history have their types; the last
\* write was one the memory has room for.
TypeOK ==
  /\ mem \in [Index -> Byte]
  /\ status \in {"success", "failure", "aborted"}
  /\ value \in Word
  /\ written \in Write \union {NoWrite}
  /\ written # NoWrite => Inside(written.address, written.size)

\* What was written last is read back, whole in its own endianness,
\* reversed in the other one, which is the order the code gives the bytes
\* (memory.c:60-85 against memory.c:96-129, as memory_test.c:89-122 wants).
ReadsBack ==
  /\ written.size = 1 => mem[written.address] = written.value
  /\ written.size = 2 =>
       /\ HalfAt(mem, written.address, written.be) = written.value
       /\ HalfAt(mem, written.address, 1 - written.be)
            = Reverse2(written.value)
  /\ written.size = 4 =>
       /\ WordAt(mem, written.address, written.be) = written.value
       /\ WordAt(mem, written.address, 1 - written.be)
            = Reverse4(written.value)

\* A call changes no byte but those of the write it performs, so that none
\* that is refused, fails or reads changes any (memory.c:51-129).
WritesOnlyTouched ==
  [][\A i \in Index :
       mem'[i] # mem[i] =>
         /\ status' = "success" /\ written' # NoWrite
         /\ i \in Touched(written'.address, written'.size)]_vars

\* No access that lies within the memory is refused, not even one that ends
\* at its last byte, and what is accepted lies within it, ends at the byte
\* after its last, or wraps (memory.c:52, 61, 74, 88, 97, 112).
AcceptsInside ==
  [][\A a \in Address, n \in {1, 2, 4} :
       /\ Refused(a, n) => ~Inside(a, n)
       /\ Checked(a, n) =>
            Inside(a, n) \/ a + n = Size + 1 \/ a + n > Space]_vars
=============================================================================
