---------------------------- MODULE ArmCpuProofs ----------------------------
(***************************************************************************)
(* Proofs about one step of the processor, for any program, any memory and *)
(* words of any width.  What the data-processing instructions and the      *)
(* memory do is taken from the theorems about their modules, with the      *)
(* registers after a fetch for their registers.                            *)
(***************************************************************************)
EXTENDS ArmCpu, FiniteSetTheorems, TLAPS

AluP == INSTANCE DataProcessingProofs WITH r <- fetched, Guest <- {}
MemoryP == INSTANCE MemoryAreaProofs
             WITH Space <- Modulus, status <- "success", value <- 0,
                  written <- [size |-> 0]

-----------------------------------------------------------------------------
(***************************************************************************)
(* The assumptions of the two modules, and that the theorems are about the *)
(* operators the processor uses.                                           *)
(***************************************************************************)
LEMMA AluAssumptions ==
  AluP!WidthAssumption /\ AluP!InstructionAssumption
BY CpuAssumption DEF AluP!WidthAssumption, AluP!InstructionAssumption,
                     AluP!Word, AluP!Modulus, Modulus

\* The operators of the instance the processor uses and those of the instance
\* of the theorems are the same, from the bits of a word up.
LEMMA SameWords ==
  /\ Alu!Modulus = AluP!Modulus /\ Alu!Word = AluP!Word
  /\ \A x, i : Alu!BitOf(x, i) = AluP!BitOf(x, i)
  /\ \A x : Alu!Top(x) = AluP!Top(x) /\ Alu!BitNot(x) = AluP!BitNot(x)
  /\ \A b : Alu!Truth(b) = AluP!Truth(b)
  /\ \A x, y : /\ Alu!BitAnd(x, y) = AluP!BitAnd(x, y)
               /\ Alu!BitOr(x, y) = AluP!BitOr(x, y)
               /\ Alu!BitXor(x, y) = AluP!BitXor(x, y)
  /\ \A i : Alu!Read(i) = AluP!Read(i)
<1>1. Alu!Modulus = AluP!Modulus /\ Alu!Word = AluP!Word
  BY DEF Alu!Modulus, AluP!Modulus, Alu!Word, AluP!Word
<1>2. \A x, i : Alu!BitOf(x, i) = AluP!BitOf(x, i)
  BY DEF Alu!BitOf, AluP!BitOf
<1>3. \A x : Alu!Top(x) = AluP!Top(x) /\ Alu!BitNot(x) = AluP!BitNot(x)
  BY <1>1, <1>2 DEF Alu!Top, AluP!Top, Alu!BitNot, AluP!BitNot
<1>4. \A b : Alu!Truth(b) = AluP!Truth(b)
  BY DEF Alu!Truth, AluP!Truth
<1>5. \A f : Alu!FromBits(f) = AluP!FromBits(f)
  BY DEF Alu!FromBits, AluP!FromBits, Alu!Word, AluP!Word, Alu!Modulus,
         AluP!Modulus, Alu!BitOf, AluP!BitOf
<1>6. \A x, y : /\ Alu!BitAnd(x, y) = AluP!BitAnd(x, y)
                /\ Alu!BitOr(x, y) = AluP!BitOr(x, y)
                /\ Alu!BitXor(x, y) = AluP!BitXor(x, y)
  BY <1>5 DEF Alu!BitAnd, AluP!BitAnd, Alu!BitOr, AluP!BitOr, Alu!BitXor,
              AluP!BitXor, Alu!BitOf, AluP!BitOf, Alu!Truth, AluP!Truth
<1>7. \A i : Alu!Read(i) = AluP!Read(i)
  BY <1>1, <1>2 DEF Alu!Read, AluP!Read
<1> QED BY <1>1, <1>2, <1>3, <1>4, <1>6, <1>7

LEMMA SameShifts ==
  ASSUME NEW operand \in AluP!Operand
  PROVE  Alu!Shifted(operand) = AluP!Shifted(operand)
<1>1. \A x, n : /\ Alu!ShiftLeft(x, n) = AluP!ShiftLeft(x, n)
                /\ Alu!ShiftRight(x, n) = AluP!ShiftRight(x, n)
  BY SameWords
     DEF Alu!ShiftLeft, AluP!ShiftLeft, Alu!ShiftRight, AluP!ShiftRight
<1>2. \A x, n : Alu!BitsOf(x, n) = AluP!BitsOf(x, n)
  BY <1>1 DEF Alu!BitsOf, AluP!BitsOf
<1>3. \A x, n : /\ Alu!Asr(x, n) = AluP!Asr(x, n)
                /\ Alu!Ror(x, n) = AluP!Ror(x, n)
  BY <1>1, SameWords DEF Alu!Asr, AluP!Asr, Alu!Ror, AluP!Ror
<1>4. ASSUME NEW m \in {0, 1, 2, 3}, NEW x, NEW n
      PROVE  Alu!ShiftByImmediate(m, x, n) = AluP!ShiftByImmediate(m, x, n)
  <2>1. /\ Alu!LSL = 0 /\ AluP!LSL = 0 /\ Alu!LSR = 1 /\ AluP!LSR = 1
        /\ Alu!ASR = 2 /\ AluP!ASR = 2 /\ Alu!ROR = 3 /\ AluP!ROR = 3
    BY DEF Alu!LSL, AluP!LSL, Alu!LSR, AluP!LSR, Alu!ASR, AluP!ASR, Alu!ROR,
           AluP!ROR
  <2>2. CASE m = 0
    BY <1>1, <1>3, <2>1, <2>2, SameWords
       DEF Alu!ShiftByImmediate, AluP!ShiftByImmediate
  <2>3. CASE m = 1
    BY <1>1, <1>3, <2>1, <2>3, SameWords
       DEF Alu!ShiftByImmediate, AluP!ShiftByImmediate
  <2>4. CASE m = 2
    BY <1>1, <1>3, <2>1, <2>4, SameWords
       DEF Alu!ShiftByImmediate, AluP!ShiftByImmediate
  <2>5. CASE m = 3
    BY <1>1, <1>3, <2>1, <2>5, SameWords
       DEF Alu!ShiftByImmediate, AluP!ShiftByImmediate
  <2> QED BY <2>2, <2>3, <2>4, <2>5
<1>5. ASSUME NEW m \in {0, 1, 2, 3}, NEW x, NEW n
      PROVE  Alu!ShiftByRegister(m, x, n) = AluP!ShiftByRegister(m, x, n)
  <2>1. /\ Alu!LSL = 0 /\ AluP!LSL = 0 /\ Alu!LSR = 1 /\ AluP!LSR = 1
        /\ Alu!ASR = 2 /\ AluP!ASR = 2 /\ Alu!ROR = 3 /\ AluP!ROR = 3
    BY DEF Alu!LSL, AluP!LSL, Alu!LSR, AluP!LSR, Alu!ASR, AluP!ASR, Alu!ROR,
           AluP!ROR
  <2>2. CASE m = 0
    BY <1>1, <1>2, <1>3, <2>1, <2>2, SameWords
       DEF Alu!ShiftByRegister, AluP!ShiftByRegister
  <2>3. CASE m = 1
    BY <1>1, <1>2, <1>3, <2>1, <2>3, SameWords
       DEF Alu!ShiftByRegister, AluP!ShiftByRegister
  <2>4. CASE m = 2
    BY <1>1, <1>2, <1>3, <2>1, <2>4, SameWords
       DEF Alu!ShiftByRegister, AluP!ShiftByRegister
  <2>5. CASE m = 3
    BY <1>1, <1>2, <1>3, <2>1, <2>5, SameWords
       DEF Alu!ShiftByRegister, AluP!ShiftByRegister
  <2> QED BY <2>2, <2>3, <2>4, <2>5
<1>6. \A x, n : Alu!Rotate(x, n) = AluP!Rotate(x, n)
  BY <1>3, SameWords DEF Alu!Rotate, AluP!Rotate
<1>7. operand.kind # "rotate" => operand.mode \in {0, 1, 2, 3}
  <2>1. AluP!LSL .. AluP!ROR = {0, 1, 2, 3}
    BY SMT DEF AluP!LSL, AluP!ROR
  <2> QED BY <2>1 DEF AluP!Operand
<1>8. operand.kind \in {"shift_imm", "shift_reg", "rotate"}
  BY DEF AluP!Operand
<1> QED BY <1>4, <1>5, <1>6, <1>7, <1>8, SameWords DEF Alu!Shifted, AluP!Shifted

LEMMA SameOutcomes ==
  ASSUME NEW ins, ins.op \in AluP!Operation, ins.operand \in AluP!Operand
  PROVE  Alu!Outcomes(ins) = AluP!Outcomes(ins)
<1>1. \A a, b, c, d : Alu!Out(a, b, c, d) = AluP!Out(a, b, c, d)
  BY DEF Alu!Out, AluP!Out
<1>2. \A x, y : Alu!Minus(x, y) = AluP!Minus(x, y)
  BY SameWords DEF Alu!Minus, AluP!Minus
<1>3. \A x, y : /\ Alu!Logical(x, y) = AluP!Logical(x, y)
                /\ Alu!Total(x, y) = AluP!Total(x, y)
                /\ Alu!Difference(x, y) = AluP!Difference(x, y)
  BY <1>1, <1>2, SameWords DEF Alu!Logical, AluP!Logical, Alu!Total,
     AluP!Total, Alu!Difference, AluP!Difference
<1>4. \A x, y : /\ Alu!TotalWithCarry(x, y) = AluP!TotalWithCarry(x, y)
                /\ Alu!DifferenceWithCarry(x, y)
                     = AluP!DifferenceWithCarry(x, y)
  BY <1>1, <1>2, <1>3, SameWords
     DEF Alu!TotalWithCarry, AluP!TotalWithCarry, Alu!DifferenceWithCarry,
         AluP!DifferenceWithCarry
<1>5. ASSUME NEW op \in AluP!Operation, NEW x, NEW y, NEW old, NEW c
      PROVE  Alu!Operate(op, x, y, old, c) = AluP!Operate(op, x, y, old, c)
  <2>1. CASE op \in {"and", "eor", "tst", "teq", "orr", "mov", "bic", "mvn"}
    BY <1>1, <1>3, <2>1, SameWords DEF Alu!Operate, AluP!Operate
  <2>2. CASE op \in {"sub", "cmp", "rsb", "add", "cmn", "adc", "sbc", "rsc"}
    BY <1>3, <1>4, <2>2 DEF Alu!Operate, AluP!Operate
  <2> QED BY <2>1, <2>2 DEF AluP!Operation
<1>6. \A out, s, rd : Alu!UpdateCpsr(out, s, rd) = AluP!UpdateCpsr(out, s, rd)
  BY SameWords DEF Alu!UpdateCpsr, AluP!UpdateCpsr, Alu!Spsr, AluP!Spsr
<1>7. \A op : Alu!Test(op) = AluP!Test(op)
  BY DEF Alu!Test, AluP!Test
<1> QED BY <1>5, <1>6, <1>7, SameWords, SameShifts
        DEF Alu!Outcomes, AluP!Outcomes
-----------------------------------------------------------------------------
(***************************************************************************)
(* The memory.                                                             *)
(***************************************************************************)
Word == 0 .. Modulus - 1
Byte == 0 .. Radix - 1

\* A word is four bytes.
LEMMA Sizes ==
  /\ Modulus \in Nat /\ Modulus >= 16 /\ Size \in Nat /\ Size < Modulus
  /\ Radix \in Nat /\ Radix > 1
  /\ Radix * Radix * Radix * Radix = Modulus
<1>1. Modulus \in Nat /\ Modulus >= 16
  BY AluAssumptions, AluP!Widths DEF AluP!Modulus, Modulus
<1> DEFINE q == W \div 4
<1>2. q \in Nat /\ 1 <= q /\ W = q + q + q + q
  BY CpuAssumption, SMT
<1>3. Radix = 2^q
  BY DEF Radix
<1> HIDE DEF q
<1>4. Radix \in Nat /\ Radix > 1
  <2>1. 2^1 <= 2^q /\ 2^q \in Nat
    BY AluAssumptions, <1>2, AluP!PowerMonotone, AluP!PowerPositive
  <2>2. 2^1 = 2
    BY SMT
  <2> QED BY <1>3, <2>1, <2>2, SMT
<1>5. Radix * Radix * Radix * Radix = Modulus
  <2>1. q + q \in Nat /\ q + q + q \in Nat
    BY <1>2, SMT
  <2>2. 2^(q + q) = 2^q * 2^q
    BY AluAssumptions, <1>2, AluP!PowerAdds
  <2>3. 2^(q + q + q) = 2^(q + q) * 2^q
    BY AluAssumptions, <1>2, <2>1, AluP!PowerAdds
  <2>4. 2^(q + q + q + q) = 2^(q + q + q) * 2^q
    BY AluAssumptions, <1>2, <2>1, AluP!PowerAdds
  <2> QED BY <1>2, <1>3, <2>2, <2>3, <2>4 DEF Modulus
<1> QED BY <1>1, <1>4, <1>5, CpuAssumption

LEMMA MemoryAssumptions ==
  /\ MemoryP!SizeAssumption /\ MemoryP!RadixAssumption
  /\ MemoryP!Word = Word /\ MemoryP!Address = Word
  /\ MemoryP!Byte = Byte /\ MemoryP!Index = Index
<1>1. Modulus >= 4
  BY Sizes, SMT
<1>2. MemoryP!SizeAssumption /\ MemoryP!RadixAssumption
  BY <1>1, Sizes DEF MemoryP!SizeAssumption, MemoryP!RadixAssumption
<1> QED BY <1>2, Sizes DEF MemoryP!Word, MemoryP!Address, MemoryP!Byte,
           MemoryP!Index, Word, Byte, Index

LEMMA SameMemory ==
  /\ \A a, n : /\ Memory!At(a, n) = MemoryP!At(a, n)
               /\ Memory!Checked(a, n) <=> MemoryP!Checked(a, n)
               /\ Memory!Touched(a, n) = MemoryP!Touched(a, n)
               /\ Memory!Inside(a, n) <=> MemoryP!Inside(a, n)
  /\ \A m, a, be : Memory!WordAt(m, a, be) = MemoryP!WordAt(m, a, be)
  /\ \A m, a, v, be :
       Memory!HalfStored(m, a, v, be) = MemoryP!HalfStored(m, a, v, be)
<1>1. \A a, n : Memory!At(a, n) = MemoryP!At(a, n)
  BY DEF Memory!At, MemoryP!At
<1>2. \A a, n : /\ Memory!Checked(a, n) <=> MemoryP!Checked(a, n)
                /\ Memory!Touched(a, n) = MemoryP!Touched(a, n)
  BY <1>1 DEF Memory!Checked, MemoryP!Checked, Memory!Touched,
              MemoryP!Touched
<1>3. \A a, n : Memory!Inside(a, n) <=> MemoryP!Inside(a, n)
  BY <1>2 DEF Memory!Inside, MemoryP!Inside, Memory!Index, MemoryP!Index
<1>4. \A m, a, be : Memory!WordAt(m, a, be) = MemoryP!WordAt(m, a, be)
  BY <1>1 DEF Memory!WordAt, MemoryP!WordAt, Memory!Reverse4,
     MemoryP!Reverse4, Memory!Digit0, MemoryP!Digit0, Memory!Digit1,
     MemoryP!Digit1, Memory!Digit2, MemoryP!Digit2, Memory!Digit3,
     MemoryP!Digit3
<1>5. \A m, a, v, be :
        Memory!HalfStored(m, a, v, be) = MemoryP!HalfStored(m, a, v, be)
  BY <1>1 DEF Memory!HalfStored, MemoryP!HalfStored, Memory!Digit0,
     MemoryP!Digit0, Memory!Digit1, MemoryP!Digit1
<1> QED BY <1>1, <1>2, <1>3, <1>4, <1>5

\* A word inside the memory is a word, and a byte of it is one.
LEMMA WordInType ==
  ASSUME mem \in [Index -> Byte], NEW a \in Word
  PROVE  /\ Served(a, 4) => WordIn(mem, a) \in Word
         /\ Served(a, 1) => a \in Index /\ mem[a] \in Word
<1>1. ENDIANESS \in MemoryP!Endianness
  BY CpuAssumption DEF MemoryP!Endianness, Bit
<1>2. /\ mem \in [MemoryP!Index -> MemoryP!Byte] /\ a \in MemoryP!Address
  BY MemoryAssumptions
<1>3. Served(a, 4) => WordIn(mem, a) \in Word
  <2>1. MemoryP!Inside(a, 4) => MemoryP!WordAt(mem, a, ENDIANESS) \in MemoryP!Word
    BY <1>1, <1>2, MemoryAssumptions, MemoryP!ReadType
  <2> QED BY <2>1, SameMemory, MemoryAssumptions DEF Served, WordIn
<1>4. Served(a, 1) => a \in Index
  BY <1>2, MemoryAssumptions, SameMemory, MemoryP!InsideAt DEF Served
<1>5. Byte \subseteq Word
  BY <1>1, <1>2, MemoryAssumptions, MemoryP!ReadType
<1> QED BY <1>3, <1>4, <1>5
-----------------------------------------------------------------------------
(***************************************************************************)
(* The registers.                                                          *)
(***************************************************************************)
LEMMA RegisterTypes ==
  ASSUME TypeOK
  PROVE  /\ r \in [Reg -> Word] /\ fetched \in [Reg -> Word] /\ AluP!TypeOK
         /\ cpsr \in Alu!Cpsr /\ r[15] \in Word
         /\ {0, 4, 14, 15} \subseteq Reg
<1>1. r \in [Reg -> Word] /\ {0, 4, 14, 15} \subseteq Reg
  BY CpuAssumption DEF TypeOK, Word
<1>2. (r[15] + 4) % Modulus \in Word
  <2>1. r[15] + 4 \in Int /\ Modulus \in Nat /\ Modulus > 0
    BY <1>1, Sizes, SMT DEF Word
  <2> QED BY AluAssumptions, <2>1, AluP!Division DEF Word
<1>3. fetched \in [Reg -> Word]
  BY <1>1, <1>2 DEF fetched
<1>4. AluP!Word = Word /\ AluP!Cpsr = Alu!Cpsr
  BY DEF AluP!Word, AluP!Modulus, Word, Modulus, AluP!Cpsr, Alu!Cpsr,
         AluP!Bit, Alu!Bit
<1>5. cpsr \in Alu!Cpsr
  BY DEF TypeOK
<1> QED BY <1>1, <1>3, <1>4, <1>5 DEF AluP!TypeOK

\* A register reads as a word, after the fetch.
LEMMA ReadType == ASSUME TypeOK, NEW i \in Reg PROVE Alu!Read(i) \in Word
<1>1. AluP!Read(i) \in AluP!Word
  BY AluAssumptions, RegisterTypes, AluP!ReadWord
<1> QED BY <1>1, SameWords DEF AluP!Word, AluP!Modulus, Word, Modulus

LEMMA Wrapped == ASSUME NEW x \in Int PROVE x % Modulus \in Word
<1>1. Modulus \in Nat /\ Modulus > 0
  BY Sizes, SMT
<1> QED BY AluAssumptions, <1>1, AluP!Division DEF Word

\* The instruction fetched is one, and what its type says of its fields.
LEMMA InstructionType ==
  ASSUME TypeOK, Served(r[15], 4)
  PROVE  /\ instruction \in Instruction
         /\ instruction.type = "data" => instruction.ins \in Alu!Instruction
         /\ instruction.type = "branch" => instruction.imm24 \in Alu!Word
         /\ instruction.type = "load_store" =>
              /\ instruction.rn \in Reg /\ instruction.rd \in Reg
              /\ instruction.offset \in Nat
         /\ instruction.type = "multiple" =>
              /\ instruction.rn \in Reg /\ instruction.P \in Bit
              /\ instruction.U \in Bit
              /\ instruction.list \subseteq Reg \ {15}
<1>1. mem \in [Index -> Byte] /\ r[15] \in Word
  BY RegisterTypes DEF TypeOK, Byte
<1>2. instruction \in Instruction
  BY <1>1, WordInType, CpuAssumption DEF instruction, Word
<1> DEFINE ins == instruction
<1> HIDE DEF ins
<1>3. ASSUME ins \in Instruction
      PROVE  /\ ins.type = "data" => ins.ins \in Alu!Instruction
             /\ ins.type = "branch" => ins.imm24 \in Alu!Word
             /\ ins.type = "load_store" =>
                  ins.rn \in {0, 4} /\ ins.rd \in {0, 4}
                  /\ ins.offset \in {0, 4, 8, 12}
             /\ ins.type = "multiple" =>
                  ins.rn \in {0, 4} /\ ins.P \in Bit /\ ins.U \in Bit
                  /\ ins.list \subseteq Reg \ {15}
  BY <1>3 DEF Instruction
<1>4. {0, 4} \subseteq Reg /\ {0, 4, 8, 12} \subseteq Nat
  BY CpuAssumption, SMT
<1> QED BY <1>2, <1>3, <1>4 DEF ins
-----------------------------------------------------------------------------
(***************************************************************************)
(* Each instruction keeps the types.                                       *)
(***************************************************************************)
LEMMA DataTypes ==
  ASSUME TypeOK, DataProcessing
  PROVE  r' \in [Reg -> Word] /\ cpsr' \in Alu!Cpsr
<1>1. instruction.ins \in Alu!Instruction
  BY InstructionType DEF DataProcessing, Runs
<1> DEFINE ins == instruction.ins
<1>2. /\ ins.op \in AluP!Operation /\ ins.operand \in AluP!Operand
      /\ ins.rn \in Reg /\ ins.rd \in Reg
  <2>1. AluP!Operation = Alu!Operation /\ AluP!Operand = Alu!Operand
    BY DEF AluP!Operation, Alu!Operation, AluP!Operand, Alu!Operand,
           AluP!LSL, Alu!LSL, AluP!ROR, Alu!ROR
  <2> HIDE DEF ins
  <2>2. ins \in Alu!Instruction
    BY <1>1 DEF ins
  <2> QED BY <2>1, <2>2 DEF Alu!Instruction
<1>3. PICK o \in Alu!Outcomes(ins) : r' = o.r /\ cpsr' = o.cpsr
  BY DEF DataProcessing
<1> HIDE DEF ins
<1>4. o \in AluP!Outcomes(ins)
  BY <1>2, <1>3, SameOutcomes
<1>5. o.r \in [Reg -> AluP!Word] /\ o.cpsr \in AluP!Cpsr
  BY <1>2, <1>4, AluAssumptions, RegisterTypes, AluP!OutcomesType
<1> QED BY <1>3, <1>5 DEF AluP!Word, AluP!Modulus, Word, Modulus, AluP!Cpsr,
           Alu!Cpsr, AluP!Bit, Alu!Bit

LEMMA BranchTypes ==
  ASSUME TypeOK, Branch
  PROVE  r' \in [Reg -> Word]
<1> DEFINE pc == Alu!Read(15)
<1>1. pc \in Int /\ instruction.imm24 \in Int
  <2>1. pc \in Word
    BY RegisterTypes, ReadType
  <2>2. instruction.imm24 \in Alu!Word
    BY InstructionType DEF Branch, Runs
  <2> HIDE DEF pc
  <2> QED BY <2>1, <2>2, Sizes, SMT DEF Word, Alu!Word, Alu!Modulus, Modulus
<1>2. (pc + 4) % Modulus \in Word /\ (pc - instruction.imm24) % Modulus \in Word
  <2>1. pc + 4 \in Int /\ pc - instruction.imm24 \in Int
    BY <1>1, SMT
  <2> QED BY <2>1, Wrapped
<1> QED BY <1>2, RegisterTypes DEF Branch

LEMMA LoadTypes ==
  ASSUME TypeOK, Load
  PROVE  r' \in [Reg -> Word]
<1>1. PICK B \in Bit :
        LET a == Alu!Read(instruction.rn)
            n == IF B = 1 THEN 1 ELSE 4
        IN /\ LoadStore(1, B) /\ ~Wild(a, n)
           /\ r' = IF Refused(a, n) THEN fetched
                     ELSE [fetched EXCEPT ![instruction.rd] =
                             IF B = 1 THEN mem[a] ELSE WordIn(mem, a)]
  BY DEF Load
<1> DEFINE a == Alu!Read(instruction.rn)
<1>2. a \in Word /\ instruction.rd \in Reg
  BY <1>1, InstructionType, ReadType DEF LoadStore, Runs
<1>3. mem \in [Index -> Byte]
  BY DEF TypeOK, Byte
<1> HIDE DEF a
<1>4. Served(a, 4) => WordIn(mem, a) \in Word
  BY <1>2, <1>3, WordInType
<1>5. Served(a, 1) => mem[a] \in Word
  BY <1>2, <1>3, WordInType
<1>6. \A n : Served(a, n) \/ Refused(a, n) \/ Wild(a, n)
  BY DEF Served, Refused, Wild
<1>7. B = 1 =>
        /\ ~Wild(a, 1)
        /\ r' = IF Refused(a, 1) THEN fetched
                  ELSE [fetched EXCEPT ![instruction.rd] = mem[a]]
  BY <1>1 DEF a
<1>8. B # 1 =>
        /\ ~Wild(a, 4)
        /\ r' = IF Refused(a, 4) THEN fetched
                  ELSE [fetched EXCEPT ![instruction.rd] = WordIn(mem, a)]
  BY <1>1 DEF a
<1> QED BY <1>2, <1>4, <1>5, <1>6, <1>7, <1>8, RegisterTypes

LEMMA StrTypes ==
  ASSUME TypeOK, Str
  PROVE  r' \in [Reg -> Word]
<1>1. instruction.rn \in Reg /\ instruction.offset \in Nat
  BY InstructionType DEF Str, LoadStore, Runs
<1>2. Moved \in Word
  <2>1. Alu!Read(instruction.rn) \in Word
    BY <1>1, ReadType
  <2> DEFINE base == Alu!Read(instruction.rn)
             d == IF instruction.U = 1 THEN instruction.offset
                                       ELSE -instruction.offset
  <2>2. base \in Int
    <3>1. base \in Word
      BY <2>1
    <3> HIDE DEF base
    <3> QED BY <3>1, Sizes, SMT DEF Word
  <2>3. d \in Int
    BY <1>1, SMT
  <2>4. base + d \in Int
    <3> HIDE DEF base, d
    <3> QED BY <2>2, <2>3, SMT
  <2> QED BY <2>4, Wrapped DEF Moved
<1> QED BY <1>1, <1>2, RegisterTypes DEF Str

LEMMA StrhTypes ==
  ASSUME TypeOK, Strh
  PROVE  mem' \in [Index -> Byte]
<1> DEFINE a == Alu!Read(instruction.rd)
           v == Alu!Read(instruction.rn) % (Radix * Radix)
<1>1. /\ ~Wild(a, 2)
      /\ mem' = IF Refused(a, 2) THEN mem
                  ELSE Memory!HalfStored(mem, a, v, ENDIANESS)
  BY DEF Strh
<1>2. a \in Word /\ Alu!Read(instruction.rn) \in Word
  BY InstructionType, ReadType DEF Strh, LoadStore, Runs
<1>3. v \in MemoryP!Half
  <2> DEFINE base == Alu!Read(instruction.rn)  m == Radix * Radix
  <2>1. base \in Int /\ m \in Nat /\ m > 0
    <3>1. base \in Word
      BY <1>2
    <3> HIDE DEF base
    <3> QED BY <3>1, Sizes, SMT DEF Word
  <2> HIDE DEF base
  <2>2. base % m \in 0 .. m - 1
    <3> HIDE DEF m
    <3> QED BY AluAssumptions, <2>1, AluP!Division
  <2> QED BY <2>2 DEF MemoryP!Half, base
<1>4. mem \in [MemoryP!Index -> MemoryP!Byte]
  BY MemoryAssumptions DEF TypeOK, Byte
<1>5. ENDIANESS \in MemoryP!Endianness
  BY CpuAssumption DEF MemoryP!Endianness, Bit
<1> HIDE DEF a, v
<1>6. CASE Refused(a, 2)
  BY <1>1, <1>4, <1>6, MemoryAssumptions
<1>7. CASE ~Refused(a, 2)
  <2>1. MemoryP!Inside(a, 2)
    BY <1>1, <1>7, SameMemory DEF Refused, Wild
  <2>2. MemoryP!HalfStored(mem, a, v, ENDIANESS)
          \in [MemoryP!Index -> MemoryP!Byte]
    BY <1>2, <1>3, <1>4, <1>5, <2>1, MemoryAssumptions, MemoryP!HalfBack
  <2> QED BY <1>1, <1>7, <2>2, MemoryAssumptions, SameMemory
<1> QED BY <1>6, <1>7

\* The low byte of a register.
LEMMA LowByte == ASSUME TypeOK, NEW i \in Reg PROVE Alu!Read(i) % Radix \in Byte
<1> DEFINE v == Alu!Read(i)
<1>1. v \in Word
  BY ReadType
<1> HIDE DEF v
<1>2. v \in Int /\ Radix \in Nat /\ Radix > 0
  BY <1>1, Sizes, SMT DEF Word
<1>3. v % Radix \in Byte
  BY AluAssumptions, <1>2, AluP!Division DEF Byte
<1> QED BY <1>3 DEF v

\* The registers whose byte a block store writes.
Visited == {i \in instruction.list : instruction.S = 0 /\ Reached(i)}
Stored == {i \in Visited : Served(Target(i), 1)}

LEMMA StmParts ==
  ASSUME TypeOK, Stm
  PROVE  /\ Stored \subseteq instruction.list /\ instruction.list \subseteq Reg
         /\ mem' = [a \in Index |->
                      IF \E i \in Stored : Target(i) = a
                        THEN Alu!Read(CHOOSE j \in Stored : Target(j) = a)
                               % Radix
                        ELSE mem[a]]
         /\ mem' \in [Index -> Byte]
<1>1. Stored \subseteq instruction.list /\ instruction.list \subseteq Reg
  BY InstructionType DEF Stored, Visited, Stm, Runs
<1>2. mem' = [a \in Index |->
                IF \E i \in Stored : Target(i) = a
                  THEN Alu!Read(CHOOSE j \in Stored : Target(j) = a) % Radix
                  ELSE mem[a]]
  BY DEF Stm, Stored, Visited
<1>3. ASSUME NEW a \in Index, \E i \in Stored : Target(i) = a
      PROVE  Alu!Read(CHOOSE j \in Stored : Target(j) = a) % Radix \in Byte
  <2> DEFINE i == CHOOSE j \in Stored : Target(j) = a
  <2>1. i \in Reg
    BY <1>1, <1>3
  <2> HIDE DEF i
  <2>2. Alu!Read(i) % Radix \in Byte
    BY <2>1, LowByte
  <2> QED BY <2>2 DEF i
<1>4. mem \in [Index -> Byte]
  BY DEF TypeOK, Byte
<1> QED BY <1>1, <1>2, <1>3, <1>4

LEMMA LdmTypes ==
  ASSUME TypeOK, Ldm
  PROVE  r' \in [Reg -> Word]
<1> DEFINE a == Alu!Read(instruction.rn)
<1>1. /\ instruction.S = 0 => ~Wild(a, 1)
      /\ r' = IF instruction.S = 1 \/ Refused(a, 1) THEN fetched
                ELSE [i \in Reg |-> IF i \in instruction.list THEN mem[a]
                                                              ELSE fetched[i]]
  BY DEF Ldm
<1>2. a \in Word
  BY InstructionType, ReadType DEF Ldm, Runs
<1>3. instruction.S \in Bit
  <2>1. instruction \in Instruction /\ instruction.type = "multiple"
    BY InstructionType DEF Ldm, Runs
  <2> DEFINE ins == instruction
  <2> HIDE DEF ins
  <2>2. ins \in Instruction /\ ins.type = "multiple" => ins.S \in Bit
    BY DEF Instruction
  <2> QED BY <2>1, <2>2 DEF ins
<1> HIDE DEF a
<1>4. Served(a, 1) => mem[a] \in Word
  BY <1>2, WordInType DEF TypeOK, Byte
<1>5. instruction.S = 0 /\ ~Refused(a, 1) => Served(a, 1)
  BY <1>1 DEF Served, Refused, Wild
<1> QED BY <1>1, <1>3, <1>4, <1>5, RegisterTypes DEF Bit
-----------------------------------------------------------------------------
\* Whatever the processor does keeps the types.
LEMMA StepTypes ==
  ASSUME TypeOK, Step \/ Reset
  PROVE  TypeOK'
<1>1. /\ r \in [Reg -> Word] /\ fetched \in [Reg -> Word]
      /\ cpsr \in Alu!Cpsr /\ mem \in [Index -> Byte]
      /\ result \in {0, UNDEFINED_INSTRUCTION, 255}
      /\ process \in {"running", "aborted"}
  BY RegisterTypes DEF TypeOK, Byte
<1>2. ASSUME r' \in [Reg -> Word], cpsr' \in Alu!Cpsr, mem' \in [Index -> Byte],
             result' \in {0, UNDEFINED_INSTRUCTION, 255},
             process' \in {"running", "aborted"}
      PROVE  TypeOK'
  BY <1>2 DEF TypeOK, Word, Byte
<1>3. CASE FetchRefused
  BY <1>1, <1>2, <1>3 DEF FetchRefused, Returns
<1>4. CASE FetchOutside \/ AccessOutside
  BY <1>1, <1>2, <1>4 DEF FetchOutside, AccessOutside, Abort
<1>5. CASE Skip
  BY <1>1, <1>2, <1>5 DEF Skip, Returns
<1>6. CASE Undefined
  BY <1>1, <1>2, <1>6 DEF Undefined, Returns
<1>7. CASE DataProcessing
  BY <1>1, <1>2, <1>7, DataTypes DEF DataProcessing, Returns
<1>8. CASE Branch
  BY <1>1, <1>2, <1>8, BranchTypes DEF Branch, Returns
<1>9. CASE Load
  <2>1. result' = 0 /\ UNCHANGED <<cpsr, mem, process>>
    BY <1>9 DEF Load, Returns
  <2> QED BY <1>1, <1>2, <1>9, <2>1, LoadTypes
<1>10. CASE Str
  BY <1>1, <1>2, <1>10, StrTypes DEF Str, Returns
<1>11. CASE Strh
  BY <1>1, <1>2, <1>11, StrhTypes DEF Strh, Returns
<1>12. CASE Stm
  BY <1>1, <1>2, <1>12, StmParts DEF Stm, Returns
<1>13. CASE Ldm
  BY <1>1, <1>2, <1>13, LdmTypes DEF Ldm, Returns
<1>14. CASE Reset
  <2>1. 0 \in Word
    BY Sizes, SMT DEF Word
  <2>2. Alu!ResetCpsr \in Alu!Cpsr
    BY DEF Alu!ResetCpsr, Alu!Cpsr, Alu!Bit
  <2> QED BY <1>1, <1>2, <1>14, <2>1, <2>2 DEF Reset
<1> QED BY <1>3, <1>4, <1>5, <1>6, <1>7, <1>8, <1>9, <1>10, <1>11, <1>12,
           <1>13, <1>14 DEF Step

\* Registers, memory and status have their types, and a step returns one of
\* the three results that the simulator's session expects
\* (arm_instruction.c:41-83, arm_exception.c:32-63).
THEOREM TypeCorrect == Spec => []TypeOK
<1>1. Init => TypeOK
  BY CpuAssumption DEF Init, TypeOK, Alu!ResetCpsr, Alu!Cpsr, Alu!Bit
<1>2. TypeOK /\ [Next]_vars => TypeOK'
  <2> SUFFICES ASSUME TypeOK, [Next]_vars PROVE TypeOK'
    OBVIOUS
  <2>1. CASE UNCHANGED vars
    BY <2>1 DEF TypeOK, vars
  <2> QED BY <2>1, StepTypes DEF Next, Aborted
<1> QED BY <1>1, <1>2, PTL DEF Spec

\* An instruction reported as failed has had no effect but the fetch
\* (arm_instruction.c:41-83, arm_branch_other.c:33-51).
THEOREM FailuresCorrect == Spec => FailuresPrecise
<1>1. Step /\ result' # 0 =>
        /\ r' = fetched \/ process' = "aborted"
        /\ UNCHANGED <<cpsr, mem>>
  BY DEF Step, FetchRefused, FetchOutside, AccessOutside, Abort, Skip,
     Undefined, DataProcessing, Branch, Load, Str, Strh, Stm, Ldm, Returns
<1> QED BY <1>1, PTL DEF FailuresPrecise

\* Of a condition and its opposite exactly one holds, for the first six
\* pairs, and GT and LE are never both true, whatever flags the instructions
\* leave (arm_conditions.c:13-79).
THEOREM OppositesCorrect == Spec => []Opposites
<1>1. TypeOK => Opposites
  <2> SUFFICES ASSUME TypeOK PROVE Opposites
    OBVIOUS
  <2>1. /\ cpsr.n \in {0, 1} /\ cpsr.z \in {0, 1} /\ cpsr.c \in {0, 1}
        /\ cpsr.v \in {0, 1}
    BY DEF TypeOK, Alu!Cpsr, Alu!Bit
  <2> QED BY <2>1 DEF Opposites, Holds, Higher
<1> QED BY <1>1, TypeCorrect, PTL
-----------------------------------------------------------------------------
(***************************************************************************)
(* Where the stores go.                                                    *)
(***************************************************************************)
\* The places of the registers of a list: different, in order, one for each.
LEMMA Places ==
  ASSUME TypeOK, Served(r[15], 4), instruction.type = "multiple",
         NEW i \in instruction.list
  PROVE  /\ i \in 0 .. 14
         /\ Place(i) \in Nat /\ Cardinality(instruction.list) \in 1 .. 15
         /\ Place(i) <= Cardinality(instruction.list) - 1
         /\ \A j \in instruction.list : j < i => Place(j) < Place(i)
<1> DEFINE list == instruction.list
           Before(k) == {j \in list : j < k}
<1>1. list \subseteq 0 .. 14
  <2>1. list \subseteq Reg \ {15} /\ Reg \subseteq 0 .. 15
    BY InstructionType, CpuAssumption
  <2>2. (0 .. 15) \ {15} = 0 .. 14
    BY SMT
  <2> QED BY <2>1, <2>2
<1>2. IsFiniteSet(0 .. 14) /\ Cardinality(0 .. 14) = 15
  <2>1. IsFiniteSet(0 .. 14)
        /\ Cardinality(0 .. 14) = IF 0 > 14 THEN 0 ELSE 14 - 0 + 1
    <3>1. 0 \in Int /\ 14 \in Int
      OBVIOUS
    <3> QED BY <3>1, FS_Interval, Zenon
  <2> QED BY <2>1, SMT
<1> HIDE DEF list
<1>3. IsFiniteSet(list) /\ Cardinality(list) \in Nat /\ Cardinality(list) <= 15
  <2>1. IsFiniteSet(list) /\ Cardinality(list) <= Cardinality(0 .. 14)
    BY <1>1, <1>2, FS_Subset
  <2> QED BY <1>2, <2>1, FS_CardinalityType
<1>4. ASSUME NEW S \in SUBSET list, NEW T \in SUBSET list, S \subseteq T, S # T
      PROVE  /\ Cardinality(S) \in Nat /\ Cardinality(T) \in Nat
             /\ Cardinality(S) < Cardinality(T)
  <2>1. IsFiniteSet(T) /\ IsFiniteSet(S)
    BY <1>3, FS_Subset
  <2>2. Cardinality(S) <= Cardinality(T)
        /\ (Cardinality(S) = Cardinality(T) => S = T)
    BY <1>4, <2>1, FS_Subset
  <2>3. Cardinality(S) \in Nat /\ Cardinality(T) \in Nat
    BY <2>1, FS_CardinalityType
  <2> QED BY <1>4, <2>2, <2>3, SMT
<1>5. i \in list /\ i \in Int /\ \A k : Place(k) = Cardinality(Before(k))
  BY <1>1, SMT DEF Place, list
<1>6. Place(i) \in Nat /\ Place(i) < Cardinality(list)
  <2>1. Before(i) \subseteq list /\ i \notin Before(i)
    BY <1>5, SMT
  <2> HIDE DEF Before
  <2> QED BY <1>4, <1>5, <2>1
<1>7. ASSUME NEW j \in list, j < i PROVE Place(j) < Place(i)
  <2>1. j \in Int
    BY <1>1, SMT
  <2>2. ASSUME NEW k \in list, k < j PROVE k < i
    BY <1>1, <1>5, <1>7, <2>1, <2>2, SMT
  <2>3. Before(j) \subseteq Before(i) /\ j \in Before(i) /\ j \notin Before(j)
    <3>1. ~(j < j)
      BY <2>1, SMT
    <3> QED BY <1>7, <2>2, <3>1
  <2>4. Before(j) \subseteq list /\ Before(i) \subseteq list
    OBVIOUS
  <2> HIDE DEF Before
  <2> QED BY <1>4, <1>5, <2>3, <2>4
<1>8. Cardinality(list) \in 1 .. 15 /\ Place(i) <= Cardinality(list) - 1
  BY <1>3, <1>6, SMT
<1>9. i \in 0 .. 14
  BY <1>1, <1>5
<1> QED BY <1>6, <1>7, <1>8, <1>9 DEF list

\* The address of a register of the list, in the words of MayStore.
LEMMA TargetIs ==
  ASSUME TypeOK, Served(r[15], 4), instruction.type = "multiple",
         NEW i \in instruction.list
  PROVE  /\ Alu!Read(instruction.rn) \in Nat
         /\ Place(i) + instruction.P \in 0 .. 15
         /\ Target(i) \in Word
         /\ Target(i) = (IF instruction.U = 1
                           THEN Alu!Read(instruction.rn)
                                  + (Place(i) + instruction.P)
                           ELSE Alu!Read(instruction.rn)
                                  - (Place(i) + instruction.P)) % Modulus
<1> DEFINE base == Alu!Read(instruction.rn)
           k == Place(i) + instruction.P
<1>1. base \in Nat
  <2>1. base \in Word
    BY InstructionType, ReadType
  <2> HIDE DEF base
  <2> QED BY <2>1, Sizes, SMT DEF Word
<1>2. k \in 0 .. 15
  <2>1. Place(i) \in 0 .. 14
    BY Places, SMT
  <2>2. instruction.P \in {0, 1}
    BY InstructionType DEF Bit
  <2> QED BY <2>1, <2>2, SMT
<1>3. Target(i) = (base + (IF instruction.U = 1 THEN k ELSE -k)) % Modulus
  BY DEF Target
<1> HIDE DEF base, k
<1>4. /\ base + k \in Int /\ base - k \in Int /\ base + (-k) = base - k
  BY <1>1, <1>2, SMT
<1>5. Target(i) = (IF instruction.U = 1 THEN base + k ELSE base - k) % Modulus
  BY <1>3, <1>4
<1>6. Target(i) \in Word
  BY <1>4, <1>5, Wrapped
<1> QED BY <1>1, <1>2, <1>5, <1>6 DEF base, k

LEMMA StmBlock ==
  ASSUME TypeOK, Stm, NEW a \in Index, mem'[a] # mem[a]
  PROVE  MayStore(a)
<1>1. PICK i \in Stored : Target(i) = a
  BY StmParts
<1>2. /\ Runs({"multiple"}) /\ instruction.L = 0 /\ Served(r[15], 4)
      /\ instruction.type = "multiple" /\ i \in instruction.list
  BY <1>1, StmParts DEF Stm, Runs
<1> DEFINE base == Alu!Read(instruction.rn)
           n == Cardinality(instruction.list)
           k == Place(i) + instruction.P
<1>3. a = (IF instruction.U = 1 THEN base + k ELSE base - k) % Modulus
  BY <1>1, <1>2, TargetIs
<1>4. k \in instruction.P .. instruction.P + n - 1
  <2>1. instruction.P \in {0, 1}
    BY <1>2, InstructionType DEF Bit
  <2> QED BY <1>2, <2>1, Places, SMT
<1> HIDE DEF base, k, n
<1>5. \E l \in instruction.P .. instruction.P + n - 1 :
         a = (IF instruction.U = 1 THEN base + l ELSE base - l) % Modulus
  BY <1>3, <1>4
<1>6. Runs({"load_store", "multiple"}) /\ instruction.type # "load_store"
  BY <1>2 DEF Runs
<1> QED BY <1>2, <1>5, <1>6, Zenon DEF MayStore, base, n

LEMMA StrhBlock ==
  ASSUME TypeOK, Strh, NEW a \in Index, mem'[a] # mem[a]
  PROVE  MayStore(a)
<1> DEFINE at == Alu!Read(instruction.rd)
           v == Alu!Read(instruction.rn) % (Radix * Radix)
<1>1. /\ ~Wild(at, 2)
      /\ mem' = IF Refused(at, 2) THEN mem
                  ELSE Memory!HalfStored(mem, at, v, ENDIANESS)
  BY DEF Strh
<1>2. at \in Word
  BY InstructionType, ReadType DEF Strh, LoadStore, Runs
<1> HIDE DEF at, v
<1>3. MemoryP!Inside(at, 2) /\ ~Refused(at, 2)
  BY <1>1, SameMemory DEF Refused, Wild
<1>4. Memory!At(at, 1) = at + 1
  BY <1>2, <1>3, MemoryAssumptions, SameMemory, MemoryP!InsideAt
<1>5. a \in {at, at + 1}
  <2>1. mem \in [Index -> Byte]
    BY DEF TypeOK, Byte
  <2> QED BY <1>1, <1>3, <1>4, <2>1 DEF Memory!HalfStored
<1>6. /\ Runs({"load_store", "multiple"}) /\ instruction.L = 0
      /\ instruction.type = "load_store"
  BY DEF Strh, LoadStore, Runs
<1> QED BY <1>5, <1>6 DEF MayStore, at

\* Only a store whose condition holds changes the memory, and only the block
\* it names (arm_load_store.c:415-431, 536-590).
THEOREM StoresCorrect == Spec => StoresInBlock
<1>1. ASSUME TypeOK, Next, NEW a \in Index, mem'[a] # mem[a]
      PROVE  MayStore(a)
  <2>1. Stm \/ Strh
    <3>1. CASE Load
      BY <1>1, <3>1 DEF Load
    <3> QED BY <1>1, <3>1 DEF Next, Step, FetchRefused, FetchOutside,
        AccessOutside, Abort, Skip, Undefined, DataProcessing, Branch, Str,
        Ldm, Reset, Aborted, vars
  <2> QED BY <1>1, <2>1, StmBlock, StrhBlock
<1>2. TypeOK /\ [Next]_vars => [\A a \in Index : mem'[a] # mem[a] => MayStore(a)]_vars
  BY <1>1
<1> QED BY <1>2, TypeCorrect, PTL DEF Spec, StoresInBlock

\* Different registers of a list go to different addresses.
LEMMA TargetsDiffer ==
  ASSUME TypeOK, Served(r[15], 4), instruction.type = "multiple",
         NEW i \in instruction.list, NEW j \in instruction.list, j < i
  PROVE  Target(i) # Target(j)
<1> DEFINE base == Alu!Read(instruction.rn)
           k == Place(i) + instruction.P
           l == Place(j) + instruction.P
<1>1. /\ base \in Nat /\ k \in 0 .. 15 /\ l \in 0 .. 15
      /\ Target(i) = (IF instruction.U = 1 THEN base + k ELSE base - k) % Modulus
      /\ Target(j) = (IF instruction.U = 1 THEN base + l ELSE base - l) % Modulus
  BY TargetIs
<1>2. l < k
  <2>1. Place(j) < Place(i) /\ Place(j) \in Nat /\ Place(i) \in Nat
    BY Places
  <2>2. instruction.P \in {0, 1}
    BY InstructionType DEF Bit
  <2> QED BY <2>1, <2>2, SMT
<1> HIDE DEF base, k, l
<1>3. Modulus \in Nat /\ Modulus > 0 /\ Modulus >= 16
  BY Sizes, SMT
<1>4. (base + k) % Modulus # (base + l) % Modulus
  <2>1. /\ base + k \in Int /\ base + l \in Int /\ base + k # base + l
        /\ (base + k) - (base + l) < Modulus
        /\ (base + l) - (base + k) < Modulus
    BY <1>1, <1>2, <1>3, SMT
  <2> QED BY AluAssumptions, <1>3, <2>1, AluP!SameRemainder
<1>5. (base - k) % Modulus # (base - l) % Modulus
  <2>1. /\ base - k \in Int /\ base - l \in Int /\ base - k # base - l
        /\ (base - k) - (base - l) < Modulus
        /\ (base - l) - (base - k) < Modulus
    BY <1>1, <1>2, <1>3, SMT
  <2> QED BY AluAssumptions, <1>3, <2>1, AluP!SameRemainder
<1> QED BY <1>1, <1>4, <1>5

\* A block store leaves no hole (arm_load_store.c:548-586).
THEOREM OrderCorrect == Spec => StoresInOrder
<1>1. ASSUME TypeOK, Stm, instruction.S = 0,
             NEW i \in instruction.list, NEW j \in instruction.list, j < i,
             Target(i) \in Index, mem'[Target(i)] # mem[Target(i)]
      PROVE  /\ Target(j) \in Index
             /\ mem'[Target(j)] = Alu!Read(j) % Radix
  <2>1. Served(r[15], 4) /\ instruction.type = "multiple"
    BY <1>1 DEF Stm, Runs
  <2>2. \A k, l \in instruction.list : Target(k) = Target(l) => k = l
    <3> SUFFICES ASSUME NEW k \in instruction.list, NEW l \in instruction.list,
                        k # l
                 PROVE  Target(k) # Target(l)
      OBVIOUS
    <3>1. k \in 0 .. 14 /\ l \in 0 .. 14
      BY <1>1, <2>1, Places
    <3>2. k < l \/ l < k
      BY <3>1, SMT
    <3> QED BY <1>1, <2>1, <3>2, TargetsDiffer
  <2>3. i \in Stored
    <3>1. PICK k \in Stored : Target(k) = Target(i)
      BY <1>1, StmParts
    <3> QED BY <1>1, <2>2, <3>1, StmParts
  <2>4. Served(Target(j), 1)
    BY <1>1, <2>3 DEF Stored, Visited, Reached
  <2>5. j \in Stored
    <3>1. ASSUME NEW k \in instruction.list, k < j PROVE k < i
      <4>1. k \in 0 .. 14 /\ j \in 0 .. 14 /\ i \in 0 .. 14
        BY <1>1, <2>1, Places
      <4> QED BY <1>1, <3>1, <4>1, SMT
    <3>2. Reached(j)
      BY <2>3, <3>1 DEF Stored, Visited, Reached
    <3> QED BY <1>1, <2>4, <3>2 DEF Stored, Visited
  <2>6. Target(j) \in Index
    BY <1>1, <2>1, <2>4, TargetIs, WordInType DEF TypeOK, Byte
  <2>7. (CHOOSE k \in Stored : Target(k) = Target(j)) = j
    BY <1>1, <2>2, <2>5, StmParts
  <2> QED BY <1>1, <2>5, <2>6, <2>7, StmParts
<1>2. TypeOK => (Stm /\ instruction.S = 0 =>
         \A i, j \in instruction.list :
           j < i /\ Target(i) \in Index /\ mem'[Target(i)] # mem[Target(i)]
             => /\ Target(j) \in Index
                /\ mem'[Target(j)] = Alu!Read(j) % Radix)
  BY <1>1
<1> QED BY <1>2, TypeCorrect, PTL DEF StoresInOrder
=============================================================================
