--------------------------- MODULE DataProcessing ---------------------------
(***************************************************************************)
(* The data-processing instructions (arm_data_processing.c): the shifter,  *)
(* the sixteen operations and the update of the flags, on words of W bits. *)
(* W is 32 in the code; the fields of an instruction that hold a number of *)
(* bits scale with it.                                                     *)
(*                                                                         *)
(* A shift by W bits or more is undefined in C.  On the processors the     *)
(* simulator is built for it shifts by the count modulo W, and a compiler  *)
(* that knows the count may yield 0: the outcome is either.                *)
(***************************************************************************)
EXTENDS Integers

CONSTANTS
  W,         \* bits of a word, a multiple of 4
  Amounts,   \* shift amounts of the bottom byte of a register, 256
  Reg,       \* the registers that instructions name
  Registers, \* the register contents the program may start from
  Guest      \* the data-processing instructions it executes

Bit == {0, 1}
Modulus == 2^W
Word == 0 .. Modulus - 1
LSL == 0  LSR == 1  ASR == 2  ROR == 3

\* The status register: the flags, and the other bits, which only RESET and
\* the all-ones value read as the spsr ever change.
Cpsr == [n : Bit, z : Bit, c : Bit, v : Bit, low : {"reset", "spsr"}]
ResetCpsr == [n |-> 0, z |-> 0, c |-> 0, v |-> 0, low |-> "reset"]
Spsr == [n |-> 1, z |-> 1, c |-> 1, v |-> 1, low |-> "spsr"]

Operation == {"and", "eor", "sub", "rsb", "add", "adc", "sbc", "rsc",
              "tst", "teq", "cmp", "cmn", "orr", "mov", "bic", "mvn"}
Operand ==
  [kind : {"shift_imm"}, mode : LSL .. ROR, rm : Reg, amount : 0 .. W - 1]
    \union [kind : {"shift_reg"}, mode : LSL .. ROR, rm : Reg, rs : Reg]
    \union [kind : {"rotate"}, immed : 0 .. 2^(W \div 4) - 1,
            rotate_imm : 0 .. W \div 2 - 1]
Instruction ==
  [op : Operation, s : Bit, rn : Reg, rd : Reg, operand : Operand]

ASSUME WidthAssumption == W \in Nat /\ W > 0 /\ W % 4 = 0
ASSUME InstructionAssumption ==
  /\ 15 \in Reg /\ Amounts \in Nat /\ Amounts > 0
  /\ Registers \subseteq [Reg -> Word]
  /\ \A ins \in Guest : /\ ins.op \in Operation /\ ins.operand \in Operand
                        /\ {ins.rn, ins.rd} \subseteq Reg /\ ins.s \in Bit

VARIABLES
  r,     \* the general registers and the program counter
  cpsr   \* the status register

regs == <<r, cpsr>>
-----------------------------------------------------------------------------
(***************************************************************************)
(* Words and bits.                                                         *)
(***************************************************************************)
BitOf(x, i) == (x \div 2^i) % 2
Top(x) == BitOf(x, W - 1)
Truth(b) == IF b THEN 1 ELSE 0

\* The word whose bit i is f[i].
FromBits(f) == CHOOSE x \in Word : \A i \in 0 .. W - 1 : BitOf(x, i) = f[i]
BitAnd(x, y) == FromBits([i \in 0 .. W - 1 |-> BitOf(x, i) * BitOf(y, i)])
BitOr(x, y) == FromBits([i \in 0 .. W - 1 |->
                          Truth(BitOf(x, i) + BitOf(y, i) > 0)])
BitXor(x, y) == FromBits([i \in 0 .. W - 1 |->
                           (BitOf(x, i) + BitOf(y, i)) % 2])
BitNot(x) == Modulus - 1 - x

\* x << n and x >> n in C.
ShiftLeft(x, n) ==
  IF n \in 0 .. W - 1 THEN {(x * 2^n) % Modulus}
                      ELSE {(x * 2^(n % W)) % Modulus, 0}
ShiftRight(x, n) ==
  IF n \in 0 .. W - 1 THEN {x \div 2^n} ELSE {x \div 2^(n % W), 0}

\* get_bit(x, i), a shift too.
BitsOf(x, i) == {y % 2 : y \in ShiftRight(x, i)}

\* asr and ror of util.c.
Asr(x, n) ==
  {BitOr(a, b) : a \in ShiftRight(x, n),
                 b \in IF Top(x) = 1 THEN ShiftLeft(Modulus - 1, W - n)
                                     ELSE {0}}
Ror(x, n) ==
  {BitOr(a, b) : a \in ShiftRight(x, n), b \in ShiftLeft(x, W - n)}

\* arm_read_register: the program counter reads 4 ahead, its bit 1 clear.
Read(i) ==
  IF i = 15 THEN LET pc == (r[15] + 4) % Modulus IN pc - 2 * BitOf(pc, 1)
            ELSE r[i]
-----------------------------------------------------------------------------
(***************************************************************************)
(* The shifter: the possible pairs of the operand and the carry out.       *)
(***************************************************************************)
\* The first half of shift: the amount is in the instruction.
ShiftByImmediate(mode, x, amount) ==
  CASE mode = LSL ->
         IF amount = 0 THEN {<<x, cpsr.c>>}
           ELSE ShiftLeft(x, amount) \X {BitOf(x, W - amount)}
    [] mode = LSR ->
         ShiftRight(x, amount)
           \X {IF amount = 0 THEN Top(x) ELSE BitOf(x, amount - 1)}
    [] mode = ASR ->
         IF amount = 0 THEN {<<Top(x) * (Modulus - 1), Top(x)>>}
           ELSE Asr(x, amount) \X {BitOf(x, amount - 1)}
    [] mode = ROR ->
         IF amount = 0
           THEN {<<BitOr(x \div 2, cpsr.c * 2^(W - 1)), BitOf(x, 0)>>}
           ELSE Ror(x, amount) \X {BitOf(x, amount - 1)}

\* A slip of ShiftByRegister: an amount of 0 gives a carry as the others do.
ShiftByRegisterOfZero(mode, x, amount) ==
  CASE mode = LSL -> ShiftLeft(x, amount) \X BitsOf(x, W - amount)
    [] mode = LSR -> ShiftRight(x, amount) \X BitsOf(x, amount - 1)
    [] mode = ASR -> Asr(x, amount) \X BitsOf(x, amount - 1)
    [] mode = ROR -> Ror(x, amount) \X {cpsr.c}

\* Its second half: the amount is the bottom byte of a register.  The carry
\* of a rotation is that of a bit of the lower half, whatever the amount:
\* the mask 0x0F is half as wide as a word, and the test of its other case
\* is always false.
ShiftByRegister(mode, x, amount) ==
  LET value ==
        CASE mode = LSL -> ShiftLeft(x, amount)
          [] mode = LSR -> ShiftRight(x, amount)
          [] mode = ASR -> Asr(x, amount)
          [] mode = ROR -> Ror(x, amount)
      carry ==
        CASE amount = 0 -> {cpsr.c}
          [] amount # 0 /\ mode = ROR -> BitsOf(x, (amount % (W \div 2)) - 1)
          [] amount \in 1 .. W - 1 /\ mode = LSL -> {BitOf(x, W - amount)}
          [] amount \in 1 .. W - 1 /\ mode \in {LSR, ASR} ->
               {BitOf(x, amount - 1)}
          [] amount = W /\ mode = LSL -> {BitOf(x, 0)}
          [] amount = W /\ mode = LSR -> {Top(x)}
          [] OTHER -> {0}
  IN value \X carry

\* rotate: a rotation by 0 shifts by W, which adds nothing in either case.
Rotate(immed, rotate_imm) ==
  {<<x, IF rotate_imm = 0 THEN cpsr.c ELSE Top(x)>> :
     x \in IF rotate_imm = 0 THEN {immed} ELSE Ror(immed, 2 * rotate_imm)}

Shifted(operand) ==
  CASE operand.kind = "shift_imm" ->
         ShiftByImmediate(operand.mode, Read(operand.rm), operand.amount)
    [] operand.kind = "shift_reg" ->
         ShiftByRegister(operand.mode, Read(operand.rm),
                         Read(operand.rs) % Amounts)
    [] operand.kind = "rotate" -> Rotate(operand.immed, operand.rotate_imm)
-----------------------------------------------------------------------------
(***************************************************************************)
(* The operations.  seen is the value the flags N and Z are computed from, *)
(* which is not always the one written; v = -1 stands for no overflow      *)
(* flag.  The overflow builtins work on unsigned words.                    *)
(***************************************************************************)
Out(value, seen, c, v) == [value |-> value, seen |-> seen, c |-> c, v |-> v]
Minus(x, y) == (x - y) % Modulus
Logical(x, carry_out) == Out(x, x, carry_out, -1)

\* A slip of Difference: an equal operand counts as a borrow.
DifferenceStrict(x, y) ==
  Out(Minus(x, y), Minus(x, y), Truth(x > y), Truth(x < y))

\* Sub and Cmp, and Rsb with its operands exchanged.
Difference(x, y) ==
  Out(Minus(x, y), Minus(x, y), Truth(x >= y), Truth(x < y))

\* Add and Cmn: CarryFromAdd is exact, in 64 bits.
Total(x, y) ==
  LET carry == Truth(x + y >= Modulus)
  IN Out((x + y) % Modulus, (x + y) % Modulus, carry, carry)

\* Adc: the operand and the carry are added first, in a word.
TotalWithCarry(x, y) == Total(x, (y + cpsr.c) % Modulus)

\* A slip of DifferenceWithCarry: the carry is not negated.
DifferenceWithBorrow(x, y) ==
  LET complement == (y + 2 - cpsr.c) % Modulus
  IN Out(Minus(x, y + cpsr.c), Minus(x, complement),
         Truth(x >= Minus(y, 1 - cpsr.c)), Truth(x < complement))

\* Sbc, and Rsc with its operands exchanged.  The overflow, and with it the
\* value of N and Z, is of an operand from which the complement of the
\* negated carry, -1 or -2, is subtracted.
DifferenceWithCarry(x, y) ==
  LET notCarry == 1 - cpsr.c
      complement == (y + 1 + notCarry) % Modulus
  IN Out(Minus(x, y + notCarry), Minus(x, complement),
         Truth(x >= Minus(y, notCarry)), Truth(x < complement))

\* The operation on Rn, the operand and the old contents of Rd.  And and Eor
\* compute the flags before the result: from the old contents.
Operate(op, src, y, old, carry_out) ==
  CASE op = "and" -> Out(BitAnd(src, y), old, carry_out, -1)
    [] op = "eor" -> Out(BitXor(src, y), old, carry_out, -1)
    [] op \in {"sub", "cmp"} -> Difference(src, y)
    [] op = "rsb" -> Difference(y, src)
    [] op \in {"add", "cmn"} -> Total(src, y)
    [] op = "adc" -> TotalWithCarry(src, y)
    [] op = "sbc" -> DifferenceWithCarry(src, y)
    [] op = "rsc" -> DifferenceWithCarry(y, src)
    [] op = "tst" -> Logical(BitAnd(src, y), carry_out)
    [] op = "teq" -> Logical(BitXor(src, y), carry_out)
    [] op = "orr" -> Logical(BitOr(src, y), carry_out)
    [] op = "mov" -> Logical(y, carry_out)
    [] op = "bic" -> Logical(BitAnd(src, BitNot(y)), carry_out)
    [] op = "mvn" -> Logical(BitNot(y), carry_out)

Test(op) == op \in {"tst", "teq", "cmp", "cmn"}

\* A slip of UpdateCpsr: the sign is taken one bit too low.
UpdateCpsrLow(out, s, rd) ==
  IF s = 1 /\ rd = 15 THEN Spsr
  ELSE IF s = 1
    THEN [cpsr EXCEPT !.n = BitOf(out.seen, W - 2), !.z = Truth(out.seen = 0),
                      !.c = out.c, !.v = IF out.v = -1 THEN 0 ELSE out.v]
  ELSE cpsr

\* UpdateCpsr: the mask clears the overflow flag even when v says it is
\* unaffected; with S and the program counter the spsr is copied.
UpdateCpsr(out, s, rd) ==
  IF s = 1 /\ rd = 15 THEN Spsr
  ELSE IF s = 1
    THEN [cpsr EXCEPT !.n = Top(out.seen), !.z = Truth(out.seen = 0),
                      !.c = out.c, !.v = IF out.v = -1 THEN 0 ELSE out.v]
  ELSE cpsr

\* arm_data_processing_shift and arm_data_processing_immediate_msr: what an
\* instruction may leave in the registers.
Outcomes(ins) ==
  {LET out == Operate(ins.op, Read(ins.rn), sh[1], Read(ins.rd), sh[2])
   IN IF Test(ins.op)
        THEN [r |-> r, cpsr |-> UpdateCpsr(out, 1, 0)]
        ELSE [r |-> [r EXCEPT ![ins.rd] = out.value],
              cpsr |-> UpdateCpsr(out, ins.s, ins.rd)] :
   sh \in Shifted(ins.operand)}
-----------------------------------------------------------------------------
(***************************************************************************)
(* A guest made of data-processing instructions, in any order.             *)
(***************************************************************************)
Init == r \in Registers /\ cpsr = ResetCpsr

Execute(ins) ==
  \E o \in Outcomes(ins) : r' = o.r /\ cpsr' = o.cpsr

Next == \E ins \in Guest : Execute(ins)

Spec == Init /\ [][Next]_regs
-----------------------------------------------------------------------------
(***************************************************************************)
(* What the instructions compute, by the comments of the code and the      *)
(* manual they follow: the exact value, carries and borrows of exact sums. *)
(***************************************************************************)
Signed(x) == IF Top(x) = 1 THEN x - Modulus ELSE x

Additive == {"add", "cmn", "adc"}
Subtractive == {"sub", "cmp", "rsb", "sbc", "rsc"}

\* The exact result of an arithmetic operation on two numbers.
Exact(op, x, y) ==
  CASE op \in {"add", "cmn"} -> x + y
    [] op = "adc" -> x + y + cpsr.c
    [] op \in {"sub", "cmp"} -> x - y
    [] op = "rsb" -> y - x
    [] op = "sbc" -> x - y - (1 - cpsr.c)
    [] op = "rsc" -> y - x - (1 - cpsr.c)

ExactCarry(op, x, y) ==
  IF op \in Additive THEN Truth(Exact(op, x, y) >= Modulus)
                     ELSE Truth(Exact(op, x, y) >= 0)

\* Bit i of the result of a logical operation.
LogicalBit(op, a, b) ==
  CASE op \in {"and", "tst"} -> Truth(a = 1 /\ b = 1)
    [] op \in {"eor", "teq"} -> Truth(a # b)
    [] op = "orr" -> Truth(a = 1 \/ b = 1)
    [] op = "mov" -> b
    [] op = "bic" -> Truth(a = 1 /\ b = 0)
    [] op = "mvn" -> 1 - b

\* What an instruction may yield in the current state.
Results(ins) ==
  {[y |-> sh[1], carry_out |-> sh[2],
    out |-> Operate(ins.op, Read(ins.rn), sh[1], Read(ins.rd), sh[2])] :
   sh \in Shifted(ins.operand)}

\* Every operation yields the exact value, also where the code adds or
\* subtracts the carry in a word of its own (arm_data_processing.c:56-236).
ValuesTrue ==
  \A ins \in Guest : \A res \in Results(ins) :
    LET src == Read(ins.rn)
    IN IF ins.op \in Additive \union Subtractive
         THEN res.out.value = Exact(ins.op, src, res.y) % Modulus
         ELSE \A i \in 0 .. W - 1 :
                BitOf(res.out.value, i)
                  = LogicalBit(ins.op, BitOf(src, i), BitOf(res.y, i))

\* The carry is that of the exact sum, and NOT the borrow of the exact
\* difference.  With a carry in this is so but in the cases where the code
\* narrows the operand and the carry to a word too early: ADC of all ones
\* and the carry set, SBC and RSC with the carry clear
\* (arm_data_processing.c:75-160, 177-195).
CarryTrue ==
  \A ins \in Guest : \A res \in Results(ins) :
    /\ ins.op \in Additive \union Subtractive
    /\ ins.op = "adc" => ~(res.y = Modulus - 1 /\ cpsr.c = 1)
    /\ ins.op \in {"sbc", "rsc"} => cpsr.c = 1
    => res.out.c = ExactCarry(ins.op, Read(ins.rn), res.y)

\* After an instruction that sets the flags, N and Z are those of what it
\* computed, for the operations that do not take them from elsewhere
\* (arm_data_processing.c:32-49).
SignTrue ==
  [][\A ins \in Guest :
       /\ ins.s = 1 /\ ins.rd # 15 /\ ~Test(ins.op)
       /\ ins.op \notin {"and", "eor", "sbc", "rsc"}
       /\ Execute(ins)
       => /\ cpsr'.n = 1 <=> Signed(r'[ins.rd]) < 0
          /\ cpsr'.z = 1 <=> r'[ins.rd] = 0]_regs

\* A shift of x by a part of a word: the bits move by the amount, and but
\* for a rotation the carry is the last one out.
MovedBy(mode, x, amount, sh) ==
  CASE mode = LSL -> sh[2] * Modulus + sh[1] = (x * 2^amount) % (2 * Modulus)
    [] mode = LSR -> 2 * sh[1] + sh[2] = x \div 2^(amount - 1)
    [] mode = ASR -> 2 * Signed(sh[1]) + sh[2] = Signed(x) \div 2^(amount - 1)
    [] mode = ROR ->
         \A i \in 0 .. W - 1 : BitOf(sh[1], i) = BitOf(x, (i + amount) % W)

\* An amount of 0 in the instruction: LSL changes nothing, ASR spreads the
\* sign, ROR moves the word with the carry by one bit.
ZeroInInstruction(mode, x, sh) ==
  CASE mode = LSL -> sh = <<x, cpsr.c>>
    [] mode = LSR -> sh[2] = Top(x)
    [] mode = ASR -> sh[2] = Top(x) /\ Signed(sh[1]) = 0 - Top(x)
    [] mode = ROR -> 2 * sh[1] + sh[2] = cpsr.c * Modulus + x

\* An amount of 0 in a register changes nothing, but for a negative word,
\* which ASR may turn into -1: its shift by 32 bits is undefined.
ZeroInRegister(mode, x, sh) ==
  /\ sh[2] = cpsr.c
  /\ sh[1] = x \/ (mode = ASR /\ Top(x) = 1 /\ sh[1] = Modulus - 1)

\* The shifted operand and its carry out (arm_data_processing.c:237-354).
\* Nothing is said of the value of LSR by 0 in the instruction, which the code
\* leaves as it is, of the values for amounts of W or more, which are undefined
\* in C, of the carry of ASR for those, nor of the carry of ROR by a register
\* for half a word or more.
ShiftTrue ==
  \A ins \in Guest : ins.operand.kind # "rotate" =>
    LET x == Read(ins.operand.rm)
        byRegister == ins.operand.kind = "shift_reg"
        amount == IF byRegister THEN Read(ins.operand.rs) % Amounts
                                ELSE ins.operand.amount
        mode == ins.operand.mode
    IN \A sh \in Shifted(ins.operand) :
         /\ amount \in 1 .. W - 1 => MovedBy(mode, x, amount, sh)
         /\ mode = ROR /\ amount \in 1 .. W - 1
              /\ (byRegister => amount < W \div 2)
              => sh[2] = BitOf(x, amount - 1)
         /\ amount = 0 => IF byRegister THEN ZeroInRegister(mode, x, sh)
                                        ELSE ZeroInInstruction(mode, x, sh)
         /\ amount = W => CASE mode = LSL -> sh[2] = BitOf(x, 0)
                            [] mode = LSR -> sh[2] = Top(x)
                            [] OTHER -> TRUE
         /\ amount > W /\ mode \in {LSL, LSR} => sh[2] = 0
=============================================================================
