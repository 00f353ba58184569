------------------------------ MODULE MCArmCpu ------------------------------
(* Programs of three words of four bits, each word one of sixteen          *)
(* instructions, run on a memory of twelve one-bit bytes.                  *)
EXTENDS ArmCpu

MCReg == {0, 4, 14, 15}

Imm(v) == [kind |-> "rotate", immed |-> v, rotate_imm |-> 0]
Plain(i) == [kind |-> "shift_imm", mode |-> 0, rm |-> i, amount |-> 0]
Data(cond, op, s, rn, rd, operand) ==
  [type |-> "data", cond |-> cond,
   ins |-> [op |-> op, s |-> s, rn |-> rn, rd |-> rd, operand |-> operand]]
Single(cond, L, B, rn, rd, writeBack, offset) ==
  [type |-> "load_store", cond |-> cond, L |-> L, B |-> B, rn |-> rn,
   rd |-> rd, P |-> 1, U |-> 0, W |-> writeBack, offset |-> offset]
Multiple(cond, L, S, rn, P, U, list) ==
  [type |-> "multiple", cond |-> cond, L |-> L, S |-> S, rn |-> rn,
   P |-> P, U |-> U, list |-> list]
Jump(cond, linked, imm24) ==
  [type |-> "branch", cond |-> cond, linked |-> linked, imm24 |-> imm24]
Other(type, cond) == [type |-> type, cond |-> cond]

\* Every type, every branch of the block transfers, and a base at the top of
\* the address space, from which a block wraps.
MCInstructions ==
  <<Data("AL", "mov", 1, 0, 0, Imm(1)),
    Data("AL", "sub", 1, 4, 4, Plain(0)),
    Data("LS", "add", 1, 4, 0, Plain(4)),
    Single("AL", 1, 0, 0, 4, 0, 0),
    Single("VC", 0, 0, 4, 0, 1, 4),
    Single("AL", 0, 1, 0, 4, 0, 0),
    Single("UN", 1, 1, 4, 0, 0, 0),
    Multiple("AL", 0, 0, 4, 0, 1, {0, 4, 14}),
    Multiple("AL", 0, 0, 0, 1, 0, {0, 4, 14}),
    Multiple("PL", 1, 0, 4, 1, 0, {0, 14}),
    Jump("EQ", 1, 12),
    Jump("UN", 1, 4),
    Multiple("NE", 0, 0, 4, 1, 1, {0, 14}),
    Other("swi", "HI"),
    Multiple("AL", 0, 1, 4, 0, 1, {0, 4}),
    Data("GE", "mov", 1, 0, 15, Plain(4))>>
MCDecode == [w \in 0 .. Modulus - 1 |-> MCInstructions[w + 1]]

\* The bits of three words in memory.
Laid(w) ==
  [a \in 0 .. 11 |->
     LET i == a % 4
     IN (w[a \div 4] \div 2^(IF ENDIANESS = 1 THEN 3 - i ELSE i)) % 2]
MCContents ==
  {Laid(w) : w \in {f \in [0 .. 2 -> 0 .. 15] :
                      f[2] \in {3, 7, 11, 14}}}
MCRegisters ==
  {f \in [MCReg -> 0 .. 15] :
     f[0] \in {0, 9} /\ f[4] \in {2, 7, 11} /\ f[14] = 1 /\ f[15] = 0}
=============================================================================
