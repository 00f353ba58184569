-------------------------- MODULE MCDataProcessing --------------------------
(* Every operation, and every shift, on all pairs of words of four bits.   *)
EXTENDS DataProcessing

MCReg == {0, 1, 15}
MCRegisters == {f \in [MCReg -> Word] : f[15] = 0}

Plain == [kind |-> "shift_imm", mode |-> LSL, rm |-> 1, amount |-> 0]
Arithmetic ==
  [op : Operation, s : Bit, rn : {0}, rd : {0}, operand : {Plain}]
Shifts ==
  {[op |-> "mov", s |-> 1, rn |-> 0, rd |-> 0, operand |-> o] :
     o \in [kind : {"shift_imm"}, mode : LSL .. ROR, rm : {0},
            amount : 0 .. W - 1]
             \union [kind : {"shift_reg"}, mode : LSL .. ROR, rm : {0},
                     rs : {1}]
             \union [kind : {"rotate"}, immed : 0 .. 1,
                     rotate_imm : 0 .. W \div 2 - 1]}
MCGuest == Arithmetic \union Shifts
=============================================================================
