---------------------------- MODULE MCGdbAccess ----------------------------
(***************************************************************************)
(* Bytes of two bits: 3 is Esc, 2 another byte that must be escaped, and   *)
(* the bit to invert is the high one.  A byte that need not be escaped may *)
(* be.                                                                     *)
(***************************************************************************)
EXTENDS GdbAccess

MCFlip == [b \in 0 .. 3 |-> (b + 2) % 4]

MCData ==
  {[bytes |-> <<>>, content |-> <<>>, at |-> <<1>>],
   [bytes |-> <<1>>, content |-> <<1>>, at |-> <<1, 2>>],
   [bytes |-> <<3, 0>>, content |-> <<3, 1, 0>>, at |-> <<1, 3, 4>>],
   [bytes |-> <<2, 3>>, content |-> <<3, 0, 3, 1>>, at |-> <<1, 3, 5>>],
   [bytes |-> <<1, 3>>, content |-> <<3, 3, 3, 1>>, at |-> <<1, 3, 5>>]}

\* Each register starts with its number.
MCStart == {[r \in 0 .. 15 |-> r]}
MCValues == 0 .. 15 \union {100}
=============================================================================
