------------------------------ MODULE MCScanner ------------------------------
(***************************************************************************)
(* All inputs of up to four characters, and some longer ones: packets after *)
(* one another, cut short, interrupted by another, and with a NUL inside.   *)
(***************************************************************************)
EXTENDS Scanner

MCLonger ==
  {<<"$", "other", "#", "hex", "hex">>,
   <<"$", "nul", "#", "hex", "hex">>,
   <<"$", "newline", "hex", "#", "hex", "hex">>,
   <<"+", "$", "hex", "#", "hex", "hex", "-">>,
   <<"$", "other", "#", "hex", "other", "+">>,
   <<"$", "#", "hex", "nul", "hex">>,
   <<"$", "other", "$", "#", "hex", "hex">>,
   <<"$", "#", "hex", "$", "#", "hex", "hex">>}

MCInputs ==
  (UNION {[1 .. n -> Rules!Class] : n \in 0 .. 4}) \union MCLonger
=============================================================================
