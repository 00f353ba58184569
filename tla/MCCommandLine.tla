--------------------------- MODULE MCCommandLine ---------------------------
(***************************************************************************)
(* Six values, in the order of strcmp: the number of a port beyond the     *)
(* last, three files, the third of which cannot be written, and the names  *)
(* of two modes, 31 and 16.                                                *)
(***************************************************************************)
EXTENDS CommandLine

MCAtoi == [a \in 1 .. 6 |-> IF a = 1 THEN 9 ELSE 0]
MCModeOf == [a \in 1 .. 6 |-> CASE a = 5 -> 31 [] a = 6 -> 16 [] OTHER -> -1]
=============================================================================
