----------------------------- MODULE TokenStream -----------------------------
(***************************************************************************)
(* What the scanner promises: the input is cut into tokens as the rules    *)
(* say, each the longest at its place, however the input arrives.          *)
(***************************************************************************)
EXTENDS ScannerRules

CONSTANT Inputs  \* what the client may send

VARIABLES
  rest,  \* the input from which no token has been taken
  rule   \* the rule of the last token

vars == <<rest, rule>>

Init == rest \in Inputs /\ rule = "none"

Take ==
  /\ rest # <<>>
  /\ rest' = Drop(rest, TokenOf(rest).length)
  /\ rule' = TokenOf(rest).rule

Next == Take

Spec == Init /\ [][Next]_vars
=============================================================================
