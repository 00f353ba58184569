---------------------------- MODULE MCGdbSession ----------------------------
(***************************************************************************)
(* A step, a query and an unknown letter; a damaged character turns into   *)
(* any class that the scanner tells from the others.                       *)
(***************************************************************************)
EXTENDS GdbSession

MCLetter == <<"s", "qSupported", "unsupported">>

MCJunk == {Char(c) : c \in {"other", "hex", "newline", "$", "#", "-", "+"}}
=============================================================================
