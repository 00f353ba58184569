------------------------ MODULE MCBreakpointTable ------------------------
(* Two addresses more than slots: the table fills up, refuses, and searches *)
(* both for addresses it holds and for addresses between them.              *)
EXTENDS BreakpointTable

MCAddress == 0 .. 5
MCMaxBreakpoints == 4
=============================================================================
