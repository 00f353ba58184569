--------------------------- MODULE BreakpointSet ---------------------------
(***************************************************************************)
(* What the breakpoint table of gdb_protocol.c promises to the handlers    *)
(* set_breakpoint, remove_breakpoint and cont: a set of at most            *)
(* MaxBreakpoints addresses that answers one call at a time.  The table    *)
(* itself, with its sorted array and its binary search, is the module      *)
(* BreakpointTable, which implements this one.                             *)
(***************************************************************************)
EXTENDS Naturals, FiniteSets

CONSTANTS Address,         \* the addresses a call may name
          MaxBreakpoints   \* MAX_BREAKPOINTS_NUMBER

VARIABLES set,      \* the breakpoints in force
          pending,  \* the call being served, or NoCall
          reply     \* 1 when the last call found or did, 0 when it failed

vars == <<set, pending, reply>>

Operation == {"find", "add", "remove"}
NoCall == [op |-> "none", address |-> 0]

Init == set = {} /\ pending = NoCall /\ reply = 0

Call(op, a) ==
  /\ pending = NoCall
  /\ pending' = [op |-> op, address |-> a]
  /\ UNCHANGED <<set, reply>>

Answer(op) ==
  /\ pending.op = op
  /\ pending' = NoCall

Find ==
  /\ Answer("find")
  /\ reply' = IF pending.address \in set THEN 1 ELSE 0
  /\ set' = set

\* A full table refuses every address, even one it already holds.
Add ==
  /\ Answer("add")
  /\ IF Cardinality(set) < MaxBreakpoints
       THEN set' = set \union {pending.address} /\ reply' = 1
       ELSE set' = set /\ reply' = 0

Remove ==
  /\ Answer("remove")
  /\ reply' = IF pending.address \in set THEN 1 ELSE 0
  /\ set' = set \ {pending.address}

Next ==
  \/ \E op \in Operation, a \in Address : Call(op, a)
  \/ Find
  \/ Add
  \/ Remove

Spec == Init /\ [][Next]_vars
=============================================================================
