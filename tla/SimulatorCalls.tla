--------------------------- MODULE SimulatorCalls ---------------------------
(***************************************************************************)
(* The simulator with its breakpoint table behind an interface: where      *)
(* Simulator tests or changes the set in one step, a handler calls the     *)
(* table and goes on when it has answered; the other threads may run in    *)
(* between.  The table is a BreakpointSet, which BreakpointTable           *)
(* implements with its array.                                              *)
(***************************************************************************)
EXTENDS Simulator

VARIABLES
  pending,  \* the call being served
  reply     \* the answer to the last one

Table == INSTANCE BreakpointSet WITH set <- breakpoints, Address <- Word

calls == <<pending, reply>>

CallsInit == Init /\ Table!Init

\* A handler calls the table.
Call(letter, place, name, a) ==
  /\ Running /\ gdb = place /\ packet.op = letter
  /\ Table!Call(name, a)
  /\ UNCHANGED <<world, lock, core, target_exception, gdbLocals>>

CallTable ==
  \/ Call("c", "check", "find", core.PC)
  \/ Call("Z", "handle", "add", packet.PC)
  \/ Call("z", "handle", "remove", packet.PC)

\* The search of cont has answered for the program counter it was called for.
StopAnswer ==
  /\ Table!Find
  /\ Handler({"c"}, "check", IF reply' = 1 \/ target_exception # 0
                               THEN "stop" ELSE "continue")
  /\ UNCHANGED <<core, target_exception, PC_read, answer, outgoing>>

SetAnswer ==
  /\ Table!Add /\ Handler({"Z"}, "handle", "reply")
  /\ answer' = IF reply' = 1 THEN <<"OK">> ELSE <<"E04">>
  /\ UNCHANGED <<core, target_exception, PC_read, outgoing>>

RemoveAnswer ==
  /\ Table!Remove /\ Handler({"z"}, "handle", "reply")
  /\ answer' = IF reply' = 1 THEN <<"OK">> ELSE <<"E05">>
  /\ UNCHANGED <<core, target_exception, PC_read, outgoing>>

GdbCalls ==
  \/ GdbElsewhere /\ UNCHANGED calls
  \/ CallTable \/ StopAnswer \/ SetAnswer \/ RemoveAnswer

Elsewhere == (IrqThread \/ MainThread \/ Clients \/ Ended) /\ UNCHANGED calls

CallsNext == GdbCalls \/ Elsewhere

CallsSpec == CallsInit /\ [][CallsNext]_<<vars, calls>>

(***************************************************************************)
(* The operating system schedules every thread; a mutex that is free is    *)
(* taken in the end by a thread that waits for it, since the clients send  *)
(* a bounded number of requests.  Clients owe nothing, except that an      *)
(* interrupt client leaves, as send_irq does after its one byte.           *)
(***************************************************************************)
CallsFairSpec ==
  /\ CallsSpec
  /\ WF_<<vars, calls>>(GdbCalls)
  /\ WF_<<vars, calls>>(IrqThread /\ UNCHANGED calls)
  /\ WF_<<vars, calls>>(MainThread /\ UNCHANGED calls)
  /\ \A c \in Client :
       WF_<<vars, calls>>(IrqLeave(c, "closed") /\ UNCHANGED calls)
-----------------------------------------------------------------------------
(***************************************************************************)
(* Properties.                                                             *)
(***************************************************************************)

\* A call of the table, however long it takes, acts as if it were one step:
\* what cont decides is true of the program counter at that moment, although
\* it was read before the search, and the answers to Z and z are those of the
\* table they leave behind (gdb_protocol.c:185-201, 389-421).
ImplementsSimulator == Spec
=============================================================================
