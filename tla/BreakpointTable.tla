-------------------------- MODULE BreakpointTable --------------------------
(***************************************************************************)
(* The breakpoint table of gdb_protocol.c: an array of                     *)
(* MAX_BREAKPOINTS_NUMBER addresses of which the first breakpoints_number  *)
(* are in use and kept in increasing order, searched by dichotomy.  The    *)
(* module takes one step per loop iteration of gdb_find_breakpoint,        *)
(* gdb_add_breakpoint and gdb_remove_breakpoint.  All three run in the     *)
(* thread that serves gdb, so a call is never interleaved with another.    *)
(***************************************************************************)
EXTENDS Integers, FiniteSets

CONSTANTS Address,         \* the addresses a breakpoint may be set at
          MaxBreakpoints   \* MAX_BREAKPOINTS_NUMBER

ASSUME AddressAssumption == Address \subseteq Nat
ASSUME MaxAssumption == MaxBreakpoints \in Nat \ {0}

VARIABLES
  breakpoints,         \* the array, slots past the count hold left-overs
  breakpoints_number,  \* the count
  pc,                  \* where the call in progress is
  op, address,         \* the call in progress: its name and its argument
  begin, end,          \* the window of the dichotomy
  j,                   \* the slot an insertion or a deletion has reached
  result               \* 1 when the last call found or did, 0 when it failed

tableVars ==
  <<breakpoints, breakpoints_number, pc, op, address, begin, end, j, result>>
table == <<breakpoints, breakpoints_number>>
window == <<begin, end>>

Slot == 0 .. MaxBreakpoints - 1
Operation == {"find", "add", "remove"}

\* gdb_init_data clears the count and leaves the malloced array as it is.
TableInit ==
  /\ breakpoints \in [Slot -> Address]
  /\ breakpoints_number = 0
  /\ pc = "idle" /\ op = "none" /\ address = 0
  /\ begin = 0 /\ end = 0 /\ j = 0
  /\ result = 0

Return(value) ==
  /\ pc' = "idle" /\ op' = "none" /\ address' = 0
  /\ begin' = 0 /\ end' = 0 /\ j' = 0
  /\ result' = value

(***************************************************************************)
(* The three entry points.  An addition to a full table returns 0 before   *)
(* it looks for the address; every other call starts by a search.          *)
(***************************************************************************)
Call(name, a) ==
  /\ pc = "idle"
  /\ pc' = IF name = "add" /\ breakpoints_number >= MaxBreakpoints
             THEN "full" ELSE "search"
  /\ op' = name /\ address' = a
  /\ begin' = 0 /\ end' = breakpoints_number
  /\ UNCHANGED <<table, j, result>>

RefuseFull ==
  /\ pc = "full"
  /\ Return(0)
  /\ UNCHANGED table

(***************************************************************************)
(* One turn of the loop of gdb_find_breakpoint.                            *)
(***************************************************************************)
\* A slip of Middle: the division rounds up.
MiddleRoundedUp == (begin + end + 1) \div 2

Middle == (begin + end) \div 2

SearchLeft ==
  /\ pc = "search" /\ begin < end
  /\ breakpoints[Middle] > address
  /\ end' = Middle
  /\ UNCHANGED <<table, pc, op, address, begin, j, result>>

\* A slip of SearchRight: the slot just compared stays in the window.
SearchRightKeepsMiddle ==
  /\ pc = "search" /\ begin < end
  /\ breakpoints[Middle] < address
  /\ begin' = Middle
  /\ UNCHANGED <<table, pc, op, address, end, j, result>>

SearchRight ==
  /\ pc = "search" /\ begin < end
  /\ breakpoints[Middle] < address
  /\ begin' = Middle + 1
  /\ UNCHANGED <<table, pc, op, address, end, j, result>>

\* The search meets the address: a deletion starts, other calls return 1.
Found ==
  /\ pc = "search" /\ begin < end
  /\ breakpoints[Middle] = address
  /\ IF op = "remove"
       THEN /\ breakpoints_number' = breakpoints_number - 1
            /\ j' = Middle
            /\ pc' = "delete"
            /\ UNCHANGED <<breakpoints, op, address, window, result>>
       ELSE Return(1) /\ UNCHANGED table

\* The window is empty: an insertion starts, other calls fail.
NotFound ==
  /\ pc = "search" /\ begin >= end
  /\ IF op = "add"
       THEN /\ breakpoints_number' = breakpoints_number + 1
            /\ j' = breakpoints_number
            /\ pc' = "insert"
            /\ UNCHANGED <<breakpoints, op, address, window, result>>
       ELSE Return(0) /\ UNCHANGED table

(***************************************************************************)
(* The loop of gdb_add_breakpoint: larger addresses move one slot up.      *)
(***************************************************************************)
MoveUp ==
  /\ pc = "insert"
  /\ j > 0 /\ breakpoints[j - 1] > address
  /\ breakpoints' = [breakpoints EXCEPT ![j] = breakpoints[j - 1]]
  /\ j' = j - 1
  /\ UNCHANGED <<breakpoints_number, pc, op, address, window, result>>

Place ==
  /\ pc = "insert"
  /\ j > 0 => breakpoints[j - 1] <= address
  /\ breakpoints' = [breakpoints EXCEPT ![j] = address]
  /\ Return(1)
  /\ UNCHANGED breakpoints_number

(***************************************************************************)
(* The loop of gdb_remove_breakpoint: later addresses move one slot down.  *)
(***************************************************************************)
\* A slip of MoveDown: the slot of the deleted address is skipped.
MoveDownSkipsSlot ==
  /\ pc = "delete"
  /\ j < breakpoints_number
  /\ breakpoints' = IF j + 1 < breakpoints_number
                      THEN [breakpoints EXCEPT ![j + 1] = breakpoints[j + 2]]
                      ELSE breakpoints
  /\ j' = j + 1
  /\ UNCHANGED <<breakpoints_number, pc, op, address, window, result>>

MoveDown ==
  /\ pc = "delete"
  /\ j < breakpoints_number
  /\ breakpoints' = [breakpoints EXCEPT ![j] = breakpoints[j + 1]]
  /\ j' = j + 1
  /\ UNCHANGED <<breakpoints_number, pc, op, address, window, result>>

Removed ==
  /\ pc = "delete"
  /\ j >= breakpoints_number
  /\ Return(1)
  /\ UNCHANGED table

Work ==
  \/ RefuseFull
  \/ SearchLeft
  \/ SearchRight
  \/ Found
  \/ NotFound
  \/ MoveUp
  \/ Place
  \/ MoveDown
  \/ Removed

TableNext == Work \/ \E name \in Operation, a \in Address : Call(name, a)

TableSpec == TableInit /\ [][TableNext]_tableVars

\* A call runs on in its thread until it returns; nobody has to call.
TableFairSpec == TableSpec /\ WF_tableVars(Work)
-----------------------------------------------------------------------------
(***************************************************************************)
(* Properties.                                                             *)
(***************************************************************************)

\* Every variable has its type: in particular the count stays within the
\* array (gdb_protocol.c:79) and a call in progress has a real argument.
TableTypeOK ==
  /\ breakpoints \in [Slot -> Address]
  /\ breakpoints_number \in 0 .. MaxBreakpoints
  /\ pc \in {"idle", "full", "search", "insert", "delete"}
  /\ op \in Operation \union {"none"}
  /\ (pc = "idle") <=> (op = "none")
  /\ IF pc = "idle" THEN address = 0 ELSE address \in Address
  /\ begin \in 0 .. MaxBreakpoints /\ end \in 0 .. MaxBreakpoints
  /\ j \in 0 .. MaxBreakpoints
  /\ result \in {0, 1}

(***************************************************************************)
(* The slots whose content counts.  While an insertion or a deletion is    *)
(* under way slot j is a hole: its content was copied to a neighbour.      *)
(***************************************************************************)
Moving == pc \in {"insert", "delete"}
Top == IF pc = "delete" THEN breakpoints_number ELSE breakpoints_number - 1
Used == (0 .. Top) \ (IF Moving THEN {j} ELSE {})

\* The addresses increase strictly along the used slots: the dichotomy of
\* gdb_find_breakpoint needs the order, cont needs no duplicate to survive
\* a removal.
Ordered ==
  \A i, k \in Used : i < k => breakpoints[i] < breakpoints[k]

\* The dichotomy has discarded only slots that cannot hold the address.
WindowHoldsAddress ==
  pc = "search" =>
    /\ begin <= end /\ end <= breakpoints_number
    /\ op = "add" => breakpoints_number < MaxBreakpoints
    /\ \A i \in 0 .. breakpoints_number - 1 :
         /\ i < begin => breakpoints[i] < address
         /\ i >= end => breakpoints[i] > address

\* Above the hole of an insertion every address is larger than the new one,
\* which is in no used slot.
InsertionPoint ==
  pc = "insert" =>
    /\ op = "add" /\ j < breakpoints_number
    /\ \A i \in Used :
         breakpoints[i] # address /\ (i > j => breakpoints[i] > address)

\* A deletion keeps its hole within the used slots, and the address it
\* deletes is in none of the others.
DeletionPoint ==
  pc = "delete" =>
    /\ op = "remove" /\ breakpoints_number < MaxBreakpoints
    /\ j <= breakpoints_number
    /\ \A i \in Used : breakpoints[i] # address

FullMeansFull ==
  pc = "full" => op = "add" /\ breakpoints_number = MaxBreakpoints

\* The table is ordered and each loop of gdb_protocol.c:60-106 keeps what
\* its next turn relies on: the inductive invariant of the module.
TableInv ==
  /\ Ordered
  /\ WindowHoldsAddress
  /\ InsertionPoint
  /\ DeletionPoint
  /\ FullMeansFull

\* gdb_find_breakpoint compares only slots in use, never what malloc or an
\* old breakpoint left in the array (gdb_protocol.c:65).
ProbeInUse ==
  pc = "search" /\ begin < end => Middle \in 0 .. breakpoints_number - 1

(***************************************************************************)
(* The table implements a set of at most MaxBreakpoints addresses.  The    *)
(* address being deleted stays a member until the deletion returns.        *)
(***************************************************************************)
Members ==
  {breakpoints[i] : i \in Used} \union (IF pc = "delete" THEN {address} ELSE {})

Abstract == INSTANCE BreakpointSet WITH
  set <- Members,
  pending <- [op |-> op, address |-> address],
  reply <- result

\* Every call answers and changes the table as a set would
\* (gdb_protocol.c:60-106), the refusal of a full table included.
ImplementsSet == Abstract!Spec

\* Every loop of the table ends and its call returns.
CallsReturn == pc # "idle" ~> pc = "idle"
=============================================================================
