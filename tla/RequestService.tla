--------------------------- MODULE RequestService ---------------------------
(***************************************************************************)
(* What a gdb session promises of its requests over a link that is at      *)
(* fault now and then.  Until the second fault they are executed in the    *)
(* order in which they are made, none is passed over, and one that has     *)
(* been followed by another is never executed again.  After that, what is  *)
(* executed is still something that was asked.                             *)
(***************************************************************************)
EXTENDS Naturals

CONSTANT MaxRequests  \* bound: requests of one session

VARIABLES
  asked,  \* requests made
  done,   \* the last request executed
  faults  \* faults of the link so far

vars == <<asked, done, faults>>

Init == asked = 0 /\ done = 0 /\ faults = 0

Ask == asked < MaxRequests /\ asked' = asked + 1 /\ UNCHANGED done

Execute == done < asked /\ done' = done + 1 /\ UNCHANGED asked

Astray == faults > 1 /\ done' \in 1 .. asked /\ UNCHANGED asked

Next ==
  /\ Ask \/ Execute \/ Astray \/ UNCHANGED <<asked, done>>
  /\ faults' \in {faults, faults + 1}

Spec == Init /\ [][Next]_vars
=============================================================================
