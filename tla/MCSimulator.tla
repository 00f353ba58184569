---------------------------- MODULE MCSimulator ----------------------------
(* Instances of the simulator.  The guest is a small program over four       *)
(* addresses: a branch, a loop-free path and an undefined instruction.       *)
EXTENDS Simulator

MCWord == {0, 1, 2}
MCCpsr == {"reset", "flags"}
MCResetCpsr == "reset"

To(pc, status, exc) == [PC |-> pc, cpsr |-> status, result |-> exc]

(* 0 falls through to 1 and sets the flags, 1 goes on or skips 2 back to 0,  *)
(* 2 is undefined: every run of it ends.                                     *)
TerminatingGuest ==
  [s \in [PC : MCWord, cpsr : MCCpsr] |->
     CASE s.PC = 0 -> {To(1, "flags", 0)}
       [] s.PC = 1 -> {To(2, s.cpsr, 0), To(2, "reset", 0)}
       [] s.PC = 2 -> {To(0, s.cpsr, UNDEFINED_INSTRUCTION), To(0, s.cpsr, -1)}]

(* Packets that run the guest, and those that look at it and poke it.        *)
RunPackets ==
  [op : {"c", "s", "?", "k"}] \union [op : {"Z"}, PC : {0, 2}]
    \union [op : {"z"}, PC : {2}]
SessionPackets ==
  RunPackets
    \union [op : {"g", "P16", "unsupported"}]
    \union [op : {"G"}, PC : {1}, cpsr : {"flags"}]
    \union [op : {"P15"}, PC : {2}]
=============================================================================
