----------------------------- MODULE Simulator -----------------------------
(***************************************************************************)
(* The process arm_simulator: main, the thread that serves the gdb client  *)
(* (gdb_listener, the scanner, the packet handlers) and the thread that    *)
(* serves the interrupt clients (irq_listener), which share the processor  *)
(* under one mutex.                                                        *)
(*                                                                         *)
(* The guest program is abstracted to its control: Program gives, for each *)
(* program counter and cpsr, the possible outcomes of one arm_step.  The   *)
(* breakpoint table is the set of the module BreakpointSet.  Memory        *)
(* commands of gdb and the text of packets are left out.                   *)
(***************************************************************************)
EXTENDS Integers, Sequences, FiniteSets

CONSTANTS
  Word,            \* program counters
  Cpsr,            \* contents of the status register
  ResetCpsr,       \* 0x1d3, what a RESET puts there
  Program,         \* the guest: outcomes of one instruction, for each Core
  Offered,         \* the packets the gdb client chooses from
  MaxBreakpoints,  \* MAX_BREAKPOINTS_NUMBER
  MaxPackets,      \* bound: packets the gdb client sends
  MaxClients,      \* bound: interrupt clients that connect
  MaxIrqs,         \* bound: interrupts one client sends
  MaxDescriptors   \* interrupt connections the descriptor limit allows

\* What arm_execute_instruction returns: 0, UNDEFINED_INSTRUCTION, or the -1
\* of a failed fetch or branch.
UNDEFINED_INSTRUCTION == 7
Result == {0, UNDEFINED_INSTRUCTION, -1}
Core == [PC : Word, cpsr : Cpsr]
ResetCore == [PC |-> 0, cpsr |-> ResetCpsr]
Outcome == [PC : Word, cpsr : Cpsr, result : Result]

ASSUME WordAssumption == 0 \in Word /\ ResetCpsr \in Cpsr
ASSUME ProgramAssumption == Program \in [Core -> SUBSET Outcome \ {{}}]
ASSUME BoundAssumption ==
  /\ MaxBreakpoints \in Nat /\ MaxPackets \in Nat
  /\ MaxClients \in Nat /\ MaxIrqs \in Nat /\ MaxDescriptors \in Nat

\* The packets of gdb that concern the processor state, the breakpoints and
\* the session: c and C, s and S, ?, g, G, P of register 15, P of a register
\* number beyond 15, Z0, z0, k, and any letter without a handler.
Packet ==
  [op : {"c", "s", "?", "g", "P16", "k", "unsupported"}]
    \union [op : {"G"}, PC : Word, cpsr : Cpsr]
    \union [op : {"P15", "Z", "z"}, PC : Word]

ASSUME OfferedAssumption == Offered \subseteq Packet

Irq == {"RESET", "other"}
Client == 1 .. MaxClients

VARIABLES
  process,          \* "running", or how the process ended
  main,             \* main: waiting for the gdb thread, then freeing
  lock,             \* shared.lock: the thread that holds it, or "free"
  core,             \* the program counter and the status register
  breakpoints,      \* the breakpoint table
  target_exception, \* gdb->target_exception
  gdb,              \* where the gdb thread is
  packet,           \* the packet it serves
  PC_read,          \* the first half of the answer to g
  answer,           \* the last packet it sent
  outgoing,         \* the sending side, which kill_request shuts down
  stream,           \* packets under way from the gdb client
  sent,             \* packets the client has sent so far
  client,           \* the gdb client: "away", "connected", "closed", "reset"
  irq,              \* where the irq thread is
  byte,             \* the interrupt it serves
  position,         \* how much of its connection it has read
  accepted,         \* interrupt connections accepted, none ever closed
  line,             \* interrupts sent on each connection
  peer              \* the interrupt clients, as client

vars == <<process, main, lock, core, breakpoints, target_exception, gdb,
          packet, PC_read, answer, outgoing, stream, sent, client, irq, byte,
          position, accepted, line, peer>>
processor == <<core, breakpoints, target_exception>>
gdbLocals == <<gdb, packet, PC_read, answer, outgoing>>
gdbLink == <<stream, sent, client>>
irqLocals == <<irq, byte, position, accepted>>
irqLinks == <<line, peer>>
\* All but the processor and the gdb thread; all but the clients.
world == <<process, main, gdbLink, irqLocals, irqLinks>>
simulator == <<process, main, lock, processor, gdbLocals, irqLocals>>

NoPacket == [op |-> "none"]

Init ==
  /\ process = "running" /\ main = "join"
  /\ lock = "free"
  /\ core = ResetCore /\ breakpoints = {} /\ target_exception = 0
  /\ gdb = "accept" /\ packet = NoPacket /\ PC_read = 0
  /\ answer = <<"none">> /\ outgoing = "open"
  /\ stream = <<>> /\ sent = 0 /\ client = "away"
  /\ irq = "accept" /\ byte = "none" /\ position = 0 /\ accepted = 0
  /\ line = [c \in Client |-> <<>>] /\ peer = [c \in Client |-> "away"]

Running == process = "running"

\* The process ends under all its threads: exit, abort or a fatal signal.
End(how) ==
  /\ process' = how
  /\ UNCHANGED <<main, lock, processor, gdbLocals, gdbLink, irqLocals,
                 irqLinks>>
-----------------------------------------------------------------------------
(***************************************************************************)
(* The clients.  They may stop at any point.                               *)
(***************************************************************************)
GdbConnect ==
  /\ Running /\ client = "away"
  /\ client' = "connected"
  /\ UNCHANGED <<simulator, stream, sent, irqLinks>>

GdbSend(p) ==
  /\ Running /\ client = "connected" /\ sent < MaxPackets
  /\ stream' = Append(stream, p) /\ sent' = sent + 1
  /\ UNCHANGED <<simulator, client, irqLinks>>

GdbLeave(how) ==
  /\ Running /\ client = "connected"
  /\ client' = how
  /\ UNCHANGED <<simulator, stream, sent, irqLinks>>

\* Clients are numbered in the order in which they connect.
IrqConnect(c) ==
  /\ Running /\ peer[c] = "away"
  /\ \A d \in Client : d < c => peer[d] # "away"
  /\ peer' = [peer EXCEPT ![c] = "connected"]
  /\ UNCHANGED <<simulator, gdbLink, line>>

IrqSend(c, i) ==
  /\ Running /\ peer[c] = "connected" /\ Len(line[c]) < MaxIrqs
  /\ line' = [line EXCEPT ![c] = Append(@, i)]
  /\ UNCHANGED <<simulator, gdbLink, peer>>

IrqLeave(c, how) ==
  /\ Running /\ peer[c] = "connected"
  /\ peer' = [peer EXCEPT ![c] = how]
  /\ UNCHANGED <<simulator, gdbLink, line>>
-----------------------------------------------------------------------------
(***************************************************************************)
(* The gdb thread.                                                         *)
(***************************************************************************)
GdbStep(from, to) == Running /\ gdb = from /\ gdb' = to

\* A write may succeed as long as kill_request has not shut the connection
\* down and no reset has come in; a client that closed may go unnoticed.
Writable == outgoing = "open" /\ client # "reset"

GdbAccept ==
  /\ GdbStep("accept", "scan") /\ client # "away"
  /\ UNCHANGED <<world, lock, processor, packet, PC_read, answer, outgoing>>

\* The scanner has a whole packet with a correct checksum.
Receive ==
  /\ GdbStep("scan", "ack") /\ stream # <<>>
  /\ packet' = Head(stream) /\ stream' = Tail(stream)
  /\ UNCHANGED <<process, main, lock, processor, PC_read, answer, outgoing,
                 sent, client, irqLocals, irqLinks>>

\* A slip of EndOfFile: the listener waits for another client.
EndOfFileListensAgain ==
  /\ GdbStep("scan", "accept") /\ stream = <<>> /\ client = "closed"
  /\ UNCHANGED <<world, lock, processor, packet, PC_read, answer, outgoing>>

EndOfFile ==
  /\ GdbStep("scan", "shutdown") /\ stream = <<>> /\ client = "closed"
  /\ UNCHANGED <<world, lock, processor, packet, PC_read, answer, outgoing>>

\* A failed read makes the scanner exit (YY_FATAL_ERROR).
ReadError ==
  /\ Running /\ gdb = "scan" /\ stream = <<>> /\ client = "reset"
  /\ End("read error")

\* gdb_send_ack, then the handler is looked up.
Ack ==
  /\ GdbStep("ack", IF packet.op = "unsupported" THEN "empty" ELSE "lock")
  /\ Writable
  /\ UNCHANGED <<world, lock, processor, packet, PC_read, answer, outgoing>>

\* The empty answer to an unsupported packet is sent without the lock.
SendEmpty ==
  /\ GdbStep("empty", "scan") /\ Writable
  /\ answer' = <<"">> /\ packet' = NoPacket
  /\ UNCHANGED <<world, lock, processor, PC_read, outgoing>>

\* A slip of GdbLock: the handler does not wait for an interrupt.
GdbLockWithoutWaiting ==
  /\ GdbStep("lock", "handle") /\ lock' = "gdb"
  /\ UNCHANGED <<world, processor, packet, PC_read, answer, outgoing>>

GdbLock ==
  /\ GdbStep("lock", "handle") /\ lock = "free" /\ lock' = "gdb"
  /\ UNCHANGED <<world, processor, packet, PC_read, answer, outgoing>>

\* A slip of GdbUnlock: the lock is kept.
GdbUnlockForgotten ==
  /\ GdbStep("unlock", "scan") /\ packet' = NoPacket
  /\ UNCHANGED <<world, lock, processor, PC_read, answer, outgoing>>

GdbUnlock ==
  /\ GdbStep("unlock", "scan") /\ lock' = "free" /\ packet' = NoPacket
  /\ UNCHANGED <<world, processor, PC_read, answer, outgoing>>

\* The failed write of an answer or of an ack: SIGPIPE, or unix_error.
WriteError ==
  /\ Running /\ gdb \in {"ack", "empty", "reply"}
  /\ outgoing = "shut" \/ client \in {"closed", "reset"}
  /\ End("write error")
-----------------------------------------------------------------------------
(***************************************************************************)
(* The handlers.  gdb = "handle" is their entry; "reply" the point where   *)
(* the answer is in the buffer of gdb_send_buffer, ready to be sent.       *)
(***************************************************************************)
\* A step of the handler of one of ops, which runs under the lock.
Handler(ops, from, to) ==
  /\ GdbStep(from, to) /\ packet.op \in ops
  /\ UNCHANGED <<world, lock, packet>>

SendAnswer ==
  /\ GdbStep("reply", "unlock") /\ Writable
  /\ UNCHANGED <<world, lock, processor, packet, PC_read, answer, outgoing>>

StartRun ==
  /\ Handler({"c", "s"}, "handle", "execute")
  /\ UNCHANGED <<processor, PC_read, answer, outgoing>>

\* single_step: arm_step executes one instruction and its exception, which
\* arm_exception takes as a uint8_t, is remembered.  cont comes back from
\* "continue" for the instructions after the first.
Execute(from) ==
  /\ Handler({"c", "s"}, from, IF packet.op = "c" THEN "check" ELSE "stop")
  /\ \E o \in Program[core] :
       /\ core' = [PC |-> o.PC, cpsr |-> o.cpsr]
       /\ target_exception' = o.result % 256
  /\ UNCHANGED <<breakpoints, PC_read, answer, outgoing>>

\* A slip of CheckStop: only exceptions stop the loop.
CheckStopIgnoresBreakpoints ==
  /\ Handler({"c"}, "check", IF target_exception # 0 THEN "stop" ELSE "continue")
  /\ UNCHANGED <<processor, PC_read, answer, outgoing>>

\* The end of a turn of the loop of cont.
CheckStop ==
  /\ Handler({"c"}, "check",
             IF core.PC \in breakpoints \/ target_exception # 0
               THEN "stop" ELSE "continue")
  /\ UNCHANGED <<processor, PC_read, answer, outgoing>>

\* gdb_send_stop_reason; a failed fetch looks like a breakpoint to gdb.
StopReason ==
  /\ Handler({"c", "s"}, "stop", "reply") \/ Handler({"?"}, "handle", "reply")
  /\ answer' = IF target_exception = UNDEFINED_INSTRUCTION
                 THEN <<"S04">> ELSE <<"S05">>
  /\ UNCHANGED <<processor, PC_read, outgoing>>

\* read_general_registers reads the program counter, then the status.
ReadPC ==
  /\ Handler({"g"}, "handle", "read_cpsr")
  /\ PC_read' = core.PC
  /\ UNCHANGED <<processor, answer, outgoing>>

ReadCpsr ==
  /\ Handler({"g"}, "read_cpsr", "reply")
  /\ answer' = <<"registers", PC_read, core.cpsr>>
  /\ UNCHANGED <<processor, PC_read, outgoing>>

\* write_general_registers writes them in the same order.
WritePC ==
  /\ Handler({"G"}, "handle", "write_cpsr")
  /\ core' = [core EXCEPT !.PC = packet.PC]
  /\ UNCHANGED <<breakpoints, target_exception, PC_read, answer, outgoing>>

WriteCpsr ==
  /\ Handler({"G"}, "write_cpsr", "reply")
  /\ core' = [core EXCEPT !.cpsr = packet.cpsr]
  /\ answer' = <<"OK">>
  /\ UNCHANGED <<breakpoints, target_exception, PC_read, outgoing>>

WriteSingleRegister ==
  /\ Handler({"P15"}, "handle", "reply")
  /\ core' = [core EXCEPT !.PC = packet.PC]
  /\ answer' = <<"OK">>
  /\ UNCHANGED <<breakpoints, target_exception, PC_read, outgoing>>

\* assert(reg < 16) fails.
BadRegister ==
  /\ Running /\ gdb = "handle" /\ packet.op = "P16"
  /\ End("assertion")

SetBreakpoint ==
  /\ Handler({"Z"}, "handle", "reply")
  /\ IF Cardinality(breakpoints) < MaxBreakpoints
       THEN breakpoints' = breakpoints \union {packet.PC} /\ answer' = <<"OK">>
       ELSE breakpoints' = breakpoints /\ answer' = <<"E04">>
  /\ UNCHANGED <<core, target_exception, PC_read, outgoing>>

RemoveBreakpoint ==
  /\ Handler({"z"}, "handle", "reply")
  /\ breakpoints' = breakpoints \ {packet.PC}
  /\ answer' = IF packet.PC \in breakpoints THEN <<"OK">> ELSE <<"E05">>
  /\ UNCHANGED <<core, target_exception, PC_read, outgoing>>

\* kill_request answers nothing and lets the session go on.
KillRequest ==
  /\ Handler({"k"}, "handle", "unlock")
  /\ outgoing' = "shut"
  /\ UNCHANGED <<processor, PC_read, answer>>

\* The session is over: gdb_release_data, shutdown, the thread ends.
CloseSession ==
  /\ GdbStep("shutdown", "done")
  /\ UNCHANGED <<world, lock, processor, packet, PC_read, answer, outgoing>>

GdbElsewhere ==
  \/ GdbAccept \/ Receive \/ EndOfFile \/ ReadError \/ Ack \/ SendEmpty
  \/ GdbLock \/ GdbUnlock \/ SendAnswer \/ WriteError
  \/ StartRun \/ Execute("execute") \/ Execute("continue")
  \/ StopReason \/ ReadPC \/ ReadCpsr \/ WritePC \/ WriteCpsr
  \/ WriteSingleRegister \/ BadRegister \/ KillRequest \/ CloseSession

\* The breakpoint table is tested and changed in one step.
UseTable == CheckStop \/ SetBreakpoint \/ RemoveBreakpoint

GdbThread == GdbElsewhere \/ UseTable
-----------------------------------------------------------------------------
(***************************************************************************)
(* The interrupt thread.  Its connections are served one after the other,  *)
(* in the order in which the clients came, and never closed.               *)
(***************************************************************************)
IrqStep(from, to) ==
  /\ Running /\ irq = from /\ irq' = to
  /\ UNCHANGED <<process, main, breakpoints, target_exception, gdbLocals,
                 gdbLink, irqLinks>>

IrqAccept ==
  /\ IrqStep("accept", "read")
  /\ accepted < MaxClients /\ accepted < MaxDescriptors
  /\ peer[accepted + 1] # "away"
  /\ accepted' = accepted + 1 /\ position' = 0
  /\ UNCHANGED <<lock, core, byte>>

\* Accept without a descriptor left: unix_error ends the process.
AcceptError ==
  /\ Running /\ irq = "accept"
  /\ accepted < MaxClients /\ peer[accepted + 1] # "away"
  /\ accepted >= MaxDescriptors
  /\ End("no descriptor")

IrqRead ==
  /\ IrqStep("read", "lock")
  /\ position < Len(line[accepted])
  /\ position' = position + 1 /\ byte' = line[accepted][position + 1]
  /\ UNCHANGED <<lock, core, accepted>>

\* The end of a connection: shutdown without close, back to Accept.
IrqEnd ==
  /\ IrqStep("read", "accept")
  /\ position = Len(line[accepted]) /\ peer[accepted] = "closed"
  /\ UNCHANGED <<lock, core, byte, position, accepted>>

\* A connection reset by its client: Read calls unix_error.
IrqReadError ==
  /\ Running /\ irq = "read"
  /\ position = Len(line[accepted]) /\ peer[accepted] = "reset"
  /\ End("irq read error")

\* A slip of IrqLock: the interrupt does not wait for the handler.
IrqLockWithoutWaiting ==
  /\ IrqStep("lock", "exception") /\ lock' = "irq"
  /\ UNCHANGED <<core, byte, position, accepted>>

IrqLock ==
  /\ IrqStep("lock", "exception") /\ lock = "free" /\ lock' = "irq"
  /\ UNCHANGED <<core, byte, position, accepted>>

\* arm_exception: a RESET writes the status register, then the program
\* counter; nothing else has an effect on the processor.
ResetStatus ==
  /\ IrqStep("exception", "reset_pc") /\ byte = "RESET" /\ main = "join"
  /\ core' = [core EXCEPT !.cpsr = ResetCpsr]
  /\ UNCHANGED <<lock, byte, position, accepted>>

ResetPC ==
  /\ IrqStep("reset_pc", "unlock") /\ main = "join"
  /\ core' = [core EXCEPT !.PC = 0]
  /\ UNCHANGED <<lock, byte, position, accepted>>

IgnoreIrq ==
  /\ IrqStep("exception", "unlock") /\ byte # "RESET"
  /\ UNCHANGED <<lock, core, byte, position, accepted>>

\* A slip of IrqUnlock: the lock is kept.
IrqUnlockForgotten ==
  /\ IrqStep("unlock", "read") /\ byte' = "none"
  /\ UNCHANGED <<lock, core, position, accepted>>

IrqUnlock ==
  /\ IrqStep("unlock", "read") /\ lock' = "free" /\ byte' = "none"
  /\ UNCHANGED <<core, position, accepted>>

\* main has freed what arm_exception writes to: AddressSanitizer aborts.
UseAfterFree ==
  /\ Running /\ main # "join"
  /\ byte = "RESET" /\ irq \in {"exception", "reset_pc"}
  /\ End("use after free")

IrqThread ==
  \/ IrqAccept \/ AcceptError \/ IrqRead \/ IrqEnd \/ IrqReadError
  \/ IrqLock \/ ResetStatus \/ ResetPC \/ IgnoreIrq \/ IrqUnlock
  \/ UseAfterFree
-----------------------------------------------------------------------------
(***************************************************************************)
(* The main thread waits for the gdb thread only, frees the processor, its *)
(* registers and its memory, and returns.                                  *)
(***************************************************************************)
MainStep(from, to) ==
  /\ Running /\ main = from /\ main' = to
  /\ UNCHANGED <<lock, processor, gdbLocals, gdbLink, irqLocals, irqLinks>>

\* A slip of Join: main does not wait.
JoinWithoutWaiting == MainStep("join", "free registers") /\ UNCHANGED process

\* pthread_join, then arm_destroy.
Join ==
  /\ MainStep("join", "free registers") /\ gdb = "done" /\ UNCHANGED process

DestroyRegisters ==
  MainStep("free registers", "free memory") /\ UNCHANGED process

\* memory_destroy, and main returns.
DestroyMemory ==
  MainStep("free memory", "returned") /\ process' = "returned"

MainThread == Join \/ DestroyRegisters \/ DestroyMemory

Clients ==
  \/ GdbConnect
  \/ \E p \in Offered : GdbSend(p)
  \/ \E how \in {"closed", "reset"} : GdbLeave(how)
  \/ \E c \in Client :
       \/ IrqConnect(c)
       \/ \E i \in Irq : IrqSend(c, i)
       \/ \E how \in {"closed", "reset"} : IrqLeave(c, how)

\* A process that has ended stays ended.
Ended == ~Running /\ UNCHANGED vars

Next == GdbThread \/ IrqThread \/ MainThread \/ Clients \/ Ended

Spec == Init /\ [][Next]_vars
-----------------------------------------------------------------------------
(***************************************************************************)
(* Properties.                                                             *)
(***************************************************************************)
InsideGdb == {"handle", "execute", "check", "continue", "stop", "read_cpsr",
              "write_cpsr", "reply", "unlock"}
InsideIrq == {"exception", "reset_pc", "unlock"}

ProcessType ==
  /\ process \in {"running", "returned", "read error", "write error",
                  "assertion", "no descriptor", "irq read error",
                  "use after free"}
  /\ main \in {"join", "free registers", "free memory", "returned"}
  /\ lock \in {"free", "gdb", "irq"}

ProcessorType ==
  /\ core \in Core /\ target_exception \in 0 .. 255
  /\ breakpoints \subseteq Word /\ IsFiniteSet(breakpoints)
  /\ Cardinality(breakpoints) <= MaxBreakpoints

GdbType ==
  /\ gdb \in {"accept", "scan", "ack", "empty", "lock", "shutdown", "done"}
               \union InsideGdb
  /\ packet \in Packet \union {NoPacket}
  /\ PC_read \in Word /\ outgoing \in {"open", "shut"}

GdbLinkType ==
  /\ stream \in Seq(Packet) /\ sent \in 0 .. MaxPackets
  /\ client \in {"away", "connected", "closed", "reset"}

IrqType ==
  /\ irq \in {"accept", "read", "lock"} \union InsideIrq
  /\ byte \in Irq \union {"none"}
  /\ accepted \in 0 .. MaxClients
  /\ position \in 0 .. MaxIrqs
  /\ accepted # 0 => position <= Len(line[accepted])
  /\ irq # "accept" => accepted # 0

IrqLinksType ==
  /\ line \in [Client -> Seq(Irq)]
  /\ \A c \in Client : Len(line[c]) <= MaxIrqs
  /\ peer \in [Client -> {"away", "connected", "closed", "reset"}]

\* Every variable has its type and every count its bound; the interrupt
\* thread reads no byte that was not sent.
TypeOK ==
  /\ ProcessType /\ ProcessorType
  /\ GdbType /\ GdbLinkType
  /\ IrqType /\ IrqLinksType

\* A packet handler and an interrupt are never both under way: the lock
\* names the thread that is inside (gdb_protocol.c:497-499,
\* arm_simulator.c:100-102).
Exclusion ==
  /\ lock = "gdb" <=> gdb \in InsideGdb
  /\ lock = "irq" <=> irq \in InsideIrq

\* What the client is told is true when it is sent: the registers are those
\* of one instant, not half before and half after a RESET
\* (gdb_protocol.c:232-256), and cont has stopped at a breakpoint or on an
\* exception (gdb_protocol.c:185-201).
AnswerTrue ==
  gdb = "reply" =>
    /\ packet.op = "g" => answer = <<"registers", core.PC, core.cpsr>>
    /\ packet.op = "c" => core.PC \in breakpoints \/ target_exception # 0

\* A RESET leaves the whole reset state behind, whatever gdb was doing
\* (arm_exception.c:58-61), and a G leaves what it wrote
\* (gdb_protocol.c:322-350).
WritesWhole ==
  /\ irq = "unlock" /\ byte = "RESET" => core = ResetCore
  /\ gdb = "reply" /\ packet.op = "G" =>
       core = [PC |-> packet.PC, cpsr |-> packet.cpsr]

\* What the handlers and the interrupt rely on between two of their steps:
\* with Exclusion, what makes the two properties above inductive.
HandlerInv ==
  /\ gdb = "read_cpsr" => PC_read = core.PC
  /\ gdb = "write_cpsr" => core.PC = packet.PC
  /\ gdb = "continue" => core.PC \notin breakpoints
  /\ gdb = "stop" /\ packet.op = "c" =>
       core.PC \in breakpoints \/ target_exception # 0
  /\ irq = "reset_pc" => core.cpsr = ResetCpsr

\* After its first instruction cont never executes one at a breakpoint
\* (gdb_protocol.c:185-201).
StopsAtBreakpoint ==
  [][gdb = "continue" /\ gdb' # "continue" => core.PC \notin breakpoints]_vars

\* While gdb stays connected only these end the process, the packets on
\* memory aside (module GdbAccess): its own k, which shuts down the
\* connection the answers go to, a register number that fails an assertion,
\* an interrupt client that resets its connection, or one that comes when no
\* descriptor is left (gdb_protocol.c:207, 313, arm_simulator.c:98-104).
\* main returns, and an interrupt meets what main has freed, only once gdb
\* has left and all it sent is served; what meets it is an interrupt that
\* has the lock (arm_simulator.c:99-102, 209-213).
SessionOutlived ==
  ~Running =>
    /\ client = "connected" =>
         \/ outgoing = "shut" \/ packet.op = "P16"
         \/ \E c \in Client : peer[c] = "reset"
         \/ \E c \in Client : c > MaxDescriptors /\ peer[c] # "away"
    /\ process \in {"returned", "use after free"} =>
         client = "closed" /\ stream = <<>>
    /\ process = "use after free" => lock = "irq"

\* A packet that was received is served, and the thread listens again
\* (gdb_protocol.c:476-506).
PacketServed == gdb = "ack" ~> gdb = "scan" \/ ~Running

\* An interrupt that reached the simulator is served
\* (arm_simulator.c:96-105).
IrqServed == irq = "lock" ~> irq = "unlock" \/ ~Running

\* Once the gdb client has left the process comes to an end
\* (arm_simulator.c:79-83, 209-213).
EndsWithSession == client = "closed" ~> ~Running
=============================================================================
