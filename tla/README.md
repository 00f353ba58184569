# Models of the ARM simulator

The program is a teaching simulator of an ARMv5 processor. `arm_simulator` runs a guest program in 32 KiB of simulated
memory, acts as a gdb server on one port and accepts interrupts from the command `send_irq` on another. This directory
holds TLA+ modules translated from its C source, TLC configurations that check them on small instances, and proofs,
checked by TLAPS, of what holds for every size.

File names without a directory are those of the source; line numbers are of the commit modelled.

## The system

| Part | State | Operations | Talks to |
|---|---|---|---|
| main (`arm_simulator.c:132-214`) | the settings of its options; the shared record: core, registers, memory, lock | reads its options, creates two threads, joins the gdb thread, frees the processor, returns | both threads |
| gdb thread (`arm_simulator.c:68-84`, `scanner.l`, `gdb_protocol.c`) | connection, packet buffer, invalid characters, last exception, breakpoint table | accept one client, scan packets, acknowledge, refuse, send again, run one handler per packet under the lock | gdb client by TCP, processor by calls |
| generated scanner (`scanner.c`) | buffer, state of the automaton, token so far | match a character, back up to the last match, refill the buffer, end of input | the rules of `scanner.l`, reads of the connection |
| interrupt thread (`arm_simulator.c:86-109`) | connection, one byte | accept clients for ever, call `arm_exception` under the lock for each byte read | `send_irq` by TCP, processor |
| breakpoint table (`gdb_protocol.c:60-106`) | sorted array and count | find by dichotomy, add, remove | the handlers `Z`, `z`, `c` |
| processor step (`arm_instruction.c`, `arm_conditions.c`, `arm_branch_other.c`, `arm_exception.c`) | none of its own | fetch, condition, dispatch, exception | core |
| core and registers (`arm_core.c`, `registers.c`) | r0-r15, cpsr; the mode is always SVC | read and write a register, the status, the memory | memory |
| data processing (`arm_data_processing.c`, `util.c`) | none | shifter, 16 operations, flags | core |
| loads and stores (`arm_load_store.c`) | none | ldr, ldrb, str, strh, ldm, stm | core |
| memory (`memory.c`) | bytes and size | byte, half-word and word accesses in either endianness | none |
| trace, debug, names | flags and modes to trace, sorted table of file names | add a flag, a mode, a file; look for a file; output | main, all others for output |
| socket wrappers (`csapp.c`) | none | end the process when a call fails | main, both threads |

### What is hard about it

* **Interleaving.** Two threads write the same registers. A RESET is two writes (`arm_exception.c:59-60`), an answer to
  `g` is seventeen reads, `cont` is any number of steps. One mutex, taken in two places, keeps them apart.
* **Ends of the process.** Every failed socket call exits (`csapp.c:31-34`), as do the scanner on a failed read and the
  assertions of the handlers, whatever the other thread is doing. main frees the processor under the interrupt thread.
* **An unreliable link.** A character may be damaged or lost on the way: then either side asks for a repetition, a request
  may come twice, an answer may be asked for again. The scanner itself sees its input in pieces of any length.
* **Boundaries.** Breakpoints at the limit of the table; a search in an array whose slots past the count are stale;
  addresses at the end of the memory and of the address space; shifts by 0, 32 and more; carries in 32-bit sums.
* **Order inside one step.** Flags computed before or after the result, the condition tested twice for a branch, a
  block store that is refused half-way.
* **Progress.** Whether each packet and each interrupt is served, whether a run ends, whether the process ends.

### What makes each part correct

* Breakpoint table: it behaves as a set of at most `MAX_BREAKPOINTS_NUMBER` addresses; a search reads only slots in use.
* Threads: a handler and an interrupt exclude each other, so what gdb is told is true of one instant; a run does not go
  through a breakpoint; what was received is served; while gdb is connected the process ends only in the few ways the
  code gives it, and main returns only when gdb has left and all it sent is served.
* Session: without faults each request is executed once and in order; one fault neither skips a request nor makes the
  client give up; an exchange comes to an end. The scanner cuts its input as the rules say, however it arrives, and waits
  only when a packet may be under way.
* Accesses by gdb: what it is told of a read or a write is true, escaped bytes and ends of the memory included.
* Options: the files looked for are found if and only if they were given, what is traced is what was asked for.
* Memory: what is written is read back, in either order; an access touches its own bytes only; every access inside is
  accepted, and one accepted outside ends at the byte after the last or wraps.
* Instructions: exact results, carries and signs; conditions and their opposites; an instruction that is reported as
  failed has had no effect; a store writes where it says.

## The modules

| Module | Models | Checked by | Proofs |
|---|---|---|---|
| `BreakpointSet` | what the table promises: a bounded set, calls and answers | through `BreakpointTable` | |
| `BreakpointTable` | the three functions, one step per loop turn | `breakpoint_table` | `GdbProtocolProofs` |
| `Simulator` | main, both threads, the lock, the clients, the ends | `simulator_session` | `SimulatorProofs` |
| `SimulatorCalls` | `Simulator` with the breakpoint table behind calls | `simulator_live` | `SimulatorProofs` |
| `ScannerRules` | the rules of `scanner.l`: what the next token of some characters is | through its users | |
| `TokenStream` | what the scanner promises: the input cut into tokens by the rules | through `Scanner` | |
| `Scanner` | the generated scanner: tables, automaton, buffer, reads of any length | `scanner` | `ScannerProofs` |
| `RequestService` | what a session promises: requests executed in order | through `GdbSession` | |
| `GdbSession` | the scanner's actions, checksum, acknowledgements, retransmission, a client, a link with faults | `gdb_session` | `GdbProtocolProofs` |
| `GdbAccess` | the packets `m`, `X`, `p`, `P`, loop turn by loop turn, next to a guest that stores words | `gdb_access` | `GdbAccessProofs` |
| `MemoryArea` | the memory and its six accesses | `memory_area` | `MemoryAreaProofs` |
| `DataProcessing` | shifter, operations, flags | `data_processing` | `DataProcessingProofs` |
| `ArmCpu` | one `arm_step`, with loads, stores, branches; RESET between steps | `arm_cpu`, two violations | `ArmCpuProofs` |
| `CommandLine` | the options of main, the trace flags, the table of debugged files | `command_line` | `CommandLineProofs` |

`ArmCpu` composes `DataProcessing` and `MemoryArea`: it instantiates the first on the registers as the fetch leaves them
and uses the address checks and byte layouts of the second. `Simulator` abstracts both: the constant `Program` gives,
for each program counter and status, the possible outcomes of one `arm_step`, whose result is 0, 7 or -1 (255 once it
has passed through the `uint8_t` parameter of `arm_exception`). `ArmCpu!TypeOK` checks that those are the only results.
The breakpoints of `Simulator` are a set, tested and changed in one step. `SimulatorCalls` composes `Simulator` with
`BreakpointSet`, which has that set behind calls, and is shown to implement `Simulator`; `BreakpointTable`, the array, is
shown to implement `BreakpointSet`.

`GdbProtocolProofs` extends both models of `gdb_protocol.c`, so the definitions of the smaller one are named for the table:
`TableInit`, `TableNext`, `TableSpec`.

The gdb thread is in four modules, each over what the next one shows. `Scanner` is shown to cut its input as
`ScannerRules` say. `GdbSession` uses those rules for its tokens, and adds checksums and repetition; there, a packet is
accepted or refused and a handler is one step. `Simulator` takes accepted packets and adds the lock and the interrupt
thread. `GdbAccess` has the loops of the handlers that access memory, over `MemoryArea`; `Simulator` shows that
nothing else changes the machine while one runs.

### How the models correspond to the code

* **BreakpointTable.** `breakpoints` starts with any contents (it is `malloc`ed) and keeps left-overs past the count.
  `SearchLeft`, `SearchRight` and `Found` are the branches of the loop of `gdb_find_breakpoint`; `MoveUp`, `MoveDown`
  the shifting loops. All calls come from the gdb thread, so calls do not interleave with one another.
* **Simulator.** Control variables `gdb`, `irq` and `main` say where each thread is. A step of a handler is a read or a
  write another thread could see: an answer to `g` reads the program counter and the status in two steps, `G` and RESET
  write in two, `cont` takes one step to execute and one to look at the breakpoints. The clients send what they like,
  and close or reset their connection at any point. The process ends by `End(how)`, under all its threads. The
  interrupt thread has no claim on the processor once main has passed the join: `UseAfterFree` is where it uses it.
* **SimulatorCalls.** `CallTable` is where `cont`, `set_breakpoint` and `remove_breakpoint` call the table, `StopAnswer`,
  `SetAnswer` and `RemoveAnswer` where they go on with what it returned. In between any other thread may step
  (`Elsewhere`), a lock being all that holds the interrupt thread back. All the rest is `Simulator`.
* **Scanner.** The tables of `scanner.c:351-418` are used as they are, through their default states. `Match` is one turn of
  the loop at `yy_match`, `Found` the backing up of `yy_find_action`; `RealNul`, `Refill`, `LastMatch` and `EndOfFile` are
  the cases of the end of the buffer. `always-interactive` makes a state decided as soon as no move leads on from it
  (`yy_base` 14). A read returns any number of characters up to what is free; the buffer is doubled when nothing is.
* **GdbSession.** A character is its class and, in a packet, the request it belongs to; the body of a packet is one
  character and its checksum another, so that a checksum is right exactly for its own body. `Flush` is `handle_error`
  before an action, `packet` the buffer `gdb_transmit_packet` sends again. The server never waits for an
  acknowledgement: neither does the code. The client is gdb as its protocol describes it: one request at a time, a
  time-out when nothing is under way, `MaxTries` in a row before it gives up.
* **GdbAccess.** `ReadTurn` and `WriteTurn` are one turn of the loops of `read_memory` and `write_memory_binary`, with the
  check of `MemoryArea` (`Passes`). An X packet gives its bytes, its characters and where each byte starts (`Encodes`);
  any byte may be escaped, some must be. `Atoi` is what `atoi` makes of a hexadecimal number, for `p`; `P` reads it by `%x`.
* **CommandLine.** One action per option, in any order, as `getopt_long` returns them. A value is a number, numbers are
  ordered as `strcmp` orders strings. `AddDebugTo` is the whole of `add_debug_to`; `IsDebugged` the dichotomy.
* **MemoryArea.** Bytes are digits in base `Radix` (256 in the code) and addresses wrap at `Space` (2^32). `Checked` is
  the test at the head of each function, with its wrapping sum and its `>`. An access that passes the test and leaves
  the memory ends the process, since the build of `Makefile.am` has AddressSanitizer.
* **DataProcessing.** Words have `W` bits; every field that holds a number of bits scales with `W`. A shift by `W` or
  more is undefined in C: the outcome is either the one of x86 and ARM processors (count modulo `W`) or 0. The flags
  are computed from the value the code hands to `UpdateCpsr`, which is kept apart from the one it writes.
* **ArmCpu.** `Decode` maps each word to an instruction with its fields as the code extracts them; the register fields
  of loads and stores are masked by `0x04` there and name r0 or r4. `Skip`, `Undefined`, `FetchRefused` and `Branch`
  with the condition UN are the early returns. `Stm` stores one byte per listed register and stops at the first that is
  refused. `Reset` may come between any two steps, which the lock of `Simulator` justifies.

## The runs

Runs that pass:

| Run | Instance | Question |
|---|---|---|
| `breakpoint_table` | 6 addresses, 4 slots | does the array behave as a set, call by call and loop turn by loop turn; does each call return? |
| `simulator_session` | 3 program counters, 2 packets from all kinds, 2 interrupt clients, 1 descriptor | in every interleaving: exclusion, whole answers and writes, true stops, breakpoints; what may end the process? |
| `simulator_live` | 2 packets that run the guest or change breakpoints, 1 interrupt, calls of the table, fair scheduling | does a call of the table act as one step, whatever happens while it searches; is everything served, does the process end? |
| `scanner` | all inputs of up to 4 characters of 8 classes, 8 longer ones; a buffer of 2, reads of up to 3 | is every input cut by the rules, however it is read; does the scanner wait only when it must, stay in its buffer, end? |
| `gdb_session` | 3 requests, 2 faults (damaged into any of 7 classes, lost, or a hasty time-out), 3 tries, 4 invalid characters | what do faults do to requests, does each exchange end? |
| `gdb_access` | 4 bytes of 2 bits, 6 addresses, 5 X packets, sizes up to 5, 5 register numbers | is what gdb is told true, at the end of the memory too; what ends the process? |
| `command_line` | 6 values, 3 of them files, a table of 4, 5 options `--debug` | what is found and traced afterwards, what overruns the table? |
| `memory_area` | 5 bytes of one bit, 8 addresses | all sequences of accesses, wrapping ones too |
| `data_processing` | words of 4 bits | every operation and shift on all pairs of operands |
| `arm_cpu` | programs of three 4-bit words, 16 instructions, 12 bytes | what one step may leave behind, in self-modifying programs interrupted by RESET, big endian as built; does a guest that is neither reset nor jumps come to an end? |

Why the bounds are enough: four slots take the search through windows of every parity and the table from empty to
full; two packets give a breakpoint set and a run that meets it, or a write and a look at it, and interrupts meet both in
every order; a memory of five bytes in a space of eight has, for each size of access, addresses inside, at the end, one past
it, beyond and wrapping; four bits have every combination of signs, carries and borrows, and all conditions see all
flag values that instructions produce; a buffer of two grows
twice, and tokens of up to eight characters are cut by it, by reads and by the end of the input at every place; three
requests have a packet, an answer and an acknowledgement before and behind the one that a fault hits, and two faults
are the number from which order is lost; packets of two bytes cross the end of a memory of four, and each kind of escape
comes first and last; a table of four has windows of each parity, and a fifth name overruns it; twelve bytes in a space of sixteen let a program counter run out of the memory,
and a block store from a base of 15 wrap. `arm_cpu` is big endian, as the program is built; the proofs and `memory_area` have both orders.
`CHECK_DEADLOCK` is left on everywhere: an ended process stutters by an action of its own.

Fairness. `SimulatorCalls!CallsFairSpec` has weak fairness of each thread, which the scheduler gives; that an interrupt client
leaves, as `send_irq` does after its byte; and nothing for the gdb client. A waiting `pthread_mutex_lock` succeeds when
the lock stays free, which it does in the end since the packets are bounded. `ArmCpu!FairSpec` steps as `cont` does,
with a RESET between any two steps; `StraightLineEnds` says what is left of a run that never fails: resets, or jumps. `BreakpointTable!TableFairSpec` finishes each call that was made. `GdbSession!FairSpec` runs the gdb thread, and lets the
client read what has arrived and time out when nothing will: gdb does both. It need not make a request or leave.
`Scanner!FairSpec` runs the thread, and has the client go on sending or close.

`InOrder`, that requests are executed in order and none is passed over, is stated until the second fault. Then an
acknowledgement or an answer that comes late may be taken for that of another request, since neither carries a number:
this is so for any server of the protocol. `RequestService!Astray` says what is left after that.

Two runs fail, each on the claim of a comment:

| Run | Claim | What happens |
|---|---|---|
| `store_word` | bit L clear stores (`arm_load_store.c:51`) | str reads, at the address in Rd |
| `less_or_equal` | LE holds if Z is set, or N and V differ (`arm_constants.h:87`) | it holds only if both are so (`arm_conditions.c:67`) |

Seen while modelling, without a run of their own. The models do as the code does:

* `cont` holds the lock for as long as the guest runs (`gdb_protocol.c:185, 499`), so a guest that loops keeps out the
  interrupts that the simulator "can receive" (`arm_simulator.c:116-117`): `IrqServed` is checked with a guest whose runs
  end, and is false of one with a loop.
* Interrupt connections are shut down, never closed (`arm_simulator.c:104`), where README:12-14 says that the simulator
  "waits for" them: each costs a descriptor, and without one `accept` fails and the process exits ("no descriptor").
* `memory.h:38` says "The return value indicates a succes (0) or a failure (-1)." An access one byte past the end, or one whose
  last byte wraps to a low address, passes the check (`memory.c:74`, and likewise 52, 61, 88, 97, 112) and is performed:
  `Outside` in `MemoryArea`.
* `arm_data_processing.c:121` says "C Flag = CarryFrom(Rn + shifter_operand + C Flag)". The operand and the carry are added
  in one word before (`:122`): all ones and a carry give none. `CarryTrue` excepts that case.
* One damaged `+` between two packets counts as an invalid character, so a `-` goes out before the `+` of the intact packet
  behind it, and a client that follows both sends that packet again: a step is executed twice. `RepeatsBounded` gives
  the bound, two repetitions for each fault. A `$` that damage has made waits for the rest of a packet, and takes a `-` or
  a `+` that follows for its body.
* A NUL from the client, which is invalid by itself, is decided only with the next character (`scanner.c:874-880`), all
  other characters at once: `WaitsWhenOpen` names it.
* `p` reads a register number by `atoi` (`gdb_protocol.c:279`), though gdb writes it in hexadecimal as `P` reads it: registers
  10 to 15 answer r0, 16 to 21 answer r10 to r15, 25, the status, meets the assertion of `read_register`.
* The answer to `X` is E02 only when nothing has been written: of a packet that starts inside and runs past the end the
  process dies, at the byte after the last. The same is true of `m`: an answer is never shorter than asked for.
* The usage text (`arm_simulator.c:115`) shows `--trace-state` without a value. The long option takes the next argument for
  one; the short one, `-s`, has none and passes a null pointer to `strcmp`.
* A table of `MAX_FILES_NUMBER` files takes no other at its end, silently, but one that comes before another is inserted and moves the last
  one out of the table (`debug.c:39-44`): `OverrunOnlyFull`.
* Against a comment of the code: the V flag of SUB, CMP and the like is the borrow of unsigned words
  (`arm_data_processing.c:81-82`), V is cleared where it should be kept (`:43-44`), SBC compares with the operand minus
  the borrow (`:137-138`). `CarryTrue` states exactly in which cases the carry is still right.
* The software interrupt that `arm_exception.c:36` describes is not dispatched (`arm_instruction.c:37, 68`): it is an
  undefined instruction (`Undefined`).
* gdb writes the status as register 25 and fails the assertion of `write_register` (`gdb_protocol.c:313`): `BadRegister`.
* No text says otherwise, but: AND and EOR set N and Z from the old contents of Rd (`arm_data_processing.c:61, 70`), SBC and RSC from a difference one lower than the
  one they write (`:140, 155`); the
  branch offset is negated and not scaled (`arm_branch_other.c:38`); the carry of a rotation by a register comes from
  the wrong bit for half a word or more (`arm_data_processing.c:342-345`); LSR by 0 in the instruction leaves the word as it
  is (`:263`). `SignTrue` and `ShiftTrue` leave these cases of flags, carry and value out.

## The proofs

All proofs are of the modules above, for every value of their constants under the named assumptions they state. The type
invariants and the inductive invariants of the modules with proofs are proved and not run, except the `TypeOK` of
`ArmCpu` and `GdbSession`, which are run too. `CommandLine!TracesAsked` is proved and not run.
`DataProcessingProofs` defines the `TypeOK` it proves.

* **`GdbProtocolProofs`, the table** (`AddressAssumption`, `MaxAssumption`). The inductive invariant is
  `TableTypeOK /\ TableInv`: the used slots are strictly increasing, except for the hole that a move has just made; the
  window of a search holds the address if the table does; an insertion has all larger addresses behind it. The order alone
  is not inductive: a `Place` in the wrong slot is excluded only by what `MoveUp` has kept. From it: `TableTypeCorrect`,
  `TableCorrect`, `ProbesCorrect`, and `Refinement`, that each step is a step of `BreakpointSet` or a stutter. A call's
  answer is decided by one step, and `Members`, the set the array stands for, stays the same under all the others.
* **`GdbProtocolProofs`, the session** (`SessionAssumption`), for any requests of any kinds, any buffer of invalid
  characters, any number of faults, and a client that tries again at least once. Damage turns a character into one
  that is no body of a packet and no checksum that fits one: the checksum cannot see a body that has become another with
  the same sum. Two invariants are inductive together.
  `Known` is what is known whatever the link does: only requests that were made are under way, being handled or
  executed, and `packet` is the answer to the last one executed. It gives `TypeCorrect`.
  `Mended` has a case for each number of faults. Without any (`Calm`) the one request under way is on its way out, being
  handled, or answered. After one (`Mending`) its packet, its acknowledgement or its answer is lost (`LostPacket`, `LostAck`,
  `LostAnswer`, `AskedAgain`), or (`Live`) what the client waits for is still to come. `Live` looks
  into the characters that the scanner has not read: a prefix of debris in which no intact packet begins, then signs and whole packets only, whose numbers go up by at most one from the request being served
  (`Stream`). A token of the debris stays in the debris, because what follows it is a `$` and a body stops at a `$`
  (`TokenDebris`); a packet behind it is intact when the scanner comes to it, and is not waited for (`TokenNow`). So a
  client for which nothing is under way is one that has not asked again yet, and `GiveUp` is out of reach.
  Theorems: `MendedCorrect`; `OrderCorrect`, that each step is a step of `RequestService` or a stutter; `OnceCorrect`, that
  without faults the k-th request executed is the k-th one made.
  `RepeatsCorrect`, that each fault costs at most two repetitions, needs a third invariant, a budget (`Spending`). The number
  of repetitions alone is not inductive, since a fault is paid for long before the request it concerns is executed
  again. `Spent` counts what has been paid for: the repetitions made, each `-` on its way to the client, invalid
  characters that are held and will send one, and a client about to send again what has already arrived (`Owed`).
  `Covers` walks over the characters the scanner has not read and adds what they may still cost: two halves for an
  intact packet, and a half for each character that is neither a sign nor part of such a packet. The budget is in half
  units because it takes two invalid characters to fill the buffer once more and so to send another `-`. This needs `MAX_ERROR_SIZE` to be at least 3, the one hypothesis of the
  theorem; the code has 1024, the run 4. With 2 the bound is false: a packet that has lost its `$` leaves three
  invalid characters, and each but the first sends one.
* **`ScannerProofs`** (`ScannerAssumption`), for any input, read in any pieces, and any sizes. `TablesCorrect`: the packed
  tables, followed through their default states, are a matrix of fourteen states and eight columns, which is evaluated once.
  `Pending` says which sequences are no token yet and `StateAt` which state a sequence leads to; a lemma for each rule says
  that a state is final, or jammed, exactly where the rules of `ScannerRules` say so. `yy_get_previous_state` reads
  characters again after the buffer has moved: that it comes back to the same state is shown for all of them by taking the least
  place where it would not. `IInv` (`PlaceCorrect`) relates buffer, state, last match and remaining input; `BufferCorrect`,
  `WaitsCorrect` and `CutsCorrect`, the refinement of `TokenStream`, follow from it. The NUL that ends the buffer and one
  that the client sends are told apart by their place only, hence a case for each in all of these.
* **`SimulatorProofs`** (assumptions on words, guest, packets and bounds). Here `Exclusion`, `AnswerTrue` and
  `WritesWhole` are what a user sees, and none but the first is inductive. `HandlerInv` adds what each handler relies on
  between two of its steps: what it has read is still so, what it has written is still there, a run that goes on is not
  at a breakpoint. The conjunction is inductive; an interrupt step changes the processor only with the lock, which
  contradicts a handler being inside. The bounds on packets, clients and interrupts are any naturals, the guest any
  function to non-empty sets of outcomes. Theorems: `TypeCorrect`, `ExclusionCorrect`, `HandlersCorrect`, `AnswerCorrect`,
  `WritesCorrect`, `SessionCorrect` and the action property `StopsCorrect`. `SessionCorrect` needs one more invariant,
  `SessionOver`: main is past the join only when the gdb thread is done, and that one is done only when the client has
  closed and nothing it sent is left. `SessionOutlived` then says what may end the process while gdb is connected, and confines
  the use of freed memory to an interrupt that is handled after the session.
  `CallsCorrect` is a refinement: `SimulatorCalls` implements `Simulator`, so that all of these hold of it. A call is a
  stutter and its answer the step. What is needed is that an answer still fits when it comes: `Meant` says that a search is
  for the program counter as it is now and a change for the address of the packet. An interrupt could falsify the first, and
  only `Exclusion`, an invariant of `Simulator` and thus of each step that implements it, keeps it out (`InterruptsWait`). The third
  layer, `BreakpointTable` in the place of `BreakpointSet`, is `Refinement` of `GdbProtocolProofs`.
* **`MemoryAreaProofs`** (`SizeAssumption`, `RadixAssumption`). A value is the sum of its digits, for any base; the bytes
  of an access are distinct since the space has at least four addresses; so what `WordStored` lays out `WordAt` puts together, and
  the other order gives `Reverse4`. `AcceptedEnds` does the sums that wrap: an access that passes the check without being
  inside ends one past the memory or past the address space. Theorems: `TypeCorrect`, `ReadsBackCorrect`,
  `FrameCorrect`, `AcceptsCorrect`.

* **`GdbAccessProofs`** (`AccessAssumption`, `DataAssumption`). The properties say something of a handler only at its end;
  inside, `ReadLoop` says that the buffer holds the bytes from the first address to the current one, `WriteLoop` that the
  place in the content is `p.at` of the next byte, and both count what is left. Their conjunction with `TypeOK` and the
  properties is inductive, for any memory, byte, set of bytes to escape, packets and registers. That no turn is refused
  rests on the check of the memory: an address up to the size passes. Theorems: `TypeCorrect`, `WritesCorrect`,
  `ReadsCorrect`, `DiesCorrect`, `RegistersCorrect`, and `TextCorrect`, which takes the digits of a word from
  `MemoryAreaProofs`.
* **`CommandLineProofs`** (`ArgumentAssumption`). `TableInv` says that the used slots are sorted and hold exactly the first
  `MaxFiles` names given. The dichotomy is a recursive function over the windows of the table: that it exists and that it
  finds a name exactly when a slot of its window holds it are shown for all windows of a length, from those of the
  smaller lengths; there is no schema of induction to cite, so each induction takes the least length that fails, which
  exists because finite sets are well-founded by inclusion. Theorems: `TypeCorrect`, `OverrunCorrect`,
  `FilesFoundCorrect`, `TracesCorrect`.
* **`DataProcessingProofs`** (`WidthAssumption`, `InstructionAssumption`), for words of any width. `BitsExist` and
  `BitsDetermine`: for any bits there is one word that has them, so `BitAnd`, `BitOr` and `BitXor`, which choose it, are what
  their names say. They rest on facts about numbers: `LeastNatural`, that a non-empty set of naturals has a least element, takes the
  place of induction; `2^n` is the number of subsets of `1 .. n`, from which its laws follow; division is characterised by
  quotient and remainder being the only ones. `TypeOK` is inductive, `UpdateCpsr` and the operations being closed over words and bits. `ValuesCorrect`
  and `CarryCorrect` go from a sum in a word to the exact sum, and show that the cases excepted by `CarryTrue` are the only
  ones. `SignCorrect` compares what a step leaves in Rd with its flags. For `ShiftCorrect` a word is cut in two at the
  amount (`Cut`), whose parts a shift or a rotation puts elsewhere (`BitsOfSum`, `OrIsSum`); the last bit that leaves is what
  the carry is. Amounts of 0, in the instruction and in a register, and of a word and more have a case each (`ByZero`,
  `ByNothing`, `LongCarry`). Left out, as the code has them undefined in C or against the processor: the values for a word or
  more, the carry of ASR for those, the value of LSR by 0 in the instruction, the carry of ROR in a register from half a word on.
* **`ArmCpuProofs`** (`CpuAssumption`). The theorems about data processing and memory are taken by instances of their proof
  modules, for the registers after a fetch: the assumptions of both follow from `CpuAssumption`, and the operators of
  those instances are shown to be the ones `ArmCpu` uses. `TypeCorrect` has one lemma for each kind of instruction.
  `StoresCorrect` rests on the place of a register in its list being less than the length of the list, whatever is listed, and
  holds for a block that wraps. `OrderCorrect` needs that the bytes of a block are distinct: the list names at most 15
  registers and its block is shorter than the address space (`SameRemainder`). `FailuresCorrect` is for
  all conditions and programs; `OppositesCorrect`, for all flags, has six pairs of exact opposites and says of GT and LE only that they are never both true.

Only model-checked: the liveness properties, which the prover does not handle (`CallsReturn`, `PacketServed`,
`IrqServed`, `EndsWithSession`, `StraightLineEnds`, `Settles`, `ScanEnds`). Every other property of a run that passes is
stated by a theorem.

## Not modelled

* The text of packets and answers beyond what the properties tell apart, and the sizes of the buffers that hold them: gdb is
  told to keep to `PacketSize`, and `GdbAccess` assumes that it does.
* What trace and debug print; the stack of locations that `trace_location.h` keeps for it, which nothing else reads (the
  order in which `f() + trace_end_location()` is evaluated is the compiler's, so which location is printed is, too); the tables of
  names; the build, tests and examples.
* Of `scanner.c`: buffer stacks, scanning of strings, accessors, allocation. Of `csapp.c`: what the program does not call.
* The reserved bits of the status: `registers_write_cpsr` masks them, `Simulator` has the status as one value, and no property
  looks inside it. An `m` larger than `packet`, which `read_memory` does not check: see `PacketSize` above.
* Code no instruction reaches: the register-offset half of `str`, `strb`, `ldrh`, the software interrupt of
  `arm_exception`. Modes: `registers_get_mode` always answers SVC.
* The instruction decoding itself: `Decode` stands for it, with the fields as extracted.

## Plan

1. **Done.** The core: `BreakpointTable`, `Simulator`, `MemoryArea`, `DataProcessing`, `ArmCpu`, and their proofs.
2. **Done.** The gdb thread around it: `Scanner` over `ScannerRules`, `GdbSession`, `GdbAccess` and its proofs; the command
   line with the table of debugged files and its proofs.
3. **Done.** The proofs of `Scanner` and of `GdbSession`, with their refinements of `TokenStream` and `RequestService`.
4. **Done.** `SimulatorCalls`, which puts the breakpoint table behind calls, and its refinement of `Simulator`; the
   repetitions that a fault can cause, for any `MAX_ERROR_SIZE` from 3.
5. **Models to come**: the stack of trace locations, if its output is ever relied on.
