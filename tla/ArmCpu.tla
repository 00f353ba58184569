------------------------------- MODULE ArmCpu -------------------------------
(***************************************************************************)
(* One step of the simulated processor (arm_step): fetch, condition,       *)
(* dispatch, execution, exception, on the registers and the memory, with   *)
(* the loads, stores and branches as the code performs them, and the RESET *)
(* that an interrupt brings between two steps.                             *)
(*                                                                         *)
(* Encodings are abstracted: Decode gives, for each word of the memory,    *)
(* the instruction it holds, with the fields as the code extracts them.    *)
(* The register fields of loads and stores are masked with 0x04 there:     *)
(* they name register 0 or 4 whatever the instruction says.                *)
(***************************************************************************)
EXTENDS Integers, FiniteSets

CONSTANTS
  W,         \* bits of a word, as in DataProcessing
  Amounts,   \* as in DataProcessing
  Reg,       \* the registers the guest uses
  Size,      \* the size of the memory
  ENDIANESS, \* 1 in the build of Makefile.am, 0 without its symbol
  Decode,    \* the instruction that each word holds
  Registers, \* the register contents the guest may start from
  Contents   \* the memory contents it may start from

VARIABLES
  r,        \* the general registers and the program counter
  cpsr,     \* the status register
  mem,      \* the bytes of the memory
  result,   \* what arm_step returned last
  process   \* "running", or "aborted" by AddressSanitizer

vars == <<r, cpsr, mem, result, process>>

Modulus == 2^W
Radix == 2^(W \div 4)
Index == 0 .. Size - 1

\* Slips of fetched: the program counter stays, or outgrows a word.
fetchedInPlace == r
fetchedWide == [r EXCEPT ![15] = @ + 4]

\* The registers after a fetch, which an instruction works on.
fetched == [r EXCEPT ![15] = (@ + 4) % Modulus]

Alu == INSTANCE DataProcessing WITH r <- fetched, Guest <- {}
Memory == INSTANCE MemoryArea
            WITH Space <- Modulus, status <- "success", value <- 0,
                 written <- [size |-> 0]

UNDEFINED_INSTRUCTION == 7
Bit == {0, 1}
Condition == {"EQ", "NE", "CS", "CC", "MI", "PL", "VS", "VC", "HI", "LS",
              "GE", "LT", "GT", "LE", "AL", "UN"}

\* What a word decodes to.  swi is one of the undefined ones to the dispatch.
Instruction ==
  [type : {"data"}, cond : Condition, ins : Alu!Instruction]
    \union [type : {"load_store"}, cond : Condition, L : Bit, B : Bit,
            rn : {0, 4}, rd : {0, 4}, P : Bit, U : Bit, W : Bit,
            offset : {0, 4, 8, 12}]
    \union [type : {"multiple"}, cond : Condition, L : Bit, S : Bit,
            rn : {0, 4}, P : Bit, U : Bit, list : SUBSET (Reg \ {15})]
    \union [type : {"branch"}, cond : Condition, linked : Bit,
            imm24 : Alu!Word]
    \union [type : {"coprocessor", "undefined", "swi"}, cond : Condition]

ASSUME CpuAssumption ==
  /\ W \in Nat /\ W > 0 /\ W % 4 = 0 /\ Amounts \in Nat /\ Amounts > 0
  /\ {0, 4, 14, 15} \subseteq Reg /\ Reg \subseteq 0 .. 15
  /\ Size \in Nat /\ Size < Modulus
  /\ ENDIANESS \in Bit
  /\ Decode \in [0 .. Modulus - 1 -> Instruction]
  /\ Registers \subseteq [Reg -> 0 .. Modulus - 1]
  /\ Contents \subseteq [Index -> 0 .. Radix - 1]

Init ==
  /\ r \in Registers /\ cpsr = Alu!ResetCpsr /\ mem \in Contents
  /\ result = 0 /\ process = "running"
-----------------------------------------------------------------------------
(***************************************************************************)
(* Fetch, condition and exception.                                         *)
(***************************************************************************)
\* A slip of Higher: the zero flag is forgotten.
HigherOrSame == cpsr.c = 1

\* The condition HI.
Higher == cpsr.c = 1 /\ cpsr.z = 0

\* arm_check_cond.  LE wants both halves of its condition; UN yields
\* UNDEFINED_INSTRUCTION, which counts as true for all but a branch.
Holds(cond) ==
  CASE cond = "EQ" -> cpsr.z = 1
    [] cond = "NE" -> cpsr.z = 0
    [] cond = "CS" -> cpsr.c = 1
    [] cond = "CC" -> cpsr.c = 0
    [] cond = "MI" -> cpsr.n = 1
    [] cond = "PL" -> cpsr.n = 0
    [] cond = "VS" -> cpsr.v = 1
    [] cond = "VC" -> cpsr.v = 0
    [] cond = "HI" -> Higher
    [] cond = "LS" -> cpsr.c = 0 \/ cpsr.z = 1
    [] cond = "GE" -> cpsr.n = cpsr.v
    [] cond = "LT" -> cpsr.n # cpsr.v
    [] cond = "GT" -> cpsr.z = 0 /\ cpsr.n = cpsr.v
    [] cond = "LE" -> cpsr.z = 1 /\ cpsr.n # cpsr.v
    [] cond \in {"AL", "UN"} -> TRUE

\* How an access of n bytes ends: the check, then the bytes themselves.
Refused(a, n) == ~Memory!Checked(a, n)
Wild(a, n) == Memory!Checked(a, n) /\ ~Memory!Inside(a, n)
Served(a, n) == Memory!Checked(a, n) /\ Memory!Inside(a, n)

WordIn(m, a) == Memory!WordAt(m, a, ENDIANESS)

instruction == Decode[WordIn(mem, r[15])]

\* The fetched instruction is one of types and its condition holds.
Runs(types) ==
  /\ process = "running" /\ Served(r[15], 4)
  /\ instruction.type \in types /\ Holds(instruction.cond)

\* A step ends with a result, which arm_exception passes on.
Returns(value) == result' = value /\ UNCHANGED process

Abort == process' = "aborted" /\ UNCHANGED <<r, cpsr, mem, result>>

\* The memory refuses the fetch: -1, which is 255 as an exception number.
FetchRefused ==
  /\ process = "running" /\ Refused(r[15], 4)
  /\ r' = fetched /\ Returns(255)
  /\ UNCHANGED <<cpsr, mem>>

FetchOutside == process = "running" /\ Wild(r[15], 4) /\ Abort

\* The condition fails: nothing but the fetch has happened.
Skip ==
  /\ process = "running" /\ Served(r[15], 4) /\ ~Holds(instruction.cond)
  /\ r' = fetched /\ Returns(0)
  /\ UNCHANGED <<cpsr, mem>>

\* Coprocessor instructions and the types without a case, SWI among them.
Undefined ==
  /\ Runs({"coprocessor", "undefined", "swi"})
  /\ r' = fetched /\ Returns(UNDEFINED_INSTRUCTION)
  /\ UNCHANGED <<cpsr, mem>>
-----------------------------------------------------------------------------
(***************************************************************************)
(* The instructions.                                                       *)
(***************************************************************************)
DataProcessing ==
  /\ Runs({"data"})
  /\ \E o \in Alu!Outcomes(instruction.ins) : r' = o.r /\ cpsr' = o.cpsr
  /\ Returns(0) /\ UNCHANGED mem

\* A slip of Branch: the link register is written before the condition is
\* looked at again.
BranchLinksFirst ==
  /\ Runs({"branch"})
  /\ LET pc == Alu!Read(15)
         linked == IF instruction.linked = 1
                     THEN [fetched EXCEPT ![14] = (pc + 4) % Modulus]
                     ELSE fetched
     IN IF instruction.cond = "UN"
          THEN r' = linked /\ Returns(255)
          ELSE /\ r' = [linked EXCEPT ![15] =
                          (pc - instruction.imm24) % Modulus]
               /\ Returns(0)
  /\ UNCHANGED <<cpsr, mem>>

\* arm_branch: the offset is the negated field; the condition UN is no
\* plain truth and fails with -1.
Branch ==
  /\ Runs({"branch"})
  /\ IF instruction.cond = "UN"
       THEN r' = fetched /\ Returns(255)
       ELSE LET pc == Alu!Read(15)
                linked == IF instruction.linked = 1
                            THEN [fetched EXCEPT ![14] = (pc + 4) % Modulus]
                            ELSE fetched
            IN /\ r' = [linked EXCEPT ![15] =
                          (pc - instruction.imm24) % Modulus]
               /\ Returns(0)
  /\ UNCHANGED <<cpsr, mem>>

LoadStore(L, B) ==
  /\ Runs({"load_store"})
  /\ instruction.L = L /\ instruction.B = B

\* ldr and ldrb: the addressing mode is ignored.  A refused read leaves the
\* register alone, and arm_load_store returns 0 all the same.
Load ==
  \E B \in Bit :
    /\ LoadStore(1, B)
    /\ LET a == Alu!Read(instruction.rn)
           n == IF B = 1 THEN 1 ELSE 4
       IN /\ ~Wild(a, n)
          /\ r' = IF Refused(a, n) THEN fetched
                    ELSE [fetched EXCEPT ![instruction.rd] =
                            IF B = 1 THEN mem[a] ELSE WordIn(mem, a)]
    /\ Returns(0) /\ UNCHANGED <<cpsr, mem>>

\* The address str computes from the base and the offset.
Moved ==
  (Alu!Read(instruction.rn)
     + IF instruction.U = 1 THEN instruction.offset ELSE -instruction.offset)
    % Modulus

\* str: the base is written back in the pre-indexed mode, the memory is read
\* at the address in Rd, and nothing is stored.
Str ==
  /\ LoadStore(0, 0)
  /\ ~Wild(Alu!Read(instruction.rd), 4)
  /\ r' = IF instruction.P = 1 /\ instruction.W = 1
            THEN [fetched EXCEPT ![instruction.rn] = Moved] ELSE fetched
  /\ Returns(0) /\ UNCHANGED <<cpsr, mem>>

\* strb_strh always takes the half-word: bit 26 is set in this class.  The
\* address is the one in Rd, the value that of Rn.
Strh ==
  /\ LoadStore(0, 1)
  /\ LET a == Alu!Read(instruction.rd)
         v == Alu!Read(instruction.rn) % (Radix * Radix)
     IN /\ ~Wild(a, 2)
        /\ mem' = IF Refused(a, 2) THEN mem
                    ELSE Memory!HalfStored(mem, a, v, ENDIANESS)
  /\ r' = fetched /\ Returns(0) /\ UNCHANGED cpsr

\* The place of a register in the list, and the address stm stores its byte
\* at, in the modes IA, IB, DA and DB.
Place(i) == Cardinality({j \in instruction.list : j < i})

\* A slip of Target: the modes that step first are taken for the others.
TargetStepsAfter(i) ==
  (Alu!Read(instruction.rn)
     + IF instruction.U = 1 THEN Place(i) ELSE -Place(i)) % Modulus

Target(i) ==
  LET distance == Place(i) + instruction.P
  IN (Alu!Read(instruction.rn)
        + IF instruction.U = 1 THEN distance ELSE -distance) % Modulus

\* A slip of Reached: a refused byte is passed over.
ReachedPastRefusal(i) == TRUE

\* stm comes to a register when it has stored all those before.
Reached(i) == \A j \in instruction.list : j < i => Served(Target(j), 1)

\* stm: the lowest byte of each register, up to the first one refused.
Stm ==
  /\ Runs({"multiple"}) /\ instruction.L = 0
  /\ LET visited == {i \in instruction.list : instruction.S = 0 /\ Reached(i)}
         stored == {i \in visited : Served(Target(i), 1)}
     IN /\ \A i \in visited : ~Wild(Target(i), 1)
        /\ mem' = [a \in Index |->
                     IF \E i \in stored : Target(i) = a
                       THEN LET i == CHOOSE j \in stored : Target(j) = a
                            IN Alu!Read(i) % Radix
                       ELSE mem[a]]
  /\ r' = fetched /\ Returns(0) /\ UNCHANGED cpsr

\* ldm: one byte, at the base, for all the registers of the list.
Ldm ==
  /\ Runs({"multiple"}) /\ instruction.L = 1
  /\ LET a == Alu!Read(instruction.rn)
     IN /\ instruction.S = 0 => ~Wild(a, 1)
        /\ r' = IF instruction.S = 1 \/ Refused(a, 1) THEN fetched
                  ELSE [i \in Reg |-> IF i \in instruction.list THEN mem[a]
                                                              ELSE fetched[i]]
  /\ Returns(0) /\ UNCHANGED <<cpsr, mem>>

\* A load or a store that passes the check and leaves the memory.
AccessOutside ==
  /\ Runs({"load_store", "multiple"})
  /\ LET base == Alu!Read(instruction.rn)
     IN IF instruction.type = "load_store"
          THEN Wild(IF instruction.L = 1 THEN base
                                         ELSE Alu!Read(instruction.rd),
                    IF instruction.B = 0 THEN 4 ELSE 2 - instruction.L)
          ELSE /\ instruction.S = 0
               /\ IF instruction.L = 1 THEN Wild(base, 1)
                    ELSE \E i \in instruction.list :
                           Reached(i) /\ Wild(Target(i), 1)
  /\ Abort

Step ==
  \/ FetchRefused \/ FetchOutside \/ Skip \/ Undefined \/ DataProcessing
  \/ Branch \/ Load \/ Str \/ Strh \/ Stm \/ Ldm \/ AccessOutside

\* arm_exception of a RESET, whose result the interrupt thread ignores.
Reset ==
  /\ process = "running"
  /\ cpsr' = Alu!ResetCpsr /\ r' = [r EXCEPT ![15] = 0]
  /\ UNCHANGED <<mem, result, process>>

Aborted == process = "aborted" /\ UNCHANGED vars

Next == Step \/ Reset \/ Aborted

Spec == Init /\ [][Next]_vars

\* The guest goes on: gdb makes it step or run.
FairSpec == Spec /\ WF_vars(Step)
-----------------------------------------------------------------------------
(***************************************************************************)
(* Properties.                                                             *)
(***************************************************************************)

\* Registers, memory and status have their types, and a step returns one of
\* the three results that the module Simulator assumes of a guest.
TypeOK ==
  /\ r \in [Reg -> 0 .. Modulus - 1] /\ cpsr \in Alu!Cpsr
  /\ mem \in [Index -> 0 .. Radix - 1]
  /\ result \in {0, UNDEFINED_INSTRUCTION, 255}
  /\ process \in {"running", "aborted"}

\* An instruction reported as failed has had no effect but the fetch: gdb
\* shows the processor as it was (arm_instruction.c:41-83,
\* arm_branch_other.c:33-51).
FailuresPrecise ==
  [][Step /\ result' # 0 =>
       /\ r' = fetched \/ process' = "aborted"
       /\ UNCHANGED <<cpsr, mem>>]_vars

\* The bytes a store may write: two at the address of Rd, or one for each
\* listed register, contiguous from the base, which wraps as an address does.
MayStore(a) ==
  /\ Runs({"load_store", "multiple"}) /\ instruction.L = 0
  /\ IF instruction.type = "load_store"
       THEN LET at == Alu!Read(instruction.rd) IN a \in {at, at + 1}
       ELSE LET base == Alu!Read(instruction.rn)
                n == Cardinality(instruction.list)
                first == instruction.P
            IN \E k \in first .. first + n - 1 :
                 a = (IF instruction.U = 1 THEN base + k ELSE base - k)
                       % Modulus

\* Only a store whose condition holds changes the memory, and only the block
\* it names, whatever part of it is refused (arm_load_store.c:415-431,
\* 536-590).
StoresInBlock ==
  [][\A a \in Index : mem'[a] # mem[a] => MayStore(a)]_vars

\* A block store leaves no hole: when a byte of its block is stored, those
\* of the lower registers of the list are (arm_load_store.c:548-586).
StoresInOrder ==
  [][Stm /\ instruction.S = 0 =>
       \A i, j \in instruction.list :
         j < i /\ Target(i) \in Index /\ mem'[Target(i)] # mem[Target(i)]
           => /\ Target(j) \in Index
              /\ mem'[Target(j)] = Alu!Read(j) % Radix]_vars

\* Of a condition and its opposite exactly one holds, for the first six
\* pairs; GT and LE are never both true (arm_conditions.c:13-79).
Opposites ==
  /\ \A p \in {<<"EQ", "NE">>, <<"CS", "CC">>, <<"MI", "PL">>, <<"VS", "VC">>,
               <<"HI", "LS">>, <<"GE", "LT">>} : Holds(p[1]) <=> ~Holds(p[2])
  /\ ~(Holds("GT") /\ Holds("LE"))

\* A guest that runs for ever without failing is reset again and again, or
\* comes again and again to an instruction that jumps: straight-line code
\* comes to an end, since the fetch moves the program counter beyond the
\* memory too (arm_core.c:163-178).
Jumps == r'[15] # fetched[15]
StraightLineEnds ==
  \/ []<>(result # 0 \/ process = "aborted")
  \/ []<>ENABLED (Step /\ Jumps)
  \/ []<><<Reset>>_vars

\* "LE 0xD //Z set || ((N set && V clear) || (N clear && V set))"
\* (arm_constants.h:87).
LessOrEqual == Holds("LE") <=> cpsr.z = 1 \/ cpsr.n # cpsr.v

\* "bit L (Load if set || Store if unset)" (arm_load_store.c:51): a word
\* store whose computed address is one of the memory stores the word.
WordsStored ==
  [][Str /\ instruction.P = 1 /\ Served(Moved, 4)
       => WordIn(mem', Moved) = Alu!Read(instruction.rd)]_vars
=============================================================================
