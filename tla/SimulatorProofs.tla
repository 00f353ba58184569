-------------------------- MODULE SimulatorProofs --------------------------
(***************************************************************************)
(* Proofs about the simulator, for any guest program, any set of packets   *)
(* and any bounds: handlers and interrupts exclude each other, what gdb is *)
(* told and what is written is whole, cont stops at breakpoints, and the   *)
(* process outlives the session but for the ends the code gives it.        *)
(***************************************************************************)
EXTENDS SimulatorCalls, FiniteSetTheorems, TLAPS

\* The inductive invariant: the types, and the safety invariants with what
\* the handlers rely on between their steps.
Safe == Exclusion /\ HandlerInv /\ AnswerTrue /\ WritesWhole
IndInv == TypeOK /\ Safe

\* The simulator starts with a reset processor, a free lock and no client
\* (arm_simulator.c:132-214, gdb_protocol.c:448-470).
LEMMA InitIndInv == Init => IndInv
<1> SUFFICES ASSUME Init PROVE IndInv
  OBVIOUS
<1> USE WordAssumption, BoundAssumption
<1>1. TypeOK
  BY FS_EmptySet
     DEF Init, TypeOK, ProcessType, ProcessorType, GdbType, GdbLinkType,
         IrqType, IrqLinksType, ResetCore, Core, NoPacket, Irq, Client
<1>2. Safe
  BY DEF Init, Safe, Exclusion, HandlerInv, AnswerTrue, WritesWhole,
         InsideGdb, InsideIrq
<1> QED BY <1>1, <1>2 DEF IndInv

\* Parts of the state a step leaves alone keep their type.
LEMMA TypeFrame ==
  /\ ProcessorType /\ UNCHANGED processor => ProcessorType'
  /\ GdbType /\ UNCHANGED gdbLocals => GdbType'
  /\ GdbLinkType /\ UNCHANGED gdbLink => GdbLinkType'
  /\ IrqType /\ UNCHANGED <<irqLocals, line>> => IrqType'
  /\ IrqLinksType /\ UNCHANGED irqLinks => IrqLinksType'
BY DEF processor, gdbLocals, gdbLink, irqLocals, irqLinks, ProcessorType,
       GdbType, GdbLinkType, IrqType, IrqLinksType

\* Packets that name a program counter or a status hold one.
LEMMA PacketFields ==
  ASSUME NEW p \in Packet \union {NoPacket}
  PROVE  /\ p.op \in {"G", "P15", "Z", "z"} => p.PC \in Word
         /\ p.op = "G" => p.cpsr \in Cpsr
BY DEF Packet, NoPacket

\* The scanner hands over the oldest packet (scanner.l:40-72).
LEMMA ReceiveType ==
  ASSUME GdbLinkType, Receive
  PROVE  packet' \in Packet /\ GdbLinkType'
<1>1. stream \in Seq(Packet) /\ stream # <<>>
  BY DEF GdbLinkType, Receive
<1>2. Head(stream) \in Packet /\ Tail(stream) \in Seq(Packet)
  BY <1>1
<1> QED BY <1>2 DEF GdbLinkType, Receive

\* One instruction leaves a processor state and an exception number that
\* fits a byte (gdb_protocol.c:174-177).
LEMMA ExecuteType ==
  ASSUME ProcessorType, NEW from, Execute(from)
  PROVE  ProcessorType'
<1>1. PICK o \in Program[core] : /\ core' = [PC |-> o.PC, cpsr |-> o.cpsr]
                                 /\ target_exception' = o.result % 256
  BY DEF Execute
<1>2. core \in Core
  BY DEF ProcessorType
<1>3. o \in Outcome
  BY <1>2, ProgramAssumption
<1>4. o.PC \in Word /\ o.cpsr \in Cpsr /\ o.result \in {0, 7, -1}
  BY <1>3 DEF Outcome, Result, UNDEFINED_INSTRUCTION
<1>5. core' \in Core
  BY <1>1, <1>4 DEF Core
<1>6. o.result \in Int
  BY <1>4
<1>7. target_exception' \in 0 .. 255
  BY <1>1, <1>6
<1> QED BY <1>5, <1>7 DEF Execute, ProcessorType

\* add_breakpoint keeps to the limit of the table (gdb_protocol.c:389-404).
LEMMA SetBreakpointType ==
  ASSUME ProcessorType, SetBreakpoint, packet.PC \in Word
  PROVE  ProcessorType'
<1>1. IsFiniteSet(breakpoints) /\ Cardinality(breakpoints) \in Nat
  BY FS_CardinalityType DEF ProcessorType
<1>2. CASE Cardinality(breakpoints) < MaxBreakpoints
  <2>1. breakpoints' = breakpoints \union {packet.PC}
    BY <1>2 DEF SetBreakpoint
  <2>2. /\ IsFiniteSet(breakpoints')
        /\ \/ Cardinality(breakpoints') = Cardinality(breakpoints) + 1
           \/ breakpoints' = breakpoints
    <3>1. ASSUME NEW S, IsFiniteSet(S), NEW x
          PROVE  /\ IsFiniteSet(S \union {x})
                 /\ x \notin S => Cardinality(S \union {x}) = Cardinality(S) + 1
                 /\ x \in S => S \union {x} = S
      BY <3>1, FS_AddElement
    <3> QED BY <1>1, <2>1, <3>1, Zenon
  <2>3. Cardinality(breakpoints') <= MaxBreakpoints
    BY <1>1, <1>2, <2>2, BoundAssumption
  <2> QED BY <2>1, <2>2, <2>3 DEF SetBreakpoint, ProcessorType
<1>3. CASE ~(Cardinality(breakpoints) < MaxBreakpoints)
  BY <1>3 DEF SetBreakpoint, ProcessorType
<1> QED BY <1>2, <1>3

\* remove_breakpoint only shrinks the table (gdb_protocol.c:406-421).
LEMMA RemoveBreakpointType ==
  ASSUME ProcessorType, RemoveBreakpoint
  PROVE  ProcessorType'
<1>1. /\ IsFiniteSet(breakpoints) /\ Cardinality(breakpoints) \in Nat
      /\ Cardinality(breakpoints) <= MaxBreakpoints
  BY FS_CardinalityType DEF ProcessorType
<1>2. breakpoints' = breakpoints \ {packet.PC}
  BY DEF RemoveBreakpoint
<1>3. breakpoints' \subseteq breakpoints
  BY <1>2
<1>4. /\ IsFiniteSet(breakpoints') /\ Cardinality(breakpoints') \in Nat
      /\ Cardinality(breakpoints') <= Cardinality(breakpoints)
  BY <1>1, <1>3, FS_Subset, FS_CardinalityType
<1>5. Cardinality(breakpoints') <= MaxBreakpoints
  BY <1>1, <1>4, BoundAssumption
<1> QED BY <1>3, <1>4, <1>5 DEF RemoveBreakpoint, ProcessorType

\* A new connection is one that exists (arm_simulator.c:96-97).
LEMMA IrqAcceptType ==
  ASSUME IrqType, IrqLinksType, IrqAccept
  PROVE  IrqType'
<1>1. accepted \in Nat /\ accepted < MaxClients /\ accepted' = accepted + 1
  BY BoundAssumption DEF IrqAccept, IrqType
<1>2. accepted' \in Client /\ accepted' # 0 /\ accepted' \in 0 .. MaxClients
  BY <1>1, BoundAssumption DEF Client
<1>3. line' = line /\ position' = 0 /\ byte' = byte /\ irq' = "read"
  BY DEF IrqAccept, IrqStep, irqLinks
<1>4. line[accepted'] \in Seq(Irq)
  BY <1>2 DEF IrqLinksType
<1>5. Len(line[accepted']) \in Nat
  BY <1>4
<1>6. 0 <= Len(line[accepted']) /\ 0 \in 0 .. MaxIrqs
  BY <1>5, BoundAssumption
<1> QED BY <1>2, <1>3, <1>6 DEF IrqType

\* The interrupt read is one that was sent (arm_simulator.c:98-99).
LEMMA IrqReadType ==
  ASSUME IrqType, IrqLinksType, IrqRead
  PROVE  IrqType'
<1>1. irq = "read" /\ irq' = "lock" /\ line' = line /\ accepted' = accepted
  BY DEF IrqRead, IrqStep, irqLinks
<1>2. accepted \in 0 .. MaxClients /\ accepted # 0 /\ position \in Nat
  BY <1>1, BoundAssumption DEF IrqType
<1>3. accepted \in Client
  BY <1>2, BoundAssumption DEF Client
<1>4. line[accepted] \in Seq(Irq) /\ Len(line[accepted]) <= MaxIrqs
  BY <1>3 DEF IrqLinksType
<1>5. Len(line[accepted]) \in Nat
  BY <1>4
<1>6. position < Len(line[accepted]) /\ position' = position + 1
  BY DEF IrqRead
<1>7. /\ position + 1 \in 1 .. Len(line[accepted])
      /\ position + 1 \in 0 .. MaxIrqs
  BY <1>2, <1>4, <1>5, <1>6, BoundAssumption
<1>8. byte' \in Irq
  <2>1. line[accepted][position + 1] \in Irq
    BY <1>4, <1>7
  <2> QED BY <2>1 DEF IrqRead
<1>9. position' <= Len(line[accepted])
  BY <1>5, <1>6, <1>7
<1> QED BY <1>1, <1>2, <1>6, <1>7, <1>8, <1>9 DEF IrqType

\* The gdb client sends what it chooses from (gdb_protocol.c:476-506).
LEMMA GdbSendType ==
  ASSUME GdbLinkType, NEW p \in Offered, GdbSend(p)
  PROVE  GdbLinkType'
<1>1. stream' = Append(stream, p) /\ stream \in Seq(Packet) /\ p \in Packet
  BY OfferedAssumption DEF GdbSend, GdbLinkType
<1>2. stream' \in Seq(Packet)
  BY <1>1
<1>3. sent' = sent + 1 /\ sent < MaxPackets /\ sent \in 0 .. MaxPackets
  BY DEF GdbSend, GdbLinkType
<1>4. sent' \in 0 .. MaxPackets
  BY <1>3, BoundAssumption
<1> QED BY <1>2, <1>4 DEF GdbSend, GdbLinkType

\* An interrupt client sends at the end of its own connection
\* (send_irq.c:68-69).
LEMMA IrqSendType ==
  ASSUME IrqType, IrqLinksType, NEW c \in Client, NEW i \in Irq,
         IrqSend(c, i)
  PROVE  IrqType' /\ IrqLinksType'
<1>1. line' = [line EXCEPT ![c] = Append(line[c], i)]
  BY DEF IrqSend
<1>2. \A d \in Client : /\ line[d] \in Seq(Irq) /\ Len(line[d]) <= MaxIrqs
  BY DEF IrqLinksType
<1>3. \A d \in Client : Len(line[d]) \in Nat
  BY <1>2
<1>4. /\ Append(line[c], i) \in Seq(Irq)
      /\ Len(Append(line[c], i)) = Len(line[c]) + 1
  BY <1>2
<1>5. line' \in [Client -> Seq(Irq)]
  BY <1>1, <1>4 DEF IrqLinksType
<1>6. line'[c] = Append(line[c], i)
  BY <1>1 DEF IrqLinksType
<1>7. Len(line[c]) < MaxIrqs
  BY DEF IrqSend
<1>8. /\ Len(line'[c]) \in Nat /\ Len(line'[c]) <= MaxIrqs
      /\ Len(line[c]) <= Len(line'[c])
  BY <1>3, <1>4, <1>6, <1>7, BoundAssumption
<1>9. \A d \in Client : d # c => line'[d] = line[d]
  BY <1>1 DEF IrqLinksType
<1>10. \A d \in Client : /\ Len(line'[d]) \in Nat /\ Len(line'[d]) <= MaxIrqs
                         /\ Len(line[d]) <= Len(line'[d])
  <2> SUFFICES ASSUME NEW d \in Client
               PROVE  /\ Len(line'[d]) \in Nat /\ Len(line'[d]) <= MaxIrqs
                      /\ Len(line[d]) <= Len(line'[d])
    OBVIOUS
  <2>1. CASE d = c
    BY <2>1, <1>8
  <2>2. CASE d # c
    <3>1. Len(line[d]) <= Len(line[d])
      BY <1>3
    <3> QED BY <2>2, <3>1, <1>2, <1>3, <1>9
  <2> QED BY <2>1, <2>2
<1>11. IrqLinksType'
  BY <1>5, <1>10 DEF IrqSend, IrqLinksType
<1>12. accepted # 0 => accepted \in Client
  BY BoundAssumption DEF IrqType, Client
<1>13. accepted # 0 => position <= Len(line'[accepted])
  <2> SUFFICES ASSUME accepted # 0 PROVE position <= Len(line'[accepted])
    OBVIOUS
  <2>1. accepted \in Client /\ position <= Len(line[accepted])
    BY <1>12 DEF IrqType
  <2>2. position \in Int
    BY BoundAssumption DEF IrqType
  <2> QED BY <2>1, <2>2, <1>3, <1>10
<1> QED BY <1>11, <1>13 DEF IrqSend, IrqType, irqLocals, simulator


\* Every action preserves the types (arm_simulator.c, gdb_protocol.c).
LEMMA TypeStep == TypeOK /\ [Next]_vars => TypeOK'
<1> SUFFICES ASSUME TypeOK, [Next]_vars PROVE TypeOK'
  OBVIOUS
<1> USE DEF TypeOK, ProcessType, world, simulator
<1>p. /\ packet.op \in {"G", "P15", "Z", "z"} => packet.PC \in Word
      /\ packet.op = "G" => packet.cpsr \in Cpsr
  BY PacketFields DEF GdbType
<1>1. CASE GdbAccept
  BY <1>1, TypeFrame DEF GdbAccept, GdbStep, GdbType, InsideGdb, irqLinks
<1>2. CASE Receive
  BY <1>2, TypeFrame, ReceiveType DEF Receive, GdbStep, GdbType, irqLinks
<1>3. CASE EndOfFile
  BY <1>3, TypeFrame DEF EndOfFile, GdbStep, GdbType, InsideGdb, irqLinks
<1>4. CASE ReadError
  BY <1>4, TypeFrame DEF ReadError, End, irqLinks
<1>5. CASE Ack
  BY <1>5, TypeFrame DEF Ack, GdbStep, GdbType, InsideGdb, irqLinks
<1>6. CASE SendEmpty
  BY <1>6, TypeFrame DEF SendEmpty, GdbStep, GdbType, InsideGdb, irqLinks
<1>7. CASE GdbLock
  BY <1>7, TypeFrame DEF GdbLock, GdbStep, GdbType, InsideGdb, irqLinks
<1>8. CASE GdbUnlock
  BY <1>8, TypeFrame DEF GdbUnlock, GdbStep, GdbType, InsideGdb, irqLinks
<1>9. CASE SendAnswer
  BY <1>9, TypeFrame DEF SendAnswer, GdbStep, GdbType, InsideGdb, irqLinks
<1>10. CASE WriteError
  BY <1>10, TypeFrame DEF WriteError, End, irqLinks
<1>11. CASE StartRun
  BY <1>11, TypeFrame DEF StartRun, Handler, GdbStep, GdbType, InsideGdb,
     irqLinks
<1>12. CASE Execute("execute")
  BY <1>12, TypeFrame, ExecuteType
     DEF Execute, Handler, GdbStep, GdbType, InsideGdb, irqLinks
<1>13. CASE Execute("continue")
  BY <1>13, TypeFrame, ExecuteType
     DEF Execute, Handler, GdbStep, GdbType, InsideGdb, irqLinks
<1>14. CASE CheckStop
  BY <1>14, TypeFrame DEF CheckStop, Handler, GdbStep, GdbType, InsideGdb,
     irqLinks
<1>15. CASE StopReason
  BY <1>15, TypeFrame DEF StopReason, Handler, GdbStep, GdbType, InsideGdb,
     irqLinks
<1>16. CASE ReadPC
  <2>1. PC_read' \in Word
    BY <1>16 DEF ReadPC, ProcessorType, Core
  <2> QED
    BY <1>16, TypeFrame, <2>1
       DEF ReadPC, Handler, GdbStep, GdbType, InsideGdb, irqLinks
<1>17. CASE ReadCpsr
  BY <1>17, TypeFrame DEF ReadCpsr, Handler, GdbStep, GdbType, InsideGdb,
     irqLinks
<1>18. CASE WritePC
  <2>1. core' \in Core
    BY <1>18, <1>p DEF WritePC, Handler, ProcessorType, Core
  <2>2. ProcessorType'
    BY <1>18, <2>1 DEF WritePC, ProcessorType
  <2> QED
    BY <1>18, TypeFrame, <2>2
       DEF WritePC, Handler, GdbStep, GdbType, InsideGdb, irqLinks
<1>19. CASE WriteCpsr
  <2>1. core' \in Core
    BY <1>19, <1>p DEF WriteCpsr, Handler, ProcessorType, Core
  <2>2. ProcessorType'
    BY <1>19, <2>1 DEF WriteCpsr, ProcessorType
  <2> QED
    BY <1>19, TypeFrame, <2>2
       DEF WriteCpsr, Handler, GdbStep, GdbType, InsideGdb, irqLinks
<1>20. CASE WriteSingleRegister
  <2>1. core' \in Core
    BY <1>20, <1>p DEF WriteSingleRegister, Handler, ProcessorType, Core
  <2>2. ProcessorType'
    BY <1>20, <2>1 DEF WriteSingleRegister, ProcessorType
  <2> QED
    BY <1>20, TypeFrame, <2>2
       DEF WriteSingleRegister, Handler, GdbStep, GdbType, InsideGdb, irqLinks
<1>21. CASE BadRegister
  BY <1>21, TypeFrame DEF BadRegister, End, irqLinks
<1>22. CASE SetBreakpoint
  <2>1. packet.PC \in Word
    BY <1>22, <1>p DEF SetBreakpoint, Handler
  <2> QED
    BY <1>22, <2>1, TypeFrame, SetBreakpointType
       DEF SetBreakpoint, Handler, GdbStep, GdbType, InsideGdb, irqLinks
<1>23. CASE RemoveBreakpoint
  BY <1>23, TypeFrame, RemoveBreakpointType
     DEF RemoveBreakpoint, Handler, GdbStep, GdbType, InsideGdb, irqLinks
<1>24. CASE KillRequest
  BY <1>24, TypeFrame DEF KillRequest, Handler, GdbStep, GdbType,
     InsideGdb, irqLinks
<1>25. CASE CloseSession
  BY <1>25, TypeFrame DEF CloseSession, GdbStep, GdbType, InsideGdb,
     irqLinks
<1>26. CASE IrqAccept
  BY <1>26, TypeFrame, IrqAcceptType DEF IrqAccept, IrqStep, irqLinks, processor
<1>27. CASE AcceptError
  BY <1>27, TypeFrame DEF AcceptError, End, irqLinks
<1>28. CASE IrqRead
  BY <1>28, TypeFrame, IrqReadType DEF IrqRead, IrqStep, irqLinks, processor
<1>29. CASE IrqEnd
  BY <1>29, TypeFrame DEF IrqEnd, IrqStep, IrqType, InsideIrq, processor,
     irqLinks
<1>30. CASE IrqReadError
  BY <1>30, TypeFrame DEF IrqReadError, End, irqLinks
<1>31. CASE IrqLock
  BY <1>31, TypeFrame DEF IrqLock, IrqStep, IrqType, InsideIrq, processor,
     irqLinks
<1>32. CASE ResetStatus
  <2>1. core' \in Core
    BY <1>32, WordAssumption DEF ResetStatus, ProcessorType, Core
  <2>2. ProcessorType'
    BY <1>32, <2>1 DEF ResetStatus, IrqStep, ProcessorType
  <2> QED
    BY <1>32, TypeFrame, <2>2 DEF ResetStatus, IrqStep, IrqType, InsideIrq, irqLinks
<1>33. CASE ResetPC
  <2>1. core' \in Core
    BY <1>33, WordAssumption DEF ResetPC, ProcessorType, Core
  <2>2. ProcessorType'
    BY <1>33, <2>1 DEF ResetPC, IrqStep, ProcessorType
  <2> QED
    BY <1>33, TypeFrame, <2>2 DEF ResetPC, IrqStep, IrqType, InsideIrq, irqLinks
<1>34. CASE IgnoreIrq
  BY <1>34, TypeFrame DEF IgnoreIrq, IrqStep, IrqType, InsideIrq,
     processor, irqLinks
<1>35. CASE IrqUnlock
  BY <1>35, TypeFrame DEF IrqUnlock, IrqStep, IrqType, InsideIrq,
     processor, irqLinks
<1>36. CASE UseAfterFree
  BY <1>36, TypeFrame DEF UseAfterFree, End, irqLinks
<1>37. CASE Join
  BY <1>37, TypeFrame DEF Join, MainStep, irqLinks
<1>38. CASE DestroyRegisters
  BY <1>38, TypeFrame DEF DestroyRegisters, MainStep, irqLinks
<1>39. CASE DestroyMemory
  BY <1>39, TypeFrame DEF DestroyMemory, MainStep, irqLinks
<1>40. CASE Clients
  <2>1. CASE GdbConnect
    BY <2>1, TypeFrame DEF GdbConnect, GdbLinkType, irqLinks
  <2>2. ASSUME NEW p \in Offered, GdbSend(p) PROVE TypeOK'
    BY <2>2, TypeFrame, GdbSendType DEF GdbSend, irqLinks
  <2>3. ASSUME NEW how \in {"closed", "reset"}, GdbLeave(how) PROVE TypeOK'
    BY <2>3, TypeFrame DEF GdbLeave, GdbLinkType, irqLinks
  <2>4. ASSUME NEW c \in Client, IrqConnect(c) PROVE TypeOK'
    BY <2>4, TypeFrame DEF IrqConnect, IrqLinksType
  <2>5. ASSUME NEW c \in Client, NEW i \in Irq, IrqSend(c, i) PROVE TypeOK'
    <3>1. IrqType' /\ IrqLinksType'
      BY <2>5, IrqSendType
    <3> QED BY <2>5, <3>1, TypeFrame DEF IrqSend
  <2>6. ASSUME NEW c \in Client, NEW how \in {"closed", "reset"},
               IrqLeave(c, how)
        PROVE  TypeOK'
    BY <2>6, TypeFrame DEF IrqLeave, IrqLinksType
  <2> QED BY <1>40, <2>1, <2>2, <2>3, <2>4, <2>5, <2>6 DEF Clients
<1>41. CASE UNCHANGED vars
  BY <1>41, TypeFrame
     DEF vars, processor, gdbLocals, gdbLink, irqLocals, irqLinks
<1>42. CASE GdbThread
  BY <1>42, <1>1, <1>2, <1>3, <1>4, <1>5, <1>6, <1>7, <1>8, <1>9, <1>10,
     <1>11, <1>12, <1>13, <1>14, <1>15, <1>16, <1>17, <1>18, <1>19, <1>20,
     <1>21, <1>22, <1>23, <1>24, <1>25
     DEF GdbThread, GdbElsewhere, UseTable
<1>43. CASE IrqThread
  BY <1>43, <1>26, <1>27, <1>28, <1>29, <1>30, <1>31, <1>32, <1>33, <1>34,
     <1>35, <1>36 DEF IrqThread
<1>44. CASE MainThread
  BY <1>44, <1>37, <1>38, <1>39 DEF MainThread
<1> QED
  BY <1>40, <1>41, <1>42, <1>43, <1>44 DEF Next, Ended

\* Every action preserves the safety invariants: only the thread that holds
\* the lock moves within its critical section or touches the processor
\* (gdb_protocol.c:497-501, arm_simulator.c:100-104).
LEMMA SafeStep == IndInv /\ [Next]_vars => Safe'
<1> SUFFICES ASSUME TypeOK, Safe, [Next]_vars PROVE Safe'
  BY DEF IndInv
<1>c. core \in Core
  BY DEF TypeOK, ProcessorType
<1> USE DEF Safe, Exclusion, HandlerInv, AnswerTrue, WritesWhole,
            InsideGdb, InsideIrq, world, simulator
<1>1. CASE GdbAccept
  BY <1>1 DEF GdbAccept, GdbStep, processor, irqLocals, irqLinks
<1>2. CASE Receive
  BY <1>2 DEF Receive, GdbStep, processor, irqLocals, irqLinks
<1>3. CASE EndOfFile
  BY <1>3 DEF EndOfFile, GdbStep, processor, irqLocals, irqLinks
<1>4. CASE ReadError
  BY <1>4 DEF ReadError, End, processor, gdbLocals, irqLocals
<1>5. CASE Ack
  BY <1>5 DEF Ack, GdbStep, processor, irqLocals, irqLinks
<1>6. CASE SendEmpty
  BY <1>6 DEF SendEmpty, GdbStep, processor, irqLocals, irqLinks
<1>7. CASE GdbLock
  BY <1>7 DEF GdbLock, GdbStep, processor, irqLocals, irqLinks
<1>8. CASE GdbUnlock
  BY <1>8 DEF GdbUnlock, GdbStep, processor, irqLocals, irqLinks
<1>9. CASE SendAnswer
  BY <1>9 DEF SendAnswer, GdbStep, processor, irqLocals, irqLinks
<1>10. CASE WriteError
  BY <1>10 DEF WriteError, End, processor, gdbLocals, irqLocals
<1>11. CASE StartRun
  BY <1>11 DEF StartRun, Handler, GdbStep, processor, irqLocals, irqLinks
<1>12. CASE Execute("execute")
  BY <1>12 DEF Execute, Handler, GdbStep, processor, irqLocals, irqLinks
<1>13. CASE Execute("continue")
  BY <1>13 DEF Execute, Handler, GdbStep, processor, irqLocals, irqLinks
<1>14. CASE CheckStop
  BY <1>14 DEF CheckStop, Handler, GdbStep, processor, irqLocals, irqLinks
<1>15. CASE StopReason
  BY <1>15 DEF StopReason, Handler, GdbStep, processor, irqLocals, irqLinks
<1>16. CASE ReadPC
  BY <1>16 DEF ReadPC, Handler, GdbStep, processor, irqLocals, irqLinks
<1>17. CASE ReadCpsr
  BY <1>17 DEF ReadCpsr, Handler, GdbStep, processor, irqLocals, irqLinks
<1>18. CASE WritePC
  BY <1>18, <1>c DEF WritePC, Handler, GdbStep, processor, irqLocals,
     irqLinks, Core
<1>19. CASE WriteCpsr
  BY <1>19, <1>c DEF WriteCpsr, Handler, GdbStep, processor, irqLocals,
     irqLinks, Core
<1>20. CASE WriteSingleRegister
  BY <1>20, <1>c DEF WriteSingleRegister, Handler, GdbStep, processor,
     irqLocals, irqLinks, Core
<1>21. CASE BadRegister
  BY <1>21 DEF BadRegister, End, processor, gdbLocals, irqLocals
<1>22. CASE SetBreakpoint
  BY <1>22 DEF SetBreakpoint, Handler, GdbStep, processor, irqLocals,
     irqLinks
<1>23. CASE RemoveBreakpoint
  BY <1>23 DEF RemoveBreakpoint, Handler, GdbStep, processor, irqLocals,
     irqLinks
<1>24. CASE KillRequest
  BY <1>24 DEF KillRequest, Handler, GdbStep, processor, irqLocals,
     irqLinks
<1>25. CASE CloseSession
  BY <1>25 DEF CloseSession, GdbStep, processor, irqLocals, irqLinks
<1>26. CASE IrqAccept
  BY <1>26 DEF IrqAccept, IrqStep, gdbLocals
<1>27. CASE AcceptError
  BY <1>27 DEF AcceptError, End, processor, gdbLocals, irqLocals
<1>28. CASE IrqRead
  BY <1>28 DEF IrqRead, IrqStep, gdbLocals
<1>29. CASE IrqEnd
  BY <1>29 DEF IrqEnd, IrqStep, gdbLocals
<1>30. CASE IrqReadError
  BY <1>30 DEF IrqReadError, End, processor, gdbLocals, irqLocals
<1>31. CASE IrqLock
  BY <1>31 DEF IrqLock, IrqStep, gdbLocals
<1>32. CASE ResetStatus
  BY <1>32, <1>c DEF ResetStatus, IrqStep, gdbLocals, Core
<1>33. CASE ResetPC
  BY <1>33, <1>c DEF ResetPC, IrqStep, gdbLocals, Core, ResetCore
<1>34. CASE IgnoreIrq
  BY <1>34 DEF IgnoreIrq, IrqStep, gdbLocals
<1>35. CASE IrqUnlock
  BY <1>35 DEF IrqUnlock, IrqStep, gdbLocals
<1>36. CASE UseAfterFree
  BY <1>36 DEF UseAfterFree, End, processor, gdbLocals, irqLocals
<1>37. CASE Join
  BY <1>37 DEF Join, MainStep, processor, gdbLocals, gdbLink, irqLocals
<1>38. CASE DestroyRegisters
  BY <1>38 DEF DestroyRegisters, MainStep, processor, gdbLocals, gdbLink,
     irqLocals
<1>39. CASE DestroyMemory
  BY <1>39 DEF DestroyMemory, MainStep, processor, gdbLocals, gdbLink,
     irqLocals
<1>40. CASE Clients
  BY <1>40
     DEF Clients, GdbConnect, GdbSend, GdbLeave, IrqConnect, IrqSend, IrqLeave,
         processor, gdbLocals, irqLocals
<1>41. CASE UNCHANGED vars
  BY <1>41 DEF vars
<1>42. CASE GdbThread
  BY <1>42, <1>1, <1>2, <1>3, <1>4, <1>5, <1>6, <1>7, <1>8, <1>9, <1>10,
     <1>11, <1>12, <1>13, <1>14, <1>15, <1>16, <1>17, <1>18, <1>19, <1>20,
     <1>21, <1>22, <1>23, <1>24, <1>25
     DEF GdbThread, GdbElsewhere, UseTable
<1>43. CASE IrqThread
  BY <1>43, <1>26, <1>27, <1>28, <1>29, <1>30, <1>31, <1>32, <1>33, <1>34,
     <1>35, <1>36 DEF IrqThread
<1>44. CASE MainThread
  BY <1>44, <1>37, <1>38, <1>39 DEF MainThread
<1> QED
  BY <1>40, <1>41, <1>42, <1>43, <1>44 DEF Next, Ended

\* The inductive invariant holds in every reachable state.
LEMMA Inductive == Spec => []IndInv
<1>1. IndInv /\ [Next]_vars => IndInv'
  BY TypeStep, SafeStep DEF IndInv
<1> QED BY InitIndInv, <1>1, PTL DEF Spec

\* Every variable keeps its type and every count its bound, for any guest
\* program, any packets and any limits (arm_simulator.c, gdb_protocol.c).
THEOREM TypeCorrect == Spec => []TypeOK
<1>1. IndInv => TypeOK
  BY DEF IndInv
<1> QED BY <1>1, Inductive, PTL

\* The mutex keeps packet handlers and interrupts apart
\* (gdb_protocol.c:497-501, arm_simulator.c:100-104).
THEOREM ExclusionCorrect == Spec => []Exclusion
<1>1. IndInv => Exclusion
  BY DEF IndInv, Safe
<1> QED BY <1>1, Inductive, PTL

\* The registers gdb is told are those of one instant, and cont reports a
\* stop only at a breakpoint or on an exception (gdb_protocol.c:185-256).
THEOREM AnswerCorrect == Spec => []AnswerTrue
<1>1. IndInv => AnswerTrue
  BY DEF IndInv, Safe
<1> QED BY <1>1, Inductive, PTL

\* What a handler has read or written stays so until its next step, since the
\* interrupts wait (gdb_protocol.c:497-501, arm_simulator.c:100-104).
THEOREM HandlersCorrect == Spec => []HandlerInv
<1>1. IndInv => HandlerInv
  BY DEF IndInv, Safe
<1> QED BY <1>1, Inductive, PTL

\* A RESET and a G leave the whole of what they write behind
\* (arm_exception.c:58-61, gdb_protocol.c:322-350).
THEOREM WritesCorrect == Spec => []WritesWhole
<1>1. IndInv => WritesWhole
  BY DEF IndInv, Safe
<1> QED BY <1>1, Inductive, PTL

\* What the end of the process relies on: main frees the processor after the
\* gdb thread has ended, which reads until the client has left
\* (gdb_protocol.c:476-506, arm_simulator.c:209-212).
SessionOver ==
  /\ main # "join" => gdb = "done"
  /\ gdb \in {"shutdown", "done"} => client = "closed" /\ stream = <<>>

\* Nothing but stuttering happens once the process has ended.
LEMMA EndedStays == ASSUME ~Running, [Next]_vars PROVE UNCHANGED vars
BY DEF Next, GdbThread, GdbElsewhere, UseTable, GdbAccept, Receive, EndOfFile,
       ReadError, Ack, SendEmpty, GdbLock, GdbUnlock, SendAnswer, WriteError,
       StartRun, Execute, CheckStop, StopReason, ReadPC, ReadCpsr, WritePC,
       WriteCpsr, WriteSingleRegister, BadRegister, SetBreakpoint,
       RemoveBreakpoint, KillRequest, CloseSession, Handler, GdbStep,
       IrqThread, IrqAccept, AcceptError, IrqRead, IrqEnd, IrqReadError,
       IrqLock, ResetStatus, ResetPC, IgnoreIrq, IrqUnlock, UseAfterFree,
       IrqStep, MainThread, Join, DestroyRegisters, DestroyMemory, MainStep,
       Clients, GdbConnect, GdbSend, GdbLeave, IrqConnect, IrqSend, IrqLeave,
       Ended, Running

\* main goes on when the gdb thread has ended, and that one ends when the
\* connection has nothing left to read.
LEMMA SessionOverStep ==
  ASSUME SessionOver, [Next]_vars
  PROVE  SessionOver'
<1> USE DEF SessionOver, world, gdbLink, gdbLocals
<1>1. CASE GdbThread
  BY <1>1
     DEF GdbThread, GdbElsewhere, UseTable, GdbAccept, Receive, EndOfFile,
         ReadError, Ack, SendEmpty, GdbLock, GdbUnlock, SendAnswer,
         WriteError, StartRun, Execute, CheckStop, StopReason, ReadPC,
         ReadCpsr, WritePC, WriteCpsr, WriteSingleRegister, BadRegister,
         SetBreakpoint, RemoveBreakpoint, KillRequest, CloseSession, Handler,
         GdbStep, End
<1>2. CASE IrqThread
  BY <1>2
     DEF IrqThread, IrqAccept, AcceptError, IrqRead, IrqEnd, IrqReadError,
         IrqLock, ResetStatus, ResetPC, IgnoreIrq, IrqUnlock, UseAfterFree,
         IrqStep, End
<1>3. CASE MainThread
  BY <1>3 DEF MainThread, Join, DestroyRegisters, DestroyMemory, MainStep
<1>4. CASE Clients
  BY <1>4
     DEF Clients, GdbConnect, GdbSend, GdbLeave, IrqConnect, IrqSend,
         IrqLeave, simulator
<1>5. CASE UNCHANGED vars
  BY <1>5 DEF vars
<1> QED BY <1>1, <1>2, <1>3, <1>4, <1>5 DEF Next, Ended

\* Each way the process ends is one of those the property names.
LEMMA SessionStep ==
  ASSUME TypeOK, Safe, SessionOver, SessionOutlived, [Next]_vars
  PROVE  SessionOutlived'
<1>a. /\ AcceptError =>
           accepted + 1 \in Client /\ accepted + 1 > MaxDescriptors
      /\ IrqReadError => accepted \in Client
  <2>1. accepted \in Nat /\ (irq # "accept" => accepted \in 1 .. MaxClients)
    BY BoundAssumption DEF TypeOK, IrqType
  <2>2. AcceptError => accepted < MaxClients /\ accepted >= MaxDescriptors
    BY DEF AcceptError
  <2>3. accepted < MaxClients /\ accepted >= MaxDescriptors =>
          accepted + 1 \in Client /\ accepted + 1 > MaxDescriptors
    BY <2>1, BoundAssumption DEF Client
  <2>4. IrqReadError => accepted \in Client
    BY <2>1 DEF IrqReadError, Client
  <2> QED BY <2>2, <2>3, <2>4
<1>1. CASE ~Running
  BY <1>1, EndedStays DEF SessionOutlived, Running, vars
<1>2. CASE Running /\ process' # "running"
  <2> USE <1>2 DEF SessionOutlived, Running
  <2>1. CASE ReadError \/ WriteError \/ BadRegister
    BY <2>1 DEF ReadError, WriteError, BadRegister, End, gdbLink, gdbLocals
  <2>2. CASE AcceptError
    BY <2>2, <1>a DEF AcceptError, End, irqLinks
  <2>3. CASE IrqReadError
    BY <2>3, <1>a DEF IrqReadError, End, irqLinks
  <2>4. CASE UseAfterFree
    BY <2>4
       DEF UseAfterFree, End, gdbLink, SessionOver, Safe, Exclusion, InsideIrq
  <2>5. CASE DestroyMemory
    BY <2>5 DEF DestroyMemory, MainStep, gdbLink, SessionOver
  <2> QED
    BY <2>1, <2>2, <2>3, <2>4, <2>5
       DEF Next, vars, GdbThread, GdbElsewhere, UseTable, GdbAccept, Receive,
           EndOfFile, Ack, SendEmpty, GdbLock, GdbUnlock, SendAnswer,
           StartRun, Execute, CheckStop, StopReason, ReadPC, ReadCpsr,
           WritePC, WriteCpsr, WriteSingleRegister, SetBreakpoint,
           RemoveBreakpoint, KillRequest, CloseSession, Handler, world,
           IrqThread, IrqAccept, IrqRead, IrqEnd, IrqLock, ResetStatus,
           ResetPC, IgnoreIrq, IrqUnlock, IrqStep, MainThread, Join,
           DestroyRegisters, MainStep, Clients, GdbConnect, GdbSend,
           GdbLeave, IrqConnect, IrqSend, IrqLeave, simulator, Ended
<1>3. CASE Running /\ process' = "running"
  BY <1>3 DEF SessionOutlived, Running
<1> QED BY <1>1, <1>2, <1>3

\* The process outlives the session but for the ends the code gives it, and
\* what main frees is met by an interrupt only after the session
\* (arm_simulator.c:96-104, 209-213, gdb_protocol.c:207, 313).
THEOREM SessionCorrect == Spec => []SessionOutlived
<1>1. Init => SessionOver /\ SessionOutlived
  BY DEF Init, SessionOver, SessionOutlived, Running
<1>2. IndInv /\ SessionOver /\ SessionOutlived /\ [Next]_vars
        => (SessionOver /\ SessionOutlived)'
  BY SessionOverStep, SessionStep DEF IndInv
<1> QED BY <1>1, <1>2, Inductive, PTL DEF Spec

\* cont never executes an instruction at a breakpoint after its first one,
\* whatever interrupts arrive meanwhile (gdb_protocol.c:185-201).
THEOREM StopsCorrect == Spec => StopsAtBreakpoint
<1>1. IndInv => (gdb = "continue" /\ gdb' # "continue"
                   => core.PC \notin breakpoints)
  BY DEF IndInv, Safe, HandlerInv
<1>2. IndInv => [gdb = "continue" /\ gdb' # "continue"
                   => core.PC \notin breakpoints]_vars
  BY <1>1
<1> QED BY <1>2, Inductive, PTL DEF StopsAtBreakpoint
-----------------------------------------------------------------------------
(***************************************************************************)
(* The table behind its interface: calls that take time, between which the *)
(* interrupt thread runs.                                                  *)
(***************************************************************************)

\* A call under way is one of the handler that is inside, for the address the
\* step of Simulator would use now.
Meant ==
  \/ pending = Table!NoCall
  \/ /\ gdb = "check" /\ packet.op = "c"
     /\ pending = [op |-> "find", address |-> core.PC]
  \/ /\ gdb = "handle" /\ packet.op = "Z"
     /\ pending = [op |-> "add", address |-> packet.PC]
  \/ /\ gdb = "handle" /\ packet.op = "z"
     /\ pending = [op |-> "remove", address |-> packet.PC]

\* While a call is under way its handler does nothing else.
LEMMA HandlerWaits ==
  ASSUME Meant, GdbElsewhere
  PROVE  pending = Table!NoCall
  BY DEF Meant, GdbElsewhere, GdbAccept, Receive, EndOfFile, ReadError, Ack,
         SendEmpty, GdbLock, GdbUnlock, SendAnswer, WriteError, StartRun,
         Execute, StopReason, ReadPC, ReadCpsr, WritePC, WriteCpsr,
         WriteSingleRegister, BadRegister, KillRequest, CloseSession,
         Handler, GdbStep

\* While a call is under way no interrupt changes the program counter
\* (gdb_protocol.c:497-501, arm_simulator.c:100-104).
LEMMA InterruptsWait ==
  ASSUME Exclusion, Meant, IrqThread \/ MainThread \/ Clients \/ Ended
  PROVE  /\ gdb' = gdb /\ packet' = packet
         /\ pending = Table!NoCall \/ core' = core
<1>1. CASE MainThread \/ Clients \/ Ended
  BY <1>1
     DEF MainThread, Join, DestroyRegisters, DestroyMemory, MainStep, Clients,
         GdbConnect, GdbSend, GdbLeave, IrqConnect, IrqSend, IrqLeave, Ended,
         vars, simulator, processor, gdbLocals
<1>2. CASE ResetStatus \/ ResetPC
  BY <1>2 DEF ResetStatus, ResetPC, IrqStep, Exclusion, Meant, InsideGdb,
              InsideIrq, gdbLocals
<1>3. CASE IrqThread /\ ~(ResetStatus \/ ResetPC)
  BY <1>3
     DEF IrqThread, IrqAccept, AcceptError, IrqRead, IrqEnd, IrqReadError,
         IrqLock, IgnoreIrq, IrqUnlock, UseAfterFree, IrqStep, End, processor,
         gdbLocals
<1> QED BY <1>1, <1>2, <1>3

\* The cardinality of the instance is that of the standard module.
LEMMA SameCardinality == \A S : Table!Cardinality(S) = Cardinality(S)
  BY DEF Table!Cardinality, Cardinality

\* The answer is that of one step of Simulator, taken when the call returns
\* (gdb_protocol.c:185-201, 389-421).
LEMMA CallsStep ==
  ASSUME Exclusion, Meant, [CallsNext]_<<vars, calls>>
  PROVE  [Next]_vars /\ Meant'
<1>1. CASE UNCHANGED <<vars, calls>>
  BY <1>1 DEF vars, calls, Meant
<1>2. CASE GdbElsewhere /\ UNCHANGED calls
  BY <1>2, HandlerWaits DEF Next, GdbThread, calls, Meant
<1>3. CASE (IrqThread \/ MainThread \/ Clients \/ Ended) /\ UNCHANGED calls
  BY <1>3, InterruptsWait DEF Next, calls, Meant
<1>4. CASE CallTable
  BY <1>4
     DEF CallTable, Call, Table!Call, world, vars, gdbLocals, gdbLink,
         irqLocals, irqLinks, Meant
<1>5. CASE StopAnswer
  <2>1. pending.address = core.PC
    BY <1>5 DEF StopAnswer, Table!Find, Table!Answer, Meant, Table!NoCall
  <2>2. CheckStop
    BY <1>5, <2>1 DEF StopAnswer, Table!Find, CheckStop, processor
  <2>3. pending' = Table!NoCall
    BY <1>5 DEF StopAnswer, Table!Find, Table!Answer
  <2> QED BY <2>2, <2>3 DEF Next, GdbThread, UseTable, Meant
<1>6. CASE SetAnswer
  <2>1. pending.address = packet.PC
    BY <1>6 DEF SetAnswer, Table!Add, Table!Answer, Meant, Table!NoCall
  <2>2. SetBreakpoint
    BY <1>6, <2>1, SameCardinality DEF SetAnswer, Table!Add, SetBreakpoint
  <2>3. pending' = Table!NoCall
    BY <1>6 DEF SetAnswer, Table!Add, Table!Answer
  <2> QED BY <2>2, <2>3 DEF Next, GdbThread, UseTable, Meant
<1>7. CASE RemoveAnswer
  <2>1. pending.address = packet.PC
    BY <1>7 DEF RemoveAnswer, Table!Remove, Table!Answer, Meant, Table!NoCall
  <2>2. RemoveBreakpoint
    BY <1>7, <2>1 DEF RemoveAnswer, Table!Remove, RemoveBreakpoint
  <2>3. pending' = Table!NoCall
    BY <1>7 DEF RemoveAnswer, Table!Remove, Table!Answer
  <2> QED BY <2>2, <2>3 DEF Next, GdbThread, UseTable, Meant
<1> QED
  BY <1>1, <1>2, <1>3, <1>4, <1>5, <1>6, <1>7 DEF CallsNext, GdbCalls, Elsewhere

\* The simulator whose handlers call the table, with anything an interrupt
\* may do between a call and its answer, implements Simulator, so that what is
\* proved of that one holds of this one: the decision of cont is that of the
\* program counter it stops at (gdb_protocol.c:185-201, 389-421).
THEOREM CallsCorrect == CallsSpec => ImplementsSimulator
<1>1. CallsInit => Init /\ IndInv /\ Meant
  BY InitIndInv DEF CallsInit, Table!Init, Meant
<1>2. IndInv /\ Meant /\ [CallsNext]_<<vars, calls>>
        => IndInv' /\ Meant' /\ [Next]_vars
  BY CallsStep, TypeStep, SafeStep DEF IndInv, Safe
<1> QED BY <1>1, <1>2, PTL DEF CallsSpec, ImplementsSimulator, Spec
=============================================================================
