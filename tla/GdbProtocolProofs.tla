------------------------- MODULE GdbProtocolProofs -------------------------
(***************************************************************************)
(* Proofs about gdb_protocol.c: the breakpoint table, for any set of       *)
(* addresses and any size, and the packets of a session, for any requests  *)
(* and any number of faults.                                               *)
(***************************************************************************)
EXTENDS BreakpointTable, GdbSession, SequenceTheorems, FiniteSetTheorems, TLAPS

(***************************************************************************)
(* The breakpoint table: IndInv is inductive, the search stays within the  *)
(* used slots, and the table implements a set.                             *)
(***************************************************************************)
\* TableTypeOK is not inductive alone: the count is increased
\* (gdb_protocol.c:82) on the word of a test made before the search.
IndInv == TableTypeOK /\ TableInv

\* The middle of a non-empty window lies in the window (gdb_protocol.c:64).
LEMMA MiddleInWindow ==
  ASSUME NEW b \in Nat, NEW e \in Nat, b < e
  PROVE  (b + e) \div 2 \in b .. e - 1
OBVIOUS

\* An empty table satisfies the invariant (gdb_protocol.c:439).
LEMMA InitIndInv == TableInit => IndInv
<1> SUFFICES ASSUME TableInit PROVE IndInv
  OBVIOUS
<1> USE MaxAssumption, AddressAssumption
<1>1. TableTypeOK
  BY DEF TableInit, TableTypeOK, Slot, Operation
<1>2. TableInv
  BY DEF TableInit, TableInv, Ordered, WindowHoldsAddress, InsertionPoint,
         DeletionPoint, FullMeansFull, Used, Top, Moving
<1> QED BY <1>1, <1>2 DEF IndInv

\* Every step of the three functions, and every call of one, preserves the
\* invariant (gdb_protocol.c:60-106).
LEMMA NextIndInv == IndInv /\ [TableNext]_tableVars => IndInv'
<1> SUFFICES ASSUME IndInv, [TableNext]_tableVars PROVE IndInv'
  OBVIOUS
<1> USE MaxAssumption, AddressAssumption DEF IndInv, table, window
<1>w. pc = "search" /\ begin < end => Middle \in begin .. end - 1
  BY MiddleInWindow DEF TableTypeOK, Middle
<1>t. /\ \A i \in Slot : breakpoints[i] \in Int
      /\ address \in Int
      /\ \A i \in Used : i \in Slot
  <2>1. \A a \in Address : a \in Int
    OBVIOUS
  <2>2. \A i \in Slot : breakpoints[i] \in Int
    BY <2>1 DEF TableTypeOK
  <2>3. address \in Int
    <3>1. CASE pc = "idle"
      BY <3>1 DEF TableTypeOK
    <3>2. CASE pc # "idle"
      BY <3>2, <2>1 DEF TableTypeOK
    <3> QED BY <3>1, <3>2
  <2>4. \A i \in Used : i \in Slot
    BY DEF TableTypeOK, TableInv, DeletionPoint, Slot, Used, Top, Moving
  <2> QED BY <2>2, <2>3, <2>4
<1>o. \A i, k \in Used : i < k => breakpoints[i] < breakpoints[k]
  BY DEF TableInv, Ordered
<1>1. ASSUME NEW name \in Operation, NEW a \in Address, Call(name, a)
      PROVE  IndInv'
  <2>1. TableTypeOK'
    BY <1>1 DEF Call, TableTypeOK, Operation
  <2>2. TableInv'
    BY <1>1 DEF Call, TableTypeOK, TableInv, Ordered, WindowHoldsAddress,
         InsertionPoint, DeletionPoint, FullMeansFull, Used, Top, Moving
  <2> QED BY <2>1, <2>2
<1>2. CASE RefuseFull
  BY <1>2 DEF RefuseFull, Return, TableTypeOK, TableInv, Ordered,
       WindowHoldsAddress, InsertionPoint, DeletionPoint, FullMeansFull,
       Used, Top, Moving
<1>3. CASE SearchLeft
  <2> USE <1>3, <1>w
  <2>1. TableTypeOK'
    BY DEF SearchLeft, TableTypeOK
  <2>2. UNCHANGED Used
    BY DEF SearchLeft, Used, Top, Moving
  <2>3. Ordered'
    BY <2>2 DEF SearchLeft, TableInv, Ordered
  <2>4. WindowHoldsAddress'
    <3>1. Middle \in Used /\ end <= breakpoints_number
      BY DEF SearchLeft, TableTypeOK, TableInv, WindowHoldsAddress, Used, Top,
             Moving
    <3>2. \A i \in Used : i >= Middle => breakpoints[i] >= breakpoints[Middle]
      <4> TAKE i \in Used
      <4> HAVE i >= Middle
      <4>1. i \in Int /\ Middle \in Int
        BY <3>1, <1>t DEF Slot
      <4>2. i = Middle \/ Middle < i
        BY <4>1
      <4> QED BY <3>1, <4>2, <1>t, <1>o
    <3>3. \A i \in Used : i >= Middle => breakpoints[i] > address
      BY <3>1, <3>2, <1>t DEF SearchLeft
    <3>4. Used = 0 .. breakpoints_number - 1
      BY DEF SearchLeft, Used, Top, Moving
    <3> QED
      BY <3>1, <3>3, <3>4 DEF SearchLeft, TableTypeOK, TableInv,
             WindowHoldsAddress
  <2>5. (InsertionPoint /\ DeletionPoint /\ FullMeansFull)'
    BY DEF SearchLeft, InsertionPoint, DeletionPoint, FullMeansFull
  <2> QED BY <2>1, <2>3, <2>4, <2>5 DEF TableInv
<1>4. CASE SearchRight
  <2> USE <1>4, <1>w
  <2>1. TableTypeOK'
    BY DEF SearchRight, TableTypeOK
  <2>2. UNCHANGED Used
    BY DEF SearchRight, Used, Top, Moving
  <2>3. Ordered'
    BY <2>2 DEF SearchRight, TableInv, Ordered
  <2>4. WindowHoldsAddress'
    <3>1. Middle \in Used /\ end <= breakpoints_number
      BY DEF SearchRight, TableTypeOK, TableInv, WindowHoldsAddress, Used, Top,
             Moving
    <3>2. \A i \in Used : i <= Middle => breakpoints[i] <= breakpoints[Middle]
      <4> TAKE i \in Used
      <4> HAVE i <= Middle
      <4>1. i \in Int /\ Middle \in Int
        BY <3>1, <1>t DEF Slot
      <4>2. i = Middle \/ i < Middle
        BY <4>1
      <4> QED BY <3>1, <4>2, <1>t, <1>o
    <3>3. \A i \in Used : i <= Middle => breakpoints[i] < address
      BY <3>1, <3>2, <1>t DEF SearchRight
    <3>4. Used = 0 .. breakpoints_number - 1
      BY DEF SearchRight, Used, Top, Moving
    <3> QED
      BY <3>1, <3>3, <3>4 DEF SearchRight, TableTypeOK, TableInv,
             WindowHoldsAddress
  <2>5. (InsertionPoint /\ DeletionPoint /\ FullMeansFull)'
    BY DEF SearchRight, InsertionPoint, DeletionPoint, FullMeansFull
  <2> QED BY <2>1, <2>3, <2>4, <2>5 DEF TableInv
<1>5. CASE Found
  <2> USE <1>5, <1>w
  <2>1. TableTypeOK'
    BY DEF Found, Return, TableTypeOK, TableInv, WindowHoldsAddress
  <2>2. CASE op = "remove"
    <3>1. Middle \in Used /\ breakpoints[Middle] = address
      BY DEF Found, TableTypeOK, TableInv, WindowHoldsAddress, Used, Top, Moving
    <3>2. Used' = Used \ {Middle}
      BY <2>2 DEF Found, TableTypeOK, Used, Top, Moving
    <3>3. Ordered'
      BY <2>2, <3>2 DEF Found, TableInv, Ordered
    <3>4. \A i \in Used' : breakpoints[i] # address
      <4> TAKE i \in Used'
      <4>1. UNCHANGED breakpoints /\ i \in Used /\ i # Middle
        BY <2>2, <3>2 DEF Found
      <4>2. i < Middle \/ Middle < i
        BY <4>1, <3>1, <1>t DEF Slot
      <4> QED BY <4>1, <4>2, <3>1, <1>t, <1>o
    <3>5. DeletionPoint'
      BY <2>2, <3>4 DEF Found, TableTypeOK, TableInv, WindowHoldsAddress,
             DeletionPoint
    <3> QED
      BY <2>1, <2>2, <3>3, <3>5 DEF Found, TableInv, WindowHoldsAddress,
             InsertionPoint, FullMeansFull
  <2>3. CASE op # "remove"
    BY <2>1, <2>3 DEF Found, Return, TableInv, Ordered, WindowHoldsAddress,
         InsertionPoint, DeletionPoint, FullMeansFull, Used, Top, Moving
  <2> QED BY <2>2, <2>3
<1>6. CASE NotFound
  <2> USE <1>6
  <2>1. TableTypeOK'
    BY DEF NotFound, Return, TableTypeOK, TableInv, WindowHoldsAddress
  <2>2. CASE op = "add"
    <3>1. Used' = Used
      BY <2>2 DEF NotFound, TableTypeOK, Used, Top, Moving
    <3>2. \A i \in Used : breakpoints[i] # address
      <4>1. Used = 0 .. breakpoints_number - 1
        BY DEF NotFound, Used, Top, Moving
      <4>2. \A i \in Used : i < begin \/ i >= end
        BY <4>1 DEF NotFound, TableTypeOK
      <4> QED BY <4>1, <4>2, <1>t DEF NotFound, TableInv, WindowHoldsAddress
    <3>3. Ordered'
      BY <2>2, <3>1 DEF NotFound, TableInv, Ordered
    <3>4. InsertionPoint'
      BY <2>2, <3>1, <3>2 DEF NotFound, TableTypeOK, InsertionPoint, Used, Top,
             Moving
    <3> QED
      BY <2>1, <2>2, <3>3, <3>4 DEF NotFound, TableInv, WindowHoldsAddress,
             DeletionPoint, FullMeansFull
  <2>3. CASE op # "add"
    BY <2>1, <2>3 DEF NotFound, Return, TableInv, Ordered,
         WindowHoldsAddress, InsertionPoint, DeletionPoint, FullMeansFull,
         Used, Top, Moving
  <2> QED BY <2>2, <2>3
<1>7. CASE MoveUp
  <2> USE <1>7
  <2>1. /\ j \in 1 .. breakpoints_number - 1
        /\ j \in Slot /\ j - 1 \in Slot /\ j - 1 \in Used
    BY DEF MoveUp, TableTypeOK, TableInv, InsertionPoint, Slot, Used, Top, Moving
  <2>2. TableTypeOK'
    BY <2>1 DEF MoveUp, TableTypeOK
  <2>3. Used' = (Used \ {j - 1}) \union {j}
    BY <2>1 DEF MoveUp, TableTypeOK, Used, Top, Moving
  <2>4. /\ breakpoints'[j] = breakpoints[j - 1]
        /\ \A i \in Used : breakpoints'[i] = breakpoints[i]
    BY <2>1 DEF MoveUp, TableTypeOK, Slot, Used, Top, Moving
  <2>5. Ordered'
    <3> SUFFICES ASSUME NEW i \in Used', NEW k \in Used', i < k
                 PROVE  breakpoints'[i] < breakpoints'[k]
      BY DEF Ordered
    <3>1. i \in Int /\ k \in Int /\ i # j - 1 /\ k # j - 1
      BY <2>1, <2>3, <1>t DEF Slot
    <3>2. i = j => k \in Used /\ j - 1 < k
      BY <2>1, <2>3, <3>1
    <3>3. k = j => i \in Used /\ i < j - 1
      BY <2>1, <2>3, <3>1
    <3>4. i # j /\ k # j => i \in Used /\ k \in Used
      BY <2>3
    <3> QED BY <2>1, <2>4, <3>2, <3>3, <3>4, <1>o
  <2>6. InsertionPoint'
    BY <2>1, <2>3, <2>4 DEF MoveUp, TableTypeOK, TableInv, InsertionPoint, Slot,
         Used, Top, Moving
  <2> QED
    BY <2>2, <2>5, <2>6 DEF MoveUp, TableInv, WindowHoldsAddress,
         DeletionPoint, FullMeansFull
<1>8. CASE Place
  <2> USE <1>8
  <2>1. j \in Used' /\ j \in Slot /\ Used' = Used \union {j}
    BY DEF Place, Return, TableTypeOK, TableInv, InsertionPoint, Slot, Used, Top,
           Moving
  <2>2. TableTypeOK'
    BY <2>1 DEF Place, Return, TableTypeOK
  <2>3. /\ breakpoints'[j] = address
        /\ \A i \in Used : breakpoints'[i] = breakpoints[i]
    BY <2>1 DEF Place, TableTypeOK, Slot, Used, Top, Moving
  <2>4. \A i \in Used : i < j => breakpoints[i] < address
    <3>1. j > 0 => j - 1 \in Used /\ breakpoints[j - 1] < address
      <4> HAVE j > 0
      <4>1. j - 1 \in Used
        BY <2>1 DEF Place, TableTypeOK, TableInv, InsertionPoint, Slot, Used, Top,
               Moving
      <4> QED BY <4>1, <1>t DEF Place, TableInv, InsertionPoint
    <3> TAKE i \in Used
    <3> HAVE i < j
    <3>2. i \in Nat /\ j \in Nat
      BY <2>1, <1>t DEF Slot
    <3>3. j - 1 \in Used /\ breakpoints[j - 1] < address
      BY <3>1, <3>2
    <3>4. i = j - 1 \/ i < j - 1
      BY <3>2
    <3> QED BY <3>3, <3>4, <1>t, <1>o
  <2>5. \A i \in Used : i > j => breakpoints[i] > address
    BY DEF Place, TableInv, InsertionPoint
  <2>6. Ordered'
    BY <2>1, <2>3, <2>4, <2>5 DEF TableTypeOK, TableInv, Ordered, Slot, Used, Top,
         Moving
  <2> QED
    BY <2>2, <2>6 DEF Place, Return, TableInv, WindowHoldsAddress,
         InsertionPoint, DeletionPoint, FullMeansFull
<1>9. CASE MoveDown
  <2> USE <1>9
  <2>1. /\ j \in 0 .. breakpoints_number - 1
        /\ j \in Slot /\ j + 1 \in Slot /\ j + 1 \in Used
    BY DEF MoveDown, TableTypeOK, TableInv, DeletionPoint, Slot, Used, Top, Moving
  <2>2. TableTypeOK'
    BY <2>1 DEF MoveDown, TableTypeOK
  <2>3. Used' = (Used \ {j + 1}) \union {j}
    BY <2>1 DEF MoveDown, TableTypeOK, Used, Top, Moving
  <2>4. /\ breakpoints'[j] = breakpoints[j + 1]
        /\ \A i \in Used : breakpoints'[i] = breakpoints[i]
    BY <2>1 DEF MoveDown, TableTypeOK, Slot, Used, Top, Moving
  <2>5. Ordered'
    <3> SUFFICES ASSUME NEW i \in Used', NEW k \in Used', i < k
                 PROVE  breakpoints'[i] < breakpoints'[k]
      BY DEF Ordered
    <3>1. i \in Int /\ k \in Int /\ i # j + 1 /\ k # j + 1
      BY <2>1, <2>3, <1>t DEF Slot
    <3>2. i = j => k \in Used /\ j + 1 < k
      BY <2>1, <2>3, <3>1
    <3>3. k = j => i \in Used /\ i < j + 1
      BY <2>1, <2>3, <3>1
    <3>4. i # j /\ k # j => i \in Used /\ k \in Used
      BY <2>3
    <3> QED BY <2>1, <2>4, <3>2, <3>3, <3>4, <1>o
  <2>6. DeletionPoint'
    BY <2>1, <2>3, <2>4 DEF MoveDown, TableTypeOK, TableInv, DeletionPoint
  <2> QED
    BY <2>2, <2>5, <2>6 DEF MoveDown, TableInv, WindowHoldsAddress,
         InsertionPoint, FullMeansFull
<1>10. CASE Removed
  BY <1>10 DEF Removed, Return, TableTypeOK, TableInv, Ordered,
       WindowHoldsAddress, InsertionPoint, DeletionPoint, FullMeansFull,
       Used, Top, Moving
<1>11. CASE UNCHANGED tableVars
  BY <1>11 DEF tableVars, TableTypeOK, TableInv, Ordered, WindowHoldsAddress,
       InsertionPoint, DeletionPoint, FullMeansFull, Used, Top, Moving
<1> QED
  BY <1>1, <1>2, <1>3, <1>4, <1>5, <1>6, <1>7, <1>8, <1>9, <1>10, <1>11
     DEF TableNext, Work

\* The invariant holds of every behaviour.
LEMMA Invariance == TableSpec => []IndInv
<1>1. TableInit => IndInv
  BY InitIndInv
<1>2. IndInv /\ [TableNext]_tableVars => IndInv'
  BY NextIndInv
<1> QED BY <1>1, <1>2, PTL DEF TableSpec

\* The count never leaves the array and every call has a real argument
\* (gdb_protocol.c:79).
THEOREM TableTypeCorrect == TableSpec => []TableTypeOK
BY Invariance, PTL DEF IndInv

\* The table is strictly ordered between the calls and, its hole excepted,
\* within them (gdb_protocol.c:60-106).
THEOREM TableCorrect == TableSpec => []TableInv
BY Invariance, PTL DEF IndInv

\* gdb_find_breakpoint reads no slot beyond the count (gdb_protocol.c:65).
THEOREM ProbesCorrect == TableSpec => []ProbeInUse
<1>1. IndInv => ProbeInUse
  <2> SUFFICES ASSUME IndInv, pc = "search", begin < end
               PROVE  Middle \in 0 .. breakpoints_number - 1
    BY DEF ProbeInUse
  <2>1. Middle \in begin .. end - 1
    BY MiddleInWindow DEF IndInv, TableTypeOK, Middle
  <2> QED
    BY <2>1, MaxAssumption DEF IndInv, TableTypeOK, TableInv, WindowHoldsAddress
<1> QED BY <1>1, Invariance, PTL
-----------------------------------------------------------------------------
(***************************************************************************)
(* The table implements BreakpointSet.                                     *)
(***************************************************************************)

\* An injective function is one to one between its domain and its image.
LEMMA ImageCardinality ==
  ASSUME NEW S, IsFiniteSet(S), NEW f,
         \A x, y \in S : x # y => f[x] # f[y]
  PROVE  /\ IsFiniteSet({f[x] : x \in S})
         /\ Cardinality({f[x] : x \in S}) = Cardinality(S)
<1> DEFINE T == {f[x] : x \in S}
           g == [x \in S |-> f[x]]
<1>1. g \in Bijection(S, T)
  <2>1. g \in Injection(S, T)
    BY DEF Injection, IsInjective
  <2>2. g \in Surjection(S, T)
    BY DEF Surjection
  <2> QED BY <2>1, <2>2 DEF Bijection
<1>2. ExistsBijection(S, T)
  BY <1>1 DEF ExistsBijection
<1> QED BY <1>2, FS_Bijection

\* Outside a deletion the members are as many as the slots in use: the test
\* of the count in gdb_add_breakpoint (gdb_protocol.c:79) counts members.
LEMMA MembersCount ==
  ASSUME IndInv, pc # "delete"
  PROVE  Cardinality(Members) =
           IF pc = "insert" THEN breakpoints_number - 1
                            ELSE breakpoints_number
<1> USE MaxAssumption, AddressAssumption
<1>1. breakpoints_number \in Nat
  BY DEF IndInv, TableTypeOK
<1>2. IsFiniteSet(0 .. breakpoints_number - 1)
      /\ Cardinality(0 .. breakpoints_number - 1) = breakpoints_number
  BY <1>1, FS_Interval
<1>3. IsFiniteSet(Used) /\ Cardinality(Used) =
        IF pc = "insert" THEN breakpoints_number - 1 ELSE breakpoints_number
  <2>1. CASE pc = "insert"
    <3>1. Used = (0 .. breakpoints_number - 1) \ {j}
      BY <2>1 DEF Used, Top, Moving
    <3>2. j \in 0 .. breakpoints_number - 1
      BY <2>1 DEF IndInv, TableTypeOK, TableInv, InsertionPoint
    <3>3. IsFiniteSet(Used) /\ Cardinality(Used) = breakpoints_number - 1
      BY ONLY <3>1, <3>2, <1>2, FS_RemoveElement
    <3> QED BY <2>1, <3>3
  <2>2. CASE pc # "insert"
    <3>1. Used = 0 .. breakpoints_number - 1
      BY <2>2 DEF Used, Top, Moving
    <3> QED BY <2>2, <3>1, <1>2
  <2> QED BY <2>1, <2>2
<1>4. \A x, y \in Used : x # y => breakpoints[x] # breakpoints[y]
  <2> TAKE x \in Used, y \in Used
  <2> HAVE x # y
  <2>1. x \in Int /\ y \in Int /\ x \in Slot /\ y \in Slot
    BY DEF IndInv, TableTypeOK, TableInv, Slot, Used, Top, Moving
  <2>2. breakpoints[x] \in Address /\ breakpoints[y] \in Address
    BY <2>1 DEF IndInv, TableTypeOK
  <2>3. breakpoints[x] < breakpoints[y] \/ breakpoints[y] < breakpoints[x]
    BY <2>1 DEF IndInv, TableInv, Ordered
  <2>4. \A a \in Address : a \in Int
    OBVIOUS
  <2>5. breakpoints[x] \in Int /\ breakpoints[y] \in Int
    BY <2>2, <2>4
  <2> QED BY <2>3, <2>5
<1>5. Members = {breakpoints[i] : i \in Used}
  BY DEF Members
<1> QED BY <1>3, <1>4, <1>5, ImageCardinality

\* The instance counts as this module does.
LEMMA SameCardinality == \A S : Abstract!Cardinality(S) = Cardinality(S)
BY DEF Abstract!Cardinality, Cardinality

\* An empty table is an empty set (gdb_protocol.c:439).
LEMMA InitRefines == TableInit => Abstract!Init
<1> SUFFICES ASSUME TableInit PROVE Abstract!Init
  OBVIOUS
<1>1. Used = {}
  BY DEF TableInit, Used, Top, Moving
<1>2. Members = {}
  BY <1>1 DEF TableInit, Members
<1> QED BY <1>2 DEF TableInit, Abstract!Init, Abstract!NoCall

\* Each step of the table is a step of the set or leaves the set alone
\* (gdb_protocol.c:60-106).
LEMMA NextRefines ==
  IndInv /\ IndInv' /\ [TableNext]_tableVars => [Abstract!Next]_(Abstract!vars)
<1> SUFFICES ASSUME IndInv, IndInv', [TableNext]_tableVars
             PROVE  Abstract!Next \/ UNCHANGED Abstract!vars
  OBVIOUS
<1> USE MaxAssumption, AddressAssumption DEF table, window
<1>t. /\ pc \in {"idle", "full", "search", "insert", "delete"}
      /\ breakpoints_number \in 0 .. MaxBreakpoints
      /\ j \in 0 .. MaxBreakpoints
  BY DEF IndInv, TableTypeOK
<1>i. pc = "insert" => op = "add" /\ j \in 0 .. breakpoints_number - 1
  BY <1>t DEF IndInv, TableInv, InsertionPoint
<1>d. pc = "delete" => op = "remove" /\ j \in 0 .. breakpoints_number
  BY <1>t DEF IndInv, TableInv, DeletionPoint
<1>1. ASSUME NEW name \in Operation, NEW a \in Address, Call(name, a)
      PROVE  Abstract!Next \/ UNCHANGED Abstract!vars
  <2>1. op = "none" /\ address = 0
    BY <1>1 DEF Call, IndInv, TableTypeOK
  <2>2. UNCHANGED Members
    BY <1>1 DEF Call, Members, Used, Top, Moving
  <2>3. Abstract!Call(name, a)
    BY <1>1, <2>1, <2>2 DEF Call, Abstract!Call, Abstract!NoCall
  <2> QED
    BY <2>3 DEF Abstract!Next, Abstract!Operation, Operation
<1>2. CASE RefuseFull
  <2>1. op = "add" /\ Cardinality(Members) = MaxBreakpoints
    BY <1>2, MembersCount DEF RefuseFull, IndInv, TableInv, FullMeansFull
  <2>2. UNCHANGED Members
    BY <1>2 DEF RefuseFull, Return, Members, Used, Top, Moving
  <2>3. Abstract!Add
    BY <1>2, <2>1, <2>2, SameCardinality
       DEF RefuseFull, Return, Abstract!Add, Abstract!Answer, Abstract!NoCall
  <2> QED BY <2>3 DEF Abstract!Next
<1>3. CASE SearchLeft
  BY <1>3 DEF SearchLeft, Abstract!vars, Members, Used, Top, Moving
<1>4. CASE SearchRight
  BY <1>4 DEF SearchRight, Abstract!vars, Members, Used, Top, Moving
<1>5. CASE Found
  <2>1. /\ op # "none" /\ Middle \in Used /\ address = breakpoints[Middle]
        /\ op = "add" => breakpoints_number < MaxBreakpoints
    <3>1. Middle \in begin .. end - 1
      BY <1>5, MiddleInWindow DEF Found, IndInv, TableTypeOK, Middle
    <3> QED
      BY <1>5, <3>1 DEF Found, IndInv, TableTypeOK, TableInv, WindowHoldsAddress,
           Used, Top, Moving
  <2>2. address \in Members
    BY <2>1 DEF Members
  <2>3. CASE op = "remove"
    <3>1. Used' = Used \ {Middle}
      BY <1>5, <2>3, <1>t DEF Found, Used, Top, Moving
    <3>2. UNCHANGED <<breakpoints, op, address, result>> /\ pc' = "delete"
      BY <1>5, <2>3 DEF Found
    <3>3. Members = {breakpoints[i] : i \in Used}
      BY <1>5 DEF Found, Members
    <3>4. Members' = {breakpoints[i] : i \in Used'} \union {address}
      BY <3>2 DEF Members
    <3>5. UNCHANGED Members
      BY <3>1, <3>3, <3>4, <2>1
    <3> QED BY <3>2, <3>5 DEF Abstract!vars
  <2>4. CASE op # "remove"
    <3>1. UNCHANGED Members
      BY <1>5, <2>4 DEF Found, Return, Members, Used, Top, Moving
    <3>2. CASE op = "find"
      <4>1. Abstract!Find
        BY <1>5, <2>2, <2>4, <3>1, <3>2
           DEF Found, Return, Abstract!Find, Abstract!Answer, Abstract!NoCall
      <4> QED BY <4>1 DEF Abstract!Next
    <3>3. CASE op = "add"
      <4>1. Cardinality(Members) < MaxBreakpoints
        BY <1>5, <2>1, <3>3, MembersCount DEF Found
      <4>2. Members' = Members \union {address}
        BY <2>2, <3>1
      <4>3. Abstract!Add
        BY <1>5, <2>4, <3>3, <4>1, <4>2, SameCardinality
           DEF Found, Return, Abstract!Add, Abstract!Answer, Abstract!NoCall
      <4> QED BY <4>3 DEF Abstract!Next
    <3> QED
      BY <2>1, <2>4, <3>2, <3>3 DEF IndInv, TableTypeOK, Operation
  <2> QED BY <2>3, <2>4
<1>6. CASE NotFound
  <2>1. op # "none" /\ Used = 0 .. breakpoints_number - 1
    BY <1>6 DEF NotFound, IndInv, TableTypeOK, Used, Top, Moving
  <2>2. address \notin Members
    <3>1. \A i \in Used : breakpoints[i] # address
      <4>1. \A i \in Used : i < begin \/ i >= end
        BY <1>6, <2>1 DEF NotFound, IndInv, TableTypeOK
      <4>2. \A i \in Used : breakpoints[i] < address \/ breakpoints[i] > address
        BY <1>6, <2>1, <4>1 DEF NotFound, IndInv, TableInv, WindowHoldsAddress
      <4>3. \A i \in Used : breakpoints[i] \in Address
        BY <2>1, <1>t DEF IndInv, TableTypeOK, Slot
      <4>4. \A a \in Address : a \in Int
        OBVIOUS
      <4>5. \A i \in Used : breakpoints[i] \in Int
        BY <4>3, <4>4
      <4>6. address \in Int
        BY <1>6, <4>4 DEF NotFound, IndInv, TableTypeOK
      <4> QED BY <4>2, <4>5, <4>6
    <3> QED BY <1>6, <3>1 DEF NotFound, Members
  <2>3. CASE op = "add"
    <3>1. UNCHANGED <<breakpoints, op, address, result>> /\ pc' = "insert"
      BY <1>6, <2>3 DEF NotFound
    <3>2. Used' = Used
      BY <1>6, <2>3, <2>1, <1>t DEF NotFound, Used, Top, Moving
    <3>3. UNCHANGED Members
      BY <1>6, <3>1, <3>2 DEF NotFound, Members
    <3> QED BY <3>1, <3>3 DEF Abstract!vars
  <2>4. CASE op # "add"
    <3>1. UNCHANGED Members
      BY <1>6, <2>4 DEF NotFound, Return, Members, Used, Top, Moving
    <3>2. CASE op = "find"
      <4>1. Abstract!Find
        BY <1>6, <2>2, <2>4, <3>1, <3>2
           DEF NotFound, Return, Abstract!Find, Abstract!Answer,
               Abstract!NoCall
      <4> QED BY <4>1 DEF Abstract!Next
    <3>3. CASE op = "remove"
      <4>1. Members' = Members \ {address}
        BY <2>2, <3>1
      <4>2. Abstract!Remove
        BY <1>6, <2>2, <2>4, <3>3, <4>1
           DEF NotFound, Return, Abstract!Remove, Abstract!Answer,
               Abstract!NoCall
      <4> QED BY <4>2 DEF Abstract!Next
    <3> QED
      BY <2>1, <2>4, <3>2, <3>3 DEF IndInv, TableTypeOK, Operation
  <2> QED BY <2>3, <2>4
<1>7. CASE MoveUp
  <2>1. /\ j \in Slot /\ j - 1 \in Used /\ j \notin Used
        /\ Used' = (Used \ {j - 1}) \union {j}
    BY <1>7, <1>t, <1>i DEF MoveUp, Slot, Used, Top, Moving
  <2>2. /\ breakpoints'[j] = breakpoints[j - 1]
        /\ \A i \in Used : breakpoints'[i] = breakpoints[i]
    BY <1>7, <2>1, <1>t, <1>i
       DEF MoveUp, IndInv, TableTypeOK, Slot, Used, Top, Moving
  <2>3. {breakpoints'[i] : i \in Used'} = {breakpoints[i] : i \in Used}
    BY <2>1, <2>2
  <2>4. UNCHANGED Members
    BY <1>7, <2>3 DEF MoveUp, Members
  <2> QED BY <1>7, <2>4 DEF MoveUp, Abstract!vars
<1>8. CASE Place
  <2>1. j \in Slot /\ Used' = Used \union {j} /\ j \notin Used
    BY <1>8, <1>t, <1>i DEF Place, Return, Slot, Used, Top, Moving
  <2>2. /\ breakpoints'[j] = address
        /\ \A i \in Used : breakpoints'[i] = breakpoints[i]
    BY <1>8, <2>1, <1>t, <1>i
       DEF Place, IndInv, TableTypeOK, Slot, Used, Top, Moving
  <2>3. {breakpoints'[i] : i \in Used'}
          = {breakpoints[i] : i \in Used} \union {address}
    BY <2>1, <2>2
  <2>4. Members' = Members \union {address}
    BY <1>8, <2>3 DEF Place, Return, Members
  <2>5. Cardinality(Members) < MaxBreakpoints
    BY <1>8, <1>t, MembersCount DEF Place
  <2>6. Abstract!Add
    BY <1>8, <1>i, <2>4, <2>5, SameCardinality
       DEF Place, Return, Abstract!Add, Abstract!Answer, Abstract!NoCall
  <2> QED BY <2>6 DEF Abstract!Next
<1>9. CASE MoveDown
  <2>1. /\ j \in Slot /\ j + 1 \in Used /\ j \notin Used
        /\ Used' = (Used \ {j + 1}) \union {j}
    BY <1>9, <1>t, <1>d DEF MoveDown, Slot, Used, Top, Moving
  <2>2. /\ breakpoints'[j] = breakpoints[j + 1]
        /\ \A i \in Used : breakpoints'[i] = breakpoints[i]
    BY <1>9, <2>1, <1>t, <1>d
       DEF MoveDown, IndInv, TableTypeOK, Slot, Used, Top, Moving
  <2>3. {breakpoints'[i] : i \in Used'} = {breakpoints[i] : i \in Used}
    BY <2>1, <2>2
  <2>4. UNCHANGED Members
    BY <1>9, <2>3 DEF MoveDown, Members
  <2> QED BY <1>9, <2>4 DEF MoveDown, Abstract!vars
<1>10. CASE Removed
  <2>1. /\ Used = 0 .. breakpoints_number - 1 /\ Used' = Used
        /\ UNCHANGED breakpoints
    BY <1>10, <1>t, <1>d DEF Removed, Return, Used, Top, Moving
  <2>2. \A i \in Used : breakpoints[i] # address
    BY <1>10 DEF Removed, IndInv, TableInv, DeletionPoint
  <2>3. /\ Members = {breakpoints[i] : i \in Used} \union {address}
        /\ Members' = {breakpoints[i] : i \in Used}
    BY <1>10, <2>1 DEF Removed, Return, Members
  <2>4. Members' = Members \ {address} /\ address \in Members
    BY <2>2, <2>3
  <2>5. Abstract!Remove
    BY <1>10, <1>d, <2>4
       DEF Removed, Return, Abstract!Remove, Abstract!Answer, Abstract!NoCall
  <2> QED BY <2>5 DEF Abstract!Next
<1>11. CASE UNCHANGED tableVars
  BY <1>11 DEF tableVars, Abstract!vars, Members, Used, Top, Moving
<1> QED
  BY <1>1, <1>2, <1>3, <1>4, <1>5, <1>6, <1>7, <1>8, <1>9, <1>10, <1>11
     DEF TableNext, Work

\* The sorted array answers every find, add and remove as a set of at most
\* MaxBreakpoints addresses would (gdb_protocol.c:60-106).
THEOREM Refinement == TableSpec => ImplementsSet
<1>1. TableInit => Abstract!Init
  BY InitRefines
<1>2. IndInv /\ IndInv' /\ [TableNext]_tableVars => [Abstract!Next]_(Abstract!vars)
  BY NextRefines
<1> QED
  BY <1>1, <1>2, Invariance, PTL DEF TableSpec, ImplementsSet, Abstract!Spec
-----------------------------------------------------------------------------
(***************************************************************************)
(* The session: what it knows of its state, Known, and how a fault is      *)
(* mended, Mended, are inductive.                                          *)
(***************************************************************************)
(***************************************************************************)
(* Sequences.                                                              *)
(***************************************************************************)

\* A set of naturals has a least element.
LEMMA LeastNatural ==
  ASSUME NEW T \in SUBSET Nat, T # {}
  PROVE  \E m \in T : \A n \in T : m <= n
<1> DEFINE Below(n) == 0 .. n - 1
           U == {Below(n) : n \in T}
<1>1. \A n \in Nat : IsFiniteSet(Below(n)) /\ Below(n) \in SUBSET Nat
  BY FS_Interval, SMT
<1>2. U \subseteq FiniteSubsetsOf(Nat) /\ U # {}
  <2> HIDE DEF Below
  <2> QED BY <1>1 DEF FiniteSubsetsOf
<1>3. PICK X \in U : \A Y \in U : ~(<<Y, X>> \in StrictSubsetOrdering(Nat))
  <2> HIDE DEF U
  <2> QED BY <1>2, FS_StrictSubsetOrderingWellFounded, WFMin
<1>4. PICK m \in T : X = Below(m)
  BY <1>3
<1>5. ASSUME NEW n \in T, n < m PROVE FALSE
  <2>1. Below(n) \in SUBSET Below(m) /\ Below(n) # Below(m)
    <3>1. n \in Nat /\ m \in Nat
      OBVIOUS
    <3>2. n \in Below(m) /\ n \notin Below(n)
      BY <1>5, <3>1, SMT
    <3>3. \A k \in Below(n) : k \in Below(m)
      BY <1>5, <3>1, SMT
    <3> QED BY <3>2, <3>3
  <2>2. Below(n) \in U /\ Below(n) \in SUBSET Nat /\ Below(m) \in SUBSET Nat
    BY <1>1
  <2> HIDE DEF Below, U
  <2>3. <<Below(n), X>> \in StrictSubsetOrdering(Nat)
    BY <1>4, <2>1, <2>2 DEF StrictSubsetOrdering
  <2> QED BY <1>3, <2>2, <2>3
<1> QED
  <2>1. ASSUME NEW n \in T PROVE m <= n
    BY <1>5, SMT
  <2> QED BY <2>1

LEMMA Joined ==
  ASSUME NEW S, NEW s \in Seq(S), NEW t \in Seq(S)
  PROVE  /\ s \o t \in Seq(S) /\ Len(s \o t) = Len(s) + Len(t)
         /\ DOMAIN (s \o t) = 1 .. Len(s) + Len(t)
         /\ Len(s) \in Nat /\ Len(t) \in Nat
         /\ \A k \in 1 .. Len(s) : (s \o t)[k] = s[k]
         /\ \A k \in 1 .. Len(t) : (s \o t)[Len(s) + k] = t[k]
<1>1. /\ s \o t \in Seq(S) /\ Len(s \o t) = Len(s) + Len(t)
      /\ \A k \in 1 .. Len(s) + Len(t) :
           (s \o t)[k] = IF k <= Len(s) THEN s[k] ELSE t[k - Len(s)]
  BY ConcatProperties
<1>2. Len(s) \in Nat /\ Len(t) \in Nat /\ DOMAIN (s \o t) = 1 .. Len(s) + Len(t)
  BY <1>1, LenProperties
<1>3. ASSUME NEW k \in 1 .. Len(s) PROVE (s \o t)[k] = s[k]
  <2>1. k \in 1 .. Len(s) + Len(t) /\ k <= Len(s)
    BY <1>2, SMT
  <2> QED BY <1>1, <2>1
<1>4. ASSUME NEW k \in 1 .. Len(t) PROVE (s \o t)[Len(s) + k] = t[k]
  <2>1. /\ Len(s) + k \in 1 .. Len(s) + Len(t) /\ ~(Len(s) + k <= Len(s))
        /\ Len(s) + k - Len(s) = k
    BY <1>2, SMT
  <2> QED BY <1>1, <2>1
<1> QED BY <1>1, <1>2, <1>3, <1>4

LEMMA CutOff ==
  ASSUME NEW S, NEW s \in Seq(S), NEW n \in 0 .. Len(s)
  PROVE  /\ Rules!Drop(s, n) \in Seq(S)
         /\ Len(Rules!Drop(s, n)) = Len(s) - n
         /\ \A k \in 1 .. Len(s) - n : Rules!Drop(s, n)[k] = s[k + n]
<1>1. Len(s) \in Nat /\ n \in Nat /\ n <= Len(s) /\ n + 1 \in Int
  BY LenProperties, SMT
<1>2. \A k \in n + 1 .. Len(s) : s[k] \in S
  <2>1. \A k \in n + 1 .. Len(s) : k \in 1 .. Len(s)
    BY <1>1, SMT
  <2> QED BY <2>1, ElementOfSeq
<1>3. /\ SubSeq(s, n + 1, Len(s)) \in Seq(S)
      /\ Len(SubSeq(s, n + 1, Len(s)))
           = IF n + 1 <= Len(s) THEN Len(s) - (n + 1) + 1 ELSE 0
      /\ \A k \in 1 .. Len(s) - (n + 1) + 1 :
           SubSeq(s, n + 1, Len(s))[k] = s[n + 1 + k - 1]
  <2>1. Len(s) \in Int
    BY <1>1
  <2> QED BY <1>1, <1>2, <2>1, SubSeqProperties
<1>4. Len(SubSeq(s, n + 1, Len(s))) = Len(s) - n
  BY <1>1, <1>3, SMT
<1>5. ASSUME NEW k \in 1 .. Len(s) - n
      PROVE  SubSeq(s, n + 1, Len(s))[k] = s[k + n]
  <2>1. k \in 1 .. Len(s) - (n + 1) + 1 /\ n + 1 + k - 1 = k + n
    BY <1>1, SMT
  <2> QED BY <1>3, <2>1
<1> QED BY <1>3, <1>4, <1>5 DEF Rules!Drop

\* A message less.
LEMMA Shorter ==
  ASSUME NEW S, NEW s \in Seq(S), NEW k \in 1 .. Len(s)
  PROVE  Without(s, k) \in Seq(S)
<1>1. Len(s) \in Nat /\ k \in Int /\ k - 1 \in Int /\ k + 1 \in Int
  BY LenProperties, SMT
<1>2. /\ \A i \in 1 .. k - 1 : i \in 1 .. Len(s)
      /\ \A i \in k + 1 .. Len(s) : i \in 1 .. Len(s)
  BY <1>1, SMT
<1>3. SubSeq(s, 1, k - 1) \in Seq(S) /\ SubSeq(s, k + 1, Len(s)) \in Seq(S)
  <2>1. Len(s) \in Int /\ 1 \in Int
    BY <1>1
  <2>2. /\ \A i \in 1 .. k - 1 : s[i] \in S
        /\ \A i \in k + 1 .. Len(s) : s[i] \in S
    BY <1>2, ElementOfSeq
  <2> QED BY <1>1, <2>1, <2>2, SubSeqProperties
<1> QED BY <1>3, ConcatProperties DEF Without

(***************************************************************************)
(* Characters.                                                             *)
(***************************************************************************)
LEMMA CharacterIs ==
  ASSUME NEW c \in Character
  PROVE  /\ \A x \in {"$", "#", "+", "-", "other", "newline"} :
              c[1] = x => c = Char(x)
         /\ c[1] = "body" => \E i \in Request : c = <<"body", i>>
         /\ c[1] \in Rules!Class \union {"body"}
         /\ c[2] \in Nat
<1>1. CASE c \in Plain
  <2>1. PICK x \in {"$", "#", "+", "-", "hex", "other", "newline"} : c = <<x, 0>>
    BY <1>1 DEF Plain, Char
  <2>2. c[1] = x /\ c[2] = 0 /\ x # "body"
    BY <2>1
  <2> QED BY <2>1, <2>2 DEF Char, Rules!Class
<1>2. CASE c \in {"body", "hex"} \X Request
  <2>1. PICK x \in {"body", "hex"}, i \in Request : c = <<x, i>>
    BY <1>2
  <2>2. c[1] = x /\ c[2] = i /\ i \in Nat
    BY <2>1, SMT DEF Request
  <2> QED BY <2>1, <2>2 DEF Rules!Class
<1> QED BY <1>1, <1>2 DEF Character
-----------------------------------------------------------------------------
(***************************************************************************)
(* What the client has sent and the server has not consumed: what is left  *)
(* of a damaged beginning, up to the place from, and whole packets and     *)
(* signs behind it.                                                        *)
(***************************************************************************)

\* An intact packet starts at k.
Intact(s, k) ==
  /\ k + 3 <= Len(s)
  /\ s[k] = Char("$") /\ s[k + 2] = Char("#")
  /\ \E i \in Request : s[k + 1] = <<"body", i>> /\ s[k + 3] = <<"hex", i>>

\* The request it makes.
Number(s, k) == s[k + 1][2]

Packets(s, from) == {k \in from + 1 .. Len(s) : Intact(s, k)}

\* What is left of the beginning has no intact packet, and a packet comes next.
Debris(s, from) ==
  /\ \A k \in 1 .. from : ~Intact(s, k)
  /\ from > 0 /\ from < Len(s) => s[from + 1] = Char("$")

Whole(s, from) ==
  \A k \in from + 1 .. Len(s) :
    \/ s[k] \in {Char("+"), Char("-")}
    \/ \E b \in from + 1 .. k : k <= b + 3 /\ Intact(s, b)

\* The packets go from first, or the one after it, to the last, without a gap.
Numbered(s, from, first, last) ==
  /\ \A k \in Packets(s, from) : Number(s, k) \in first .. last
  /\ \A k, l \in Packets(s, from) : k <= l => Number(s, k) <= Number(s, l)
  /\ \A i \in first + 1 .. last : \E k \in Packets(s, from) : Number(s, k) = i

Stream(s, from, first, last) ==
  Debris(s, from) /\ Whole(s, from) /\ Numbered(s, from, first, last)

LEMMA PacketIs ==
  ASSUME NEW i \in Request
  PROVE  /\ Packet(i) \in Seq(Character) /\ Len(Packet(i)) = 4
         /\ Packet(i)[1] = Char("$") /\ Packet(i)[2] = <<"body", i>>
         /\ Packet(i)[3] = Char("#") /\ Packet(i)[4] = <<"hex", i>>
<1>1. Char("$") \in Character /\ Char("#") \in Character
  BY DEF Character, Plain
<1>2. <<"body", i>> \in Character /\ <<"hex", i>> \in Character
  BY DEF Character
<1> QED BY <1>1, <1>2 DEF Packet

LEMMA SignIs ==
  ASSUME NEW x \in {"+", "-"}
  PROVE  /\ <<Char(x)>> \in Seq(Character) /\ Len(<<Char(x)>>) = 1
         /\ <<Char(x)>>[1] = Char(x)
<1>1. Char(x) \in Character
  BY DEF Character, Plain
<1> QED BY <1>1

\* The characters of an intact packet.
LEMMA IntactIs ==
  ASSUME NEW s \in Seq(Character), NEW k \in Nat \ {0}, Intact(s, k)
  PROVE  /\ {k, k + 1, k + 2, k + 3} \subseteq 1 .. Len(s)
         /\ Number(s, k) \in Request
         /\ s[k] = Char("$") /\ s[k + 1] = <<"body", Number(s, k)>>
         /\ s[k + 2] = Char("#") /\ s[k + 3] = <<"hex", Number(s, k)>>
         /\ s[k] \notin {Char("+"), Char("-")}
         /\ \A m \in 1 .. 3 : s[k + m] # Char("$")
<1>1. Len(s) \in Nat
  BY LenProperties
<1>2. {k, k + 1, k + 2, k + 3} \subseteq 1 .. Len(s)
  BY <1>1, SMT DEF Intact
<1>3. /\ Number(s, k) \in Request
      /\ s[k] = Char("$") /\ s[k + 1] = <<"body", Number(s, k)>>
      /\ s[k + 2] = Char("#") /\ s[k + 3] = <<"hex", Number(s, k)>>
  BY DEF Intact, Number
<1>4. s[k] \notin {Char("+"), Char("-")}
  BY <1>3 DEF Char
<1>5. s[k + 1] # Char("$") /\ s[k + 2] # Char("$") /\ s[k + 3] # Char("$")
  BY <1>3 DEF Char
<1>6. \A m \in 1 .. 3 : m = 1 \/ m = 2 \/ m = 3
  BY SMT
<1> QED BY <1>2, <1>3, <1>4, <1>5, <1>6

\* The packets of what is left behind n characters.
LEMMA IntactMoved ==
  ASSUME NEW s \in Seq(Character), NEW n \in 0 .. Len(s),
         NEW k \in 1 .. Len(s) - n
  PROVE  LET d == Rules!Drop(s, n)
         IN /\ Intact(d, k) <=> Intact(s, k + n)
            /\ Intact(d, k) => Number(d, k) = Number(s, k + n)
<1> DEFINE d == Rules!Drop(s, n)
<1>1. /\ Len(s) \in Nat /\ n \in Nat /\ k \in Nat /\ Len(d) = Len(s) - n
      /\ \A i \in 1 .. Len(s) - n : d[i] = s[i + n]
  <2>1. Len(s) \in Nat
    BY LenProperties
  <2>2. n \in Nat /\ k \in Nat
    BY <2>1, SMT
  <2> QED BY <2>1, <2>2, CutOff
<1> HIDE DEF d
<1>2. k + 3 <= Len(d) <=> k + n + 3 <= Len(s)
  BY <1>1, SMT
<1>3. ASSUME k + 3 <= Len(d)
      PROVE  /\ d[k] = s[k + n] /\ d[k + 1] = s[k + n + 1]
             /\ d[k + 2] = s[k + n + 2] /\ d[k + 3] = s[k + n + 3]
  <2>1. {k, k + 1, k + 2, k + 3} \subseteq 1 .. Len(s) - n
    BY <1>1, <1>3, SMT
  <2>2. /\ k + 1 + n = k + n + 1 /\ k + 2 + n = k + n + 2
        /\ k + 3 + n = k + n + 3
    BY <1>1, SMT
  <2> QED BY <1>1, <2>1, <2>2
<1>4. Intact(d, k) <=> Intact(s, k + n)
  BY <1>2, <1>3 DEF Intact
<1>5. Intact(d, k) => Number(d, k) = Number(s, k + n)
  BY <1>3 DEF Intact, Number
<1> QED BY <1>4, <1>5 DEF d

\* The packets that are there when something is sent.
LEMMA IntactKept ==
  ASSUME NEW s \in Seq(Character), NEW t \in Seq(Character),
         NEW k \in 1 .. Len(s), k + 3 <= Len(s)
  PROVE  /\ Intact(s \o t, k) <=> Intact(s, k)
         /\ Number(s \o t, k) = Number(s, k)
<1>1. /\ Len(s) \in Nat /\ Len(t) \in Nat
      /\ Len(s \o t) = Len(s) + Len(t)
      /\ \A i \in 1 .. Len(s) : (s \o t)[i] = s[i]
  BY Joined
<1>2. /\ k + 3 <= Len(s \o t)
      /\ {k, k + 1, k + 2, k + 3} \subseteq 1 .. Len(s)
  BY <1>1, SMT
<1>3. /\ (s \o t)[k] = s[k] /\ (s \o t)[k + 1] = s[k + 1]
      /\ (s \o t)[k + 2] = s[k + 2] /\ (s \o t)[k + 3] = s[k + 3]
  BY <1>1, <1>2
<1> QED BY <1>2, <1>3 DEF Intact, Number

\* A packet that is sent adds itself and no other.
LEMMA PacketAdded ==
  ASSUME NEW s \in Seq(Character), NEW i \in Request, NEW k \in Nat \ {0}
  PROVE  LET u == s \o Packet(i)
         IN /\ Len(u) = Len(s) + 4
            /\ Intact(u, Len(s) + 1) /\ Number(u, Len(s) + 1) = i
            /\ u[Len(s) + 1] = Char("$")
            /\ Intact(u, k) =>
                 k = Len(s) + 1 \/ (k + 3 <= Len(s) /\ Intact(s, k))
<1> DEFINE u == s \o Packet(i)
<1>1. /\ Len(s) \in Nat /\ Len(u) = Len(s) + 4 /\ u \in Seq(Character)
      /\ \A l \in 1 .. 4 : u[Len(s) + l] = Packet(i)[l]
  <2>1. Packet(i) \in Seq(Character) /\ Len(Packet(i)) = 4
    BY PacketIs
  <2>2. ASSUME NEW t \in Seq(Character), Len(t) = 4
        PROVE  /\ Len(s) \in Nat /\ Len(s \o t) = Len(s) + 4
               /\ s \o t \in Seq(Character)
               /\ \A l \in 1 .. 4 : (s \o t)[Len(s) + l] = t[l]
    <3>1. /\ s \o t \in Seq(Character) /\ Len(s \o t) = Len(s) + Len(t)
          /\ Len(s) \in Nat
          /\ \A l \in 1 .. Len(t) : (s \o t)[Len(s) + l] = t[l]
      BY Joined
    <3> QED BY <2>2, <3>1
  <2> QED BY <2>1, <2>2
<1>2. /\ u[Len(s) + 1] = Char("$") /\ u[Len(s) + 2] = <<"body", i>>
      /\ u[Len(s) + 3] = Char("#") /\ u[Len(s) + 4] = <<"hex", i>>
  <2>1. {1, 2, 3, 4} \subseteq 1 .. 4
    BY SMT
  <2> QED BY <1>1, <2>1, PacketIs
<1> HIDE DEF u
<1>3. Intact(u, Len(s) + 1) /\ Number(u, Len(s) + 1) = i
  <2>1. /\ Len(s) + 1 + 1 = Len(s) + 2 /\ Len(s) + 1 + 2 = Len(s) + 3
        /\ Len(s) + 1 + 3 = Len(s) + 4 /\ Len(s) + 1 + 3 <= Len(u)
    BY <1>1, SMT
  <2>2. <<"body", i>>[2] = i
    OBVIOUS
  <2> QED BY <1>2, <2>1, <2>2 DEF Intact, Number
<1>4. ASSUME Intact(u, k), k # Len(s) + 1
      PROVE  k + 3 <= Len(s) /\ Intact(s, k)
  <2>1. /\ u[k] = Char("$") /\ k + 3 <= Len(s) + 4
        /\ \A m \in 1 .. 3 : u[k + m] # Char("$")
    BY <1>1, <1>4, IntactIs DEF Intact
  <2>2. k + 3 <= Len(s)
    <3>1. CASE k \in Len(s) - 2 .. Len(s)
      <4> DEFINE m == Len(s) + 1 - k
      <4>1. m \in 1 .. 3 /\ k + m = Len(s) + 1
        BY <1>1, <3>1, SMT
      <4> QED BY <1>2, <2>1, <4>1
    <3> QED BY <1>1, <1>4, <2>1, <3>1, SMT
  <2>3. k \in 1 .. Len(s)
    BY <1>1, <2>2, SMT
  <2> QED BY <1>4, <2>2, <2>3, PacketIs, IntactKept DEF u
<1> QED BY <1>1, <1>2, <1>3, <1>4 DEF u

\* A character that ends no packet adds none.
LEMMA NoneAdded ==
  ASSUME NEW s \in Seq(Character), NEW c \in Plain, NEW k \in Nat \ {0},
         Intact(s \o <<c>>, k)
  PROVE  k + 3 <= Len(s) /\ Intact(s, k)
<1> DEFINE u == s \o <<c>>
<1>1. /\ Len(s) \in Nat /\ Len(u) = Len(s) + 1 /\ u \in Seq(Character)
      /\ <<c>> \in Seq(Character) /\ u[Len(s) + 1] = c
  <2>1. <<c>> \in Seq(Character) /\ Len(<<c>>) = 1 /\ 1 \in 1 .. 1 /\ <<c>>[1] = c
    BY SMT DEF Character
  <2> QED BY <2>1, Joined
<1> HIDE DEF u
<1>2. k + 3 <= Len(s) + 1 /\ u[k + 3] = <<"hex", Number(u, k)>>
      /\ Number(u, k) \in Request
  BY <1>1, IntactIs DEF u, Intact
<1>3. c # <<"hex", Number(u, k)>>
  <2>1. PICK x \in {"$", "#", "+", "-", "hex", "other", "newline"} : c = <<x, 0>>
    BY DEF Plain, Char
  <2>2. Number(u, k) # 0
    BY <1>2, SMT DEF Request
  <2> QED BY <2>1, <2>2
<1>4. k + 3 # Len(s) + 1
  BY <1>1, <1>2, <1>3
<1>5. k + 3 <= Len(s) /\ k \in 1 .. Len(s)
  BY <1>1, <1>2, <1>4, SMT
<1> QED BY <1>1, <1>5, IntactKept

\* What is sent leaves the packets before it as they are.
LEMMA PacketsKept ==
  ASSUME NEW s \in Seq(Character), NEW t \in Seq(Character),
         NEW from \in 0 .. Len(s), NEW k \in Packets(s, from)
  PROVE  /\ k \in Nat \ {0} /\ k + 3 <= Len(s) /\ k \in 1 .. Len(s)
         /\ k \in Packets(s \o t, from) /\ Number(s \o t, k) = Number(s, k)
<1>1. /\ Len(s) \in Nat /\ Len(t) \in Nat /\ Len(s \o t) = Len(s) + Len(t)
      /\ from \in Nat
  BY Joined, SMT
<1>2. k \in from + 1 .. Len(s) /\ Intact(s, k) /\ k + 3 <= Len(s)
  BY DEF Packets, Intact
<1>3. k \in 1 .. Len(s) /\ k \in from + 1 .. Len(s) + Len(t) /\ k \in Nat \ {0}
  BY <1>1, <1>2, SMT
<1>4. Intact(s \o t, k) /\ Number(s \o t, k) = Number(s, k)
  BY <1>2, <1>3, IntactKept
<1> QED BY <1>1, <1>2, <1>3, <1>4 DEF Packets

\* A packet may be sent for the last request or for the next one.
LEMMA StreamSends ==
  ASSUME NEW s \in Seq(Character), NEW from \in 0 .. Len(s),
         NEW first \in Nat, NEW last \in Nat, NEW i \in Request,
         first <= i, i = last \/ i = last + 1, Stream(s, from, first, last)
  PROVE  LET u == s \o Packet(i)
         IN Stream(u, from, first, i) /\ Packets(u, from) # {}
<1> DEFINE u == s \o Packet(i)
<1>1. /\ Len(s) \in Nat /\ from \in Nat /\ i \in Nat
      /\ Packet(i) \in Seq(Character) /\ Len(u) = Len(s) + 4
      /\ \A k \in 1 .. Len(s) : u[k] = s[k]
  <2>1. Packet(i) \in Seq(Character)
    BY PacketIs
  <2>2. /\ Len(s) \in Nat /\ \A k \in 1 .. Len(s) : u[k] = s[k]
    BY <2>1, Joined
  <2>3. Len(u) = Len(s) + 4
    BY PacketAdded
  <2> HIDE DEF u
  <2> QED BY <2>1, <2>2, <2>3, SMT DEF Request
<1>2. /\ Len(s) + 1 \in Packets(u, from) /\ Number(u, Len(s) + 1) = i
      /\ Intact(u, Len(s) + 1) /\ u[Len(s) + 1] = Char("$")
  <2>1. /\ Intact(u, Len(s) + 1) /\ Number(u, Len(s) + 1) = i
        /\ u[Len(s) + 1] = Char("$")
    BY PacketAdded
  <2> HIDE DEF u
  <2>2. Len(s) + 1 \in from + 1 .. Len(u)
    BY <1>1, SMT
  <2> QED BY <2>1, <2>2 DEF Packets
<1>3. ASSUME NEW k \in Nat \ {0}, Intact(u, k)
      PROVE  k = Len(s) + 1 \/ (k + 3 <= Len(s) /\ Intact(s, k))
  BY <1>3, PacketAdded
<1>4. ASSUME NEW k \in Packets(s, from)
      PROVE  /\ k \in Packets(u, from) /\ Number(u, k) = Number(s, k)
             /\ k \in Nat /\ k + 3 <= Len(s)
  BY <1>1, PacketsKept
<1> HIDE DEF u
<1>5. ASSUME NEW k \in Packets(u, from), k # Len(s) + 1
      PROVE  k \in Packets(s, from) /\ k + 3 <= Len(s) /\ Number(u, k) = Number(s, k)
  <2>1. k \in from + 1 .. Len(u) /\ Intact(u, k)
    BY DEF Packets
  <2>2. k \in Nat \ {0}
    BY <1>1, <2>1, SMT
  <2>3. k + 3 <= Len(s) /\ Intact(s, k)
    BY <1>3, <1>5, <2>1, <2>2
  <2>4. k \in from + 1 .. Len(s)
    BY <1>1, <2>1, <2>3, SMT
  <2> QED BY <1>4, <2>3, <2>4 DEF Packets
<1>6. Debris(u, from)
  <2>1. ASSUME NEW k \in 1 .. from, Intact(u, k) PROVE FALSE
    <3>1. k \in Nat \ {0} /\ k # Len(s) + 1
      BY <1>1, SMT
    <3>2. Intact(s, k)
      BY <1>3, <2>1, <3>1
    <3> QED BY <3>2 DEF Stream, Debris
  <2>2. ASSUME from > 0 PROVE u[from + 1] = Char("$")
    <3>1. CASE from = Len(s)
      BY <1>2, <3>1
    <3>2. CASE from # Len(s)
      <4>1. from < Len(s) /\ from + 1 \in 1 .. Len(s)
        BY <1>1, <3>2, SMT
      <4> QED BY <1>1, <2>2, <4>1 DEF Stream, Debris
    <3> QED BY <3>1, <3>2
  <2> QED BY <2>1, <2>2 DEF Debris
<1>7. Whole(u, from)
  <2> SUFFICES ASSUME NEW k \in from + 1 .. Len(u)
               PROVE  \/ u[k] \in {Char("+"), Char("-")}
                      \/ \E b \in from + 1 .. k : k <= b + 3 /\ Intact(u, b)
    BY DEF Whole
  <2>1. CASE k <= Len(s)
    <3>1. k \in from + 1 .. Len(s) /\ k \in 1 .. Len(s)
      BY <1>1, <2>1, SMT
    <3>2. CASE s[k] \in {Char("+"), Char("-")}
      BY <1>1, <3>1, <3>2
    <3>3. ASSUME NEW b \in from + 1 .. k, k <= b + 3, Intact(s, b)
          PROVE  Intact(u, b)
      <4>1. b \in from + 1 .. Len(s)
        BY <1>1, <3>1, SMT
      <4>2. b \in Packets(s, from)
        BY <3>3, <4>1 DEF Packets
      <4> QED BY <1>4, <4>2 DEF Packets
    <3> QED BY <3>1, <3>2, <3>3 DEF Stream, Whole
  <2>2. CASE k > Len(s)
    <3>1. Len(s) + 1 \in from + 1 .. k /\ k <= Len(s) + 1 + 3
      BY <1>1, <2>2, SMT
    <3> QED BY <1>2, <3>1
  <2> QED BY <1>1, <2>1, <2>2, SMT
<1>8. Numbered(u, from, first, i)
  <2>0. /\ \A k \in Packets(s, from) : Number(s, k) \in first .. last
        /\ \A k, l \in Packets(s, from) :
             k <= l => Number(s, k) <= Number(s, l)
        /\ \A m \in first + 1 .. last :
             \E k \in Packets(s, from) : Number(s, k) = m
    BY DEF Stream, Numbered
  <2>1. ASSUME NEW k \in Packets(u, from) PROVE Number(u, k) \in first .. i
    <3>1. CASE k = Len(s) + 1
      <4>1. i \in first .. i
        BY <1>1, SMT
      <4> QED BY <1>2, <3>1, <4>1
    <3>2. CASE k # Len(s) + 1
      <4>1. Number(u, k) \in first .. last
        BY <1>5, <2>0, <3>2
      <4> QED BY <4>1, SMT
    <3> QED BY <3>1, <3>2
  <2>2. ASSUME NEW k \in Packets(u, from), NEW l \in Packets(u, from), k <= l
        PROVE  Number(u, k) <= Number(u, l)
    <3>1. CASE l = Len(s) + 1
      <4>1. Number(u, k) \in first .. i /\ Number(u, l) = i
        BY <1>2, <2>1, <3>1
      <4> QED BY <4>1, SMT
    <3>2. CASE l # Len(s) + 1
      <4>1. k # Len(s) + 1
        <5>1. l + 3 <= Len(s) /\ l \in Nat
          BY <1>4, <1>5, <3>2
        <5> QED BY <1>1, <2>2, <5>1, SMT
      <4> QED BY <1>5, <2>0, <2>2, <3>2, <4>1
    <3> QED BY <3>1, <3>2
  <2>3. ASSUME NEW m \in first + 1 .. i
        PROVE  \E k \in Packets(u, from) : Number(u, k) = m
    <3>1. CASE m = i
      BY <1>2, <3>1
    <3>2. CASE m # i
      <4>1. m \in first + 1 .. last
        BY <1>1, <3>2, SMT
      <4>2. PICK k \in Packets(s, from) : Number(s, k) = m
        BY <2>0, <4>1
      <4> QED BY <1>4, <4>2
    <3> QED BY <3>1, <3>2
  <2> QED BY <2>1, <2>2, <2>3 DEF Numbered
<1>9. Packets(u, from) # {}
  BY <1>2
<1> QED BY <1>6, <1>7, <1>8, <1>9 DEF Stream, u

\* A sign is sent behind whole packets.
LEMMA StreamSigns ==
  ASSUME NEW s \in Seq(Character), NEW x \in {"+", "-"},
         NEW first \in Nat, NEW last \in Nat, Stream(s, 0, first, last)
  PROVE  LET u == s \o <<Char(x)>>
         IN /\ Stream(u, 0, first, last)
            /\ Packets(s, 0) # {} => Packets(u, 0) # {}
<1> DEFINE t == <<Char(x)>>
           u == s \o t
<1>1. /\ Len(s) \in Nat /\ t \in Seq(Character) /\ Len(u) = Len(s) + 1
      /\ u[Len(s) + 1] = Char(x) /\ 0 \in 0 .. Len(s)
      /\ \A k \in 1 .. Len(s) : u[k] = s[k]
  <2>1. t \in Seq(Character) /\ Len(t) = 1 /\ t[1] = Char(x)
    BY SignIs
  <2>2. 1 \in 1 .. 1
    BY SMT
  <2> HIDE DEF t
  <2>3. /\ Len(s) \in Nat /\ Len(u) = Len(s) + 1 /\ u[Len(s) + 1] = t[1]
        /\ \A k \in 1 .. Len(s) : u[k] = s[k]
    BY <2>1, <2>2, Joined
  <2> QED BY <2>1, <2>3, SMT
<1>2. ASSUME NEW k \in Nat \ {0}, Intact(u, k)
      PROVE  k + 3 <= Len(s) /\ Intact(s, k)
  <2>1. ASSUME NEW c \in Plain, c = Char(x)
        PROVE  k + 3 <= Len(s) /\ Intact(s, k)
    <3>1. Intact(s \o <<c>>, k)
      BY <1>2, <2>1
    <3> QED BY <3>1, NoneAdded
  <2>2. Char(x) \in Plain
    BY DEF Plain
  <2> QED BY <2>1, <2>2
<1>3. ASSUME NEW k \in Packets(s, 0)
      PROVE  k \in Packets(u, 0) /\ Number(u, k) = Number(s, k)
  <2>1. t \in Seq(Character) /\ 0 \in 0 .. Len(s)
    BY <1>1
  <2> HIDE DEF t
  <2> QED BY <2>1, PacketsKept
<1> HIDE DEF u, t
<1>4. ASSUME NEW k \in Packets(u, 0)
      PROVE  k \in Packets(s, 0) /\ Number(u, k) = Number(s, k)
  <2>1. k \in 0 + 1 .. Len(u) /\ Intact(u, k)
    BY DEF Packets
  <2>2. k \in Nat \ {0}
    BY <1>1, <2>1, SMT
  <2>3. k + 3 <= Len(s) /\ Intact(s, k)
    BY <1>2, <2>1, <2>2
  <2>4. k \in 0 + 1 .. Len(s)
    BY <1>1, <2>2, <2>3, SMT
  <2> QED BY <1>3, <2>3, <2>4 DEF Packets
<1>5. Debris(u, 0)
  BY SMT DEF Debris
<1>6. Whole(u, 0)
  <2> SUFFICES ASSUME NEW k \in 0 + 1 .. Len(u)
               PROVE  \/ u[k] \in {Char("+"), Char("-")}
                      \/ \E b \in 0 + 1 .. k : k <= b + 3 /\ Intact(u, b)
    BY DEF Whole
  <2>1. CASE k = Len(s) + 1
    BY <1>1, <2>1
  <2>2. CASE k # Len(s) + 1
    <3>1. k \in 0 + 1 .. Len(s) /\ k \in 1 .. Len(s)
      BY <1>1, <2>2, SMT
    <3>2. CASE s[k] \in {Char("+"), Char("-")}
      BY <1>1, <3>1, <3>2
    <3>3. ASSUME NEW b \in 0 + 1 .. k, k <= b + 3, Intact(s, b)
          PROVE  Intact(u, b)
      <4>1. b \in 0 + 1 .. Len(s)
        BY <1>1, <3>1, SMT
      <4>2. b \in Packets(s, 0)
        BY <3>3, <4>1 DEF Packets
      <4> QED BY <1>3, <4>2 DEF Packets
    <3> QED BY <3>1, <3>2, <3>3 DEF Stream, Whole
  <2> QED BY <2>1, <2>2
<1>7. Numbered(u, 0, first, last)
  <2>1. Packets(u, 0) = Packets(s, 0)
    BY <1>3, <1>4
  <2>2. \A k \in Packets(s, 0) : Number(u, k) = Number(s, k)
    BY <1>3
  <2> QED BY <2>1, <2>2 DEF Stream, Numbered
<1>8. Packets(s, 0) # {} => Packets(u, 0) # {}
  BY <1>3
<1> QED BY <1>5, <1>6, <1>7, <1>8 DEF Stream, u, t

\* What is left when n characters have been consumed.
LEMMA StreamMoved ==
  ASSUME NEW s \in Seq(Character), NEW from \in 0 .. Len(s),
         NEW n \in 0 .. Len(s), from = 0 \/ n <= from,
         from = 0 => \A b \in 1 .. n : Intact(s, b) => b + 3 <= n,
         Debris(s, from), Whole(s, from)
  PROVE  LET d == Rules!Drop(s, n)
             g == IF from = 0 THEN 0 ELSE from - n
         IN /\ g \in 0 .. Len(d) /\ Debris(d, g) /\ Whole(d, g)
            /\ \A k \in Nat \ {0} :
                 k \in Packets(d, g) <=> k + n \in Packets(s, from)
            /\ \A k \in Packets(d, g) : Number(d, k) = Number(s, k + n)
<1> DEFINE d == Rules!Drop(s, n)
           g == IF from = 0 THEN 0 ELSE from - n
<1>1. /\ Len(s) \in Nat /\ Len(d) = Len(s) - n
      /\ \A k \in 1 .. Len(s) - n : d[k] = s[k + n]
  BY CutOff, LenProperties
<1>2. from \in Nat /\ n \in Nat /\ n <= Len(s) /\ g \in Nat /\ g \in 0 .. Len(d)
  BY <1>1, SMT
<1>3. ASSUME NEW k \in 1 .. Len(s) - n
      PROVE  /\ Intact(d, k) <=> Intact(s, k + n)
             /\ Intact(d, k) => Number(d, k) = Number(s, k + n)
  BY IntactMoved
<1> HIDE DEF d
<1>4. ASSUME NEW k \in Nat \ {0}
      PROVE  k \in g + 1 .. Len(d) <=> k + n \in from + 1 .. Len(s)
  BY <1>1, <1>2, SMT
<1>5. \A k \in Nat \ {0} : k \in Packets(d, g) <=> k + n \in Packets(s, from)
  <2> SUFFICES ASSUME NEW k \in Nat \ {0}
               PROVE  k \in Packets(d, g) <=> k + n \in Packets(s, from)
    OBVIOUS
  <2>1. k \in g + 1 .. Len(d) => k \in 1 .. Len(s) - n
    BY <1>1, <1>2, SMT
  <2> HIDE DEF g
  <2> QED BY <1>3, <1>4, <2>1 DEF Packets
<1>6. \A k \in Packets(d, g) : Number(d, k) = Number(s, k + n)
  <2> SUFFICES ASSUME NEW k \in Packets(d, g)
               PROVE  Number(d, k) = Number(s, k + n)
    OBVIOUS
  <2>1. k \in g + 1 .. Len(d) /\ Intact(d, k)
    BY DEF Packets
  <2>2. k \in 1 .. Len(s) - n
    BY <1>1, <1>2, <2>1, SMT
  <2> QED BY <1>3, <2>1, <2>2
<1>7. Debris(d, g)
  <2>1. ASSUME NEW k \in 1 .. g PROVE ~Intact(d, k)
    <3>1. k + n \in 1 .. from /\ k \in 1 .. Len(s) - n
      BY <1>1, <1>2, SMT
    <3> QED BY <1>3, <3>1 DEF Debris
  <2>2. ASSUME g > 0, g < Len(d) PROVE d[g + 1] = Char("$")
    <3>1. /\ from > 0 /\ from < Len(s) /\ g + 1 \in 1 .. Len(s) - n
          /\ g + 1 + n = from + 1
      BY <1>1, <1>2, <2>2, SMT
    <3> QED BY <1>1, <3>1 DEF Debris
  <2> HIDE DEF g
  <2> QED BY <2>1, <2>2 DEF Debris
<1>8. Whole(d, g)
  <2> SUFFICES ASSUME NEW k \in g + 1 .. Len(d)
               PROVE  \/ d[k] \in {Char("+"), Char("-")}
                      \/ \E b \in g + 1 .. k : k <= b + 3 /\ Intact(d, b)
    BY DEF Whole
  <2>1. k + n \in from + 1 .. Len(s) /\ k \in 1 .. Len(s) - n /\ k \in Nat
    BY <1>1, <1>2, SMT
  <2>2. CASE s[k + n] \in {Char("+"), Char("-")}
    BY <1>1, <2>1, <2>2
  <2>3. ASSUME NEW b \in from + 1 .. k + n, k + n <= b + 3, Intact(s, b)
        PROVE  \E m \in g + 1 .. k : k <= m + 3 /\ Intact(d, m)
    <3>1. b > n
      <4>1. CASE from = 0
        <5>1. b <= n => b \in 1 .. n
          BY <1>2, <2>1, SMT
        <5>2. b <= n => b + 3 <= n
          BY <2>3, <4>1, <5>1
        <5> QED BY <1>2, <2>1, <2>3, <5>2, SMT
      <4>2. CASE from # 0
        BY <1>2, <2>1, <4>2, SMT
      <4> QED BY <4>1, <4>2
    <3>2. /\ b - n \in g + 1 .. k /\ k <= b - n + 3 /\ b - n + n = b
          /\ b - n \in 1 .. Len(s) - n
      BY <1>1, <1>2, <2>1, <2>3, <3>1, SMT
    <3>3. Intact(d, b - n)
      BY <1>3, <2>3, <3>2
    <3> QED BY <3>2, <3>3
  <2> HIDE DEF g
  <2> QED BY <2>1, <2>2, <2>3 DEF Whole
<1> QED BY <1>2, <1>5, <1>6, <1>7, <1>8 DEF d

\* The token at the head is one that is not a packet, or is left over.
LEMMA StreamScans ==
  ASSUME NEW s \in Seq(Character), NEW from \in 0 .. Len(s),
         NEW n \in 1 .. Len(s), NEW first \in Nat, NEW last \in Nat,
         Stream(s, from, first, last),
         \/ from > 0 /\ n <= from
         \/ from = 0 /\ n = 1 /\ s[1] \in {Char("+"), Char("-")}
  PROVE  LET d == Rules!Drop(s, n)
         IN \E g \in 0 .. Len(d) :
              /\ from = 0 => g = 0
              /\ Stream(d, g, first, last)
              /\ Packets(s, from) # {} => Packets(d, g) # {}
<1> DEFINE d == Rules!Drop(s, n)
           g == IF from = 0 THEN 0 ELSE from - n
<1>1. Len(s) \in Nat /\ n \in 0 .. Len(s) /\ from \in Nat /\ n \in Nat
  BY LenProperties, SMT
<1>2. ASSUME from = 0, NEW b \in 1 .. n, Intact(s, b) PROVE FALSE
  <2>1. b = 1 /\ s[1] \in {Char("+"), Char("-")}
    BY <1>1, <1>2, SMT
  <2>2. s[1] = Char("$")
    BY <1>2, <2>1 DEF Intact
  <2> QED BY <2>1, <2>2 DEF Char
<1>3. from = 0 \/ n <= from
  BY SMT
<1>4. /\ g \in 0 .. Len(d) /\ Debris(d, g) /\ Whole(d, g)
      /\ \A k \in Nat \ {0} :
           k \in Packets(d, g) <=> k + n \in Packets(s, from)
      /\ \A k \in Packets(d, g) : Number(d, k) = Number(s, k + n)
  BY <1>1, <1>2, <1>3, StreamMoved DEF Stream
<1> HIDE DEF d, g
<1>5. ASSUME NEW k \in Packets(s, from)
      PROVE  /\ k - n \in Packets(d, g) /\ k - n + n = k
             /\ Number(d, k - n) = Number(s, k)
  <2>1. k \in from + 1 .. Len(s) /\ Intact(s, k)
    BY DEF Packets
  <2>2. k > n
    <3>1. CASE from = 0
      <4>1. k <= n => k \in 1 .. n
        BY <1>1, <2>1, SMT
      <4> QED BY <1>1, <1>2, <2>1, <3>1, <4>1, SMT
    <3>2. CASE from # 0
      BY <1>1, <1>3, <2>1, <3>2, SMT
    <3> QED BY <3>1, <3>2
  <2>3. k - n \in Nat \ {0} /\ k - n + n = k
    BY <1>1, <2>1, <2>2, SMT
  <2> QED BY <1>4, <2>3
<1>6. ASSUME NEW k \in Packets(d, g)
      PROVE  /\ k \in Nat \ {0} /\ k + n \in Packets(s, from)
             /\ Number(d, k) = Number(s, k + n)
  <2>1. k \in g + 1 .. Len(d)
    BY DEF Packets
  <2>2. g \in Nat
    BY <1>1, <1>3, SMT DEF g
  <2>3. k \in Nat \ {0}
    BY <2>1, <2>2, SMT
  <2> QED BY <1>4, <2>3
<1>7. Numbered(d, g, first, last)
  <2>0. Numbered(s, from, first, last)
    BY DEF Stream
  <2>1. \A k \in Packets(d, g) : Number(d, k) \in first .. last
    BY <1>6, <2>0 DEF Numbered
  <2>2. ASSUME NEW k \in Packets(d, g), NEW l \in Packets(d, g), k <= l
        PROVE  Number(d, k) <= Number(d, l)
    <3>1. k + n <= l + n
      BY <1>1, <1>6, <2>2, SMT
    <3> QED BY <1>6, <2>0, <3>1 DEF Numbered
  <2>3. \A i \in first + 1 .. last :
          \E k \in Packets(d, g) : Number(d, k) = i
    BY <1>5, <2>0 DEF Numbered
  <2> QED BY <2>1, <2>2, <2>3 DEF Numbered
<1>8. Packets(s, from) # {} => Packets(d, g) # {}
  BY <1>5
<1>9. from = 0 => g = 0
  BY DEF g
<1> QED BY <1>4, <1>7, <1>8, <1>9 DEF Stream, d

\* The token at the head is an intact packet.
LEMMA StreamAccepts ==
  ASSUME NEW s \in Seq(Character), NEW from \in 0 .. Len(s),
         NEW first \in Nat, NEW last \in Nat,
         Stream(s, from, first, last), Intact(s, 1)
  PROVE  LET d == Rules!Drop(s, 4)
             i == Number(s, 1)
         IN /\ from = 0 /\ i \in {first, first + 1} /\ i <= last
            /\ Stream(d, 0, i, last)
<1> DEFINE d == Rules!Drop(s, 4)
           i == Number(s, 1)
<1>1. Len(s) \in Nat /\ 4 \in 0 .. Len(s) /\ from \in Nat
  <2>1. Len(s) \in Nat
    BY LenProperties
  <2> QED BY <2>1, SMT DEF Intact
<1>2. from = 0
  <2>1. from # 0 => 1 \in 1 .. from
    BY <1>1, SMT
  <2> QED BY <2>1 DEF Stream, Debris
<1>3. /\ s[2] # Char("$") /\ s[3] # Char("$") /\ s[4] # Char("$")
      /\ i \in Request
  <2>1. 1 \in Nat \ {0} /\ {1, 2, 3} \subseteq 1 .. 3 /\ 1 + 1 = 2
        /\ 1 + 2 = 3 /\ 1 + 3 = 4
    BY SMT
  <2> QED BY <2>1, IntactIs
<1>4. ASSUME NEW b \in 1 .. 4, Intact(s, b) PROVE b = 1 /\ b + 3 <= 4
  <2>1. s[b] = Char("$")
    BY <1>4 DEF Intact
  <2>2. b = 1 \/ b = 2 \/ b = 3 \/ b = 4
    BY SMT
  <2>3. b = 1
    BY <1>3, <2>1, <2>2
  <2> QED BY <2>3, SMT
<1>5. /\ Debris(d, 0) /\ Whole(d, 0)
      /\ \A k \in Nat \ {0} : k \in Packets(d, 0) <=> k + 4 \in Packets(s, 0)
      /\ \A k \in Packets(d, 0) : Number(d, k) = Number(s, k + 4)
  BY <1>1, <1>2, <1>4, StreamMoved DEF Stream
<1> HIDE DEF d
<1>6. Numbered(s, 0, first, last)
  BY <1>2 DEF Stream
<1>7. 1 \in Packets(s, 0)
  <2>1. 1 \in 0 + 1 .. Len(s)
    BY <1>1, SMT
  <2> QED BY <2>1 DEF Packets
<1>8. i \in first .. last
  BY <1>6, <1>7 DEF Numbered
<1>9. ASSUME NEW k \in Packets(s, 0)
      PROVE  k \in Nat \ {0} /\ i <= Number(s, k)
  <2>1. k \in 0 + 1 .. Len(s)
    BY DEF Packets
  <2>2. k \in Nat \ {0} /\ 1 <= k
    BY <1>1, <2>1, SMT
  <2> QED BY <1>6, <1>7, <2>2 DEF Numbered
<1>10. i \in {first, first + 1}
  <2>1. CASE i > first
    <3>1. first + 1 \in first + 1 .. last
      BY <1>8, <2>1, SMT
    <3>2. PICK k \in Packets(s, 0) : Number(s, k) = first + 1
      BY <1>6, <3>1 DEF Numbered
    <3>3. i <= first + 1
      BY <1>9, <3>2
    <3> HIDE DEF i
    <3> QED BY <1>8, <2>1, <3>3, SMT
  <2> HIDE DEF i
  <2> QED BY <1>8, <2>1, SMT
<1>11. ASSUME NEW k \in Packets(d, 0)
       PROVE  /\ k \in Nat \ {0} /\ k + 4 \in Packets(s, 0)
              /\ Number(d, k) = Number(s, k + 4)
  <2>1. k \in 0 + 1 .. Len(d)
    BY DEF Packets
  <2>2. k \in Nat \ {0}
    BY <2>1, SMT
  <2> QED BY <1>5, <2>2
<1>12. Numbered(d, 0, i, last)
  <2>1. ASSUME NEW k \in Packets(d, 0) PROVE Number(d, k) \in i .. last
    <3>1. Number(d, k) \in first .. last /\ i <= Number(d, k)
      BY <1>6, <1>9, <1>11 DEF Numbered
    <3> HIDE DEF i
    <3> QED BY <1>8, <3>1, SMT
  <2>2. ASSUME NEW k \in Packets(d, 0), NEW l \in Packets(d, 0), k <= l
        PROVE  Number(d, k) <= Number(d, l)
    <3>1. k + 4 <= l + 4
      BY <1>11, <2>2, SMT
    <3> QED BY <1>6, <1>11, <3>1 DEF Numbered
  <2>3. ASSUME NEW m \in i + 1 .. last
        PROVE  \E k \in Packets(d, 0) : Number(d, k) = m
    <3>1. m \in first + 1 .. last /\ m > i
      <4> HIDE DEF i
      <4> QED BY <1>8, SMT
    <3>2. PICK k \in Packets(s, 0) : Number(s, k) = m
      BY <1>6, <3>1 DEF Numbered
    <3>3. k > 4
      <4>1. k \in 1 .. Len(s) /\ Intact(s, k)
        BY <3>2 DEF Packets
      <4>2. k <= 4 => k \in 1 .. 4
        BY <1>1, <4>1, SMT
      <4>3. k <= 4 => Number(s, k) = i
        BY <1>4, <4>1, <4>2
      <4> HIDE DEF i
      <4> QED BY <1>1, <1>8, <3>1, <3>2, <4>1, <4>3, SMT
    <3>4. k - 4 \in Nat \ {0} /\ k - 4 + 4 = k
      BY <1>9, <3>3, SMT
    <3> QED BY <1>5, <3>2, <3>4
  <2> HIDE DEF i
  <2> QED BY <2>1, <2>2, <2>3 DEF Numbered
<1>13. i <= last
  <2> HIDE DEF i
  <2> QED BY <1>8, SMT
<1> QED BY <1>2, <1>5, <1>10, <1>12, <1>13 DEF Stream, d
-----------------------------------------------------------------------------
(***************************************************************************)
(* The token at the head of what the server has not consumed.              *)
(***************************************************************************)
ClassesOf(s) == [k \in DOMAIN s |-> s[k][1]]

LEMMA ClassesAre ==
  ASSUME NEW s \in Seq(Character)
  PROVE  /\ ClassesOf(s) \in Seq(Rules!Class \union {"body"})
         /\ Len(ClassesOf(s)) = Len(s) /\ Len(s) \in Nat
         /\ \A k \in 1 .. Len(s) : ClassesOf(s)[k] = s[k][1]
         /\ ClassesOf(s) = <<>> <=> s = <<>>
<1>1. DOMAIN s = 1 .. Len(s) /\ Len(s) \in Nat
  BY LenProperties
<1>2. \A k \in 1 .. Len(s) : s[k][1] \in Rules!Class \union {"body"}
  BY CharacterIs, ElementOfSeq
<1> DEFINE C == Rules!Class \union {"body"}
           c == [k \in 1 .. Len(s) |-> s[k][1]]
<1>3. c \in Seq(C)
  <2>1. c \in [1 .. Len(s) -> C]
    BY <1>2
  <2> QED BY <1>1, <2>1, SeqDef
<1>4. DOMAIN c = 1 .. Len(s)
  OBVIOUS
<1> HIDE DEF C
<1>5. Len(c) = Len(s)
  <2> HIDE DEF c
  <2>1. DOMAIN c = 1 .. Len(c) /\ Len(c) \in Nat
    BY <1>3, LenProperties
  <2> QED BY <1>1, <1>4, <2>1, SMT
<1>6. ClassesOf(s) = c
  BY <1>1 DEF ClassesOf
<1>7. \A k \in 1 .. Len(s) : c[k] = s[k][1]
  OBVIOUS
<1>8. c = <<>> <=> s = <<>>
  <2> HIDE DEF c
  <2> QED BY <1>3, <1>5, EmptySeq
<1> HIDE DEF c
<1> QED BY <1>1, <1>3, <1>5, <1>6, <1>7, <1>8 DEF C

LEMMA StopIs ==
  ASSUME NEW S, NEW c \in Seq(S), Rules!Stops(c) # {}
  PROVE  /\ Rules!Stop(c) \in Rules!Stops(c)
         /\ \A i \in Rules!Stops(c) : Rules!Stop(c) <= i
         /\ Rules!Stop(c) \in 2 .. Len(c)
         /\ c[Rules!Stop(c)] \in {"$", "#"}
<1>1. Len(c) \in Nat
  BY LenProperties
<1>2. Rules!Stops(c) \in SUBSET Nat
  BY <1>1, SMT DEF Rules!Stops
<1>3. \E m \in Rules!Stops(c) : \A i \in Rules!Stops(c) : m <= i
  BY <1>2, LeastNatural
<1>4. /\ Rules!Stop(c) \in Rules!Stops(c)
      /\ \A i \in Rules!Stops(c) : Rules!Stop(c) <= i
  BY <1>3 DEF Rules!Stop
<1> QED BY <1>4 DEF Rules!Stops

\* A packet ahead: it begins with "$", and a "#" with hexadecimal digits comes
\* before any other stop.
LEMMA AheadIs ==
  ASSUME NEW s \in Seq(Character), Rules!PacketAhead(ClassesOf(s))
  PROVE  LET c == ClassesOf(s)
             n == Rules!Stop(c)
         IN /\ n \in 2 .. Len(s) /\ n + 1 \in 1 .. Len(s)
            /\ s[1] = Char("$") /\ s[n] = Char("#") /\ s[n + 1][1] = "hex"
            /\ Rules!PacketLength(c) = n + 1
            /\ Rules!TokenOf(c) = [rule |-> "packet", length |-> n + 1]
            /\ \A i \in Rules!Stops(c) : n <= i
<1> DEFINE c == ClassesOf(s)
           n == Rules!Stop(c)
<1>1. /\ c \in Seq(Rules!Class \union {"body"})
      /\ Len(c) = Len(s) /\ Len(s) \in Nat
      /\ \A k \in 1 .. Len(s) : c[k] = s[k][1]
  BY ClassesAre
<1> HIDE DEF c
<1>2. /\ c[1] = "$" /\ Rules!Stops(c) # {} /\ c[n] = "#"
      /\ \A k \in n + 1 .. Rules!PacketLength(c) : k <= Len(c) => c[k] = "hex"
      /\ Rules!PacketLength(c) <= Len(c)
  BY DEF Rules!PacketAhead, Rules!Begun, c
<1>3. n \in 2 .. Len(c) /\ \A i \in Rules!Stops(c) : n <= i
  BY <1>1, <1>2, StopIs
<1>4. Rules!PacketLength(c) = n + 1
  BY DEF Rules!PacketLength
<1> HIDE DEF n
<1>5. /\ n \in 1 .. Len(s) /\ n + 1 \in 1 .. Len(s) /\ 1 \in 1 .. Len(s)
      /\ n + 1 \in n + 1 .. n + 1
  BY <1>1, <1>2, <1>3, <1>4, SMT
<1>6. c[n + 1] = "hex"
  BY <1>1, <1>2, <1>4, <1>5, SMT
<1>7. s[1] = Char("$") /\ s[n] = Char("#") /\ s[n + 1][1] = "hex"
  <2>1. s[1] \in Character /\ s[n] \in Character
    BY <1>5, ElementOfSeq
  <2>2. s[1][1] = "$" /\ s[n][1] = "#" /\ s[n + 1][1] = "hex"
    BY <1>1, <1>2, <1>5, <1>6
  <2> QED BY <2>1, <2>2, CharacterIs
<1>8. Rules!TokenOf(c) = [rule |-> "packet", length |-> n + 1]
  BY <1>4 DEF Rules!TokenOf, c
<1> QED BY <1>1, <1>3, <1>4, <1>5, <1>7, <1>8 DEF c, n

\* Every other token is one character.
LEMMA AloneIs ==
  ASSUME NEW s \in Seq(Character), ~Rules!PacketAhead(ClassesOf(s)), s # <<>>
  PROVE  LET t == Rules!TokenOf(ClassesOf(s))
         IN /\ t.length = 1 /\ t.rule # "packet"
            /\ t.rule = "ack" => s[1] = Char("+")
            /\ t.rule = "retransmission" => s[1] = Char("-")
            /\ s[1] = Char("+") => t.rule = "ack"
            /\ s[1] = Char("-") => t.rule = "retransmission"
<1> DEFINE c == ClassesOf(s)
           t == Rules!TokenOf(c)
<1>1. c[1] = s[1][1] /\ s[1] \in Character
  <2>1. Len(s) \in Nat /\ Len(s) # 0
    BY LenProperties, EmptySeq
  <2>2. 1 \in 1 .. Len(s)
    BY <2>1, SMT
  <2> QED BY <2>2, ClassesAre, ElementOfSeq
<1> HIDE DEF c
<1>2. t = [rule |-> Rules!Alone(c[1]), length |-> 1]
  BY DEF Rules!TokenOf, c
<1>3. /\ Rules!Alone(c[1]) # "packet"
      /\ Rules!Alone(c[1]) = "ack" <=> c[1] = "+"
      /\ Rules!Alone(c[1]) = "retransmission" <=> c[1] = "-"
  BY DEF Rules!Alone
<1>4. /\ s[1] = Char("+") <=> s[1][1] = "+"
      /\ s[1] = Char("-") <=> s[1][1] = "-"
  BY <1>1, CharacterIs DEF Char
<1> QED BY <1>1, <1>2, <1>3, <1>4 DEF c

LEMMA TokenLength ==
  ASSUME NEW s \in Seq(Character), s # <<>>
  PROVE  Rules!TokenOf(ClassesOf(s)).length \in 1 .. Len(s)
<1>1. Len(s) \in Nat /\ Len(s) # 0
  BY LenProperties, EmptySeq
<1>2. CASE Rules!PacketAhead(ClassesOf(s))
  BY <1>2, AheadIs
<1>3. CASE ~Rules!PacketAhead(ClassesOf(s))
  <2>1. 1 \in 1 .. Len(s)
    BY <1>1, SMT
  <2> QED BY <1>3, <2>1, AloneIs
<1> QED BY <1>2, <1>3

\* An intact packet is the next token.
LEMMA TokenIntact ==
  ASSUME NEW s \in Seq(Character), Intact(s, 1)
  PROVE  /\ Rules!PacketAhead(ClassesOf(s)) /\ Rules!Stop(ClassesOf(s)) = 3
         /\ Rules!TokenOf(ClassesOf(s)) = [rule |-> "packet", length |-> 4]
<1> DEFINE c == ClassesOf(s)
<1>1. /\ c \in Seq(Rules!Class \union {"body"})
      /\ Len(c) = Len(s) /\ Len(s) \in Nat /\ c # <<>>
      /\ \A k \in 1 .. Len(s) : c[k] = s[k][1]
  <2>1. Len(<<>>) = 0
    OBVIOUS
  <2>2. s # <<>>
    BY <2>1, SMT DEF Intact
  <2> QED BY <2>2, ClassesAre
<1>2. {1, 2, 3, 4} \subseteq 1 .. Len(s)
  BY <1>1, SMT DEF Intact
<1> HIDE DEF c
<1>3. /\ s[1] = Char("$") /\ s[3] = Char("#")
      /\ s[2] = <<"body", Number(s, 1)>> /\ s[4] = <<"hex", Number(s, 1)>>
  <2>1. 1 \in Nat \ {0} /\ 1 + 1 = 2 /\ 1 + 2 = 3 /\ 1 + 3 = 4
    BY SMT
  <2> QED BY <2>1, IntactIs
<1>4. c[1] = "$" /\ c[2] = "body" /\ c[3] = "#" /\ c[4] = "hex"
  BY <1>1, <1>2, <1>3 DEF Char
<1>5. 3 \in Rules!Stops(c)
  <2>1. 3 \in 2 .. Len(c)
    BY <1>1, <1>2, SMT
  <2> QED BY <1>4, <2>1 DEF Rules!Stops
<1>6. Rules!Stop(c) = 3
  <2>1. /\ Rules!Stop(c) <= 3 /\ Rules!Stop(c) \in 2 .. Len(c)
        /\ c[Rules!Stop(c)] \in {"$", "#"}
    BY <1>1, <1>5, StopIs
  <2>2. Rules!Stop(c) # 2
    BY <1>4, <2>1
  <2> QED BY <1>1, <2>1, <2>2, SMT
<1>7. Rules!PacketLength(c) = 4
  BY <1>6, SMT DEF Rules!PacketLength
<1>8. Rules!Begun(c)
  <2>1. \A k \in 3 + 1 .. 4 : c[k] = "hex"
    <3>1. \A k \in 3 + 1 .. 4 : k = 4
      BY SMT
    <3> QED BY <1>4, <3>1
  <2> QED BY <1>1, <1>4, <1>6, <1>7, <2>1 DEF Rules!Begun
<1>9. Rules!PacketAhead(c)
  <2>1. 4 <= Len(c)
    BY <1>1, <1>2, SMT
  <2> QED BY <1>5, <1>7, <1>8, <2>1 DEF Rules!PacketAhead
<1> QED BY <1>6, <1>7, <1>9 DEF Rules!TokenOf, c

\* What is left of a damaged beginning is scanned by itself: its last token
\* ends where the next packet starts.
LEMMA TokenDebris ==
  ASSUME NEW s \in Seq(Character), NEW from \in 1 .. Len(s),
         from < Len(s) => s[from + 1] = Char("$")
  PROVE  Rules!TokenOf(ClassesOf(s)).length \in 1 .. from
<1>1. Len(s) \in Nat /\ from \in Nat /\ 1 <= from /\ s # <<>>
  <2>1. Len(s) \in Nat /\ Len(<<>>) = 0
    BY LenProperties
  <2> QED BY <2>1, SMT
<1>2. CASE Rules!PacketAhead(ClassesOf(s))
  <2> DEFINE n == Rules!Stop(ClassesOf(s))
  <2>1. /\ n \in 2 .. Len(s) /\ n + 1 \in 1 .. Len(s)
        /\ s[n] = Char("#") /\ s[n + 1][1] = "hex"
        /\ Rules!TokenOf(ClassesOf(s)).length = n + 1
        /\ \A i \in Rules!Stops(ClassesOf(s)) : n <= i
    BY <1>2, AheadIs
  <2> HIDE DEF n
  <2>2. CASE from < Len(s)
    <3>1. n <= from + 1
      <4>1. from + 1 \in 1 .. Len(s) /\ from + 1 \in 2 .. Len(s)
        BY <1>1, <2>2, SMT
      <4>2. ClassesOf(s)[from + 1] = "$"
        BY <2>2, <4>1, ClassesAre DEF Char
      <4>3. from + 1 \in Rules!Stops(ClassesOf(s))
        BY <4>1, <4>2, ClassesAre DEF Rules!Stops
      <4> QED BY <2>1, <4>3
    <3>2. n # from + 1 /\ n + 1 # from + 1
      BY <2>1, <2>2 DEF Char
    <3> QED BY <1>1, <2>1, <3>1, <3>2, SMT
  <2>3. CASE ~(from < Len(s))
    BY <1>1, <2>1, <2>3, SMT
  <2> QED BY <2>2, <2>3
<1>3. CASE ~Rules!PacketAhead(ClassesOf(s))
  <2>1. 1 \in 1 .. from
    BY <1>1, SMT
  <2> QED BY <1>1, <1>3, <2>1, AloneIs
<1> QED BY <1>2, <1>3

\* As long as there is a packet, the scanner can tell what comes next.
LEMMA TokenNow ==
  ASSUME NEW s \in Seq(Character), NEW from \in 0 .. Len(s),
         NEW first \in Nat, NEW last \in Nat,
         Stream(s, from, first, last), Packets(s, from) # {}
  PROVE  s # <<>> /\ ~Rules!Open(ClassesOf(s))
<1> DEFINE c == ClassesOf(s)
<1>1. /\ c \in Seq(Rules!Class \union {"body"})
      /\ Len(c) = Len(s) /\ Len(s) \in Nat
      /\ \A k \in 1 .. Len(s) : c[k] = s[k][1]
      /\ from \in Nat
  <2>1. Len(s) \in Nat
    BY LenProperties
  <2> QED BY <2>1, ClassesAre, SMT
<1>2. from < Len(s)
  <2>1. PICK k \in from + 1 .. Len(s) : TRUE
    BY DEF Packets
  <2> QED BY <1>1, <2>1, SMT
<1>3. s # <<>>
  <2>1. Len(<<>>) = 0
    OBVIOUS
  <2> QED BY <1>1, <1>2, <2>1, SMT
<1> HIDE DEF c
<1>4. ASSUME Rules!Begun(c) PROVE Rules!PacketAhead(c)
  <2>1. c[1] = "$" /\ s[1] # Char("+") /\ s[1] # Char("-")
    <3>1. c[1] = "$" /\ 1 \in 1 .. Len(s)
      BY <1>1, <1>2, <1>4, SMT DEF Rules!Begun
    <3> QED BY <1>1, <3>1 DEF Char
  <2>2. CASE from = 0
    <3>1. 1 \in from + 1 .. Len(s)
      BY <1>1, <1>2, <2>2, SMT
    <3>2. PICK b \in from + 1 .. 1 : Intact(s, b)
      BY <2>1, <3>1 DEF Stream, Whole
    <3>3. b = 1
      BY <2>2, SMT
    <3> QED BY <3>2, <3>3, TokenIntact DEF c
  <2>3. CASE from # 0
    <3>1. from + 1 \in 1 .. Len(s) /\ from + 1 \in 2 .. Len(c) /\ from > 0
      BY <1>1, <1>2, <2>3, SMT
    <3>2. c[from + 1] = "$"
      BY <1>1, <1>2, <3>1 DEF Stream, Debris, Char
    <3>3. from + 1 \in Rules!Stops(c)
      BY <3>1, <3>2 DEF Rules!Stops
    <3>4. /\ Rules!Stop(c) <= from + 1 /\ Rules!Stop(c) \in 2 .. Len(c)
          /\ c[Rules!Stop(c)] = "#"
      <4>1. Rules!Stops(c) # {}
        BY <3>3
      <4> QED BY <1>1, <1>4, <3>3, <4>1, StopIs DEF Rules!Begun
    <3>5. Rules!Stop(c) # from + 1
      BY <3>2, <3>4
    <3>6. Rules!PacketLength(c) <= Len(c)
      BY <1>1, <1>2, <3>4, <3>5, SMT DEF Rules!PacketLength
    <3> QED BY <1>4, <3>3, <3>6 DEF Rules!PacketAhead
  <2> QED BY <2>2, <2>3
<1> QED BY <1>3, <1>4 DEF Rules!Open, c
-----------------------------------------------------------------------------
(***************************************************************************)
(* Steps of the link and of the scanner.                                   *)
(***************************************************************************)
LEMMA Scanned ==
  ASSUME toServer \in Seq(Character), NEW rule \in Rules!Rule, Scan(rule)
  PROVE  /\ gdb = "scan" /\ toServer # <<>>
         /\ rule = Rules!TokenOf(ClassesOf(toServer)).rule
         /\ \E n \in 1 .. Len(toServer) :
              /\ n = Rules!TokenOf(ClassesOf(toServer)).length
              /\ toServer' = Rules!Drop(toServer, n)
<1>1. Classes = ClassesOf(toServer)
  BY DEF Classes, ClassesOf
<1>2. rule # "none"
  BY DEF Rules!Rule
<1>3. toServer # <<>> /\ rule = Rules!TokenOf(Classes).rule
  BY <1>2 DEF Scan, Token
<1>4. Rules!TokenOf(Classes).length \in 1 .. Len(toServer)
  BY <1>1, <1>3, TokenLength
<1> QED BY <1>1, <1>3, <1>4 DEF Scan

\* The scanner can tell a packet whose checksum is right.
LEMMA ChecksumIs ==
  ASSUME toServer \in Seq(Character), Scan("packet"), ChecksumOk
  PROVE  /\ Intact(toServer, 1) /\ toServer[2][2] = Number(toServer, 1)
         /\ toServer' = Rules!Drop(toServer, 4)
<1>1. Classes = ClassesOf(toServer)
  BY DEF Classes, ClassesOf
<1>2. /\ toServer # <<>>
      /\ Rules!TokenOf(ClassesOf(toServer)).rule = "packet"
  <2>1. "packet" \in Rules!Rule
    BY DEF Rules!Rule
  <2> QED BY <2>1, Scanned
<1>3. Rules!PacketAhead(ClassesOf(toServer))
  BY <1>2, AloneIs
<1>4. /\ 3 + 1 \in 1 .. Len(toServer) /\ toServer[1] = Char("$")
      /\ toServer[3] = Char("#")
      /\ Rules!TokenOf(ClassesOf(toServer)).length = 3 + 1
  BY <1>1, <1>3, AheadIs DEF ChecksumOk
<1>5. Len(toServer) \in Nat
  BY LenProperties
<1>6. 2 \in 1 .. Len(toServer) /\ 1 + 3 <= Len(toServer)
      /\ 1 + 1 = 2 /\ 1 + 2 = 3 /\ 1 + 3 = 4 /\ 3 + 1 = 4
  BY <1>4, <1>5, SMT
<1>7. PICK i \in Request : toServer[2] = <<"body", i>>
  <2>1. toServer[2] \in Character
    BY <1>6, ElementOfSeq
  <2> QED BY <2>1, CharacterIs DEF ChecksumOk
<1>8. toServer[2][2] = i
  BY <1>7
<1>9. Intact(toServer, 1)
  BY <1>4, <1>6, <1>7, <1>8 DEF Intact, ChecksumOk
<1>10. toServer' = Rules!Drop(toServer, 4)
  BY <1>1, <1>4, <1>6 DEF Scan
<1> QED BY <1>6, <1>9, <1>10 DEF Number

\* What a write leaves: what is under way, the faults and the thread.
LEMMA Written ==
  ASSUME toClient \in Seq(Message), faults \in 0 .. MaxFaults,
         NEW u \in Seq(Message), NEW next \in {"scan", "handle", "done"},
         ToClient(u, next)
  PROVE  /\ toClient' \in Seq(Message)
         /\ faults' \in 0 .. MaxFaults /\ faults' \in {faults, faults + 1}
         /\ gdb' = next \/ (gdb' = "dead" /\ Closed)
         /\ faults' = faults /\ gdb' # "dead" =>
              toClient' = IF Closed THEN toClient ELSE toClient \o u
         /\ faults' # faults =>
              /\ ~Closed
              /\ \E k \in 1 .. Len(u) :
                   \/ toClient' = toClient \o Without(u, k)
                   \/ /\ u[k] \notin {Ack, Nak}
                      /\ toClient' = toClient \o [u EXCEPT ![k] = Noise]
<1>0. faults # faults + 1
  BY SMT
<1>1. CASE /\ gdb' = next /\ faults' = faults
           /\ toClient' = IF Closed THEN toClient ELSE toClient \o u
  BY <1>1, ConcatProperties
<1>2. ASSUME NEW k \in 1 .. Len(u), ~Closed, Fault, gdb' = next,
             \/ toClient' = toClient \o Without(u, k)
             \/ /\ u[k] \notin {Ack, Nak}
                /\ toClient' = toClient \o [u EXCEPT ![k] = Noise]
      PROVE  /\ toClient' \in Seq(Message)
             /\ faults' \in 0 .. MaxFaults /\ faults' = faults + 1
  <2>1. faults' \in 0 .. MaxFaults /\ faults' = faults + 1
    BY <1>2, SessionAssumption, SMT DEF Fault
  <2>2. Noise \in Message
    BY DEF Message
  <2>3. Without(u, k) \in Seq(Message) /\ [u EXCEPT ![k] = Noise] \in Seq(Message)
    BY <2>2, Shorter, ExceptSeq
  <2> QED BY <1>2, <2>1, <2>3, ConcatProperties
<1>3. CASE Closed /\ gdb' = "dead" /\ toClient' = toClient /\ faults' = faults
  BY <1>3
<1> QED BY <1>0, <1>1, <1>2, <1>3 DEF ToClient

LEMMA Sent ==
  ASSUME NEW S, toServer \in Seq(S), faults \in 0 .. MaxFaults, Junk \subseteq S,
         NEW u \in Seq(S), ToServer(u)
  PROVE  /\ toServer' \in Seq(S)
         /\ faults' \in 0 .. MaxFaults /\ faults' \in {faults, faults + 1}
         /\ faults' = faults => toServer' = toServer \o u
         /\ faults' # faults =>
              \E k \in 1 .. Len(u) :
                \/ toServer' = toServer \o Without(u, k)
                \/ \E c \in Junk : toServer' = toServer \o [u EXCEPT ![k] = c]
<1>0. faults # faults + 1
  BY SMT
<1>1. CASE toServer' = toServer \o u /\ faults' = faults
  BY <1>1, ConcatProperties
<1>2. ASSUME NEW k \in 1 .. Len(u), Fault,
             \/ toServer' = toServer \o Without(u, k)
             \/ \E c \in Junk : toServer' = toServer \o [u EXCEPT ![k] = c]
      PROVE  /\ toServer' \in Seq(S)
             /\ faults' \in 0 .. MaxFaults /\ faults' = faults + 1
  <2>1. faults' \in 0 .. MaxFaults /\ faults' = faults + 1
    BY <1>2, SessionAssumption, SMT DEF Fault
  <2>2. CASE toServer' = toServer \o Without(u, k)
    BY <2>1, <2>2, Shorter, ConcatProperties
  <2>3. ASSUME NEW c \in Junk, toServer' = toServer \o [u EXCEPT ![k] = c]
        PROVE  toServer' \in Seq(S)
    <3>1. [u EXCEPT ![k] = c] \in Seq(S)
      BY ExceptSeq
    <3> QED BY <2>3, <3>1, ConcatProperties
  <2> QED BY <1>2, <2>1, <2>2, <2>3
<1> QED BY <1>0, <1>1, <1>2 DEF ToServer
-----------------------------------------------------------------------------
(***************************************************************************)
(* What holds whatever the link does.                                      *)
(***************************************************************************)

\* The characters of the requests made so far.
Made(n) == {c \in Character : c[2] <= n}

\* Nothing is under way or executed that was not asked; the buffer holds the
\* answer to the last request executed.
Known ==
  /\ TypeOK
  /\ executed \in Seq(1 .. asked) /\ toServer \in Seq(Made(asked))
  /\ gdb = "handle" => serving \in 1 .. asked
  /\ \/ packet = <<>> /\ executed = <<>>
     \/ packet = <<Answer(Last, Reply(Letter[Last]))>> /\ executed # <<>>
  /\ phase \in {"ack", "answer"} => asked > 0
  /\ gdb = "done" => Closed

LEMMA MadeIs ==
  ASSUME NEW n \in Nat
  PROVE  /\ Plain \subseteq Made(n) /\ Junk \subseteq Made(n)
         /\ \A i \in Request : i <= n => Packet(i) \in Seq(Made(n))
         /\ \A x \in {"+", "-"} : <<Char(x)>> \in Seq(Made(n))
         /\ Made(n) \subseteq Character
         /\ \A m \in Nat : n <= m => Made(n) \subseteq Made(m)
<1>1. ASSUME NEW c \in Plain PROVE c \in Made(n)
  <2>1. PICK x \in {"$", "#", "+", "-", "hex", "other", "newline"} : c = <<x, 0>>
    BY DEF Plain, Char
  <2>2. c[2] = 0 /\ 0 <= n
    BY <2>1, SMT
  <2> QED BY <2>2 DEF Made, Character
<1>2. Junk \subseteq Made(n)
  BY <1>1, SessionAssumption
<1>3. ASSUME NEW i \in Request, i <= n PROVE Packet(i) \in Seq(Made(n))
  <2>1. Char("$") \in Made(n) /\ Char("#") \in Made(n)
    BY <1>1 DEF Plain
  <2>2. <<"body", i>> \in Made(n) /\ <<"hex", i>> \in Made(n)
    BY <1>3 DEF Made, Character
  <2> QED BY <2>1, <2>2 DEF Packet
<1>4. ASSUME NEW x \in {"+", "-"} PROVE <<Char(x)>> \in Seq(Made(n))
  <2>1. Char(x) \in Made(n)
    BY <1>1 DEF Plain
  <2> QED BY <2>1
<1>5. ASSUME NEW m \in Nat, n <= m, NEW c \in Made(n) PROVE c \in Made(m)
  <2>1. c \in Character /\ c[2] \in Nat /\ c[2] <= n
    BY CharacterIs DEF Made
  <2> QED BY <1>5, <2>1, SMT DEF Made
<1> QED BY <1>1, <1>2, <1>3, <1>4, <1>5 DEF Made

\* The numbers a session counts with.
LEMMA SessionTypes ==
  ASSUME Known
  PROVE  /\ asked \in Nat /\ asked <= MaxRequests /\ faults \in Nat
         /\ tries \in Nat /\ errors \in Nat /\ MaxRequests \in Nat
         /\ Last \in 0 .. asked /\ (executed # <<>> => Last \in Request)
         /\ \A i \in 1 .. asked : i \in Request
         /\ phase \in {"ack", "answer"} => asked \in Request
         /\ packet \in Seq(Message) /\ Flush \in Seq(Message)
         /\ toServer \in Seq(Character)
<1>1. /\ asked \in Nat /\ asked <= MaxRequests /\ faults \in Nat
      /\ tries \in Nat /\ errors \in Nat /\ MaxRequests \in Nat
  BY SessionAssumption, SMT DEF Known, TypeOK
<1>2. \A i \in 1 .. asked : i \in Request
  BY <1>1, SMT DEF Request
<1>3. Last \in 0 .. asked /\ (executed # <<>> => Last \in 1 .. asked)
  <2>1. CASE executed = <<>>
    BY <1>1, <2>1, SMT DEF Last
  <2>2. CASE executed # <<>>
    <3>1. Len(executed) \in Nat /\ Len(executed) # 0
      BY <2>2, LenProperties, EmptySeq DEF Known
    <3>2. Len(executed) \in 1 .. Len(executed)
      BY <3>1, SMT
    <3>3. executed[Len(executed)] \in 1 .. asked
      BY <3>2, ElementOfSeq DEF Known
    <3>4. Last \in 1 .. asked
      BY <2>2, <3>3 DEF Last
    <3> QED BY <1>1, <3>4, SMT
  <2> QED BY <2>1, <2>2
<1>4. phase \in {"ack", "answer"} => asked \in Request
  BY <1>1, SMT DEF Known, Request
<1>5. packet \in Seq(Message)
  <2>1. CASE packet = <<>>
    BY <2>1, EmptySeq
  <2>2. CASE packet = <<Answer(Last, Reply(Letter[Last]))>> /\ executed # <<>>
    <3>1. Last \in Request /\ Letter[Last] \in Letters
      BY <1>2, <1>3, <2>2, SessionAssumption
    <3>2. Reply(Letter[Last]) \in Text
      BY <3>1 DEF Letters, Reply, Text
    <3>3. Answer(Last, Reply(Letter[Last])) \in Message
      BY <3>1, <3>2 DEF Message
    <3> QED BY <2>2, <3>3
  <2> QED BY <2>1, <2>2 DEF Known
<1>6. Flush \in Seq(Message)
  <2>1. Nak \in Message
    BY DEF Message
  <2> QED BY <2>1, EmptySeq DEF Flush
<1>7. toServer \in Seq(Character)
  BY DEF Known, TypeOK
<1> QED BY <1>1, <1>2, <1>3, <1>4, <1>5, <1>6, <1>7

LEMMA ReplyIs ==
  ASSUME NEW i \in Request
  PROVE  Answer(i, Reply(Letter[i])) \in Message
<1>1. Letter[i] \in Letters
  BY SessionAssumption
<1>2. Reply(Letter[i]) \in Text
  BY <1>1 DEF Letters, Reply, Text
<1> QED BY <1>2 DEF Message

LEMMA KnownInit == Init => Known
<1> SUFFICES ASSUME Init PROVE Known
  OBVIOUS
<1>1. 0 \in 0 .. MAX_ERROR_SIZE - 1 /\ 0 \in 0 .. MaxRequests
      /\ 0 \in 0 .. MaxTries /\ 0 \in 0 .. MaxFaults
  BY SessionAssumption, SMT
<1> QED BY <1>1, EmptySeq DEF Init, Known, TypeOK

\* A token leaves what is known, whatever the scanner answers to it.
LEMMA ScanKeepsKnown ==
  ASSUME Known, NEW rule \in Rules!Rule, Scan(rule),
         NEW u \in Seq(Message), NEW next \in {"scan", "handle"},
         ToClient(u, next), errors' \in 0 .. MAX_ERROR_SIZE - 1,
         serving' \in Request \union {0},
         next = "handle" => serving' \in 1 .. asked,
         UNCHANGED <<packet, executed, client>>
  PROVE  Known'
<1>1. toClient \in Seq(Message) /\ faults \in 0 .. MaxFaults
  BY DEF Known, TypeOK
<1>2. /\ toClient' \in Seq(Message) /\ faults' \in 0 .. MaxFaults
      /\ gdb' = next \/ gdb' = "dead"
  BY <1>1, Written
<1>3. toServer' \in Seq(Made(asked)) /\ toServer' \in Seq(Character)
  <2>1. toServer \in Seq(Character) /\ toServer \in Seq(Made(asked))
    BY DEF Known, TypeOK
  <2>2. PICK n \in 1 .. Len(toServer) : toServer' = Rules!Drop(toServer, n)
    BY <2>1, Scanned
  <2>3. n \in 0 .. Len(toServer)
    BY <2>1, LenProperties, SMT
  <2> QED BY <2>1, <2>2, <2>3, CutOff
<1>4. UNCHANGED <<packet, executed, asked, phase, tries, taken, Last>>
  BY DEF client, Last
<1>5. TypeOK'
  BY <1>2, <1>3, <1>4 DEF Known, TypeOK
<1>6. gdb' = "handle" => serving' \in 1 .. asked
  BY <1>2
<1>7. gdb' # "done"
  BY <1>2
<1> QED BY <1>3, <1>4, <1>5, <1>6, <1>7 DEF Known

LEMMA TokensKeepKnown ==
  ASSUME Known,
         \/ ScanAck \/ ScanRetransmission \/ RefusePacket \/ AcceptPacket
         \/ ScanInvalid \/ ScanNewline
  PROVE  Known'
<1>1. /\ Flush \in Seq(Message) /\ packet \in Seq(Message) /\ errors \in Nat
      /\ toServer \in Seq(Character) /\ asked \in Nat
  BY SessionTypes
<1>2. /\ <<>> \in Seq(Message) /\ <<Ack>> \in Seq(Message)
      /\ <<Nak>> \in Seq(Message)
  <2>1. Ack \in Message /\ Nak \in Message
    BY DEF Message
  <2> QED BY <2>1, EmptySeq
<1>3. /\ Flush \o packet \in Seq(Message) /\ Flush \o <<Ack>> \in Seq(Message)
      /\ Flush \o <<Nak>> \in Seq(Message)
  BY <1>1, <1>2, ConcatProperties
<1>4. 0 \in 0 .. MAX_ERROR_SIZE - 1 /\ 1 \in 0 .. MAX_ERROR_SIZE - 1
  BY SessionAssumption, SMT
<1>5. serving \in Request \union {0}
  BY DEF Known, TypeOK
<1>6. {"ack", "retransmission", "packet", "invalid", "newline"} \subseteq Rules!Rule
  BY DEF Rules!Rule
<1>7. CASE ScanAck
  BY <1>1, <1>4, <1>5, <1>6, <1>7, ScanKeepsKnown DEF ScanAck
<1>8. CASE ScanRetransmission
  BY <1>3, <1>4, <1>5, <1>6, <1>8, ScanKeepsKnown DEF ScanRetransmission
<1>9. CASE RefusePacket
  BY <1>3, <1>4, <1>5, <1>6, <1>9, ScanKeepsKnown DEF RefusePacket
<1>10. CASE AcceptPacket
  <2>1. Intact(toServer, 1) /\ serving' = Number(toServer, 1)
    BY <1>1, <1>10, ChecksumIs DEF AcceptPacket
  <2>2. Number(toServer, 1) \in Request /\ 1 + 1 \in 1 .. Len(toServer)
    <3>1. 1 \in Nat \ {0}
      BY SMT
    <3> QED BY <1>1, <2>1, <3>1, IntactIs
  <2>3. Number(toServer, 1) <= asked
    BY <2>2, ElementOfSeq DEF Known, Made, Number
  <2>4. serving' \in Request \union {0} /\ serving' \in 1 .. asked
    BY <1>1, <2>1, <2>2, <2>3, SMT DEF Request
  <2> QED BY <1>3, <1>4, <1>6, <1>10, <2>4, ScanKeepsKnown DEF AcceptPacket
<1>11. CASE ScanInvalid
  <2>1. CASE errors > MAX_ERROR_SIZE - 2
    <3>1. ToClient(<<Nak>>, "scan") /\ errors' = 1
      BY <1>11, <2>1 DEF ScanInvalid
    <3> QED BY <1>2, <1>4, <1>5, <1>6, <1>11, <3>1, ScanKeepsKnown DEF ScanInvalid
  <2>2. CASE ~(errors > MAX_ERROR_SIZE - 2)
    <3>1. ToClient(<<>>, "scan") /\ errors' = errors + 1
      BY <1>11, <2>2 DEF ScanInvalid
    <3>2. errors' \in 0 .. MAX_ERROR_SIZE - 1
      BY <1>1, <2>2, <3>1, SessionAssumption, SMT
    <3> QED BY <1>2, <1>5, <1>6, <1>11, <3>1, <3>2, ScanKeepsKnown DEF ScanInvalid
  <2> QED BY <2>1, <2>2
<1>12. CASE ScanNewline
  <2>1. PICK n \in 1 .. Len(toServer) : toServer' = Rules!Drop(toServer, n)
    BY <1>1, <1>6, <1>12, Scanned DEF ScanNewline
  <2>2. n \in 0 .. Len(toServer)
    BY <1>1, LenProperties, SMT
  <2>3. toServer' \in Seq(Made(asked)) /\ toServer' \in Seq(Character)
    <3>1. toServer \in Seq(Made(asked))
      BY DEF Known
    <3> QED BY <1>1, <2>1, <2>2, <3>1, CutOff
  <2>4. UNCHANGED <<gdb, errors, serving, packet, executed, toClient, asked,
                    phase, tries, taken, faults, Last, Closed>>
    BY <1>12 DEF ScanNewline, server, client, Last, Closed
  <2>5. TypeOK'
    BY <2>3, <2>4 DEF Known, TypeOK
  <2> QED BY <2>3, <2>4, <2>5 DEF Known
<1> QED BY <1>7, <1>8, <1>9, <1>10, <1>11, <1>12

LEMMA ThreadKeepsKnown ==
  ASSUME Known, ScanEnd \/ Handle
  PROVE  Known'
<1>1. /\ Flush \in Seq(Message) /\ asked \in Nat /\ toClient \in Seq(Message)
      /\ faults \in 0 .. MaxFaults
  BY SessionTypes DEF Known, TypeOK
<1>2. CASE ScanEnd
  <2>1. /\ toClient' \in Seq(Message) /\ faults' \in 0 .. MaxFaults
        /\ gdb' = "done" \/ gdb' = "dead"
    BY <1>1, <1>2, Written DEF ScanEnd
  <2>2. UNCHANGED <<packet, executed, asked, phase, tries, taken, Last, Closed,
                    toServer, serving>>
    BY <1>2 DEF ScanEnd, client, Last, Closed
  <2>3. errors' \in 0 .. MAX_ERROR_SIZE - 1
    <3>1. errors' = 0
      BY <1>2 DEF ScanEnd
    <3> QED BY <3>1, SessionAssumption, SMT
  <2>4. TypeOK'
    BY <2>1, <2>2, <2>3 DEF Known, TypeOK
  <2>5. Closed
    BY <1>2 DEF ScanEnd
  <2> QED BY <2>1, <2>2, <2>4, <2>5 DEF Known
<1>3. CASE Handle
  <2> DEFINE answer == Answer(serving, Reply(Letter[serving]))
  <2>1. /\ gdb = "handle" /\ serving \in 1 .. asked /\ serving \in Request
        /\ executed' = Append(executed, serving) /\ packet' = <<answer>>
        /\ ToClient(<<answer>>, "scan")
        /\ UNCHANGED <<errors, serving, toServer, asked, phase, tries, taken>>
    <3>1. gdb = "handle" /\ serving \in 1 .. asked
      BY <1>3 DEF Handle, Known
    <3> QED BY <1>3, <3>1, SessionTypes DEF Handle, client
  <2>2. answer \in Message
    BY <2>1, ReplyIs
  <2> HIDE DEF answer
  <2>3. /\ toClient' \in Seq(Message) /\ faults' \in 0 .. MaxFaults
        /\ gdb' = "scan" \/ gdb' = "dead"
    <3>1. <<answer>> \in Seq(Message)
      BY <2>2
    <3> QED BY <1>1, <2>1, <3>1, Written
  <2>4. /\ executed' \in Seq(Request) /\ executed' \in Seq(1 .. asked)
        /\ executed' # <<>> /\ Last' = serving
    <3>1. executed \in Seq(Request) /\ executed \in Seq(1 .. asked)
      BY DEF Known, TypeOK
    <3>2. /\ executed' \in Seq(1 .. asked) /\ executed' \in Seq(Request)
          /\ executed' # <<>> /\ Len(executed') = Len(executed) + 1
          /\ executed'[Len(executed) + 1] = serving
      BY <2>1, <3>1, AppendProperties
    <3> QED BY <3>2 DEF Last
  <2>5. packet' = <<Answer(Last', Reply(Letter[Last']))>>
    BY <2>1, <2>4 DEF answer
  <2>6. packet'[1] = Answer(Last', Reply(Letter[Last']))
    BY <2>5
  <2>7. TypeOK'
    BY <2>1, <2>3, <2>4, <2>6 DEF Known, TypeOK
  <2> QED BY <2>1, <2>3, <2>4, <2>5, <2>7 DEF Known
<1> QED BY <1>2, <1>3

\* A step of the client leaves what is known if what it sends has been asked.
LEMMA ClientKeepsKnown ==
  ASSUME Known, UNCHANGED server,
         asked' \in {asked, asked + 1}, asked' <= MaxRequests,
         toServer' \in Seq(Made(asked')), toClient' \in Seq(Message),
         phase' \in {"idle", "ack", "answer", "closed", "given_up"},
         phase' \in {"ack", "answer"} => asked' > 0,
         tries' \in 0 .. MaxTries, taken' \in Seq(Request),
         faults' \in 0 .. MaxFaults, gdb = "done" => Closed'
  PROVE  Known'
<1>1. asked' \in Nat /\ asked \in Nat /\ asked <= asked' /\ asked' \in 0 .. MaxRequests
  BY SessionTypes, SMT
<1>2. UNCHANGED <<gdb, errors, serving, packet, executed, Last>>
  BY DEF server, Last
<1>3. toServer' \in Seq(Character)
  BY <1>1, MadeIs, SeqMonotonic
<1>4. TypeOK'
  BY <1>1, <1>2, <1>3 DEF Known, TypeOK
<1>5. 1 .. asked \subseteq 1 .. asked'
  BY <1>1, SMT
<1>6. executed' \in Seq(1 .. asked')
  <2>1. executed \in Seq(1 .. asked)
    BY DEF Known
  <2> QED BY <1>2, <1>5, <2>1, SeqMonotonic
<1>7. gdb' = "handle" => serving' \in 1 .. asked'
  BY <1>2, <1>5 DEF Known
<1> QED BY <1>2, <1>4, <1>6, <1>7 DEF Known

LEMMA RequestsKeepKnown ==
  ASSUME Known, gdb # "dead",
         Ask \/ Acknowledged \/ Refused \/ Ignore \/ Damaged \/ Take
  PROVE  Known'
<1>1. /\ asked \in Nat /\ asked <= MaxRequests /\ MaxRequests \in Nat
      /\ phase \in {"ack", "answer"} => asked \in Request /\ asked > 0
      /\ toServer \in Seq(Made(asked)) /\ toClient \in Seq(Message)
      /\ faults \in 0 .. MaxFaults /\ tries \in 0 .. MaxTries
      /\ taken \in Seq(Request) /\ Junk \subseteq Made(asked)
      /\ 0 \in 0 .. MaxTries
  <2>1. 0 \in 0 .. MaxTries
    BY SessionAssumption, SMT
  <2> QED BY <2>1, SessionTypes, MadeIs DEF Known, TypeOK
<1>2. ASSUME ~Closed PROVE gdb # "done"
  BY <1>2 DEF Known
<1>3. ASSUME toClient # <<>>, toClient' = Tail(toClient)
      PROVE  toClient' \in Seq(Message) /\ Head(toClient) \in Message
  BY <1>1, <1>3, HeadTailProperties
<1>4. ASSUME NEW u \in Seq(Made(asked)), ToServer(u)
      PROVE  toServer' \in Seq(Made(asked)) /\ faults' \in 0 .. MaxFaults
  BY <1>1, <1>4, Sent
<1>5. CASE Ask
  <2>1. /\ phase = "idle" /\ asked' = asked + 1 /\ phase' = "ack" /\ tries' = 0
        /\ ToServer(Packet(asked + 1)) /\ UNCHANGED <<server, toClient, taken>>
        /\ asked < MaxRequests
    BY <1>5 DEF Ask
  <2>2. asked + 1 \in Request /\ asked + 1 \in Nat /\ asked + 1 <= asked + 1
        /\ asked <= asked + 1 /\ asked' <= MaxRequests /\ asked' > 0
    BY <1>1, <2>1, SMT DEF Request
  <2>3. toServer \in Seq(Made(asked + 1))
    <3>1. Made(asked) \subseteq Made(asked + 1)
      BY <1>1, <2>2, MadeIs
    <3> QED BY <1>1, <3>1, SeqMonotonic
  <2>4. /\ Packet(asked + 1) \in Seq(Made(asked + 1))
        /\ Junk \subseteq Made(asked + 1)
    BY <2>2, MadeIs
  <2>5. toServer' \in Seq(Made(asked')) /\ faults' \in 0 .. MaxFaults
    BY <1>1, <2>1, <2>3, <2>4, Sent
  <2>6. gdb # "done"
    BY <1>2, <2>1 DEF Closed
  <2> QED BY <1>1, <2>1, <2>2, <2>5, <2>6, ClientKeepsKnown
<1>6. CASE Acknowledged
  <2>1. /\ phase = "ack" /\ phase' = "answer" /\ toClient # <<>>
        /\ toClient' = Tail(toClient) /\ tries' = 0
        /\ UNCHANGED <<server, asked, toServer, faults, taken>>
    BY <1>6 DEF Acknowledged, Read
  <2>2. gdb # "done"
    BY <1>2, <2>1 DEF Closed
  <2> QED BY <1>1, <1>3, <2>1, <2>2, ClientKeepsKnown
<1>7. CASE Refused
  <2>1. /\ phase = "ack" /\ phase' = "ack" /\ toClient # <<>>
        /\ toClient' = Tail(toClient) /\ ToServer(Packet(asked))
        /\ UNCHANGED <<server, asked, tries, taken>>
    BY <1>7 DEF Refused, Read
  <2>2. gdb # "done"
    BY <1>2, <2>1 DEF Closed
  <2>3. Packet(asked) \in Seq(Made(asked))
    <3>1. asked <= asked
      BY <1>1, SMT
    <3> QED BY <1>1, <2>1, <3>1, MadeIs
  <2> QED BY <1>1, <1>3, <1>4, <2>1, <2>2, <2>3, ClientKeepsKnown
<1>8. CASE Ignore
  <2>1. /\ phase \in {"ack", "answer"} /\ phase' = phase /\ toClient # <<>>
        /\ toClient' = Tail(toClient)
        /\ UNCHANGED <<server, asked, toServer, faults, tries, taken>>
    BY <1>8 DEF Ignore, Read
  <2>2. gdb # "done"
    BY <1>2, <2>1 DEF Closed
  <2> QED BY <1>1, <1>3, <2>1, <2>2, ClientKeepsKnown
<1>9. CASE Damaged
  <2>1. /\ phase = "answer" /\ phase' = "answer" /\ toClient # <<>>
        /\ toClient' = Tail(toClient) /\ ToServer(<<Char("-")>>)
        /\ UNCHANGED <<server, asked, tries, taken>>
    BY <1>9 DEF Damaged, Read
  <2>2. gdb # "done"
    BY <1>2, <2>1 DEF Closed
  <2>3. <<Char("-")>> \in Seq(Made(asked))
    BY <1>1, MadeIs
  <2> QED BY <1>1, <1>3, <1>4, <2>1, <2>2, <2>3, ClientKeepsKnown
<1>10. CASE Take
  <2>1. /\ phase = "answer" /\ phase' = "idle" /\ toClient # <<>>
        /\ toClient' = Tail(toClient) /\ ToServer(<<Char("+")>>)
        /\ taken' = Append(taken, Head(toClient)[2])
        /\ Head(toClient) \notin {Ack, Nak, Noise}
        /\ UNCHANGED <<server, asked, tries>>
    BY <1>10 DEF Take, Read
  <2>2. gdb # "done"
    BY <1>2, <2>1 DEF Closed
  <2>3. <<Char("+")>> \in Seq(Made(asked))
    BY <1>1, MadeIs
  <2>4. taken' \in Seq(Request)
    <3>1. PICK i \in Request, t \in Text : Head(toClient) = <<"answer", i, t>>
      BY <1>3, <2>1 DEF Message, Answer
    <3>2. Head(toClient)[2] = i
      BY <3>1
    <3> QED BY <1>1, <2>1, <3>2, AppendProperties
  <2> QED BY <1>1, <1>3, <1>4, <2>1, <2>2, <2>3, <2>4, ClientKeepsKnown
<1> QED BY <1>5, <1>6, <1>7, <1>8, <1>9, <1>10

LEMMA TimeOutsKeepKnown ==
  ASSUME Known, gdb # "dead", TimeOut \/ HastyTimeOut \/ GiveUp \/ Leave
  PROVE  Known'
<1>1. /\ asked \in Nat /\ asked <= MaxRequests
      /\ phase \in {"ack", "answer"} => asked \in Request /\ asked > 0
      /\ toServer \in Seq(Made(asked)) /\ toClient \in Seq(Message)
      /\ faults \in 0 .. MaxFaults /\ tries \in 0 .. MaxTries
      /\ taken \in Seq(Request) /\ Junk \subseteq Made(asked)
      /\ asked <= asked
  BY SessionTypes, MadeIs, SMT DEF Known, TypeOK
<1>2. ASSUME ~Closed PROVE gdb # "done"
  BY <1>2 DEF Known
<1>3. /\ <<Char("-")>> \in Seq(Made(asked))
      /\ phase = "ack" => Packet(asked) \in Seq(Made(asked))
  BY <1>1, MadeIs
<1>4. CASE TimeOut \/ HastyTimeOut
  <2>1. /\ phase \in {"ack", "answer"} /\ tries < MaxTries /\ tries' = tries + 1
        /\ UNCHANGED <<server, toClient, asked, phase, taken>>
    BY <1>4 DEF TimeOut, Retry, HastyTimeOut
  <2>2. tries' \in 0 .. MaxTries
    BY <1>1, <2>1, SessionAssumption, SMT
  <2>3. gdb # "done"
    BY <1>2, <2>1 DEF Closed
  <2>4. toServer' \in Seq(Made(asked)) /\ faults' \in 0 .. MaxFaults
    <3>1. CASE TimeOut
      <4>1. \/ phase = "ack" /\ ToServer(Packet(asked))
            \/ phase = "answer" /\ ToServer(<<Char("-")>>)
        BY <3>1 DEF TimeOut, Retry
      <4> QED BY <1>1, <1>3, <4>1, Sent
    <3>2. CASE HastyTimeOut
      <4>1. Fault /\ \/ phase = "ack" /\ toServer' = toServer \o Packet(asked)
                     \/ phase = "answer" /\ toServer' = Append(toServer, Char("-"))
        BY <3>2 DEF HastyTimeOut
      <4>2. faults' \in 0 .. MaxFaults
        BY <1>1, <4>1, SessionAssumption, SMT DEF Fault
      <4>3. Char("-") \in Made(asked)
        BY <1>1, MadeIs DEF Plain
      <4>4. CASE toServer' = toServer \o Packet(asked) /\ phase = "ack"
        BY <1>1, <1>3, <4>2, <4>4, ConcatProperties
      <4>5. CASE toServer' = Append(toServer, Char("-"))
        BY <1>1, <4>2, <4>3, <4>5, AppendProperties
      <4> QED BY <4>1, <4>4, <4>5
    <3> QED BY <1>4, <3>1, <3>2
  <2> QED BY <1>1, <2>1, <2>2, <2>3, <2>4, ClientKeepsKnown
<1>5. CASE GiveUp \/ Leave
  <2>1. /\ phase' \in {"given_up", "closed"}
        /\ UNCHANGED <<server, toServer, toClient, asked, tries, taken, faults>>
    BY <1>5 DEF GiveUp, Leave
  <2>2. Closed'
    BY <2>1 DEF Closed
  <2> QED BY <1>1, <2>1, <2>2, ClientKeepsKnown
<1> QED BY <1>4, <1>5

LEMMA KnownNext == Known /\ [Next]_vars => Known'
<1> SUFFICES ASSUME Known, [Next]_vars PROVE Known'
  OBVIOUS
<1>1. CASE UNCHANGED vars
  BY <1>1 DEF vars, Known, TypeOK, Last, Closed
<1>2. CASE GdbThread
  BY <1>2, TokensKeepKnown, ThreadKeepsKnown DEF GdbThread
<1>3. CASE gdb # "dead" /\ ClientStep
  BY <1>3, RequestsKeepKnown, TimeOutsKeepKnown DEF ClientStep, Wait
<1> QED BY <1>1, <1>2, <1>3 DEF Next, Ended

\* The buffer of invalid characters keeps room for the NUL that ends it, and
\* the packet buffer holds the answer to the last request executed, whatever
\* is lost or damaged on the link (scanner.l:42, 51; gdb_protocol.c:126-133).
THEOREM TypeCorrect == Spec => []TypeOK
<1>1. Spec => []Known
  BY KnownInit, KnownNext, PTL DEF Spec
<1>2. Known => TypeOK
  BY DEF Known
<1> QED BY <1>1, <1>2, PTL
-----------------------------------------------------------------------------
(***************************************************************************)
(* What one fault does to a session, and how it is mended.                 *)
(***************************************************************************)
Replies == Message \ {Ack, Nak, Noise}
Sound == Message \ {Noise}
Refusals == Message \ {Ack, Noise}

\* An answer is among the messages behind the k-th.
AnswerAfter(c, k) == \E m \in 1 .. Len(c) : m > k /\ c[m] \in Replies

\* The request that the thread has reached.
Current == IF gdb = "handle" THEN serving ELSE Last

\* An acknowledgement with an answer behind it, or an answer, will come.
AckComes ==
  \E k \in 1 .. Len(toClient) :
    toClient[k] = Ack /\ (gdb = "handle" \/ AnswerAfter(toClient, k))
AnswerComes == gdb = "handle" \/ AnswerAfter(toClient, 0)

\* Nothing has gone wrong: one request is under way, in one of four places.
Idle ==
  /\ phase \in {"idle", "closed"} /\ gdb \in {"scan", "done"}
  /\ toServer \in {<<>>, <<Char("+")>>} /\ toClient = <<>> /\ Last = asked

Asking ==
  /\ phase = "ack" /\ gdb = "scan" /\ Last = asked - 1 /\ toClient = <<>>
  /\ toServer \in {Packet(asked), <<Char("+")>> \o Packet(asked)}

Told == Answer(asked, Reply(Letter[asked]))

Handling ==
  /\ gdb = "handle" /\ serving = asked /\ Last = asked - 1 /\ toServer = <<>>
  /\ \/ phase = "ack" /\ toClient = <<Ack>>
     \/ phase = "answer" /\ toClient = <<>>

Answered ==
  /\ gdb = "scan" /\ Last = asked /\ asked > 0 /\ toServer = <<>>
  /\ \/ phase = "ack" /\ toClient = <<Ack, Told>>
     \/ phase = "answer" /\ toClient = <<Told>>

Calm ==
  /\ errors = 0 /\ tries = 0
  /\ Idle \/ Asking \/ Handling \/ Answered

\* What the client waits for is under way behind what is left of the fault.
LiveFrom(from) ==
  /\ Stream(toServer, from, Current, asked)
  /\ from > 0 =>
       phase # "answer" /\ gdb # "handle" /\ toClient \in Seq(Refusals)
  /\ phase = "ack" => Packets(toServer, from) # {} \/ AckComes
  /\ phase = "answer" => Packets(toServer, from) # {} \/ AnswerComes

Live ==
  /\ tries <= 1 /\ phase # "given_up" /\ toClient \in Seq(Sound)
  /\ gdb = "handle" => serving \in {Last, Last + 1}
  /\ \E from \in 0 .. Len(toServer) : LiveFrom(from)

\* The packet, its acknowledgement or its answer is lost; what is left of it
\* makes the server refuse, or a time-out the client ask again.
NoPacket(s) == \A k \in 1 .. Len(s) : ~Intact(s, k)

LostPacket ==
  /\ tries = 0 /\ phase = "ack" /\ gdb = "scan" /\ Last = asked - 1
  /\ NoPacket(toServer) /\ toClient \in Seq(Refusals)

LostAck ==
  /\ tries = 0 /\ phase = "ack" /\ toServer = <<>>
  /\ \/ gdb = "handle" /\ serving = asked /\ Last = asked - 1 /\ toClient = <<>>
     \/ gdb = "scan" /\ Last = asked /\ toClient \in {<<>>, <<Told>>}

LostAnswer ==
  /\ tries = 0 /\ toServer = <<>> /\ gdb = "scan" /\ Last = asked
  /\ \/ phase = "ack" /\ toClient \in {<<Ack>>, <<Ack, Noise>>}
     \/ phase = "answer" /\ toClient \in {<<>>, <<Noise>>}

AskedAgain ==
  /\ tries <= 1 /\ phase = "answer" /\ gdb = "scan" /\ Last = asked
  /\ toServer = <<Char("-")>> /\ toClient = <<>>

Mending == Live \/ LostPacket \/ LostAck \/ LostAnswer \/ AskedAgain

Mended ==
  /\ faults = 0 /\ gdb # "dead" => Calm
  /\ faults = 1 /\ gdb # "dead" => Mending
  /\ faults <= 1 => phase # "given_up"

(***************************************************************************)
(* Single messages and damaged packets.                                    *)
(***************************************************************************)
LEMMA ShorterLength ==
  ASSUME NEW S, NEW s \in Seq(S), NEW k \in 1 .. Len(s)
  PROVE  Len(Without(s, k)) = Len(s) - 1
<1>1. Len(s) \in Nat /\ k \in Int /\ k - 1 \in Int /\ k + 1 \in Int
  BY LenProperties, SMT
<1>2. /\ \A i \in 1 .. k - 1 : i \in 1 .. Len(s)
      /\ \A i \in k + 1 .. Len(s) : i \in 1 .. Len(s)
  BY <1>1, SMT
<1>3. /\ \A i \in 1 .. k - 1 : s[i] \in S
      /\ \A i \in k + 1 .. Len(s) : s[i] \in S
  BY <1>2, ElementOfSeq
<1>4. /\ SubSeq(s, 1, k - 1) \in Seq(S)
      /\ Len(SubSeq(s, 1, k - 1)) = IF 1 <= k - 1 THEN k - 1 - 1 + 1 ELSE 0
  <2>1. 1 \in Int
    BY SMT
  <2> QED BY <1>1, <1>3, <2>1, SubSeqProperties
<1>5. /\ SubSeq(s, k + 1, Len(s)) \in Seq(S)
      /\ Len(SubSeq(s, k + 1, Len(s)))
           = IF k + 1 <= Len(s) THEN Len(s) - (k + 1) + 1 ELSE 0
  <2>1. Len(s) \in Int
    BY <1>1, SMT
  <2> QED BY <1>1, <1>3, <2>1, SubSeqProperties
<1>6. Len(Without(s, k))
        = Len(SubSeq(s, 1, k - 1)) + Len(SubSeq(s, k + 1, Len(s)))
  BY <1>4, <1>5, ConcatProperties DEF Without
<1> DEFINE a == Len(SubSeq(s, 1, k - 1))
           b == Len(SubSeq(s, k + 1, Len(s)))
<1>7. /\ a = IF 1 <= k - 1 THEN k - 1 - 1 + 1 ELSE 0
      /\ b = IF k + 1 <= Len(s) THEN Len(s) - (k + 1) + 1 ELSE 0
  BY <1>4, <1>5
<1> HIDE DEF a, b
<1>8. ASSUME NEW n \in Nat, n = Len(s) PROVE a + b = n - 1
  <2>1. /\ a = IF 1 <= k - 1 THEN k - 1 - 1 + 1 ELSE 0
        /\ b = IF k + 1 <= n THEN n - (k + 1) + 1 ELSE 0
        /\ k \in 1 .. n
    BY <1>7, <1>8
  <2> QED BY <2>1, SMT
<1>9. a + b = Len(s) - 1
  BY <1>1, <1>8
<1> QED BY <1>6, <1>9 DEF a, b

\* One message, lost or damaged.
LEMMA SingleIs ==
  ASSUME NEW S, NEW x \in S, NEW y \in S, NEW k \in 1 .. Len(<<x>>)
  PROVE  /\ k = 1 /\ <<x>> \in Seq(S) /\ <<x>>[k] = x
         /\ Without(<<x>>, k) = <<>> /\ [<<x>> EXCEPT ![k] = y] = <<y>>
<1>1. <<x>> \in Seq(S) /\ Len(<<x>>) = 1 /\ <<x>>[1] = x
  OBVIOUS
<1>2. k = 1
  BY <1>1, SMT
<1>3. Without(<<x>>, k) = <<>>
  <2>1. Len(Without(<<x>>, k)) = 0
    <3>1. Len(Without(<<x>>, k)) = Len(<<x>>) - 1
      BY <1>1, ShorterLength
    <3> QED BY <1>1, <3>1, SMT
  <2>2. Without(<<x>>, k) \in Seq(S)
    BY <1>1, Shorter
  <2> QED BY <2>1, <2>2, EmptySeq
<1>4. [<<x>> EXCEPT ![k] = y] = <<y>>
  BY <1>2
<1> QED BY <1>1, <1>2, <1>3, <1>4

LEMMA Changed ==
  ASSUME NEW S, NEW s \in Seq(S), NEW k \in 1 .. Len(s), NEW c \in S,
         NEW t, t = [s EXCEPT ![k] = c]
  PROVE  /\ t \in Seq(S) /\ Len(t) = Len(s) /\ t[k] = c
         /\ \A l \in 1 .. Len(s) : l # k => t[l] = s[l]
<1>1. DOMAIN s = 1 .. Len(s)
  BY LenProperties
<1> QED BY <1>1, ExceptSeq

\* A packet behind at most one sign.
LEMMA IntactBehind ==
  ASSUME NEW s \in {<<>>, <<Char("+")>>}, NEW v \in Seq(Character),
         NEW p \in Nat \ {0}, Intact(s \o v, p)
  PROVE  p > Len(s) /\ Intact(v, p - Len(s))
<1>1. s \in Seq(Character) /\ (s # <<>> => Len(s) = 1 /\ s[1] = Char("+"))
  BY SignIs, EmptySeq
<1>2. /\ Len(s) \in Nat /\ Len(v) \in Nat
      /\ Len(s \o v) = Len(s) + Len(v) /\ s \o v \in Seq(Character)
      /\ \A k \in 1 .. Len(s) : (s \o v)[k] = s[k]
      /\ \A k \in 1 .. Len(v) : (s \o v)[Len(s) + k] = v[k]
  BY <1>1, Joined
<1>3. Len(s) <= 1
  <2>1. Len(<<>>) = 0
    OBVIOUS
  <2>2. Len(s) = 0 \/ Len(s) = 1
    BY <1>1, <2>1
  <2> QED BY <1>2, <2>2, SMT
<1>4. p > Len(s)
  <2>1. CASE p <= Len(s)
    <3>1. p = 1 /\ p \in 1 .. Len(s) /\ Len(s) = 1
      BY <1>2, <1>3, <2>1, SMT
    <3>2. (s \o v)[p] = Char("+")
      <4>1. Len(<<>>) = 0
        OBVIOUS
      <4> QED BY <1>1, <1>2, <3>1, <4>1
    <3> QED BY <3>2 DEF Intact, Char
  <2> QED BY <1>2, <2>1, SMT
<1> DEFINE q == p - Len(s)
           u == s \o v
<1>5. /\ q \in Nat \ {0} /\ Len(s) + q = p /\ Len(s) + (q + 1) = p + 1
      /\ Len(s) + (q + 2) = p + 2 /\ Len(s) + (q + 3) = p + 3
  BY <1>2, <1>4, SMT
<1>6. p + 3 <= Len(u)
  BY DEF Intact
<1>7. {q, q + 1, q + 2, q + 3} \subseteq 1 .. Len(v) /\ q + 3 <= Len(v)
  <2> HIDE DEF u
  <2>1. Len(u) = Len(s) + Len(v)
    BY <1>2 DEF u
  <2> QED BY <1>2, <1>4, <1>6, <2>1, SMT
<1>8. /\ u[p] = v[q] /\ u[p + 1] = v[q + 1] /\ u[p + 2] = v[q + 2]
      /\ u[p + 3] = v[q + 3]
  <2> HIDE DEF q
  <2> QED BY <1>2, <1>5, <1>7
<1> HIDE DEF q
<1>9. Intact(v, q)
  BY <1>7, <1>8 DEF Intact
<1> QED BY <1>4, <1>9 DEF q

\* A packet of which a character is lost or has become another is none.
LEMMA PacketDamaged ==
  ASSUME NEW s \in {<<>>, <<Char("+")>>}, NEW i \in Request, NEW k \in 1 .. 4,
         NEW v,
         \/ v = Without(Packet(i), k)
         \/ \E c \in Junk : c # Packet(i)[k] /\ v = [Packet(i) EXCEPT ![k] = c]
  PROVE  v \in Seq(Character) /\ s \o v \in Seq(Character) /\ NoPacket(s \o v)
<1>1. /\ Packet(i) \in Seq(Character) /\ Len(Packet(i)) = 4
      /\ Packet(i)[1] = Char("$") /\ Packet(i)[2] = <<"body", i>>
      /\ Packet(i)[3] = Char("#") /\ Packet(i)[4] = <<"hex", i>>
  BY PacketIs
<1>2. s \in Seq(Character)
  BY SignIs, EmptySeq
<1>3. CASE v = Without(Packet(i), k)
  <2>1. v \in Seq(Character) /\ Len(v) = 3
    <3>1. ASSUME NEW w \in Seq(Character), Len(w) = 4
          PROVE  Without(w, k) \in Seq(Character) /\ Len(Without(w, k)) = 3
      <4>1. k \in 1 .. Len(w)
        BY <3>1
      <4>2. Len(Without(w, k)) = Len(w) - 1 /\ Without(w, k) \in Seq(Character)
        BY <4>1, Shorter, ShorterLength
      <4> QED BY <3>1, <4>2, SMT
    <3> QED BY <1>1, <1>3, <3>1
  <2>2. ASSUME NEW p \in 1 .. Len(s \o v), Intact(s \o v, p) PROVE FALSE
    <3>1. p \in Nat \ {0}
      BY SMT
    <3>2. p > Len(s) /\ Intact(v, p - Len(s))
      BY <2>1, <2>2, <3>1, IntactBehind
    <3>3. p - Len(s) + 3 <= 3
      BY <2>1, <3>2 DEF Intact
    <3>4. Len(s) \in Nat
      BY <1>2, LenProperties
    <3> QED BY <3>1, <3>2, <3>3, <3>4, SMT
  <2> QED BY <1>2, <2>1, <2>2, ConcatProperties DEF NoPacket
<1>4. ASSUME NEW c \in Junk, c # Packet(i)[k], v = [Packet(i) EXCEPT ![k] = c]
      PROVE  v \in Seq(Character) /\ s \o v \in Seq(Character) /\ NoPacket(s \o v)
  <2>1. PICK x \in {"$", "#", "+", "-", "hex", "other", "newline"} : c = <<x, 0>>
    BY SessionAssumption DEF Plain, Char
  <2>2. c \in Character /\ c[1] # "body" /\ c[2] = 0
    <3>1. c \in Character
      BY SessionAssumption DEF Character
    <3> QED BY <2>1, <3>1
  <2>3. /\ v \in Seq(Character) /\ Len(v) = 4 /\ v[k] = c
        /\ \A l \in 1 .. 4 : l # k => v[l] = Packet(i)[l]
    <3>1. ASSUME NEW w \in Seq(Character), Len(w) = 4, v = [w EXCEPT ![k] = c]
          PROVE  /\ v \in Seq(Character) /\ Len(v) = 4 /\ v[k] = c
                 /\ \A l \in 1 .. 4 : l # k => v[l] = w[l]
      <4>1. k \in 1 .. Len(w) /\ DOMAIN w = 1 .. 4
        BY <3>1, LenProperties
      <4>2. c \in Character
        BY <2>2
      <4>3. /\ v \in Seq(Character) /\ Len(v) = Len(w) /\ v[k] = c
            /\ \A l \in 1 .. Len(w) : l # k => v[l] = w[l]
        <5>1. c \in Character /\ w \in Seq(Character) /\ k \in 1 .. Len(w)
          BY <4>1, <4>2
        <5>2. v = [w EXCEPT ![k] = c]
          BY <3>1
        <5> QED BY ONLY <5>1, <5>2, Changed
      <4> QED BY <3>1, <4>3
    <3> QED BY <1>1, <1>4, <3>1
  <2>4. ASSUME Intact(v, 1) PROVE FALSE
    <3>1. /\ v[1] = Char("$") /\ v[3] = Char("#")
          /\ \E m \in Request : v[2] = <<"body", m>> /\ v[4] = <<"hex", m>>
      <4>1. 1 + 1 = 2 /\ 1 + 2 = 3 /\ 1 + 3 = 4
        BY SMT
      <4> QED BY <2>4, <4>1 DEF Intact
    <3>2. PICK m \in Request : v[2] = <<"body", m>> /\ v[4] = <<"hex", m>>
      BY <3>1
    <3>3. v[2][1] = "body" /\ v[4][2] = m /\ m # 0
      <4>1. 0 \notin Request
        BY SMT DEF Request
      <4> QED BY <3>2, <4>1
    <3>4. k \in {1, 2, 3, 4}
      BY SMT
    <3> QED BY <1>1, <1>4, <2>2, <2>3, <3>1, <3>3, <3>4
  <2>5. ASSUME NEW p \in 1 .. Len(s \o v), Intact(s \o v, p) PROVE FALSE
    <3>1. p \in Nat \ {0}
      BY SMT
    <3>2. p > Len(s) /\ Intact(v, p - Len(s))
      BY <2>3, <2>5, <3>1, IntactBehind
    <3>3. p - Len(s) + 3 <= 4
      BY <2>3, <3>2 DEF Intact
    <3>4. Len(s) \in Nat
      BY <1>2, LenProperties
    <3>5. p - Len(s) = 1
      BY <3>1, <3>2, <3>3, <3>4, SMT
    <3> QED BY <2>4, <3>2, <3>5
  <2> QED BY <1>2, <2>3, <2>5, ConcatProperties DEF NoPacket
<1> QED BY <1>3, <1>4

\* A sequence without a packet, and one sent behind it.
LEMMA StreamDebris ==
  ASSUME NEW s \in Seq(Character), NoPacket(s), NEW n \in Nat
  PROVE  /\ Len(s) \in 0 .. Len(s)
         /\ Stream(s, Len(s), n, n) /\ Packets(s, Len(s)) = {}
<1>1. Len(s) \in Nat /\ Len(s) \in 0 .. Len(s)
  BY LenProperties, SMT
<1>2. Len(s) + 1 .. Len(s) = {} /\ n + 1 .. n = {} /\ ~(Len(s) < Len(s))
  BY <1>1, SMT
<1>3. Packets(s, Len(s)) = {}
  BY <1>2 DEF Packets
<1> QED BY <1>1, <1>2, <1>3 DEF Stream, Debris, Whole, Numbered, NoPacket

LEMMA StreamEmpty ==
  ASSUME NEW n \in Nat
  PROVE  Stream(<<>>, 0, n, n) /\ NoPacket(<<>>) /\ Packets(<<>>, 0) = {}
<1>1. <<>> \in Seq(Character) /\ Len(<<>>) = 0
  BY EmptySeq
<1>2. NoPacket(<<>>)
  BY <1>1, SMT DEF NoPacket
<1> QED
  <2>1. ASSUME NEW s \in Seq(Character), NoPacket(s), Len(s) = 0
        PROVE  Stream(s, 0, n, n) /\ Packets(s, 0) = {}
    BY <2>1, StreamDebris
  <2> QED BY <1>1, <1>2, <2>1

LEMMA StreamRepeats ==
  ASSUME NEW s \in Seq(Character), NoPacket(s), NEW i \in Request,
         NEW n \in {i - 1, i}
  PROVE  LET u == s \o Packet(i)
         IN /\ Len(s) \in 0 .. Len(u) /\ u \in Seq(Character)
            /\ Stream(u, Len(s), n, i) /\ Packets(u, Len(s)) # {}
<1>1. n \in Nat /\ n <= i /\ (i = n \/ i = n + 1)
  BY SMT DEF Request
<1>2. Len(s) \in 0 .. Len(s) /\ Stream(s, Len(s), n, n)
  BY <1>1, StreamDebris
<1>3. /\ Stream(s \o Packet(i), Len(s), n, i)
      /\ Packets(s \o Packet(i), Len(s)) # {}
  BY <1>1, <1>2, StreamSends
<1>4. /\ Len(s \o Packet(i)) = Len(s) + 4 /\ s \o Packet(i) \in Seq(Character)
      /\ Len(s) \in Nat
  BY PacketAdded, PacketIs, ConcatProperties, LenProperties
<1>5. Len(s) \in 0 .. Len(s \o Packet(i))
  BY <1>4, SMT
<1> QED BY <1>3, <1>4, <1>5
-----------------------------------------------------------------------------
(***************************************************************************)
(* Messages.                                                               *)
(***************************************************************************)
LEMMA MessageKinds ==
  /\ Ack \in Sound /\ Nak \in Sound /\ Nak \in Refusals
  /\ Ack # Nak /\ Ack # Noise /\ Nak # Noise
  /\ Refusals \subseteq Sound /\ Replies \subseteq Refusals
  /\ Sound \subseteq Message /\ Noise \in Message /\ Ack \notin Refusals
  /\ \A i \in Request : Answer(i, Reply(Letter[i])) \in Replies
<1>1. Ack[1] = "+" /\ Nak[1] = "-" /\ Noise[1] = "noise"
  BY DEF Ack, Nak, Noise
<1>2. Ack # Nak /\ Ack # Noise /\ Nak # Noise
  BY <1>1
<1>3. ASSUME NEW i \in Request PROVE Answer(i, Reply(Letter[i])) \in Replies
  <2>1. Answer(i, Reply(Letter[i]))[1] = "answer"
    BY DEF Answer
  <2> QED BY <1>1, <2>1, ReplyIs DEF Replies
<1>4. Ack \in Message /\ Nak \in Message /\ Noise \in Message
  BY DEF Message
<1> QED BY <1>2, <1>3, <1>4 DEF Sound, Refusals, Replies

LEMMA Two ==
  ASSUME NEW a, NEW b
  PROVE  <<a>> \o <<b>> = <<a, b>> /\ <<>> \o <<b>> = <<b>>
<1> DEFINE S == {a, b}
<1>1. /\ <<a>> \in Seq(S) /\ <<b>> \in Seq(S) /\ <<a, b>> \in Seq(S)
      /\ Len(<<a>>) = 1 /\ Len(<<b>>) = 1 /\ Len(<<a, b>>) = 2
      /\ <<a>>[1] = a /\ <<b>>[1] = b /\ <<a, b>>[1] = a /\ <<a, b>>[2] = b
  OBVIOUS
<1>2. ASSUME NEW s \in Seq(S), NEW t \in Seq(S), NEW u \in Seq(S),
             Len(s) = 1, Len(t) = 1, Len(u) = 2, s[1] = u[1], t[1] = u[2]
      PROVE  s \o t = u
  <2>1. /\ s \o t \in Seq(S) /\ Len(s \o t) = Len(s) + Len(t)
        /\ \A k \in 1 .. Len(s) : (s \o t)[k] = s[k]
        /\ \A k \in 1 .. Len(t) : (s \o t)[Len(s) + k] = t[k]
    BY Joined
  <2>2. 1 \in 1 .. 1 /\ 1 + 1 = 2
    BY SMT
  <2>3. Len(s \o t) = 2 /\ (s \o t)[1] = u[1] /\ (s \o t)[2] = u[2]
    BY <1>2, <2>1, <2>2
  <2>4. \A k \in 1 .. 2 : k = 1 \/ k = 2
    BY SMT
  <2> QED BY <1>2, <2>1, <2>3, <2>4, SeqEqual
<1>3. <<>> \o <<b>> = <<b>>
  BY <1>1, ConcatEmptySeq
<1> HIDE DEF S
<1> QED BY <1>1, <1>2, <1>3

LEMMA RepliesKept ==
  ASSUME NEW c \in Seq(Message), NEW u \in Seq(Message), NEW k
  PROVE  /\ AnswerAfter(c, k) => AnswerAfter(c \o u, k)
         /\ \A m \in 1 .. Len(c) : m \in 1 .. Len(c \o u) /\ (c \o u)[m] = c[m]
<1>1. /\ Len(c) \in Nat /\ Len(u) \in Nat /\ Len(c \o u) = Len(c) + Len(u)
      /\ \A m \in 1 .. Len(c) : (c \o u)[m] = c[m]
  BY Joined
<1>2. ASSUME NEW m \in 1 .. Len(c) PROVE m \in 1 .. Len(c \o u)
  BY <1>1, SMT
<1> QED BY <1>1, <1>2 DEF AnswerAfter

\* The messages behind the one that is read.
LEMMA RepliesRead ==
  ASSUME NEW c \in Seq(Message), c # <<>>
  PROVE  /\ AnswerAfter(c, 0) /\ c[1] \notin Replies => AnswerAfter(Tail(c), 0)
         /\ \A k \in 1 .. Len(c) :
              AnswerAfter(c, k) => AnswerAfter(Tail(c), k - 1)
         /\ \A k \in 1 .. Len(c) : k # 1 =>
              k - 1 \in 1 .. Len(Tail(c)) /\ Tail(c)[k - 1] = c[k]
         /\ Head(c) = c[1] /\ Head(c) \in Message
<1>1. /\ Len(c) \in Nat /\ Len(Tail(c)) = Len(c) - 1
      /\ \A i \in 1 .. Len(Tail(c)) : Tail(c)[i] = c[i + 1]
      /\ Head(c) \in Message
  BY HeadTailProperties, LenProperties
<1>2. ASSUME NEW k \in 1 .. Len(c), k # 1
      PROVE  k - 1 \in 1 .. Len(Tail(c)) /\ Tail(c)[k - 1] = c[k]
  <2>1. k - 1 \in 1 .. Len(Tail(c)) /\ k - 1 + 1 = k
    BY <1>1, <1>2, SMT
  <2> QED BY <1>1, <2>1
<1>3. ASSUME AnswerAfter(c, 0), c[1] \notin Replies PROVE AnswerAfter(Tail(c), 0)
  <2>1. PICK m \in 1 .. Len(c) : c[m] \in Replies
    BY <1>3 DEF AnswerAfter
  <2>2. m # 1
    BY <1>3, <2>1
  <2>3. m - 1 > 0
    BY <1>1, <2>2, SMT
  <2> QED BY <1>2, <2>1, <2>2, <2>3 DEF AnswerAfter
<1>4. ASSUME NEW k \in 1 .. Len(c), AnswerAfter(c, k)
      PROVE  AnswerAfter(Tail(c), k - 1)
  <2>1. PICK m \in 1 .. Len(c) : m > k /\ c[m] \in Replies
    BY <1>4 DEF AnswerAfter
  <2>2. m # 1 /\ m - 1 > k - 1
    BY <1>1, <2>1, SMT
  <2> QED BY <1>2, <2>1, <2>2 DEF AnswerAfter
<1>5. Head(c) = c[1]
  OBVIOUS
<1> QED BY <1>1, <1>2, <1>3, <1>4, <1>5

(***************************************************************************)
(* The steps that can be taken.                                            *)
(***************************************************************************)
ScanStep ==
  \/ ScanAck \/ ScanRetransmission \/ RefusePacket \/ AcceptPacket
  \/ ScanInvalid \/ ScanNewline

LEMMA StepsByPhase ==
  ASSUME ClientStep
  PROVE  \/ phase = "idle" /\ (Ask \/ Leave)
         \/ /\ phase = "ack"
            /\ \/ Acknowledged \/ Refused \/ Ignore \/ TimeOut \/ GiveUp
               \/ HastyTimeOut
         \/ /\ phase = "answer"
            /\ Ignore \/ Damaged \/ Take \/ TimeOut \/ GiveUp \/ HastyTimeOut
  BY DEF ClientStep, Wait, Ask, Leave, Acknowledged, Refused, Ignore, Damaged,
         Take, TimeOut, Retry, GiveUp, HastyTimeOut, Read

\* What the client does not read.
LEMMA ReadsMessage ==
  ASSUME toClient = <<>>, Acknowledged \/ Refused \/ Ignore \/ Damaged \/ Take
  PROVE  FALSE
  BY DEF Acknowledged, Refused, Ignore, Damaged, Take, Read

LEMMA ScanRule ==
  ASSUME ScanStep
  PROVE  /\ \E rule \in Rules!Rule : Scan(rule)
         /\ gdb = "scan"
  BY DEF ScanStep, ScanAck, ScanRetransmission, RefusePacket, AcceptPacket,
         ScanInvalid, ScanNewline, Rules!Rule, Scan

LEMMA EmptyScanned ==
  ASSUME toServer = <<>>, ScanStep
  PROVE  FALSE
<1>1. toServer \in Seq(Character)
  BY EmptySeq
<1> QED BY <1>1, ScanRule, Scanned

LEMMA SignScanned ==
  ASSUME toServer \in Seq(Character), toServer # <<>>,
         NEW x \in {"+", "-"}, toServer[1] = Char(x)
  PROVE  /\ Token # "none"
         /\ ScanStep => /\ x = "+" => ScanAck
                        /\ x = "-" => ScanRetransmission
                        /\ toServer' = Rules!Drop(toServer, 1)
<1>1. Classes = ClassesOf(toServer)
  BY DEF Classes, ClassesOf
<1>2. ~Rules!PacketAhead(ClassesOf(toServer))
  <2>1. Char(x) # Char("$")
    BY DEF Char
  <2> QED BY <2>1, AheadIs
<1>3. /\ x = "+" => Rules!TokenOf(ClassesOf(toServer)).rule = "ack"
      /\ x = "-" => Rules!TokenOf(ClassesOf(toServer)).rule = "retransmission"
      /\ Rules!TokenOf(ClassesOf(toServer)).length = 1
  BY <1>2, AloneIs
<1>4. ~Rules!Begun(Classes)
  <2>1. 1 \in 1 .. Len(toServer)
    <3>1. Len(toServer) \in Nat /\ Len(toServer) # 0
      BY LenProperties, EmptySeq
    <3> QED BY <3>1, SMT
  <2>2. Classes[1] = x
    BY <1>1, <2>1, ClassesAre DEF Char
  <2> QED BY <2>2 DEF Rules!Begun
<1>5. Token = Rules!TokenOf(Classes).rule
  BY <1>4 DEF Token, Rules!Open
<1>6. Token = "ack" \/ Token = "retransmission"
  BY <1>1, <1>3, <1>5
<1>7. ASSUME ScanStep
      PROVE  /\ x = "+" => ScanAck
             /\ x = "-" => ScanRetransmission
             /\ toServer' = Rules!Drop(toServer, 1)
  <2>1. \A rule \in Rules!Rule : Scan(rule) =>
          rule = Token /\ toServer' = Rules!Drop(toServer, 1)
    BY <1>1, <1>3 DEF Scan
  <2>2. toServer' = Rules!Drop(toServer, 1)
    BY <1>7, <2>1, ScanRule
  <2>3. x = "+" => ScanAck
    BY <1>1, <1>3, <1>5, <1>7 DEF ScanStep, ScanRetransmission, RefusePacket,
       AcceptPacket, ScanInvalid, ScanNewline, Scan
  <2>4. x = "-" => ScanRetransmission
    BY <1>1, <1>3, <1>5, <1>7 DEF ScanStep, ScanAck, RefusePacket,
       AcceptPacket, ScanInvalid, ScanNewline, Scan
  <2> QED BY <2>2, <2>3, <2>4
<1> QED BY <1>6, <1>7

LEMMA PacketScanned ==
  ASSUME toServer \in Seq(Character), Intact(toServer, 1)
  PROVE  /\ Token # "none"
         /\ ScanStep => /\ AcceptPacket /\ toServer' = Rules!Drop(toServer, 4)
                        /\ serving' = Number(toServer, 1)
<1>1. Classes = ClassesOf(toServer)
  BY DEF Classes, ClassesOf
<1>2. /\ Rules!PacketAhead(Classes) /\ Rules!Stop(Classes) = 3
      /\ Rules!TokenOf(Classes) = [rule |-> "packet", length |-> 4]
  BY <1>1, TokenIntact
<1>3. toServer # <<>>
  <2>1. Len(<<>>) = 0
    OBVIOUS
  <2> QED BY <2>1, SMT DEF Intact
<1>4. Token = "packet"
  BY <1>2, <1>3 DEF Token, Rules!Open
<1>5. ChecksumOk
  <2>1. 1 \in Nat \ {0} /\ 1 + 1 = 2 /\ 1 + 3 = 4
    BY SMT
  <2>2. /\ toServer[2] = <<"body", Number(toServer, 1)>>
        /\ toServer[4] = <<"hex", Number(toServer, 1)>>
    BY <2>1, IntactIs
  <2> QED BY <1>2, <2>2 DEF ChecksumOk
<1>6. ASSUME ScanStep
      PROVE  /\ AcceptPacket /\ toServer' = Rules!Drop(toServer, 4)
             /\ serving' = Number(toServer, 1)
  <2>1. AcceptPacket
    BY <1>4, <1>5, <1>6 DEF ScanStep, ScanAck, ScanRetransmission, RefusePacket,
       ScanInvalid, ScanNewline, Scan
  <2>2. Scan("packet") /\ serving' = toServer[2][2]
    BY <2>1 DEF AcceptPacket
  <2> QED BY <1>5, <2>1, <2>2, ChecksumIs
<1> QED BY <1>4, <1>6

\* Nothing is written.
LEMMA WrittenNothing ==
  ASSUME toClient \in Seq(Message), NEW next, ToClient(<<>>, next)
  PROVE  gdb' = next /\ faults' = faults /\ toClient' = toClient
<1>1. 1 .. Len(<<>>) = {}
  BY SMT
<1>2. toClient \o <<>> = toClient
  BY ConcatEmptySeq
<1> QED BY <1>1, <1>2 DEF ToClient

\* One message is written to a client that waits.
LEMMA WrittenOne ==
  ASSUME toClient \in Seq(Message), faults \in 0 .. MaxFaults, ~Closed,
         NEW x \in Message, NEW next \in {"scan", "handle", "done"},
         ToClient(<<x>>, next)
  PROVE  /\ gdb' = next
         /\ faults' = faults => toClient' = toClient \o <<x>>
         /\ faults' # faults =>
              \/ toClient' = toClient
              \/ x \notin {Ack, Nak} /\ toClient' = toClient \o <<Noise>>
<1>1. <<x>> \in Seq(Message) /\ Noise \in Message
  BY MessageKinds
<1>2. /\ gdb' = next \/ (gdb' = "dead" /\ Closed)
      /\ faults' = faults /\ gdb' # "dead" =>
           toClient' = IF Closed THEN toClient ELSE toClient \o <<x>>
      /\ faults' # faults =>
              /\ ~Closed
              /\ \E k \in 1 .. Len(<<x>>) :
                   \/ toClient' = toClient \o Without(<<x>>, k)
                   \/ /\ <<x>>[k] \notin {Ack, Nak}
                      /\ toClient' = toClient \o [<<x>> EXCEPT ![k] = Noise]
  BY <1>1, Written
<1>3. ASSUME NEW k \in 1 .. Len(<<x>>)
      PROVE  /\ <<x>>[k] = x /\ Without(<<x>>, k) = <<>>
             /\ [<<x>> EXCEPT ![k] = Noise] = <<Noise>>
  BY <1>1, SingleIs
<1>4. toClient \o <<>> = toClient
  BY ConcatEmptySeq
<1> QED BY <1>2, <1>3, <1>4

\* What the client waits for is there once it has asked again.
LEMMA LiveBehind ==
  ASSUME NEW s \in Seq(Character), NoPacket(s), asked' \in Request,
         toServer' = s \o Packet(asked'),
         Current' \in {asked' - 1, asked'}, tries' <= 1, phase' = "ack",
         gdb' = "scan", toClient' \in Seq(Refusals)
  PROVE  Live'
<1>1. /\ Len(s) \in 0 .. Len(toServer') /\ Packets(toServer', Len(s)) # {}
      /\ Stream(toServer', Len(s), Current', asked')
  BY StreamRepeats
<1>2. toClient' \in Seq(Sound)
  BY MessageKinds, SeqMonotonic
<1>3. LiveFrom(Len(s))'
  BY <1>1 DEF LiveFrom
<1> QED BY <1>1, <1>2, <1>3 DEF Live

LEMMA LiveNow ==
  ASSUME toServer' \in Seq(Character), tries' <= 1, phase' # "given_up",
         toClient' \in Seq(Sound), Stream(toServer', 0, Current', asked'),
         gdb' = "handle" => serving' \in {Last', Last' + 1},
         phase' = "ack" => Packets(toServer', 0) # {} \/ AckComes',
         phase' = "answer" => Packets(toServer', 0) # {} \/ AnswerComes'
  PROVE  Live'
<1>1. 0 \in 0 .. Len(toServer') /\ ~(0 > 0)
  BY LenProperties, SMT
<1>2. LiveFrom(0)'
  BY <1>1 DEF LiveFrom
<1> QED BY <1>1, <1>2 DEF Live
-----------------------------------------------------------------------------
(***************************************************************************)
(* Nothing has gone wrong so far.                                          *)
(***************************************************************************)
LEMMA DropSign ==
  ASSUME NEW x \in {"+", "-"}, NEW v \in Seq(Character)
  PROVE  /\ Rules!Drop(<<Char(x)>> \o v, 1) = v
         /\ Rules!Drop(<<Char(x)>>, 1) = <<>>
         /\ (<<Char(x)>> \o v)[1] = Char(x) /\ <<Char(x)>> \o v # <<>>
         /\ <<Char(x)>> \o v \in Seq(Character)
<1>1. /\ <<Char(x)>> \in Seq(Character) /\ Len(<<Char(x)>>) = 1
      /\ <<Char(x)>>[1] = Char(x)
  BY SignIs
<1>2. ASSUME NEW t \in Seq(Character), Len(t) = 1
      PROVE  /\ Rules!Drop(t \o v, 1) = v /\ Rules!Drop(t, 1) = <<>>
             /\ (t \o v)[1] = t[1] /\ t \o v # <<>>
             /\ t \o v \in Seq(Character)
  <2>1. /\ t \o v \in Seq(Character) /\ Len(t \o v) = Len(t) + Len(v)
        /\ Len(v) \in Nat
        /\ \A k \in 1 .. Len(t) : (t \o v)[k] = t[k]
        /\ \A k \in 1 .. Len(v) : (t \o v)[Len(t) + k] = v[k]
    BY Joined
  <2> DEFINE u == t \o v
  <2> HIDE DEF u
  <2>2. u \in Seq(Character) /\ Len(u) = 1 + Len(v)
    BY <1>2, <2>1 DEF u
  <2>3. 1 \in 0 .. Len(u) /\ Len(u) # 0 /\ Len(u) - 1 = Len(v)
    BY <2>1, <2>2, SMT
  <2>4. /\ Rules!Drop(u, 1) \in Seq(Character) /\ Len(Rules!Drop(u, 1)) = Len(v)
        /\ \A k \in 1 .. Len(v) : Rules!Drop(u, 1)[k] = u[k + 1]
    BY <2>2, <2>3, CutOff
  <2>5. ASSUME NEW k \in 1 .. Len(v) PROVE u[k + 1] = v[k]
    <3>1. Len(t) + k = k + 1
      BY <1>2, <2>1, SMT
    <3> QED BY <2>1, <3>1 DEF u
  <2>6. Rules!Drop(u, 1) = v
    BY <2>4, <2>5, SeqEqual
  <2>7. Rules!Drop(t, 1) = <<>>
    <3>1. 1 \in 0 .. Len(t) /\ Len(t) - 1 = 0
      BY <1>2, SMT
    <3>2. Rules!Drop(t, 1) \in Seq(Character) /\ Len(Rules!Drop(t, 1)) = 0
      BY <3>1, CutOff
    <3> QED BY <3>2, EmptySeq
  <2>8. u[1] = t[1]
    <3>1. 1 \in 1 .. Len(t)
      BY <1>2, SMT
    <3> QED BY <2>1, <3>1 DEF u
  <2>9. u # <<>>
    <3>1. Len(<<>>) = 0
      OBVIOUS
    <3> QED BY <2>3, <3>1
  <2> QED BY <2>2, <2>6, <2>7, <2>8, <2>9 DEF u
<1> QED BY <1>1, <1>2

LEMMA DropPacket ==
  ASSUME NEW i \in Request
  PROVE  /\ Rules!Drop(Packet(i), 4) = <<>>
         /\ Intact(Packet(i), 1) /\ Number(Packet(i), 1) = i
<1>1. /\ Packet(i) \in Seq(Character) /\ Len(Packet(i)) = 4
      /\ Packet(i)[1] = Char("$") /\ Packet(i)[2] = <<"body", i>>
      /\ Packet(i)[3] = Char("#") /\ Packet(i)[4] = <<"hex", i>>
  BY PacketIs
<1>2. ASSUME NEW t \in Seq(Character), Len(t) = 4,
             t[1] = Char("$"), t[2] = <<"body", i>>,
             t[3] = Char("#"), t[4] = <<"hex", i>>
      PROVE  Rules!Drop(t, 4) = <<>> /\ Intact(t, 1) /\ Number(t, 1) = i
  <2>1. /\ 4 \in 0 .. Len(t) /\ Len(t) - 4 = 0 /\ 1 + 1 = 2 /\ 1 + 2 = 3
        /\ 1 + 3 = 4 /\ 4 <= Len(t)
    BY <1>2, SMT
  <2>2. Rules!Drop(t, 4) \in Seq(Character) /\ Len(Rules!Drop(t, 4)) = 0
    BY <2>1, CutOff
  <2>3. Rules!Drop(t, 4) = <<>>
    BY <2>2, EmptySeq
  <2>4. <<"body", i>>[2] = i
    OBVIOUS
  <2> QED BY <1>2, <2>1, <2>3, <2>4 DEF Intact, Number
<1> QED BY <1>1, <1>2

\* The next step, as long as nothing has gone wrong or the first time it does.
Mends ==
  /\ faults' = 0 /\ gdb' # "dead" => Calm'
  /\ faults' = 1 /\ gdb' # "dead" => Mending'

LEMMA IdleStep ==
  ASSUME Known, Idle, errors = 0, tries = 0, faults = 0, gdb # "dead",
         GdbThread \/ ClientStep
  PROVE  Mends
<1>1. /\ toClient \in Seq(Message) /\ toClient = <<>> /\ Flush = <<>>
      /\ asked \in Nat /\ Last = asked /\ toServer \in Seq(Character)
      /\ gdb \in {"scan", "done"} /\ phase \in {"idle", "closed"}
      /\ toServer \in {<<>>, <<Char("+")>>} /\ faults \in 0 .. MaxFaults
  BY SessionTypes, SMT DEF Known, TypeOK, Idle, Flush
<1>2. CASE ScanStep
  <2>1. toServer = <<Char("+")>> /\ toServer[1] = Char("+") /\ toServer # <<>>
    <3>1. toServer # <<>>
      BY <1>2, EmptyScanned
    <3> QED BY <1>1, <3>1
  <2>2. ScanAck /\ toServer' = Rules!Drop(toServer, 1)
    BY <1>1, <1>2, <2>1, SignScanned
  <2>3. toServer' = <<>>
    <3>1. Rules!Drop(<<Char("+")>>, 1) = <<>>
      BY EmptySeq, DropSign
    <3> QED BY <2>1, <2>2, <3>1
  <2>4. /\ ToClient(<<>>, "scan") /\ errors' = 0
        /\ UNCHANGED <<executed, asked, phase, tries, Last>>
    BY <1>1, <2>2 DEF ScanAck, client, Last
  <2>5. gdb' = "scan" /\ faults' = 0 /\ toClient' = <<>>
    BY <1>1, <2>4, WrittenNothing
  <2> QED BY <1>1, <2>3, <2>4, <2>5 DEF Mends, Calm, Idle
<1>3. CASE ScanEnd
  <2>1. /\ ToClient(<<>>, "done") /\ errors' = 0
        /\ UNCHANGED <<executed, asked, phase, tries, Last, toServer>>
    BY <1>1, <1>3 DEF ScanEnd, client, Last
  <2>2. gdb' = "done" /\ faults' = 0 /\ toClient' = <<>>
    BY <1>1, <2>1, WrittenNothing
  <2> QED BY <1>1, <2>1, <2>2 DEF Mends, Calm, Idle
<1>4. CASE Handle
  BY <1>1, <1>4 DEF Handle
<1>5. CASE Leave
  <2>1. /\ phase' = "closed" /\ UNCHANGED <<gdb, errors, executed, Last, asked,
             toServer, toClient, tries, faults>>
    BY <1>5 DEF Leave, server, Last
  <2> QED BY <1>1, <2>1 DEF Mends, Calm, Idle
<1>6. CASE Ask
  <2>1. /\ phase = "idle" /\ asked' = asked + 1 /\ phase' = "ack" /\ tries' = 0
        /\ ToServer(Packet(asked + 1)) /\ asked < MaxRequests
        /\ UNCHANGED <<gdb, errors, executed, Last, toClient>>
    BY <1>6 DEF Ask, server, Last
  <2>2. gdb = "scan"
    <3>1. gdb # "done"
      BY <2>1 DEF Known, Closed
    <3> QED BY <1>1, <3>1
  <2>3. /\ asked + 1 \in Request /\ Last' = asked' - 1 /\ asked' \in Request
        /\ asked + 1 = asked'
    BY <1>1, <2>1, SessionAssumption, SMT DEF Request
  <2>4. Packet(asked') \in Seq(Character) /\ Len(Packet(asked')) = 4
    BY <2>3, PacketIs
  <2>5. Current' = asked' - 1 /\ toClient' = <<>> /\ gdb' = "scan"
    BY <1>1, <2>1, <2>2, <2>3 DEF Current
  <2>6. ASSUME faults' = 0 PROVE Calm'
    <3>1. toServer' = toServer \o Packet(asked')
      <4>1. faults' = faults
        BY <2>6
      <4>2. Junk \subseteq Character
        BY SessionAssumption DEF Character
      <4> QED BY <1>1, <2>1, <2>3, <2>4, <4>1, <4>2, Sent
    <3>2. <<>> \o Packet(asked') = Packet(asked')
      BY <2>4, ConcatEmptySeq
    <3>3. toServer' \in {Packet(asked'), <<Char("+")>> \o Packet(asked')}
      BY <1>1, <3>1, <3>2
    <3> QED BY <2>1, <2>3, <2>5, <3>3 DEF Calm, Asking
  <2>7. ASSUME faults' = 1 PROVE Mending'
    <3>1. <<>> \in Seq(Refusals)
      BY EmptySeq
    <3>2. PICK k \in 1 .. 4 :
            \/ toServer' = toServer \o Without(Packet(asked'), k)
            \/ \E c \in Junk :
                 toServer' = toServer \o [Packet(asked') EXCEPT ![k] = c]
      <4>1. faults' # faults
        BY <2>7
      <4>2. Junk \subseteq Character
        BY SessionAssumption DEF Character
      <4> QED BY <1>1, <2>1, <2>3, <2>4, <4>1, <4>2, Sent
    <3>3. ASSUME NoPacket(toServer') PROVE LostPacket'
      BY <2>1, <2>3, <2>5, <3>1, <3>3 DEF LostPacket
    <3>4. CASE toServer' = toServer \o Without(Packet(asked'), k)
      <4>1. NoPacket(toServer')
        BY <1>1, <2>3, <3>4, PacketDamaged
      <4> QED BY <3>3, <4>1 DEF Mending
    <3>5. ASSUME NEW c \in Junk,
                 toServer' = toServer \o [Packet(asked') EXCEPT ![k] = c]
          PROVE  Mending'
      <4>1. CASE c # Packet(asked')[k]
        <5> DEFINE v == [Packet(asked') EXCEPT ![k] = c]
        <5>1. \E d \in Junk : d # Packet(asked')[k]
                              /\ v = [Packet(asked') EXCEPT ![k] = d]
          BY <4>1
        <5>2. toServer' = toServer \o v
          BY <3>5
        <5> HIDE DEF v
        <5>3. NoPacket(toServer \o v)
          BY <1>1, <2>3, <5>1, PacketDamaged
        <5> QED BY <3>3, <5>2, <5>3 DEF Mending
      <4>2. CASE c = Packet(asked')[k]
        <5>1. ASSUME NEW w \in Seq(Character), NEW d, d = w[k]
              PROVE  [w EXCEPT ![k] = d] = w
          BY <5>1
        <5>2. toServer' = toServer \o Packet(asked')
          BY <2>4, <3>5, <4>2, <5>1
        <5>3. NoPacket(toServer)
          <6>1. toServer = <<>> \/ Len(toServer) = 1
            BY <1>1, SignIs
          <6>2. CASE Len(toServer) = 1
            BY <6>2, SMT DEF NoPacket, Intact
          <6> QED BY <6>1, <6>2, StreamEmpty
        <5>4. tries' <= 1
          BY <2>1, SMT
        <5>5. Live'
          BY <1>1, <2>1, <2>3, <2>5, <3>1, <5>2, <5>3, <5>4, LiveBehind
        <5> QED BY <5>5 DEF Mending
      <4> QED BY <4>1, <4>2
    <3> QED BY <3>2, <3>4, <3>5
  <2> QED BY <2>6, <2>7 DEF Mends
<1> QED
  <2>1. ClientStep => Ask \/ Leave
    BY <1>1, StepsByPhase
  <2>2. GdbThread => ScanStep \/ ScanEnd \/ Handle
    BY DEF GdbThread, ScanStep
  <2> QED BY <1>2, <1>3, <1>4, <1>5, <1>6, <2>1, <2>2

LEMMA AskingStep ==
  ASSUME Known, Asking, errors = 0, tries = 0, faults = 0,
         GdbThread \/ ClientStep
  PROVE  Mends
<1>1. /\ toClient \in Seq(Message) /\ toClient = <<>> /\ Flush = <<>>
      /\ asked \in Request /\ Last = asked - 1 /\ toServer \in Seq(Character)
      /\ gdb = "scan" /\ phase = "ack" /\ ~Closed /\ faults \in 0 .. MaxFaults
  BY SessionTypes DEF Known, TypeOK, Asking, Flush, Closed
<1>2. /\ Packet(asked) \in Seq(Character) /\ Intact(Packet(asked), 1)
      /\ Number(Packet(asked), 1) = asked /\ Rules!Drop(Packet(asked), 4) = <<>>
  BY <1>1, PacketIs, DropPacket
<1>3. /\ Token # "none"
      /\ ScanStep =>
           \/ /\ ScanAck /\ toServer' = Packet(asked)
           \/ /\ AcceptPacket /\ toServer' = <<>> /\ serving' = asked
  <2>1. CASE toServer = Packet(asked)
    BY <1>1, <1>2, <2>1, PacketScanned
  <2>2. CASE toServer = <<Char("+")>> \o Packet(asked)
    <3>1. toServer[1] = Char("+") /\ toServer # <<>>
          /\ Rules!Drop(toServer, 1) = Packet(asked)
      BY <1>2, <2>2, DropSign
    <3> QED BY <1>1, <3>1, SignScanned
  <2> QED BY <2>1, <2>2 DEF Asking
<1>4. CASE ScanStep
  <2>1. CASE ScanAck /\ toServer' = Packet(asked)
    <3>1. /\ ToClient(<<>>, "scan") /\ errors' = 0
          /\ UNCHANGED <<executed, asked, phase, tries, Last>>
      BY <1>1, <2>1 DEF ScanAck, client, Last
    <3>2. gdb' = "scan" /\ faults' = 0 /\ toClient' = <<>>
      BY <1>1, <3>1, WrittenNothing
    <3> QED BY <1>1, <2>1, <3>1, <3>2 DEF Mends, Calm, Asking
  <2>2. CASE AcceptPacket /\ toServer' = <<>> /\ serving' = asked
    <3>1. /\ ToClient(<<Ack>>, "handle") /\ errors' = 0
          /\ UNCHANGED <<executed, asked, phase, tries, Last>>
      <4>1. Flush \o <<Ack>> = <<Ack>>
        BY <1>1
      <4> QED BY <2>2, <4>1 DEF AcceptPacket, client, Last
    <3>2. Ack \in Message
      BY MessageKinds DEF Sound
    <3>3. /\ gdb' = "handle"
          /\ faults' = faults => toClient' = <<Ack>>
          /\ faults' # faults => toClient' = <<>>
      <4>1. toClient \o <<Ack>> = <<Ack>>
        BY <1>1
      <4> QED BY <1>1, <3>1, <3>2, <4>1, WrittenOne
    <3>4. faults' = 0 => Calm'
      BY <1>1, <2>2, <3>1, <3>3 DEF Calm, Handling
    <3>5. faults' = 1 => LostAck'
      BY <1>1, <2>2, <3>1, <3>3 DEF LostAck
    <3> QED BY <3>4, <3>5 DEF Mends, Mending
  <2> QED BY <1>3, <1>4, <2>1, <2>2
<1>5. CASE HastyTimeOut
  <2>1. /\ faults' = faults + 1 /\ tries' = tries + 1
        /\ toServer' = toServer \o Packet(asked)
        /\ UNCHANGED <<gdb, serving, executed, Last, toClient, asked, phase>>
    BY <1>1, <1>5 DEF HastyTimeOut, Fault, server, Last
  <2>2. Stream(toServer, 0, asked - 1, asked)
    <3>1. asked - 1 \in Nat /\ asked \in Nat /\ asked - 1 <= asked
          /\ asked = asked - 1 + 1
      BY <1>1, SMT DEF Request
    <3>2. /\ <<>> \in Seq(Character) /\ 0 \in 0 .. Len(<<>>)
          /\ Stream(<<>>, 0, asked - 1, asked - 1)
      BY <3>1, EmptySeq, StreamEmpty, SMT
    <3>3. CASE toServer = Packet(asked)
      <4>1. Stream(<<>> \o Packet(asked), 0, asked - 1, asked)
        BY <1>1, <3>1, <3>2, StreamSends
      <4> QED BY <1>2, <3>3, <4>1, ConcatEmptySeq
    <3>4. CASE toServer = <<Char("+")>> \o Packet(asked)
      <4>1. Stream(<<>> \o <<Char("+")>>, 0, asked - 1, asked - 1)
        BY <3>1, <3>2, StreamSigns
      <4>2. <<>> \o <<Char("+")>> = <<Char("+")>>
        OBVIOUS
      <4>3. <<Char("+")>> \in Seq(Character) /\ 0 \in 0 .. Len(<<Char("+")>>)
        BY SignIs, SMT
      <4>4. ASSUME NEW t \in Seq(Character), 0 \in 0 .. Len(t),
                   Stream(t, 0, asked - 1, asked - 1)
            PROVE  Stream(t \o Packet(asked), 0, asked - 1, asked)
        BY <1>1, <3>1, <4>4, StreamSends
      <4> QED BY <3>4, <4>1, <4>2, <4>3, <4>4
    <3> QED BY <3>3, <3>4 DEF Asking
  <2>3. /\ Stream(toServer', 0, asked - 1, asked)
        /\ Packets(toServer', 0) # {} /\ toServer' \in Seq(Character)
    <3>1. asked - 1 \in Nat /\ asked \in Nat /\ asked - 1 <= asked
          /\ 0 \in 0 .. Len(toServer)
      BY <1>1, LenProperties, SMT DEF Request
    <3> QED BY <1>1, <1>2, <2>1, <2>2, <3>1, StreamSends, ConcatProperties
  <2>4. tries' <= 1 /\ toClient' \in Seq(Sound) /\ Current' = asked - 1
    BY <1>1, <2>1, EmptySeq, SMT DEF Current
  <2>5. Live'
    BY <1>1, <2>1, <2>3, <2>4, LiveNow
  <2>6. faults' # 0
    BY <2>1, SMT
  <2> QED BY <2>5, <2>6 DEF Mends, Mending
<1> QED
  <2>1. ClientStep => HastyTimeOut
    <3>1. ~Quiet
      BY <1>3 DEF Quiet
    <3> QED BY <1>1, <3>1, StepsByPhase, ReadsMessage DEF TimeOut, GiveUp
  <2>2. GdbThread => ScanStep
    BY <1>1 DEF GdbThread, ScanStep, ScanEnd, Handle
  <2> QED BY <1>4, <1>5, <2>1, <2>2

LEMMA HandlingStep ==
  ASSUME Known, Handling, errors = 0, tries = 0, faults = 0,
         GdbThread \/ ClientStep
  PROVE  Mends
<1>1. /\ toClient \in Seq(Message) /\ phase \in {"ack", "answer"} /\ ~Closed
      /\ asked \in Request /\ Last = asked - 1 /\ toServer = <<>>
      /\ gdb = "handle" /\ serving = asked /\ faults \in 0 .. MaxFaults
      /\ executed \in Seq(Request)
      /\ phase = "ack" => toClient = <<Ack>>
      /\ phase = "answer" => toClient = <<>>
  BY SessionTypes DEF Known, TypeOK, Handling, Closed
<1>2. CASE Handle
  <2>1. /\ ToClient(<<Told>>, "scan") /\ executed' = Append(executed, asked)
        /\ UNCHANGED <<errors, toServer, asked, phase, tries, Told>>
    BY <1>1, <1>2 DEF Handle, Told, client
  <2>2. Last' = asked
    <3>1. /\ executed' # <<>> /\ Len(executed') = Len(executed) + 1
          /\ executed'[Len(executed) + 1] = asked
      BY <1>1, <2>1, AppendProperties
    <3> QED BY <3>1 DEF Last
  <2>3. Told \in Replies /\ Told \in Message
    BY <1>1, MessageKinds DEF Told, Replies
  <2>4. /\ gdb' = "scan"
        /\ faults' = faults => toClient' = toClient \o <<Told>>
        /\ faults' # faults =>
             toClient' = toClient \/ toClient' = toClient \o <<Noise>>
    BY <1>1, <2>1, <2>3, WrittenOne
  <2>5. asked > 0
    BY <1>1, SMT DEF Request
  <2>6. /\ <<>> \o <<Told>> = <<Told>> /\ <<>> \o <<Noise>> = <<Noise>>
        /\ <<Ack>> \o <<Told>> = <<Ack, Told>>
        /\ <<Ack>> \o <<Noise>> = <<Ack, Noise>>
    BY Two
  <2>7. faults' = 0 => Calm'
    BY <1>1, <2>1, <2>2, <2>4, <2>5, <2>6 DEF Calm, Answered
  <2>8. ASSUME faults' = 1 PROVE LostAnswer'
    <3>1. toClient' = toClient \/ toClient' = toClient \o <<Noise>>
      BY <2>4, <2>8
    <3>2. phase = "ack" => toClient' \in {<<Ack>>, <<Ack, Noise>>}
      BY <1>1, <2>6, <3>1
    <3>3. phase = "answer" => toClient' \in {<<>>, <<Noise>>}
      BY <1>1, <2>6, <3>1
    <3> QED BY <1>1, <2>1, <2>2, <2>4, <3>2, <3>3 DEF LostAnswer
  <2> QED BY <2>7, <2>8 DEF Mends, Mending
<1>3. CASE Acknowledged
  <2>1. /\ phase = "ack" /\ phase' = "answer" /\ toClient' = Tail(toClient)
        /\ tries' = 0 /\ UNCHANGED <<gdb, errors, serving, executed, Last, asked,
                                     toServer, faults>>
    BY <1>3 DEF Acknowledged, Read, server, Last
  <2>2. Tail(<<Ack>>) = <<>>
    OBVIOUS
  <2> QED BY <1>1, <2>1, <2>2 DEF Mends, Calm, Handling
<1>4. CASE HastyTimeOut
  <2>1. /\ faults' = faults + 1 /\ tries' = tries + 1
        /\ UNCHANGED <<gdb, serving, executed, Last, toClient, asked, phase>>
        /\ phase = "ack" => toServer' = toServer \o Packet(asked)
        /\ phase = "answer" => toServer' = Append(toServer, Char("-"))
    BY <1>4 DEF HastyTimeOut, Fault, server, Last
  <2>2. /\ asked \in Nat /\ asked <= asked /\ Current' = asked /\ tries' <= 1
        /\ asked = Last' + 1
    BY <1>1, <2>1, SMT DEF Current, Request
  <2>3. /\ toServer' \in Seq(Character) /\ Stream(toServer', 0, asked, asked)
        /\ phase = "ack" => Packets(toServer', 0) # {}
    <3>1. /\ <<>> \in Seq(Character) /\ 0 \in 0 .. Len(<<>>)
          /\ Stream(<<>>, 0, asked, asked)
      BY <2>2, EmptySeq, StreamEmpty, SMT
    <3>2. CASE phase = "ack"
      <4>1. toServer' = <<>> \o Packet(asked)
        BY <1>1, <2>1, <3>2
      <4>2. Packet(asked) \in Seq(Character)
        BY <1>1, PacketIs
      <4> QED BY <1>1, <2>2, <3>1, <4>1, <4>2, StreamSends, ConcatProperties
    <3>3. CASE phase = "answer"
      <4>1. toServer' = <<>> \o <<Char("-")>>
        BY <1>1, <2>1, <3>3
      <4>2. <<Char("-")>> \in Seq(Character)
        BY SignIs
      <4> QED BY <2>2, <3>1, <3>3, <4>1, <4>2, StreamSigns, ConcatProperties
    <3> QED BY <1>1, <3>2, <3>3
  <2>4. toClient' \in Seq(Sound)
    <3>1. Ack \in Sound
      BY MessageKinds
    <3>2. <<Ack>> \in Seq(Sound) /\ <<>> \in Seq(Sound)
      BY <3>1
    <3> QED BY <1>1, <2>1, <3>2
  <2>5. AnswerComes'
    BY <1>1, <2>1 DEF AnswerComes
  <2>6. Live'
    BY <1>1, <2>1, <2>2, <2>3, <2>4, <2>5, LiveNow
  <2>7. faults' # 0
    BY <2>1, SMT
  <2> QED BY <2>6, <2>7 DEF Mends, Mending
<1> QED
  <2>1. ClientStep => Acknowledged \/ HastyTimeOut
    <3>1. ~Quiet
      BY <1>1 DEF Quiet
    <3>2. ASSUME phase = "ack", Refused \/ Ignore PROVE FALSE
      <4>1. Head(toClient) # Ack
        BY <3>2, MessageKinds DEF Refused, Ignore, Read
      <4> QED BY <1>1, <3>2, <4>1
    <3>3. ASSUME phase = "answer", Ignore \/ Damaged \/ Take PROVE FALSE
      BY <1>1, <3>3, ReadsMessage
    <3>4. ~TimeOut /\ ~GiveUp
      BY <3>1 DEF TimeOut, GiveUp
    <3> QED BY <1>1, <3>2, <3>3, <3>4, StepsByPhase
  <2>2. GdbThread => Handle
    BY <1>1 DEF GdbThread, ScanAck, ScanRetransmission, RefusePacket,
       AcceptPacket, ScanInvalid, ScanNewline, ScanEnd, Scan
  <2> QED BY <1>2, <1>3, <1>4, <2>1, <2>2

LEMMA AnsweredStep ==
  ASSUME Known, Answered, errors = 0, tries = 0, faults = 0,
         GdbThread \/ ClientStep
  PROVE  Mends
<1>1. /\ toClient \in Seq(Message) /\ phase \in {"ack", "answer"} /\ ~Closed
      /\ asked \in Request /\ Last = asked /\ toServer = <<>> /\ asked > 0
      /\ gdb = "scan" /\ faults \in 0 .. MaxFaults
      /\ phase = "ack" => toClient = <<Ack, Told>>
      /\ phase = "answer" => toClient = <<Told>>
  BY SessionTypes DEF Known, TypeOK, Answered, Closed
<1>2. /\ Told \in Replies /\ Told \in Sound /\ Told \in Message
      /\ Told \notin {Ack, Nak, Noise}
  BY <1>1, MessageKinds DEF Told, Replies
<1>3. CASE Acknowledged
  <2>1. /\ phase = "ack" /\ phase' = "answer" /\ toClient' = Tail(toClient)
        /\ tries' = 0 /\ UNCHANGED <<gdb, errors, Last, asked, toServer, faults>>
    BY <1>3 DEF Acknowledged, Read, server, Last
  <2>2. Tail(<<Ack, Told>>) = <<Told>> /\ Told' = Told
    BY <2>1 DEF Told
  <2>3. toClient' = <<Told>>
    BY <1>1, <2>1, <2>2
  <2>4. Calm'
    BY <1>1, <2>1, <2>2, <2>3 DEF Calm, Answered
  <2>5. faults' # 1
    BY <2>1, SMT
  <2> QED BY <2>4, <2>5 DEF Mends
<1>4. CASE Take
  <2>1. /\ phase = "answer" /\ phase' = "idle" /\ toClient' = Tail(toClient)
        /\ ToServer(<<Char("+")>>)
        /\ UNCHANGED <<gdb, errors, serving, Last, asked, tries>>
    BY <1>4 DEF Take, Read, server, Last
  <2>2. toClient' = <<>>
    <3>1. Tail(<<Told>>) = <<>>
      OBVIOUS
    <3> QED BY <1>1, <2>1, <3>1
  <2>3. /\ toServer \in Seq(Character) /\ <<Char("+")>> \in Seq(Character)
        /\ Junk \subseteq Character /\ Char("+") \in Character
    BY <1>1, SignIs, EmptySeq, SessionAssumption DEF Character, Plain
  <2>4. /\ faults' = faults => toServer' = toServer \o <<Char("+")>>
        /\ faults' # faults =>
              \E k \in 1 .. Len(<<Char("+")>>) :
                \/ toServer' = toServer \o Without(<<Char("+")>>, k)
                \/ \E c \in Junk :
                     toServer' = toServer \o [<<Char("+")>> EXCEPT ![k] = c]
    BY <1>1, <2>1, <2>3, Sent
  <2>5. ASSUME faults' = 0 PROVE Calm'
    <3>1. toServer' = <<Char("+")>>
      BY <1>1, <2>4, <2>5, Two
    <3> QED BY <1>1, <2>1, <2>2, <3>1 DEF Calm, Idle
  <2>6. ASSUME faults' = 1 PROVE Mending'
    <3>1. toServer' = <<>> \/ \E c \in Junk : toServer' = <<c>>
      <4>1. PICK k \in 1 .. Len(<<Char("+")>>) :
                \/ toServer' = toServer \o Without(<<Char("+")>>, k)
                \/ \E c \in Junk :
                     toServer' = toServer \o [<<Char("+")>> EXCEPT ![k] = c]
        BY <2>4, <2>6
      <4>2. CASE toServer' = toServer \o Without(<<Char("+")>>, k)
        <5>1. Without(<<Char("+")>>, k) = <<>> /\ <<>> \o <<>> = <<>>
          BY <2>3, SingleIs, EmptySeq, ConcatEmptySeq
        <5> QED BY <1>1, <4>2, <5>1
      <4>3. ASSUME NEW c \in Junk,
                   toServer' = toServer \o [<<Char("+")>> EXCEPT ![k] = c]
            PROVE  toServer' = <<c>>
        <5>1. [<<Char("+")>> EXCEPT ![k] = c] = <<c>>
          BY <2>3, SingleIs
        <5>2. <<>> \o <<c>> = <<c>>
          BY Two
        <5> QED BY <1>1, <4>3, <5>1, <5>2
      <4> QED BY <4>1, <4>2, <4>3
    <3>2. toServer' \in Seq(Character) /\ NoPacket(toServer')
      <4>1. CASE toServer' = <<>>
        BY <4>1, <1>1, StreamEmpty, EmptySeq
      <4>2. ASSUME NEW c \in Junk, toServer' = <<c>>
            PROVE  toServer' \in Seq(Character) /\ NoPacket(toServer')
        <5>1. <<c>> \in Seq(Character) /\ Len(<<c>>) = 1
          BY <2>3
        <5> QED BY <4>2, <5>1, SMT DEF NoPacket, Intact
      <4> QED BY <3>1, <4>1, <4>2
    <3>3. /\ Current' = asked' /\ asked' \in Nat /\ tries' <= 1
          /\ toClient' \in Seq(Refusals) /\ toClient' \in Seq(Sound)
      <4>1. asked' \in Nat /\ tries' <= 1
        BY <1>1, <2>1, SMT DEF Request
      <4>2. Current' = asked'
        BY <1>1, <2>1 DEF Current
      <4>3. toClient' \in Seq(Refusals) /\ toClient' \in Seq(Sound)
        BY <2>2, EmptySeq
      <4> QED BY <4>1, <4>2, <4>3
    <3>4. /\ Len(toServer') \in 0 .. Len(toServer')
          /\ Stream(toServer', Len(toServer'), Current', asked')
      BY <3>2, <3>3, StreamDebris
    <3>5. LiveFrom(Len(toServer))'
      BY <1>1, <2>1, <3>3, <3>4 DEF LiveFrom
    <3>6. Live'
      BY <1>1, <2>1, <3>3, <3>4, <3>5 DEF Live
    <3> QED BY <3>6 DEF Mending
  <2> QED BY <2>5, <2>6 DEF Mends
<1>5. CASE HastyTimeOut
  <2>1. /\ faults' = faults + 1 /\ tries' = tries + 1
        /\ UNCHANGED <<gdb, serving, executed, Last, toClient, asked, phase>>
        /\ phase = "ack" => toServer' = toServer \o Packet(asked)
        /\ phase = "answer" => toServer' = Append(toServer, Char("-"))
    BY <1>5 DEF HastyTimeOut, Fault, server, Last
  <2>2. /\ asked \in Nat /\ asked <= asked /\ Current' = asked /\ tries' <= 1
    BY <1>1, <2>1, SMT DEF Current, Request
  <2>3. /\ toServer' \in Seq(Character) /\ Stream(toServer', 0, asked, asked)
        /\ phase = "ack" => Packets(toServer', 0) # {}
    <3>1. /\ <<>> \in Seq(Character) /\ 0 \in 0 .. Len(<<>>)
          /\ Stream(<<>>, 0, asked, asked)
      BY <2>2, EmptySeq, StreamEmpty, SMT
    <3>2. CASE phase = "ack"
      <4>1. toServer' = <<>> \o Packet(asked)
        BY <1>1, <2>1, <3>2
      <4>2. Packet(asked) \in Seq(Character)
        BY <1>1, PacketIs
      <4> QED BY <1>1, <2>2, <3>1, <4>1, <4>2, StreamSends, ConcatProperties
    <3>3. CASE phase = "answer"
      <4>1. toServer' = <<>> \o <<Char("-")>>
        BY <1>1, <2>1, <3>3
      <4>2. <<Char("-")>> \in Seq(Character)
        BY SignIs
      <4> QED BY <2>2, <3>1, <3>3, <4>1, <4>2, StreamSigns, ConcatProperties
    <3> QED BY <1>1, <3>2, <3>3
  <2>4. toClient' \in Seq(Sound)
    <3>1. Ack \in Sound
      BY MessageKinds
    <3>2. <<Ack, Told>> \in Seq(Sound) /\ <<Told>> \in Seq(Sound)
      BY <1>2, <3>1
    <3> QED BY <1>1, <2>1, <3>2
  <2>5. phase = "answer" => AnswerComes'
    <3>1. Len(<<Told>>) = 1 /\ <<Told>>[1] = Told /\ 1 \in 1 .. 1 /\ 1 > 0
      BY SMT
    <3> QED BY <1>1, <1>2, <2>1, <3>1 DEF AnswerComes, AnswerAfter
  <2>6. Live'
    BY <1>1, <2>1, <2>2, <2>3, <2>4, <2>5, LiveNow
  <2>7. faults' # 0
    BY <2>1, SMT
  <2> QED BY <2>6, <2>7 DEF Mends, Mending
<1> QED
  <2>1. ClientStep => Acknowledged \/ Take \/ HastyTimeOut
    <3>1. toClient # <<>>
      BY <1>1
    <3>2. ASSUME phase = "ack", Refused \/ Ignore PROVE FALSE
      <4>1. Head(toClient) # Ack
        BY <3>2, MessageKinds DEF Refused, Ignore, Read
      <4> QED BY <1>1, <3>2, <4>1
    <3>3. ASSUME phase = "answer", Ignore \/ Damaged PROVE FALSE
      <4>1. Head(toClient) \in {Ack, Nak, Noise}
        BY <3>3 DEF Ignore, Damaged, Read
      <4> QED BY <1>1, <1>2, <3>3, <4>1
    <3>4. ~TimeOut /\ ~GiveUp
      BY <3>1 DEF TimeOut, GiveUp, Quiet
    <3> QED BY <1>1, <3>2, <3>3, <3>4, StepsByPhase
  <2>2. ~GdbThread
    <3>1. ~ScanStep
      BY <1>1, EmptyScanned
    <3> QED BY <1>1, <3>1 DEF GdbThread, ScanStep, ScanEnd, Handle
  <2> QED BY <1>3, <1>4, <1>5, <2>1, <2>2

LEMMA CalmStep ==
  ASSUME Known, Calm, faults = 0, gdb # "dead", GdbThread \/ ClientStep
  PROVE  Mends
  BY IdleStep, AskingStep, HandlingStep, AnsweredStep DEF Calm
-----------------------------------------------------------------------------
(***************************************************************************)
(* One fault so far.                                                       *)
(***************************************************************************)
LEMMA CurrentIs ==
  ASSUME Known
  PROVE  Current \in Nat /\ Current <= asked /\ asked \in Nat
<1>1. asked \in Nat /\ Last \in 0 .. asked
  BY SessionTypes
<1>2. gdb = "handle" => serving \in 1 .. asked
  BY DEF Known
<1>3. Current \in 0 .. asked \/ Current \in 1 .. asked
  BY <1>1, <1>2 DEF Current
<1> QED BY <1>1, <1>3, SMT

\* A token that is not a packet with the right checksum leaves packets, and
\* is answered by refusals or the last answer at most.
LEMMA OtherTokens ==
  ASSUME Known, ScanStep, ~AcceptPacket, faults' = faults, gdb' # "dead"
  PROVE  /\ gdb = "scan" /\ gdb' = "scan"
         /\ UNCHANGED <<executed, Last, asked, phase, tries>>
         /\ \E u \in Seq(Refusals) : toClient' \in {toClient, toClient \o u}
<1>1. Flush \in Seq(Refusals) /\ packet \in Seq(Refusals)
  <2>1. Nak \in Refusals
    BY MessageKinds
  <2>2. Flush \in Seq(Refusals)
    BY <2>1, EmptySeq DEF Flush
  <2>3. CASE packet = <<>>
    BY <2>2, <2>3, EmptySeq
  <2>4. CASE packet = <<Answer(Last, Reply(Letter[Last]))>> /\ executed # <<>>
    <3>1. Last \in Request
      BY <2>4, SessionTypes
    <3>2. Answer(Last, Reply(Letter[Last])) \in Refusals
      BY <3>1, MessageKinds
    <3> QED BY <2>2, <2>4, <3>2
  <2> QED BY <2>3, <2>4 DEF Known
<1>2. /\ <<>> \in Seq(Refusals) /\ <<Nak>> \in Seq(Refusals)
      /\ Flush \o packet \in Seq(Refusals) /\ Flush \o <<Nak>> \in Seq(Refusals)
  <2>1. <<>> \in Seq(Refusals) /\ <<Nak>> \in Seq(Refusals)
    BY MessageKinds
  <2> QED BY <1>1, <2>1, ConcatProperties
<1>3. gdb = "scan" /\ UNCHANGED <<executed, Last, asked, phase, tries>>
  <2>1. UNCHANGED <<executed, asked, phase, tries>>
    BY DEF ScanStep, ScanAck, ScanRetransmission, RefusePacket, ScanInvalid,
           ScanNewline, client, server
  <2> QED BY <2>1, ScanRule DEF Last
<1>4. \/ \E u \in Seq(Refusals) : ToClient(u, "scan")
      \/ UNCHANGED <<gdb, toClient>>
  <2>1. CASE ScanAck
    BY <1>1, <2>1 DEF ScanAck
  <2>2. CASE ScanRetransmission
    BY <1>2, <2>2 DEF ScanRetransmission
  <2>3. CASE RefusePacket
    BY <1>2, <2>3 DEF RefusePacket
  <2>4. CASE ScanInvalid
    BY <1>2, <2>4 DEF ScanInvalid
  <2>5. CASE ScanNewline
    BY <2>5 DEF ScanNewline, server
  <2> QED BY <2>1, <2>2, <2>3, <2>4, <2>5 DEF ScanStep
<1>5. ASSUME NEW u \in Seq(Refusals), ToClient(u, "scan")
      PROVE  gdb' = "scan" /\ toClient' \in {toClient, toClient \o u}
  <2>1. toClient \in Seq(Message) /\ faults \in 0 .. MaxFaults
    BY DEF Known, TypeOK
  <2>2. u \in Seq(Message)
    BY MessageKinds, SeqMonotonic
  <2>3. /\ gdb' = "scan" \/ (gdb' = "dead" /\ Closed)
        /\ faults' = faults /\ gdb' # "dead" =>
              toClient' = IF Closed THEN toClient ELSE toClient \o u
    BY <1>5, <2>1, <2>2, Written
  <2> QED BY <2>3
<1>6. CASE UNCHANGED <<gdb, toClient>>
  BY <1>2, <1>3, <1>6
<1> QED BY <1>3, <1>4, <1>5, <1>6

\* The next token is of the debris, a sign or an intact packet.
LEMMA LiveTokens ==
  ASSUME toServer \in Seq(Character), NEW from \in 0 .. Len(toServer),
         NEW first \in Nat, NEW last \in Nat,
         Stream(toServer, from, first, last), ScanStep
  PROVE  \/ /\ ~AcceptPacket
            /\ \E n \in 1 .. Len(toServer) :
                 /\ toServer' = Rules!Drop(toServer, n)
                 /\ \/ from > 0 /\ n <= from
                    \/ /\ from = 0 /\ n = 1
                       /\ toServer[1] \in {Char("+"), Char("-")}
         \/ /\ AcceptPacket /\ Intact(toServer, 1)
            /\ toServer' = Rules!Drop(toServer, 4)
            /\ serving' = Number(toServer, 1)
<1>1. /\ toServer # <<>> /\ Len(toServer) \in Nat /\ from \in Nat
      /\ 1 \in 1 .. Len(toServer)
  <2>1. toServer # <<>>
    BY EmptyScanned
  <2>2. Len(toServer) \in Nat /\ Len(toServer) # 0
    BY <2>1, LenProperties, EmptySeq
  <2> QED BY <2>1, <2>2, SMT
<1>2. CASE from > 0
  <2>1. PICK n \in 1 .. Len(toServer) :
          /\ n = Rules!TokenOf(ClassesOf(toServer)).length
          /\ toServer' = Rules!Drop(toServer, n)
    BY ScanRule, Scanned
  <2>2. n \in 1 .. from /\ n <= from
    <3>1. from \in 1 .. Len(toServer)
      BY <1>1, <1>2, SMT
    <3>2. n \in 1 .. from
      BY <1>2, <2>1, <3>1, TokenDebris DEF Stream, Debris
    <3> QED BY <1>1, <3>2, SMT
  <2>3. ~AcceptPacket
    <3>1. ASSUME AcceptPacket PROVE FALSE
      <4>1. Intact(toServer, 1)
        BY <3>1, ChecksumIs DEF AcceptPacket
      <4>2. 1 \in 1 .. from
        BY <1>1, <1>2, SMT
      <4> QED BY <4>1, <4>2 DEF Stream, Debris
    <3> QED BY <3>1
  <2> QED BY <1>2, <2>1, <2>2, <2>3
<1>3. CASE from = 0
  <2>1. \/ toServer[1] \in {Char("+"), Char("-")}
        \/ Intact(toServer, 1)
    <3>1. 1 \in 0 + 1 .. Len(toServer) /\ \A b \in 0 + 1 .. 1 : b = 1
      BY <1>1, SMT
    <3> QED BY <1>3, <3>1 DEF Stream, Whole
  <2>2. CASE Intact(toServer, 1)
    BY <2>2, PacketScanned
  <2>3. ASSUME NEW x \in {"+", "-"}, toServer[1] = Char(x)
        PROVE  toServer' = Rules!Drop(toServer, 1) /\ ~AcceptPacket
    <3>1. /\ x = "+" => ScanAck
          /\ x = "-" => ScanRetransmission
          /\ toServer' = Rules!Drop(toServer, 1)
      BY <1>1, <2>3, SignScanned
    <3>2. ~AcceptPacket
      <4>1. ASSUME AcceptPacket PROVE FALSE
        BY <3>1, <4>1 DEF AcceptPacket, ScanAck, ScanRetransmission, Scan
      <4> QED BY <4>1
    <3> QED BY <3>1, <3>2
  <2> QED BY <1>1, <1>3, <2>1, <2>2, <2>3
<1> QED BY <1>1, <1>2, <1>3, SMT

LEMMA LiveScans ==
  ASSUME Known, tries <= 1, phase # "given_up", toClient \in Seq(Sound),
         NEW from \in 0 .. Len(toServer), LiveFrom(from),
         ScanStep, ~AcceptPacket, faults' = faults, gdb' # "dead",
         NEW n \in 1 .. Len(toServer), toServer' = Rules!Drop(toServer, n),
         \/ from > 0 /\ n <= from
         \/ from = 0 /\ n = 1 /\ toServer[1] \in {Char("+"), Char("-")}
  PROVE  Live'
<1>1. /\ gdb = "scan" /\ gdb' = "scan"
      /\ UNCHANGED <<executed, Last, asked, phase, tries>>
  BY OtherTokens
<1>2. PICK u \in Seq(Refusals) : toClient' \in {toClient, toClient \o u}
  BY OtherTokens
<1>3. /\ toServer \in Seq(Character) /\ Current \in Nat /\ asked \in Nat
      /\ Stream(toServer, from, Current, asked) /\ Current' = Current
      /\ toClient \in Seq(Message) /\ u \in Seq(Message) /\ u \in Seq(Sound)
  <2>1. Current' = Current
    BY <1>1 DEF Current
  <2>2. u \in Seq(Message) /\ u \in Seq(Sound)
    BY MessageKinds, SeqMonotonic
  <2> QED BY <2>1, <2>2, CurrentIs DEF Known, TypeOK, LiveFrom
<1>4. PICK g \in 0 .. Len(toServer') :
        /\ from = 0 => g = 0
        /\ Stream(toServer', g, Current, asked)
        /\ Packets(toServer, from) # {} => Packets(toServer', g) # {}
  BY <1>3, StreamScans
<1>5. toClient' \in Seq(Sound)
  BY <1>2, <1>3, ConcatProperties
<1>6. ASSUME g > 0
      PROVE  /\ phase' # "answer" /\ gdb' # "handle"
             /\ toClient' \in Seq(Refusals)
  <2>1. from > 0
    <3>1. from # 0 /\ from \in Nat
      BY <1>3, <1>4, <1>6, LenProperties, SMT
    <3> QED BY <3>1, SMT
  <2>2. toClient \in Seq(Refusals) /\ phase # "answer"
    BY <2>1 DEF LiveFrom
  <2> QED BY <1>1, <1>2, <2>2, ConcatProperties
<1>7. \A k : AnswerAfter(toClient, k) => AnswerAfter(toClient', k)
  BY <1>2, <1>3, RepliesKept
<1>8. \A k \in 1 .. Len(toClient) :
        k \in 1 .. Len(toClient') /\ toClient'[k] = toClient[k]
  BY <1>2, <1>3, RepliesKept
<1>9. AckComes => AckComes'
  BY <1>1, <1>7, <1>8 DEF AckComes
<1>10. AnswerComes => AnswerComes'
  BY <1>1, <1>7 DEF AnswerComes
<1>11. LiveFrom(g)'
  BY <1>1, <1>3, <1>4, <1>6, <1>9, <1>10 DEF LiveFrom
<1> QED BY <1>1, <1>4, <1>5, <1>11 DEF Live

LEMMA LiveAccepts ==
  ASSUME Known, tries <= 1, phase # "given_up", toClient \in Seq(Sound),
         NEW from \in 0 .. Len(toServer), LiveFrom(from),
         AcceptPacket, Intact(toServer, 1), faults' = faults, gdb' # "dead",
         toServer' = Rules!Drop(toServer, 4), serving' = Number(toServer, 1)
  PROVE  Live'
<1>1. /\ toServer \in Seq(Character) /\ Current \in Nat /\ asked \in Nat
      /\ Stream(toServer, from, Current, asked) /\ gdb = "scan"
      /\ toClient \in Seq(Message) /\ faults \in 0 .. MaxFaults
      /\ Current = Last
  <2>1. gdb = "scan"
    BY DEF AcceptPacket, Scan
  <2> QED BY <2>1, CurrentIs DEF Known, TypeOK, LiveFrom, Current
<1>2. /\ serving' \in {Current, Current + 1}
      /\ Stream(toServer', 0, serving', asked)
  BY <1>1, StreamAccepts
<1> DEFINE u == Flush \o <<Ack>>
<1>3. u \in Seq(Message) /\ u \in Seq(Sound) /\ Len(u) \in Nat /\ Len(u) > 0
      /\ u[Len(u)] = Ack
  <2>1. Flush \in Seq(Sound) /\ <<Ack>> \in Seq(Sound) /\ Len(<<Ack>>) = 1
        /\ <<Ack>>[1] = Ack
    <3>1. Nak \in Sound /\ Ack \in Sound
      BY MessageKinds
    <3> QED BY <3>1, EmptySeq DEF Flush
  <2>2. ASSUME NEW s \in Seq(Sound), NEW t \in Seq(Sound), Len(t) = 1
        PROVE  /\ s \o t \in Seq(Sound) /\ Len(s \o t) \in Nat
               /\ Len(s \o t) > 0 /\ (s \o t)[Len(s \o t)] = t[1]
    <3>1. /\ s \o t \in Seq(Sound) /\ Len(s \o t) = Len(s) + Len(t)
          /\ Len(s) \in Nat
          /\ \A k \in 1 .. Len(t) : (s \o t)[Len(s) + k] = t[k]
      BY Joined
    <3>2. Len(s) + 1 \in Nat /\ Len(s) + 1 > 0 /\ 1 \in 1 .. 1
      BY <3>1, SMT
    <3> QED BY <2>2, <3>1, <3>2
  <2>3. /\ u \in Seq(Sound) /\ Len(u) \in Nat /\ Len(u) > 0
        /\ u[Len(u)] = Ack
    BY <2>1, <2>2
  <2> HIDE DEF u
  <2> QED BY <2>3, MessageKinds, SeqMonotonic
<1>4. ToClient(u, "handle") /\ UNCHANGED <<executed, asked, phase, tries, Last>>
  BY DEF AcceptPacket, client, Last
<1> HIDE DEF u
<1>5. /\ gdb' = "handle"
      /\ toClient' = IF Closed THEN toClient ELSE toClient \o u
  BY <1>1, <1>3, <1>4, Written
<1>6. toClient' \in Seq(Sound)
  BY <1>3, <1>5, ConcatProperties
<1>7. phase = "ack" => AckComes'
  <2>1. ASSUME phase = "ack" PROVE AckComes'
    <3>1. toClient' = toClient \o u
      BY <1>5, <2>1 DEF Closed
    <3>2. /\ Len(toClient) \in Nat /\ Len(toClient') = Len(toClient) + Len(u)
          /\ \A k \in 1 .. Len(u) : toClient'[Len(toClient) + k] = u[k]
      BY <1>1, <1>3, <3>1, Joined
    <3>3. /\ Len(u) \in 1 .. Len(u) /\ Len(toClient') \in 1 .. Len(toClient')
      BY <1>3, <3>2, SMT
    <3>4. toClient'[Len(toClient')] = Ack
      BY <1>3, <3>2, <3>3
    <3> QED BY <1>5, <3>3, <3>4 DEF AckComes
  <2> QED BY <2>1
<1>8. AnswerComes' /\ Current' = serving' /\ toServer' \in Seq(Character)
  <2>1. 4 \in 0 .. Len(toServer)
    <3>1. Len(toServer) \in Nat
      BY <1>1, LenProperties
    <3> QED BY <3>1, SMT DEF Intact
  <2> QED BY <1>1, <1>5, <2>1, CutOff DEF AnswerComes, Current
<1> QED BY <1>1, <1>2, <1>4, <1>5, <1>6, <1>7, <1>8, LiveNow

LEMMA LiveHandles ==
  ASSUME Known, tries <= 1, phase # "given_up", toClient \in Seq(Sound),
         NEW from \in 0 .. Len(toServer), LiveFrom(from),
         Handle, faults' = faults, gdb' # "dead"
  PROVE  Live'
<1>1. /\ toServer \in Seq(Character) /\ Current = serving /\ asked \in Nat
      /\ gdb = "handle" /\ toClient \in Seq(Message) /\ faults \in 0 .. MaxFaults
      /\ serving \in Request /\ executed \in Seq(Request)
  BY SessionTypes DEF Known, TypeOK, Handle, Current
<1>2. from = 0
  <2>1. ~(from > 0)
    BY <1>1 DEF LiveFrom
  <2> QED BY <1>1, <2>1, LenProperties, SMT
<1> DEFINE x == Answer(serving, Reply(Letter[serving]))
<1>3. /\ ToClient(<<x>>, "scan") /\ executed' = Append(executed, serving)
      /\ UNCHANGED <<serving, toServer, asked, phase, tries>>
  BY DEF Handle, client
<1>4. x \in Replies /\ <<x>> \in Seq(Message) /\ <<x>> \in Seq(Sound)
      /\ Len(<<x>>) = 1 /\ <<x>>[1] = x
  <2>1. x \in Replies /\ x \in Message /\ x \in Sound
    BY <1>1, MessageKinds
  <2> QED BY <2>1
<1> HIDE DEF x
<1>5. Last' = serving
  <2>1. /\ executed' # <<>> /\ Len(executed') = Len(executed) + 1
        /\ executed'[Len(executed) + 1] = serving
    BY <1>1, <1>3, AppendProperties
  <2> QED BY <2>1 DEF Last
<1>6. /\ gdb' = "scan"
      /\ toClient' = IF Closed THEN toClient ELSE toClient \o <<x>>
  BY <1>1, <1>3, <1>4, Written
<1>7. toClient' \in Seq(Sound)
  BY <1>4, <1>6, ConcatProperties
<1>8. ASSUME phase \in {"ack", "answer"}, NEW k \in 0 .. Len(toClient)
      PROVE  /\ AnswerAfter(toClient', k)
             /\ k > 0 => k \in 1 .. Len(toClient') /\ toClient'[k] = toClient[k]
  <2>1. toClient' = toClient \o <<x>>
    BY <1>6, <1>8 DEF Closed
  <2> DEFINE t == <<x>>
  <2>2. /\ t \in Seq(Message) /\ Len(t) = 1 /\ t[1] = x
        /\ toClient' = toClient \o t
    BY <1>4, <2>1
  <2> HIDE DEF t
  <2>3. /\ Len(toClient) \in Nat /\ Len(toClient') = Len(toClient) + Len(t)
        /\ \A m \in 1 .. Len(t) : toClient'[Len(toClient) + m] = t[m]
        /\ \A m \in 1 .. Len(toClient) : toClient'[m] = toClient[m]
    <3>1. /\ Len(toClient) \in Nat
          /\ Len(toClient \o t) = Len(toClient) + Len(t)
          /\ \A m \in 1 .. Len(t) : (toClient \o t)[Len(toClient) + m] = t[m]
          /\ \A m \in 1 .. Len(toClient) : (toClient \o t)[m] = toClient[m]
      <4>1. t \in Seq(Message) /\ toClient \in Seq(Message)
        BY <1>1, <2>2
      <4> QED BY ONLY <4>1, Joined
    <3> QED BY <2>2, <3>1
  <2>4. /\ Len(toClient) + 1 \in 1 .. Len(toClient') /\ Len(toClient) + 1 > k
        /\ 1 \in 1 .. 1
        /\ k > 0 => k \in 1 .. Len(toClient') /\ k \in 1 .. Len(toClient)
    BY <2>2, <2>3, SMT
  <2>5. toClient'[Len(toClient) + 1] = x
    BY <2>2, <2>3, <2>4
  <2> QED BY <1>4, <2>3, <2>4, <2>5 DEF AnswerAfter
<1>9. ASSUME phase = "ack", AckComes PROVE AckComes'
  <2>1. PICK k \in 1 .. Len(toClient) : toClient[k] = Ack
    BY <1>9 DEF AckComes
  <2>2. k \in 0 .. Len(toClient) /\ k > 0
    BY SMT
  <2> QED BY <1>8, <1>9, <2>1, <2>2 DEF AckComes
<1>10. phase = "answer" => AnswerComes'
  <2>1. 0 \in 0 .. Len(toClient)
    BY <1>1, LenProperties, SMT
  <2> QED BY <1>8, <2>1 DEF AnswerComes
<1>11. Current' = Current
  BY <1>1, <1>5, <1>6 DEF Current
<1> QED BY <1>1, <1>2, <1>3, <1>6, <1>7, <1>9, <1>10, <1>11, LiveNow DEF LiveFrom

LEMMA LiveThread ==
  ASSUME Known, Live, GdbThread, faults' = faults, gdb' # "dead"
  PROVE  Live'
<1>1. /\ tries <= 1 /\ phase # "given_up" /\ toClient \in Seq(Sound)
      /\ toServer \in Seq(Character)
  BY DEF Live, Known, TypeOK
<1>2. PICK from \in 0 .. Len(toServer) : LiveFrom(from)
  BY DEF Live
<1>3. CASE ScanStep
  <2>1. /\ Current \in Nat /\ asked \in Nat
        /\ Stream(toServer, from, Current, asked)
    BY <1>2, CurrentIs DEF LiveFrom
  <2>2. \/ /\ ~AcceptPacket
           /\ \E n \in 1 .. Len(toServer) :
                /\ toServer' = Rules!Drop(toServer, n)
                /\ \/ from > 0 /\ n <= from
                   \/ /\ from = 0 /\ n = 1
                      /\ toServer[1] \in {Char("+"), Char("-")}
        \/ /\ AcceptPacket /\ Intact(toServer, 1)
           /\ toServer' = Rules!Drop(toServer, 4)
           /\ serving' = Number(toServer, 1)
    BY <1>1, <1>3, <2>1, LiveTokens
  <2>3. CASE ~AcceptPacket
    BY <1>1, <1>2, <1>3, <2>2, <2>3, LiveScans
  <2>4. CASE AcceptPacket
    BY <1>1, <1>2, <2>2, <2>4, LiveAccepts
  <2> QED BY <2>3, <2>4
<1>4. CASE Handle
  BY <1>1, <1>2, <1>4, LiveHandles
<1>5. CASE ScanEnd
  <2>1. /\ ToClient(Flush, "done") /\ gdb = "scan" /\ Closed
        /\ UNCHANGED <<executed, serving, toServer, asked, phase, tries, Last>>
    BY <1>5 DEF ScanEnd, client, Last
  <2>2. /\ gdb' = "done" /\ toClient' = toClient
    <3>1. /\ toClient \in Seq(Message) /\ faults \in 0 .. MaxFaults
          /\ Flush \in Seq(Message)
      BY SessionTypes DEF Known, TypeOK
    <3> QED BY <2>1, <3>1, Written
  <2>3. Current' = Current /\ phase' \notin {"ack", "answer"}
    BY <2>1, <2>2 DEF Current, Closed
  <2>4. LiveFrom(from)'
    BY <1>2, <2>1, <2>2, <2>3 DEF LiveFrom
  <2> QED BY <1>1, <1>2, <2>1, <2>2, <2>4 DEF Live
<1> QED BY <1>3, <1>4, <1>5 DEF GdbThread, ScanStep

\* A message that is read, when the phase stays or an acknowledgement is seen.
LEMMA LiveReads ==
  ASSUME Known, NEW from \in 0 .. Len(toServer), LiveFrom(from),
         toClient \in Seq(Sound), Acknowledged \/ Ignore
  PROVE  LiveFrom(from)' /\ toClient' \in Seq(Sound) /\ tries' <= tries
<1>1. /\ toClient \in Seq(Message) /\ toClient # <<>>
      /\ toClient' = Tail(toClient)
      /\ UNCHANGED <<gdb, serving, executed, asked, toServer, Last, Current>>
      /\ asked \in Nat /\ tries \in Nat
      /\ tries' = 0 \/ tries' = tries
  BY SessionTypes DEF Known, TypeOK, Acknowledged, Ignore, Read, server, Last,
     Current
<1>2. tries' <= tries
  BY <1>1, SMT
<1>3. toClient' \in Seq(Sound)
  BY <1>1, HeadTailProperties
<1>4. /\ AnswerAfter(toClient, 0) /\ toClient[1] \notin Replies
           => AnswerAfter(toClient', 0)
      /\ \A k \in 1 .. Len(toClient) :
           AnswerAfter(toClient, k) => AnswerAfter(toClient', k - 1)
      /\ \A k \in 1 .. Len(toClient) : k # 1 =>
           k - 1 \in 1 .. Len(toClient') /\ toClient'[k - 1] = toClient[k]
      /\ Head(toClient) = toClient[1]
  BY <1>1, RepliesRead
<1>5. ASSUME toClient \in Seq(Refusals) PROVE toClient' \in Seq(Refusals)
  BY <1>1, <1>5, HeadTailProperties
<1>6. CASE Acknowledged
  <2>1. phase = "ack" /\ phase' = "answer" /\ Head(toClient) = Ack
    BY <1>6 DEF Acknowledged, Read
  <2>2. toClient \notin Seq(Refusals)
    <3>1. ASSUME toClient \in Seq(Refusals) PROVE FALSE
      <4>1. Head(toClient) \in Refusals
        BY <1>1, <3>1, HeadTailProperties
      <4> QED BY <2>1, <4>1, MessageKinds
    <3> QED BY <3>1
  <2>3. AckComes => AnswerComes'
    <3>1. ASSUME AckComes PROVE AnswerComes'
      <4>1. PICK k \in 1 .. Len(toClient) :
              gdb = "handle" \/ AnswerAfter(toClient, k)
        BY <3>1 DEF AckComes
      <4>2. CASE AnswerAfter(toClient, k)
        <5>1. AnswerAfter(toClient', k - 1)
          BY <1>4, <4>2
        <5>2. PICK m \in 1 .. Len(toClient') : toClient'[m] \in Replies
          BY <5>1 DEF AnswerAfter
        <5>3. m > 0
          BY SMT
        <5> QED BY <5>2, <5>3 DEF AnswerComes, AnswerAfter
      <4> QED BY <1>1, <4>1, <4>2 DEF AnswerComes
    <3> QED BY <3>1
  <2>4. ~(from > 0)
    BY <2>2 DEF LiveFrom
  <2>5. Packets(toServer, from) # {} \/ AnswerComes'
    BY <2>1, <2>3 DEF LiveFrom
  <2>6. LiveFrom(from)'
    BY <1>1, <2>1, <2>4, <2>5 DEF LiveFrom
  <2> QED BY <1>2, <1>3, <2>6
<1>7. CASE Ignore
  <2>1. /\ phase' = phase
        /\ \/ phase = "ack" /\ Head(toClient) \notin {Ack, Nak}
           \/ phase = "answer" /\ Head(toClient) \in {Ack, Nak}
    BY <1>7 DEF Ignore, Read
  <2>2. ASSUME phase = "ack", AckComes PROVE AckComes'
    <3>1. PICK k \in 1 .. Len(toClient) :
            toClient[k] = Ack /\ (gdb = "handle" \/ AnswerAfter(toClient, k))
      BY <2>2 DEF AckComes
    <3>2. k # 1
      BY <1>4, <2>1, <2>2, <3>1
    <3> QED BY <1>1, <1>4, <3>1, <3>2 DEF AckComes
  <2>3. ASSUME phase = "answer", AnswerComes PROVE AnswerComes'
    <3>1. toClient[1] \notin Replies
      BY <1>4, <2>1, <2>3 DEF Replies
    <3> QED BY <1>1, <1>4, <2>3, <3>1 DEF AnswerComes
  <2>4. LiveFrom(from)'
    BY <1>1, <1>5, <2>1, <2>2, <2>3 DEF LiveFrom
  <2> QED BY <1>2, <1>3, <2>4
<1> QED BY <1>6, <1>7

\* The client sends its request, for the first time or once more.
LEMMA LiveSends ==
  ASSUME Known, NEW from \in 0 .. Len(toServer), LiveFrom(from),
         toClient' \in Seq(Sound),
         toClient \in Seq(Refusals) => toClient' \in Seq(Refusals),
         asked' \in {asked, asked + 1}, asked' \in Request,
         toServer' = toServer \o Packet(asked'), phase' = "ack", tries' <= 1,
         UNCHANGED server, gdb = "handle" => serving \in {Last, Last + 1}
  PROVE  Live'
<1>1. /\ toServer \in Seq(Character) /\ Current \in Nat /\ asked \in Nat
      /\ Stream(toServer, from, Current, asked) /\ Current <= asked
      /\ UNCHANGED <<gdb, serving, Last, Current>>
  BY CurrentIs DEF Known, TypeOK, LiveFrom, server, Last, Current
<1>2. Current <= asked'
  BY <1>1, SMT
<1>3. /\ Stream(toServer', from, Current, asked')
      /\ Packets(toServer', from) # {}
  BY <1>1, <1>2, StreamSends
<1>4. from \in 0 .. Len(toServer')
  <2>1. /\ Len(toServer \o Packet(asked')) = Len(toServer) + 4
        /\ Len(toServer) \in Nat
    BY <1>1, PacketAdded, LenProperties
  <2> QED BY <2>1, SMT
<1>5. LiveFrom(from)'
  BY <1>1, <1>3 DEF LiveFrom
<1> QED BY <1>1, <1>4, <1>5 DEF Live

LEMMA LiveClient ==
  ASSUME Known, Live, gdb # "dead", ClientStep, faults' = faults
  PROVE  Live'
<1>1. /\ tries <= 1 /\ phase # "given_up" /\ toClient \in Seq(Sound)
      /\ toServer \in Seq(Character) /\ toClient \in Seq(Message)
      /\ asked \in Nat /\ tries \in Nat /\ faults \in 0 .. MaxFaults
      /\ phase \in {"ack", "answer"} => asked \in Request
      /\ gdb = "handle" => serving \in {Last, Last + 1}
      /\ Junk \subseteq Character
  BY SessionTypes, SessionAssumption DEF Live, Known, TypeOK, Character
<1>2. PICK from \in 0 .. Len(toServer) : LiveFrom(from)
  BY DEF Live
<1>3. /\ Current \in Nat /\ Stream(toServer, from, Current, asked)
      /\ Current <= asked
  BY <1>2, CurrentIs DEF LiveFrom
<1>4. CASE Ask
  <2>1. /\ phase = "idle" /\ asked' = asked + 1 /\ phase' = "ack" /\ tries' = 0
        /\ ToServer(Packet(asked + 1)) /\ UNCHANGED <<server, toClient>>
        /\ asked < MaxRequests
    BY <1>4 DEF Ask
  <2>2. asked' \in Request /\ tries' <= 1
    BY <1>1, <2>1, SessionAssumption, SMT DEF Request
  <2>3. toServer' = toServer \o Packet(asked')
    <3>1. Packet(asked') \in Seq(Character)
      BY <2>2, PacketIs
    <3> QED BY <1>1, <2>1, <3>1, Sent
  <2> QED BY <1>1, <1>2, <2>1, <2>2, <2>3, LiveSends
<1>5. CASE Leave
  <2>1. /\ phase' = "closed"
        /\ UNCHANGED <<gdb, serving, Last, Current, toServer, toClient, asked,
                       tries>>
    BY <1>5 DEF Leave, server, Last, Current
  <2>2. LiveFrom(from)'
    BY <1>2, <2>1 DEF LiveFrom
  <2> QED BY <1>1, <1>2, <2>1, <2>2 DEF Live
<1>6. CASE Acknowledged \/ Ignore
  <2>1. LiveFrom(from)' /\ toClient' \in Seq(Sound) /\ tries' <= tries
    BY <1>1, <1>2, <1>6, LiveReads
  <2>2. /\ UNCHANGED <<gdb, serving, Last, toServer>> /\ phase' # "given_up"
        /\ tries' \in Nat
    BY <1>1, <1>6 DEF Acknowledged, Ignore, Read, server, Last
  <2>3. tries' <= 1
    BY <1>1, <2>1, <2>2, SMT
  <2> QED BY <1>1, <1>2, <2>1, <2>2, <2>3 DEF Live
<1>7. CASE Refused
  <2>1. /\ phase = "ack" /\ phase' = "ack" /\ toClient # <<>>
        /\ toClient' = Tail(toClient) /\ ToServer(Packet(asked))
        /\ UNCHANGED <<server, asked, tries>>
    BY <1>7 DEF Refused, Read
  <2>2. /\ asked' \in Request /\ toServer' = toServer \o Packet(asked')
    <3>1. Packet(asked) \in Seq(Character)
      BY <1>1, <2>1, PacketIs
    <3> QED BY <1>1, <2>1, <3>1, Sent
  <2>3. /\ toClient' \in Seq(Sound)
        /\ toClient \in Seq(Refusals) => toClient' \in Seq(Refusals)
    BY <1>1, <2>1, HeadTailProperties
  <2> QED BY <1>1, <1>2, <2>1, <2>2, <2>3, LiveSends
<1>8. CASE Damaged
  <2>1. Head(toClient) = Noise /\ toClient # <<>>
    BY <1>8 DEF Damaged, Read
  <2>2. Head(toClient) \in Sound
    BY <1>1, <2>1, HeadTailProperties
  <2> QED BY <2>1, <2>2 DEF Sound
<1>9. CASE Take
  <2>1. /\ phase = "answer" /\ phase' = "idle" /\ toClient # <<>>
        /\ toClient' = Tail(toClient) /\ ToServer(<<Char("+")>>)
        /\ UNCHANGED <<gdb, serving, Last, Current, asked, tries>>
    BY <1>9 DEF Take, Read, server, Last, Current
  <2>2. /\ toServer' = toServer \o <<Char("+")>>
        /\ toServer' \in Seq(Character)
    <3>1. <<Char("+")>> \in Seq(Character)
      BY SignIs
    <3> QED BY <1>1, <2>1, <3>1, Sent
  <2>3. from = 0
    <3>1. ~(from > 0)
      BY <1>2, <2>1 DEF LiveFrom
    <3> QED BY <1>1, <3>1, LenProperties, SMT
  <2>4. Stream(toServer', 0, Current, asked)
    BY <1>1, <1>3, <2>2, <2>3, StreamSigns
  <2>5. toClient' \in Seq(Sound)
    BY <1>1, <2>1, HeadTailProperties
  <2> QED BY <1>1, <2>1, <2>2, <2>4, <2>5, LiveNow
<1>10. ASSUME Quiet, phase \in {"ack", "answer"} PROVE FALSE
  <2>1. gdb = "scan" /\ Token = "none" /\ toClient = <<>>
    BY <1>10 DEF Quiet
  <2>2. 1 .. Len(toClient) = {}
    <3>1. Len(toClient) = 0
      BY <2>1
    <3> QED BY <3>1, SMT
  <2>3. ~AckComes /\ ~AnswerComes
    BY <2>1, <2>2 DEF AckComes, AnswerComes, AnswerAfter
  <2>4. Packets(toServer, from) # {}
    BY <1>2, <1>10, <2>3 DEF LiveFrom
  <2>5. toServer # <<>> /\ ~Rules!Open(ClassesOf(toServer))
    BY <1>1, <1>3, <2>4, TokenNow
  <2>6. Classes = ClassesOf(toServer)
    BY DEF Classes, ClassesOf
  <2>7. Rules!TokenOf(ClassesOf(toServer)).rule # "none"
    <3>1. ASSUME Rules!PacketAhead(ClassesOf(toServer))
          PROVE  Rules!TokenOf(ClassesOf(toServer)).rule # "none"
      BY <1>1, <3>1, AheadIs
    <3>2. ASSUME ~Rules!PacketAhead(ClassesOf(toServer))
          PROVE  Rules!TokenOf(ClassesOf(toServer)).rule # "none"
      BY <3>2 DEF Rules!TokenOf, Rules!Alone
    <3> QED BY <3>1, <3>2
  <2> QED BY <2>1, <2>5, <2>6, <2>7 DEF Token
<1>11. ~HastyTimeOut
  <2>1. ASSUME HastyTimeOut PROVE FALSE
    <3>1. faults' = faults + 1
      BY <2>1 DEF HastyTimeOut, Fault
    <3> QED BY <1>1, <3>1, SMT
  <2> QED BY <2>1
<1>12. ~TimeOut /\ ~GiveUp
  BY <1>10 DEF TimeOut, Retry, GiveUp
<1> QED BY <1>4, <1>5, <1>6, <1>7, <1>8, <1>9, <1>11, <1>12, StepsByPhase

(***************************************************************************)
(* The packet, its acknowledgement or its answer is lost.                  *)
(***************************************************************************)
LEMMA NotAgain ==
  ASSUME Known, faults' = faults
  PROVE  ~HastyTimeOut
<1>1. ASSUME HastyTimeOut PROVE FALSE
  <2>1. faults' = faults + 1 /\ faults \in Nat
    BY <1>1, SessionTypes DEF HastyTimeOut, Fault
  <2> QED BY <2>1, SMT
<1> QED BY <1>1

\* The client does not give up before it has asked again.
LEMMA NotYet ==
  ASSUME Known, tries = 0
  PROVE  ~GiveUp
<1>1. ASSUME GiveUp PROVE FALSE
  BY <1>1, SessionAssumption DEF GiveUp
<1> QED BY <1>1

\* A request is sent once more behind what is left of the fault.
LEMMA AskedOnceMore ==
  ASSUME Known, NoPacket(toServer), gdb = "scan", phase = "ack",
         Last \in {asked - 1, asked}, tries = 0, faults' = faults,
         UNCHANGED <<server, asked>>, phase' = "ack",
         toClient' \in Seq(Refusals), tries' \in {0, 1}, ToServer(Packet(asked))
  PROVE  Live'
<1>1. /\ toServer \in Seq(Character) /\ faults \in 0 .. MaxFaults
      /\ asked \in Request /\ Junk \subseteq Character
  BY SessionTypes, SessionAssumption DEF Known, TypeOK, Character
<1>2. toServer' = toServer \o Packet(asked')
  <2>1. Packet(asked) \in Seq(Character)
    BY <1>1, PacketIs
  <2> QED BY <1>1, <2>1, Sent
<1>3. /\ gdb' = "scan" /\ Current' = Last /\ asked' \in Request
      /\ Current' \in {asked' - 1, asked'}
  BY <1>1 DEF server, Last, Current
<1>4. tries' <= 1
  BY SMT
<1> QED BY <1>1, <1>2, <1>3, <1>4, LiveBehind

LEMMA LostPacketStep ==
  ASSUME Known, LostPacket, GdbThread \/ ClientStep, faults' = faults,
         gdb' # "dead"
  PROVE  Mending'
<1>1. /\ toServer \in Seq(Character) /\ toClient \in Seq(Message)
      /\ toClient \in Seq(Refusals) /\ NoPacket(toServer)
      /\ phase = "ack" /\ ~Closed /\ gdb = "scan" /\ tries = 0
      /\ Last = asked - 1
  BY DEF Known, TypeOK, LostPacket, Closed
<1>2. CASE ScanStep
  <2>1. PICK n \in 1 .. Len(toServer) : toServer' = Rules!Drop(toServer, n)
    BY <1>1, <1>2, ScanRule, Scanned
  <2>2. n \in 0 .. Len(toServer) /\ Len(toServer) \in Nat
    BY <1>1, LenProperties, SMT
  <2>3. ~AcceptPacket
    <3>1. ASSUME AcceptPacket PROVE FALSE
      <4>1. Intact(toServer, 1)
        BY <1>1, <3>1, ChecksumIs DEF AcceptPacket
      <4>2. 1 \in 1 .. Len(toServer)
        BY <2>2, <4>1, SMT DEF Intact
      <4> QED BY <1>1, <4>1, <4>2 DEF NoPacket
    <3> QED BY <3>1
  <2>4. /\ gdb' = "scan" /\ UNCHANGED <<executed, Last, asked, phase, tries>>
        /\ \E u \in Seq(Refusals) : toClient' \in {toClient, toClient \o u}
    BY <1>2, <2>3, OtherTokens
  <2>5. toClient' \in Seq(Refusals)
    BY <1>1, <2>4, ConcatProperties
  <2>6. NoPacket(toServer')
    <3> DEFINE d == Rules!Drop(toServer, n)
    <3>1. d \in Seq(Character) /\ Len(d) = Len(toServer) - n
      BY <1>1, <2>2, CutOff
    <3>2. ASSUME NEW k \in 1 .. Len(d), Intact(d, k) PROVE FALSE
      <4>1. k \in 1 .. Len(toServer) - n
        BY <3>1, <3>2
      <4>2. Intact(toServer, k + n)
        BY <1>1, <2>2, <3>2, <4>1, IntactMoved
      <4>3. k + n \in 1 .. Len(toServer)
        BY <2>2, <4>1, SMT
      <4> QED BY <1>1, <4>2, <4>3 DEF NoPacket
    <3> QED BY <2>1, <3>2 DEF NoPacket
  <2>7. LostPacket'
    BY <1>1, <2>4, <2>5, <2>6 DEF LostPacket
  <2> QED BY <2>7 DEF Mending
<1>3. CASE Refused
  <2>1. /\ toClient # <<>> /\ toClient' = Tail(toClient) /\ phase' = "ack"
        /\ UNCHANGED <<server, asked>> /\ ToServer(Packet(asked)) /\ tries' = 0
    BY <1>1, <1>3 DEF Refused, Read
  <2>2. toClient' \in Seq(Refusals)
    BY <1>1, <2>1, HeadTailProperties
  <2>3. Live'
    BY <1>1, <2>1, <2>2, AskedOnceMore
  <2> QED BY <2>3 DEF Mending
<1>4. CASE Ignore
  <2>1. /\ toClient # <<>> /\ toClient' = Tail(toClient) /\ phase' = "ack"
        /\ UNCHANGED <<gdb, Last, asked, toServer, tries>>
    BY <1>1, <1>4 DEF Ignore, Read, server, Last
  <2>2. toClient' \in Seq(Refusals)
    BY <1>1, <2>1, HeadTailProperties
  <2>3. LostPacket'
    BY <1>1, <2>1, <2>2 DEF LostPacket
  <2> QED BY <2>3 DEF Mending
<1>5. CASE TimeOut
  <2>1. /\ phase' = "ack" /\ tries' = 0 + 1 /\ ToServer(Packet(asked))
        /\ UNCHANGED <<server, asked, toClient>>
    BY <1>1, <1>5 DEF TimeOut, Retry
  <2>2. Live'
    BY <1>1, <2>1, AskedOnceMore
  <2> QED BY <2>2 DEF Mending
<1> QED
  <2>1. ~Acknowledged
    <3>1. ASSUME Acknowledged PROVE FALSE
      <4>1. toClient # <<>> /\ Head(toClient) = Ack
        BY <3>1 DEF Acknowledged, Read
      <4>2. Head(toClient) \in Refusals
        BY <1>1, <4>1, HeadTailProperties
      <4> QED BY <4>1, <4>2, MessageKinds
    <3> QED BY <3>1
  <2>2. ~GiveUp /\ ~HastyTimeOut
    BY <1>1, NotYet, NotAgain
  <2>3. ClientStep => Refused \/ Ignore \/ TimeOut
    BY <1>1, <2>1, <2>2, StepsByPhase
  <2>4. GdbThread => ScanStep
    BY <1>1 DEF GdbThread, ScanStep, ScanEnd, Handle
  <2> QED BY <1>2, <1>3, <1>4, <1>5, <2>3, <2>4

LEMMA LostAckStep ==
  ASSUME Known, LostAck, GdbThread \/ ClientStep, faults' = faults,
         gdb' # "dead"
  PROVE  Mending'
<1>1. /\ toServer = <<>> /\ toClient \in Seq(Message) /\ asked \in Request
      /\ phase = "ack" /\ ~Closed /\ tries = 0 /\ faults \in 0 .. MaxFaults
      /\ executed \in Seq(Request)
      /\ \/ gdb = "handle" /\ serving = asked /\ Last = asked - 1 /\ toClient = <<>>
         \/ gdb = "scan" /\ Last = asked /\ toClient \in {<<>>, <<Told>>}
  BY SessionTypes DEF Known, TypeOK, LostAck, Closed
<1>2. /\ Told \in Replies /\ Told \in Message /\ Told \in Refusals
      /\ Told \notin {Ack, Nak, Noise}
  BY <1>1, MessageKinds DEF Told, Replies
<1>3. CASE Handle
  <2>1. gdb = "handle" /\ serving = asked /\ toClient = <<>>
    BY <1>1, <1>3 DEF Handle
  <2>2. /\ ToClient(<<Told>>, "scan") /\ executed' = Append(executed, asked)
        /\ UNCHANGED <<toServer, asked, phase, tries, Told>>
    BY <1>3, <2>1 DEF Handle, Told, client
  <2>3. Last' = asked
    <3>1. /\ executed' # <<>> /\ Len(executed') = Len(executed) + 1
          /\ executed'[Len(executed) + 1] = asked
      BY <1>1, <2>2, AppendProperties
    <3> QED BY <3>1 DEF Last
  <2>4. gdb' = "scan" /\ toClient' = toClient \o <<Told>>
    BY <1>1, <1>2, <2>2, WrittenOne
  <2>5. toClient' = <<Told>>
    BY <2>1, <2>4, Two
  <2>6. LostAck'
    BY <1>1, <2>2, <2>3, <2>4, <2>5 DEF LostAck
  <2> QED BY <2>6 DEF Mending
<1>4. CASE Ignore
  <2>1. /\ toClient # <<>> /\ toClient' = Tail(toClient) /\ phase' = "ack"
        /\ UNCHANGED <<gdb, Last, asked, toServer, tries>>
    BY <1>1, <1>4 DEF Ignore, Read, server, Last
  <2>2. gdb = "scan" /\ Last = asked /\ toClient = <<Told>>
    BY <1>1, <2>1
  <2>3. toClient' = <<>>
    <3>1. Tail(<<Told>>) = <<>>
      OBVIOUS
    <3> QED BY <2>1, <2>2, <3>1
  <2>4. LostAck'
    BY <1>1, <2>1, <2>2, <2>3 DEF LostAck
  <2> QED BY <2>4 DEF Mending
<1>5. CASE TimeOut
  <2>1. /\ phase' = "ack" /\ tries' = 0 + 1 /\ ToServer(Packet(asked))
        /\ UNCHANGED <<server, asked, toClient>> /\ gdb = "scan"
        /\ toClient = <<>>
    BY <1>1, <1>5 DEF TimeOut, Retry, Quiet
  <2>2. NoPacket(toServer) /\ toClient' \in Seq(Refusals) /\ Last = asked
    BY <1>1, <2>1, StreamEmpty, EmptySeq
  <2>3. Live'
    BY <1>1, <2>1, <2>2, AskedOnceMore
  <2> QED BY <2>3 DEF Mending
<1> QED
  <2>1. ASSUME Acknowledged \/ Refused PROVE FALSE
    <3>1. toClient # <<>> /\ Head(toClient) \in {Ack, Nak}
      BY <2>1 DEF Acknowledged, Refused, Read
    <3>2. Head(<<Told>>) = Told
      OBVIOUS
    <3> QED BY <1>1, <1>2, <3>1, <3>2
  <2>2. ~GiveUp /\ ~HastyTimeOut
    BY <1>1, NotYet, NotAgain
  <2>3. ClientStep => Ignore \/ TimeOut
    BY <1>1, <2>1, <2>2, StepsByPhase
  <2>4. ~ScanStep
    BY <1>1, EmptyScanned
  <2>5. GdbThread => Handle
    BY <1>1, <2>4 DEF GdbThread, ScanStep, ScanEnd
  <2> QED BY <1>3, <1>4, <1>5, <2>3, <2>5

LEMMA LostAnswerStep ==
  ASSUME Known, LostAnswer, GdbThread \/ ClientStep, faults' = faults,
         gdb' # "dead"
  PROVE  Mending'
<1>1. /\ toServer = <<>> /\ toServer \in Seq(Character) /\ gdb = "scan"
      /\ Last = asked /\ tries = 0 /\ ~Closed /\ faults \in 0 .. MaxFaults
      /\ Junk \subseteq Character
      /\ \/ phase = "ack" /\ toClient \in {<<Ack>>, <<Ack, Noise>>}
         \/ phase = "answer" /\ toClient \in {<<>>, <<Noise>>}
  BY SessionAssumption DEF Known, TypeOK, LostAnswer, Closed, Character
<1>2. /\ Tail(<<Ack>>) = <<>> /\ Tail(<<Ack, Noise>>) = <<Noise>>
      /\ Tail(<<Noise>>) = <<>> /\ Head(<<Ack>>) = Ack
      /\ Head(<<Ack, Noise>>) = Ack /\ Head(<<Noise>>) = Noise
  OBVIOUS
<1>3. ASSUME ToServer(<<Char("-")>>) PROVE toServer' = <<Char("-")>>
  <2>1. toServer' = toServer \o <<Char("-")>>
    <3>1. <<Char("-")>> \in Seq(Character)
      BY SignIs
    <3> QED BY <1>1, <1>3, <3>1, Sent
  <2> QED BY <1>1, <2>1, Two
<1>4. CASE Acknowledged
  <2>1. /\ phase = "ack" /\ phase' = "answer" /\ toClient' = Tail(toClient)
        /\ tries' = 0 /\ UNCHANGED <<gdb, Last, asked, toServer>>
    BY <1>4 DEF Acknowledged, Read, server, Last
  <2>2. toClient' \in {<<>>, <<Noise>>}
    BY <1>1, <1>2, <2>1
  <2>3. LostAnswer'
    BY <1>1, <2>1, <2>2 DEF LostAnswer
  <2> QED BY <2>3 DEF Mending
<1>5. CASE Damaged
  <2>1. /\ phase = "answer" /\ phase' = "answer" /\ toClient # <<>>
        /\ toClient' = Tail(toClient) /\ ToServer(<<Char("-")>>)
        /\ UNCHANGED <<gdb, Last, asked, tries>>
    BY <1>5 DEF Damaged, Read, server, Last
  <2>2. toServer' = <<Char("-")>> /\ toClient' = <<>>
    BY <1>1, <1>2, <1>3, <2>1
  <2>3. tries' <= 1
    BY <1>1, <2>1, SMT
  <2>4. AskedAgain'
    BY <1>1, <2>1, <2>2, <2>3 DEF AskedAgain
  <2> QED BY <2>4 DEF Mending
<1>6. CASE TimeOut
  <2>1. /\ toClient = <<>> /\ tries' = 0 + 1
        /\ phase = "answer" => ToServer(<<Char("-")>>)
        /\ UNCHANGED <<gdb, Last, asked, toClient, phase>>
    BY <1>1, <1>6 DEF TimeOut, Retry, Quiet, server, Last
  <2>2. phase = "answer"
    BY <1>1, <2>1
  <2>3. toServer' = <<Char("-")>>
    BY <1>3, <2>1, <2>2
  <2>4. tries' <= 1
    BY <2>1, SMT
  <2>5. AskedAgain'
    BY <1>1, <2>1, <2>2, <2>3, <2>4 DEF AskedAgain
  <2> QED BY <2>5 DEF Mending
<1> QED
  <2>1. ASSUME phase = "ack", Refused \/ Ignore PROVE FALSE
    <3>1. Head(toClient) # Ack
      BY <2>1, MessageKinds DEF Refused, Ignore, Read
    <3> QED BY <1>1, <1>2, <2>1, <3>1
  <2>2. ASSUME phase = "answer", Ignore \/ Take PROVE FALSE
    <3>1. toClient # <<>> /\ Head(toClient) # Noise
      BY <2>2, MessageKinds DEF Ignore, Take, Read
    <3> QED BY <1>1, <1>2, <2>2, <3>1
  <2>3. ~GiveUp /\ ~HastyTimeOut
    BY <1>1, NotYet, NotAgain
  <2>4. ClientStep => Acknowledged \/ Damaged \/ TimeOut
    BY <1>1, <2>1, <2>2, <2>3, StepsByPhase
  <2>5. ~ScanStep
    BY <1>1, EmptyScanned
  <2>6. ~GdbThread
    BY <1>1, <2>5 DEF GdbThread, ScanStep, ScanEnd, Handle
  <2> QED BY <1>4, <1>5, <1>6, <2>4, <2>6

\* The retransmission that the client has asked for brings the answer.
LEMMA AskedAgainStep ==
  ASSUME Known, AskedAgain, GdbThread \/ ClientStep, faults' = faults,
         gdb' # "dead"
  PROVE  Mending'
<1>1. /\ toServer = <<Char("-")>> /\ gdb = "scan" /\ Last = asked
      /\ toClient \in Seq(Message) /\ toClient = <<>> /\ asked \in Request
      /\ tries <= 1 /\ phase = "answer" /\ ~Closed /\ faults \in 0 .. MaxFaults
  BY SessionTypes DEF Known, TypeOK, AskedAgain, Closed
<1>2. /\ toServer \in Seq(Character) /\ toServer # <<>>
      /\ toServer[1] = Char("-") /\ Rules!Drop(toServer, 1) = <<>>
  <2>1. Rules!Drop(<<Char("-")>>, 1) = <<>>
    BY EmptySeq, DropSign
  <2>2. /\ <<Char("-")>> \in Seq(Character) /\ Len(<<Char("-")>>) = 1
        /\ <<Char("-")>>[1] = Char("-") /\ Len(<<>>) = 0
    BY SignIs
  <2> QED BY <1>1, <2>1, <2>2
<1>3. /\ Token # "none"
      /\ ScanStep => ScanRetransmission /\ toServer' = <<>>
  BY <1>2, SignScanned
<1>4. ScanRetransmission /\ toServer' = <<>>
  <2>1. ~Quiet
    BY <1>3 DEF Quiet
  <2>2. ~TimeOut /\ ~GiveUp
    BY <2>1 DEF TimeOut, GiveUp
  <2>3. ~HastyTimeOut
    BY NotAgain
  <2>4. ~ClientStep
    BY <1>1, <2>2, <2>3, StepsByPhase, ReadsMessage
  <2>5. GdbThread => ScanStep
    BY <1>1 DEF GdbThread, ScanStep, ScanEnd, Handle
  <2> QED BY <1>3, <2>4, <2>5
<1> DEFINE x == Answer(Last, Reply(Letter[Last]))
<1>5. /\ x \in Replies /\ x \in Sound /\ packet = <<x>> /\ asked > 0
  <2>1. asked > 0 /\ asked # 0
    BY <1>1, SMT DEF Request
  <2>2. executed # <<>>
    BY <1>1, <2>1 DEF Last
  <2>3. packet = <<x>>
    BY <2>2 DEF Known
  <2> QED BY <1>1, <2>1, <2>3, MessageKinds
<1> HIDE DEF x
<1>6. /\ Flush \in Seq(Sound) /\ packet \in Seq(Sound) /\ Len(packet) = 1
      /\ packet[1] = x
  <2>1. Nak \in Sound
    BY MessageKinds
  <2>2. Flush \in Seq(Sound)
    BY <2>1, EmptySeq DEF Flush
  <2> QED BY <1>5, <2>2
<1> DEFINE u == Flush \o packet
<1>7. u \in Seq(Sound) /\ \E m \in 1 .. Len(u) : m > 0 /\ u[m] = x
  <2>1. ASSUME NEW s \in Seq(Sound), NEW t \in Seq(Sound), Len(t) = 1
        PROVE  /\ s \o t \in Seq(Sound)
               /\ \E m \in 1 .. Len(s \o t) : m > 0 /\ (s \o t)[m] = t[1]
    <3>1. /\ s \o t \in Seq(Sound) /\ Len(s \o t) = Len(s) + Len(t)
          /\ Len(s) \in Nat
          /\ \A k \in 1 .. Len(t) : (s \o t)[Len(s) + k] = t[k]
      BY Joined
    <3>2. /\ Len(s) + 1 \in 1 .. Len(s) + 1 /\ Len(s) + 1 > 0
          /\ 1 \in 1 .. 1
      BY <3>1, SMT
    <3> QED BY <2>1, <3>1, <3>2
  <2>2. /\ u \in Seq(Sound)
        /\ \E m \in 1 .. Len(u) : m > 0 /\ u[m] = packet[1]
    BY <1>6, <2>1
  <2> HIDE DEF u
  <2> QED BY <1>6, <2>2
<1>8. /\ ToClient(u, "scan")
      /\ UNCHANGED <<executed, asked, phase, tries, Last>>
  BY <1>4 DEF ScanRetransmission, client, Last
<1> HIDE DEF u
<1>9. gdb' = "scan" /\ toClient' = u
  <2>1. u \in Seq(Message)
    BY <1>7, MessageKinds, SeqMonotonic
  <2>2. gdb' = "scan" /\ toClient' = toClient \o u
    BY <1>1, <1>8, <2>1, Written
  <2>3. <<>> \o u = u
    BY <2>1, ConcatEmptySeq
  <2> QED BY <1>1, <2>2, <2>3
<1>10. AnswerComes'
  BY <1>5, <1>7, <1>9 DEF AnswerComes, AnswerAfter
<1>11. /\ Current' = asked /\ asked' = asked /\ asked \in Nat
       /\ toServer' \in Seq(Character)
  BY <1>1, <1>4, <1>8, <1>9, EmptySeq, SMT DEF Current, Request
<1>12. Stream(toServer', 0, Current', asked')
  BY <1>4, <1>11, StreamEmpty
<1>13. Live'
  BY <1>1, <1>7, <1>8, <1>9, <1>10, <1>11, <1>12, LiveNow
<1> QED BY <1>13 DEF Mending

LEMMA MendingStep ==
  ASSUME Known, Mending, gdb # "dead", GdbThread \/ ClientStep,
         faults' = faults, gdb' # "dead"
  PROVE  Mending'
<1>1. CASE Live
  <2>1. Live'
    BY <1>1, LiveThread, LiveClient
  <2> QED BY <2>1 DEF Mending
<1>2. CASE ~Live
  BY <1>2, LostPacketStep, LostAckStep, LostAnswerStep, AskedAgainStep DEF Mending
<1> QED BY <1>1, <1>2
-----------------------------------------------------------------------------
(***************************************************************************)
(* One fault is mended, and the requests are executed in their order.      *)
(***************************************************************************)
LEMMA OneFault ==
  ASSUME GdbThread \/ ClientStep
  PROVE  faults' \in {faults, faults + 1}
<1>1. \A u, next : ToClient(u, next) => faults' \in {faults, faults + 1}
  BY DEF ToClient, Fault
<1>2. \A u : ToServer(u) => faults' \in {faults, faults + 1}
  BY DEF ToServer, Fault
<1>3. CASE GdbThread
  BY <1>1, <1>3 DEF GdbThread, ScanAck, ScanRetransmission, RefusePacket,
     AcceptPacket, ScanInvalid, ScanNewline, ScanEnd, Handle
<1>4. CASE ClientStep
  BY <1>2, <1>4 DEF ClientStep, Ask, Wait, Acknowledged, Refused, Ignore, Damaged,
     Take, TimeOut, Retry, GiveUp, HastyTimeOut, Leave, Fault
<1> QED BY <1>3, <1>4

\* A step is one of the thread or of the client, or none.
LEMMA StepsAre ==
  ASSUME [Next]_vars
  PROVE  UNCHANGED vars \/ (gdb # "dead" /\ (GdbThread \/ ClientStep))
<1>1. GdbThread => gdb # "dead"
  BY DEF GdbThread, ScanAck, ScanRetransmission, RefusePacket, AcceptPacket,
         ScanInvalid, ScanNewline, ScanEnd, Handle, Scan
<1> QED BY <1>1 DEF Next, Ended

\* Only GiveUp ends the session in that phase.
LEMMA GivesUp ==
  ASSUME GdbThread \/ ClientStep, phase' = "given_up", phase # "given_up"
  PROVE  gdb' = gdb /\ faults' = faults
<1>1. ~GdbThread
  BY DEF GdbThread, ScanAck, ScanRetransmission, RefusePacket, AcceptPacket,
         ScanInvalid, ScanNewline, ScanEnd, Handle, client
<1>2. GiveUp
  BY <1>1 DEF ClientStep, Ask, Wait, Acknowledged, Refused, Ignore, Damaged,
     Take, TimeOut, Retry, HastyTimeOut, Leave, Read
<1> QED BY <1>2 DEF GiveUp, server

LEMMA MendedInit == Init => Mended
<1> SUFFICES ASSUME Init PROVE Mended
  OBVIOUS
<1>1. faults = 0 /\ phase = "idle" /\ Calm
  BY DEF Init, Calm, Idle, Last
<1>2. faults # 1
  BY <1>1, SMT
<1> QED BY <1>1, <1>2 DEF Mended

LEMMA MendedNext == Known /\ Mended /\ [Next]_vars => Mended'
<1> SUFFICES ASSUME Known, Mended, [Next]_vars PROVE Mended'
  OBVIOUS
<1>1. CASE UNCHANGED vars
  <2>1. UNCHANGED <<gdb, errors, serving, executed, toServer, toClient, asked,
                    phase, tries, faults, Last, Current, Told>>
    BY <1>1 DEF vars, Last, Current, Told
  <2>2. Calm' <=> Calm
    BY <2>1 DEF Calm, Idle, Asking, Handling, Answered
  <2>3. AckComes' <=> AckComes
    BY <2>1 DEF AckComes
  <2>4. AnswerComes' <=> AnswerComes
    BY <2>1 DEF AnswerComes
  <2>5. \A from \in 0 .. Len(toServer) : LiveFrom(from) => LiveFrom(from)'
    BY <2>1, <2>3, <2>4 DEF LiveFrom
  <2>6. Live => Live'
    BY <2>1, <2>5 DEF Live
  <2>7. Mending => Mending'
    BY <2>1, <2>6 DEF Mending, LostPacket, LostAck, LostAnswer, AskedAgain
  <2> QED BY <2>1, <2>2, <2>7 DEF Mended
<1>2. CASE gdb # "dead" /\ (GdbThread \/ ClientStep)
  <2>1. faults' \in {faults, faults + 1} /\ faults \in Nat
    BY <1>2, OneFault, SessionTypes
  <2>2. faults' = 0 /\ gdb' # "dead" => Calm'
    <3>1. faults' = 0 => faults = 0
      BY <2>1, SMT
    <3> QED BY <1>2, <3>1, CalmStep DEF Mended, Mends
  <2>3. faults' = 1 /\ gdb' # "dead" => Mending'
    <3>1. faults' = 1 => faults = 0 \/ (faults = 1 /\ faults' = faults)
      BY <2>1, SMT
    <3>2. CASE faults = 0
      BY <1>2, <3>2, CalmStep DEF Mended, Mends
    <3>3. CASE faults = 1 /\ faults' = faults
      BY <1>2, <3>3, MendingStep DEF Mended
    <3> QED BY <3>1, <3>2, <3>3
  <2>4. ASSUME faults' <= 1, phase' = "given_up" PROVE FALSE
    <3>1. faults <= 1 /\ (faults' = 0 \/ faults' = 1)
      BY <2>1, <2>4, SMT
    <3>2. gdb' # "dead"
      BY <1>2, <2>4, <3>1, GivesUp DEF Mended
    <3>3. ~Calm'
      BY <2>4 DEF Calm, Idle, Asking, Handling, Answered
    <3>4. ~Mending'
      BY <2>4 DEF Mending, Live, LostPacket, LostAck, LostAnswer, AskedAgain
    <3> QED BY <2>2, <2>3, <3>1, <3>2, <3>3, <3>4
  <2> QED BY <2>2, <2>3, <2>4 DEF Mended
<1> QED BY <1>1, <1>2, StepsAre

\* No single fault makes the client give up: whatever is lost or damaged, or
\* sent again too early, the requests for retransmission of both sides mend it
\* (scanner.l:62-66, gdb_protocol.c:114-116, 463-467).
THEOREM MendedCorrect == Spec => []OneFaultMended
<1>1. Known /\ Mended => OneFaultMended
  <2>1. ASSUME Known, Mended, phase = "given_up" PROVE faults > 1
    <3>1. faults \in Nat /\ ~(faults <= 1)
      BY <2>1, SessionTypes DEF Mended
    <3> QED BY <3>1, SMT
  <2> QED BY <2>1 DEF OneFaultMended
<1> QED BY <1>1, KnownInit, KnownNext, MendedInit, MendedNext, PTL DEF Spec

\* The thread handles the request after the last one, or that one again, until
\* the second fault.
LEMMA ServingIs ==
  ASSUME Known, Mended, gdb = "handle"
  PROVE  faults > 1 \/ serving \in {Last, Last + 1}
<1>1. faults \in Nat /\ asked \in Nat
  BY SessionTypes
<1>2. CASE faults = 0
  <2>1. Handling
    BY <1>2 DEF Mended, Calm, Idle, Asking, Answered
  <2>2. Last + 1 = asked
    BY <1>1, <2>1, SMT DEF Handling
  <2> QED BY <2>1, <2>2 DEF Handling
<1>3. CASE faults = 1
  <2>1. Live \/ (LostAck /\ serving = asked /\ Last = asked - 1)
    BY <1>3 DEF Mended, Mending, LostPacket, LostAck, LostAnswer, AskedAgain
  <2>2. Last = asked - 1 => Last + 1 = asked
    BY <1>1, SMT
  <2> QED BY <2>1, <2>2 DEF Live
<1>4. faults = 0 \/ faults = 1 \/ faults > 1
  BY <1>1, SMT
<1> QED BY <1>2, <1>3, <1>4

LEMMA HandleServes ==
  ASSUME Known, Handle
  PROVE  /\ gdb = "handle" /\ serving \in 1 .. asked /\ Last' = serving
         /\ executed' = Append(executed, serving) /\ asked' = asked
<1>1. /\ gdb = "handle" /\ executed \in Seq(Request) /\ serving \in 1 .. asked
      /\ serving \in Request
  BY SessionTypes DEF Known, TypeOK, Handle
<1>2. executed' = Append(executed, serving) /\ asked' = asked
  BY DEF Handle, client
<1>3. /\ executed' # <<>> /\ Len(executed') = Len(executed) + 1
      /\ executed'[Len(executed) + 1] = serving
  BY <1>1, <1>2, AppendProperties
<1>4. Last' = serving
  BY <1>3 DEF Last
<1> QED BY <1>1, <1>2, <1>4

LEMMA OtherSteps ==
  ASSUME (GdbThread /\ ~Handle) \/ ClientStep
  PROVE  /\ UNCHANGED <<executed, Last>>
         /\ asked' = asked \/ Ask
<1>1. UNCHANGED executed /\ (asked' = asked \/ Ask)
  BY DEF GdbThread, ScanAck, ScanRetransmission, RefusePacket, AcceptPacket,
     ScanInvalid, ScanNewline, ScanEnd, ClientStep, Wait, Acknowledged, Refused,
     Ignore, Damaged, Take, TimeOut, Retry, GiveUp, HastyTimeOut, Leave, Ask, Read,
     client, server
<1> QED BY <1>1 DEF Last

LEMMA OrderNext ==
  Known /\ Mended /\ [Next]_vars => [Service!Next]_(Service!vars)
<1> SUFFICES ASSUME Known, Mended, [Next]_vars
             PROVE  [Service!Next]_(Service!vars)
  OBVIOUS
<1>1. CASE UNCHANGED vars
  BY <1>1 DEF vars, Last, Service!vars
<1>2. CASE gdb # "dead" /\ (GdbThread \/ ClientStep)
  <2>1. faults' \in {faults, faults + 1}
    BY <1>2, OneFault
  <2>2. CASE Handle
    <3>1. /\ gdb = "handle" /\ serving \in 1 .. asked /\ Last' = serving
          /\ asked' = asked /\ asked \in Nat /\ Last \in Nat
      BY <2>2, HandleServes, SessionTypes, SMT
    <3>2. CASE faults > 1
      BY <2>1, <3>1, <3>2 DEF Service!Next, Service!Astray
    <3>3. CASE serving = Last
      BY <2>1, <3>1, <3>3 DEF Service!Next
    <3>4. CASE serving = Last + 1
      <4>1. Last < asked
        BY <3>1, <3>4, SMT
      <4> QED BY <2>1, <3>1, <3>4, <4>1 DEF Service!Next, Service!Execute
    <3> QED BY <3>1, <3>2, <3>3, <3>4, ServingIs
  <2>3. CASE ~Handle
    <3>1. Last' = Last /\ (asked' = asked \/ Ask)
      BY <1>2, <2>3, OtherSteps
    <3>2. Ask => asked < MaxRequests /\ asked' = asked + 1
      BY DEF Ask
    <3> QED BY <2>1, <3>1, <3>2 DEF Service!Next, Service!Ask
  <2> QED BY <2>2, <2>3
<1> QED BY <1>1, <1>2, StepsAre

\* The session implements RequestService: until the second fault the requests
\* are executed in the order in which they are made and none is passed over
\* (gdb_protocol.c:463-476, scanner.l:62-70).
THEOREM OrderCorrect == Spec => InOrder
<1>1. Init => Service!Init
  BY DEF Init, Last, Service!Init
<1> QED
  BY <1>1, KnownInit, KnownNext, MendedInit, MendedNext, OrderNext, PTL
     DEF Spec, InOrder, Service!Spec

\* Without faults the k-th request executed is the k-th one made: none is
\* executed twice (gdb_protocol.c:463-476).
Once == faults = 0 => \A k \in 1 .. Len(executed) : executed[k] = k

LEMMA OnceNext == Known /\ Mended /\ Once /\ [Next]_vars => Once'
<1> SUFFICES ASSUME Known, Mended, Once, [Next]_vars, faults' = 0
             PROVE  \A k \in 1 .. Len(executed') : executed'[k] = k
  BY DEF Once
<1>1. CASE UNCHANGED vars
  BY <1>1 DEF vars, Once
<1>2. CASE gdb # "dead" /\ (GdbThread \/ ClientStep)
  <2>1. faults = 0
    <3>1. faults' \in {faults, faults + 1} /\ faults \in Nat
      BY <1>2, OneFault, SessionTypes
    <3> QED BY <3>1, SMT
  <2>2. \A k \in 1 .. Len(executed) : executed[k] = k
    BY <2>1 DEF Once
  <2>3. CASE Handle
    <3>1. gdb = "handle" /\ executed' = Append(executed, serving)
      BY <2>3, HandleServes
    <3>2. /\ executed \in Seq(Request) /\ Len(executed) \in Nat
          /\ serving \in Request
      BY <3>1, LenProperties, SessionTypes DEF Known, TypeOK
    <3>3. serving = Last + 1
      <4>1. Handling /\ asked \in Nat
        BY <2>1, <3>1, SessionTypes DEF Mended, Calm, Idle, Asking, Answered
      <4> QED BY <4>1, SMT DEF Handling
    <3>4. Last = Len(executed)
      <4>1. CASE executed = <<>>
        BY <4>1 DEF Last
      <4>2. CASE executed # <<>>
        <5>1. Len(executed) # 0
          BY <3>2, <4>2, EmptySeq
        <5>2. Len(executed) \in 1 .. Len(executed)
          BY <3>2, <5>1, SMT
        <5> QED BY <2>2, <4>2, <5>2 DEF Last
      <4> QED BY <4>1, <4>2
    <3>5. /\ Len(executed') = Len(executed) + 1
          /\ \A k \in 1 .. Len(executed) : executed'[k] = executed[k]
          /\ executed'[Len(executed) + 1] = serving
      BY <3>1, <3>2, AppendProperties
    <3>6. \A k \in 1 .. Len(executed') :
            k \in 1 .. Len(executed) \/ k = Len(executed) + 1
      BY <3>2, <3>5, SMT
    <3> QED BY <2>2, <3>3, <3>4, <3>5, <3>6
  <2>4. CASE ~Handle
    BY <1>2, <2>2, <2>4, OtherSteps
  <2> QED BY <2>3, <2>4
<1> QED BY <1>1, <1>2, StepsAre

\* A link without faults brings no request twice (scanner.l:62-70,
\* gdb_protocol.c:463-476).
THEOREM OnceCorrect == Spec => []Once
<1>1. Init => Once
  <2>1. ASSUME Init PROVE 1 .. Len(executed) = {}
    BY <2>1, SMT DEF Init
  <2> QED BY <2>1 DEF Once
<1> QED BY <1>1, KnownInit, KnownNext, MendedInit, MendedNext, OnceNext, PTL
        DEF Spec
-----------------------------------------------------------------------------
(***************************************************************************)
(* Repetitions.  A fault leaves debris, a packet too many or a request for *)
(* retransmission; each of them costs something until the client has read  *)
(* what came of it.                                                        *)
(*                                                                         *)
(* Covers(s, C): what the characters of s may still cost, in halves of a   *)
(* repetition.  C[k] is the cost of those behind place k.  It falls with   *)
(* each character, except at signs, which flush the invalid characters,    *)
(* and inside a packet, whose first character is charged for all of it;    *)
(* there it is even.  It pays for the requests that are still in s.        *)
(***************************************************************************)
Even(n) == \E h \in Nat : n = 2 * h

LEMMA EvenSum ==
  ASSUME NEW m, NEW n, Even(m), Even(n)
  PROVE  Even(m + n)
<1>1. PICK a \in Nat : m = 2 * a
  BY DEF Even
<1>2. PICK b \in Nat : n = 2 * b
  BY DEF Even
<1>3. a + b \in Nat /\ m + n = 2 * (a + b)
  BY <1>1, <1>2, SMT
<1> QED BY <1>3 DEF Even

\* The requests of the intact packets behind place k.
Requested(s, k) == {Number(s, b) : b \in Packets(s, k)}

\* Place k is behind the first character of an intact packet, which is charged
\* with the whole packet.
Inside(s, C, k) ==
  \E b \in 1 .. k - 1 :
    k <= b + 3 /\ Intact(s, b) /\ C[b - 1] = C[b] + 2 /\ C[b + 3] = C[b]

Covers(s, C) ==
  /\ C \in [0 .. Len(s) -> Nat] /\ C[Len(s)] = 0
  /\ \A i, k \in 0 .. Len(s) : i <= k => C[k] <= C[i]
  /\ \A k \in 1 .. Len(s) :
       \/ C[k] < C[k - 1]
       \/ Even(C[k]) /\ (s[k] \in {Char("+"), Char("-")} \/ Inside(s, C, k))
  /\ \A k \in 0 .. Len(s) : 2 * Cardinality(Requested(s, k)) <= C[k]

LEMMA CoversStarts ==
  ASSUME NEW s \in Seq(Character), NEW C, Covers(s, C)
  PROVE  C[0] \in Nat
<1>1. Len(s) \in Nat
  BY LenProperties
<1>2. 0 \in 0 .. Len(s)
  BY <1>1, SMT
<1> QED BY <1>2 DEF Covers

LEMMA RequestedDrop ==
  ASSUME NEW s \in Seq(Character), NEW n \in 0 .. Len(s), NEW k \in 0 .. Len(s) - n
  PROVE  Requested(Rules!Drop(s, n), k) = Requested(s, k + n)
<1> DEFINE d == Rules!Drop(s, n)
<1>1. Len(s) \in Nat /\ n \in Nat /\ Len(d) = Len(s) - n
  <2>1. Len(s) \in Nat
    BY LenProperties
  <2> QED BY <2>1, CutOff, SMT
<1>2. ASSUME NEW b \in Packets(d, k)
      PROVE  b + n \in Packets(s, k + n) /\ Number(d, b) = Number(s, b + n)
  <2>1. /\ b \in 1 .. Len(s) - n /\ b + n \in k + n + 1 .. Len(s)
        /\ Intact(d, b)
    BY <1>1, SMT DEF Packets
  <2> QED BY <2>1, IntactMoved DEF Packets, d
<1>3. ASSUME NEW b \in Packets(s, k + n)
      PROVE  b - n \in Packets(d, k) /\ Number(d, b - n) = Number(s, b)
  <2>1. /\ b - n \in 1 .. Len(s) - n /\ b - n \in k + 1 .. Len(d)
        /\ b - n + n = b /\ Intact(s, b)
    BY <1>1, SMT DEF Packets
  <2> QED BY <2>1, IntactMoved DEF Packets, d
<1> QED BY <1>2, <1>3 DEF Requested

\* What is left to cover behind a token.
LEMMA CoversDrop ==
  ASSUME NEW s \in Seq(Character), NEW n \in 0 .. Len(s), NEW C, Covers(s, C),
         \A b \in 1 .. n : Intact(s, b) => n = b + 3
  PROVE  \E D : Covers(Rules!Drop(s, n), D) /\ D[0] = C[n]
<1> DEFINE d == Rules!Drop(s, n)
           D == [k \in 0 .. Len(s) - n |-> C[k + n]]
<1>1. /\ Len(s) \in Nat /\ n \in Nat /\ n <= Len(s) /\ d \in Seq(Character)
      /\ Len(d) = Len(s) - n /\ \A k \in 1 .. Len(s) - n : d[k] = s[k + n]
  <2>1. Len(s) \in Nat
    BY LenProperties
  <2>2. n \in Nat /\ n <= Len(s)
    BY <2>1, SMT
  <2> QED BY <2>1, <2>2, CutOff
<1>2. /\ C \in [0 .. Len(s) -> Nat] /\ C[Len(s)] = 0
      /\ \A i, k \in 0 .. Len(s) : i <= k => C[k] <= C[i]
      /\ \A k \in 1 .. Len(s) :
           \/ C[k] < C[k - 1]
           \/ Even(C[k]) /\ (s[k] \in {Char("+"), Char("-")} \/ Inside(s, C, k))
      /\ \A k \in 0 .. Len(s) : 2 * Cardinality(Requested(s, k)) <= C[k]
  BY DEF Covers
<1>3. \A k \in 0 .. Len(s) - n : k + n \in 0 .. Len(s) /\ D[k] = C[k + n]
  <2>1. \A k \in 0 .. Len(s) - n : k + n \in 0 .. Len(s)
    BY <1>1, SMT
  <2> QED BY <2>1
<1>4. D \in [0 .. Len(d) -> Nat]
  <2>1. \A k \in 0 .. Len(s) - n : C[k + n] \in Nat
    BY <1>2, <1>3
  <2> QED BY <1>1, <2>1
<1> HIDE DEF d, D
<1>5. D[Len(d)] = 0
  <2>1. Len(s) - n \in 0 .. Len(s) - n /\ Len(s) - n + n = Len(s)
    BY <1>1, SMT
  <2> QED BY <1>1, <1>2, <1>3, <2>1
<1>6. ASSUME NEW i \in 0 .. Len(d), NEW k \in 0 .. Len(d), i <= k
      PROVE  D[k] <= D[i]
  <2>1. i + n <= k + n
    BY <1>1, <1>6, SMT
  <2> QED BY <1>1, <1>2, <1>3, <2>1
<1>7. ASSUME NEW k \in 1 .. Len(d)
      PROVE  \/ D[k] < D[k - 1]
             \/ Even(D[k]) /\ (d[k] \in {Char("+"), Char("-")} \/ Inside(d, D, k))
  <2>1. /\ k \in 0 .. Len(s) - n /\ k - 1 \in 0 .. Len(s) - n
        /\ k + n \in 1 .. Len(s) /\ k - 1 + n = k + n - 1 /\ k \in 1 .. Len(s) - n
    BY <1>1, SMT
  <2>2. D[k] = C[k + n] /\ D[k - 1] = C[k + n - 1] /\ d[k] = s[k + n]
    BY <1>1, <1>3, <2>1
  <2>3. ASSUME Inside(s, C, k + n) PROVE Inside(d, D, k)
    <3>1. PICK b \in 1 .. k + n - 1 :
            k + n <= b + 3 /\ Intact(s, b) /\ C[b - 1] = C[b] + 2 /\ C[b + 3] = C[b]
      BY <2>3 DEF Inside
    <3>2. ~(b \in 1 .. n)
      BY <1>1, <3>1, SMT
    <3> DEFINE a == b - n
    <3>3. /\ a \in 1 .. k - 1 /\ k <= a + 3 /\ a \in 1 .. Len(s) - n /\ a + n = b
      BY <1>1, <3>1, <3>2, SMT
    <3>4. b + 3 <= Len(s)
      BY <3>1 DEF Intact
    <3>5. /\ a - 1 \in 0 .. Len(s) - n /\ a \in 0 .. Len(s) - n
          /\ a + 3 \in 0 .. Len(s) - n
          /\ a - 1 + n = b - 1 /\ a + 3 + n = b + 3
      BY <1>1, <3>3, <3>4, SMT
    <3> HIDE DEF a
    <3>6. D[a - 1] = C[b - 1] /\ D[a] = C[b] /\ D[a + 3] = C[b + 3]
      BY <1>3, <3>3, <3>5
    <3>7. Intact(d, a)
      BY <3>1, <3>3, IntactMoved DEF d
    <3> QED BY <3>1, <3>3, <3>6, <3>7 DEF Inside
  <2> QED BY <1>2, <2>1, <2>2, <2>3
<1>8. ASSUME NEW k \in 0 .. Len(d)
      PROVE  2 * Cardinality(Requested(d, k)) <= D[k]
  <2>1. k + n \in 0 .. Len(s) /\ D[k] = C[k + n]
    BY <1>1, <1>3
  <2>2. Requested(d, k) = Requested(s, k + n)
    BY <1>1, RequestedDrop DEF d
  <2> QED BY <1>2, <2>1, <2>2
<1>9. D[0] = C[n]
  <2>1. 0 \in 0 .. Len(s) - n /\ 0 + n = n
    BY <1>1, SMT
  <2> QED BY <1>3, <2>1
<1>10. Covers(d, D)
  BY <1>4, <1>5, <1>6, <1>7, <1>8 DEF Covers
<1> QED BY <1>9, <1>10 DEF d

\* A single character that begins no packet.
LEMMA CoversOne ==
  ASSUME NEW s \in Seq(Character), s # <<>>, NEW C, Covers(s, C)
  PROVE  /\ C[0] \in Nat /\ C[1] \in Nat /\ C[1] <= C[0]
         /\ \/ C[1] < C[0]
            \/ Even(C[1]) /\ C[0] = C[1] /\ s[1] \in {Char("+"), Char("-")}
<1>1. Len(s) \in Nat /\ Len(s) # 0
  BY LenProperties, EmptySeq
<1>2. 1 \in 1 .. Len(s) /\ 0 \in 0 .. Len(s) /\ 1 \in 0 .. Len(s) /\ 0 <= 1
      /\ 1 - 1 = 0
  BY <1>1, SMT
<1>3. C[0] \in Nat /\ C[1] \in Nat /\ C[1] <= C[0]
  BY <1>2 DEF Covers
<1>4. ~Inside(s, C, 1)
  <2>1. 1 .. 1 - 1 = {}
    BY SMT
  <2> QED BY <2>1 DEF Inside
<1>5. C[1] < C[1 - 1] \/ (Even(C[1]) /\ s[1] \in {Char("+"), Char("-")})
  BY <1>2, <1>4 DEF Covers
<1> QED BY <1>2, <1>3, <1>5, SMT

\* An intact packet at the head.
LEMMA CoversPacket ==
  ASSUME NEW s \in Seq(Character), Intact(s, 1), NEW C, Covers(s, C)
  PROVE  /\ C[0] \in Nat /\ C[4] \in Nat
         /\ C[0] >= C[4] + 3 \/ (C[0] = C[4] + 2 /\ Even(C[4]))
<1>1. Len(s) \in Nat /\ 1 + 3 <= Len(s)
  BY LenProperties DEF Intact
<1>2. /\ {1, 2, 3, 4} \subseteq 1 .. Len(s) /\ {0, 1, 2, 3, 4} \subseteq 0 .. Len(s)
      /\ 1 - 1 = 0 /\ 2 - 1 = 1 /\ 3 - 1 = 2 /\ 4 - 1 = 3 /\ 1 + 3 = 4
      /\ 1 \in Nat \ {0} /\ 1 + 1 = 2 /\ 1 + 2 = 3 /\ s # <<>>
  <2>1. Len(<<>>) = 0
    OBVIOUS
  <2> QED BY <1>1, <2>1, SMT
<1>3. C \in [0 .. Len(s) -> Nat] /\ \A i, k \in 0 .. Len(s) : i <= k => C[k] <= C[i]
  BY DEF Covers
<1>4. /\ C[0] \in Nat /\ C[1] \in Nat /\ C[2] \in Nat /\ C[3] \in Nat /\ C[4] \in Nat
      /\ C[1] <= C[0] /\ C[2] <= C[1] /\ C[3] <= C[2] /\ C[4] <= C[3]
  <2>1. 0 <= 1 /\ 1 <= 2 /\ 2 <= 3 /\ 3 <= 4
    BY SMT
  <2> QED BY <1>2, <1>3, <2>1
<1>5. /\ s[1] = Char("$") /\ s[3] = Char("#")
      /\ s[2] = <<"body", Number(s, 1)>> /\ s[4] = <<"hex", Number(s, 1)>>
      /\ \A m \in 1 .. 3 : s[1 + m] # Char("$")
  BY <1>2, IntactIs
<1>6. C[1] < C[0]
  BY <1>2, <1>5, CoversOne DEF Char
<1>7. ASSUME NEW k \in {2, 3, 4}, ~(C[k] < C[k - 1])
      PROVE  C[0] = C[4] + 2 /\ Even(C[4])
  <2>1. s[k] \notin {Char("+"), Char("-")}
    BY <1>5, <1>7 DEF Char
  <2>2. Even(C[k]) /\ Inside(s, C, k)
    BY <1>2, <1>7, <2>1 DEF Covers
  <2>3. PICK b \in 1 .. k - 1 :
            k <= b + 3 /\ Intact(s, b) /\ C[b - 1] = C[b] + 2 /\ C[b + 3] = C[b]
    BY <2>2 DEF Inside
  <2>4. b = 1
    <3>1. ASSUME b # 1 PROVE FALSE
      <4>1. b - 1 \in 1 .. 3 /\ 1 + (b - 1) = b
        BY <3>1, SMT
      <4>2. s[b] = Char("$")
        BY <2>3 DEF Intact
      <4> QED BY <1>5, <4>1, <4>2
    <3> QED BY <3>1
  <2>5. C[0] = C[1] + 2 /\ C[4] = C[1]
    BY <1>2, <2>3, <2>4
  <2>6. C[k] = C[4]
    BY <1>4, <2>5, SMT
  <2> QED BY <2>2, <2>5, <2>6
<1>8. CASE C[2] < C[1] /\ C[3] < C[2] /\ C[4] < C[3]
  BY <1>4, <1>6, <1>8, SMT
<1>9. CASE ~(C[2] < C[1] /\ C[3] < C[2] /\ C[4] < C[3])
  BY <1>2, <1>4, <1>7, <1>9
<1> QED BY <1>4, <1>8, <1>9

\* A packet of debris at the head.
LEMMA CoversRefused ==
  ASSUME NEW s \in Seq(Character), NEW C, Covers(s, C), NEW n \in 2 .. Len(s),
         n + 1 \in 1 .. Len(s), s[1] = Char("$"), s[n] = Char("#"),
         s[n + 1][1] = "hex", \A b \in 1 .. n + 1 : ~Intact(s, b)
  PROVE  C[0] \in Nat /\ C[n + 1] \in Nat /\ C[0] >= C[n + 1] + 3
<1>1. /\ Len(s) \in Nat /\ n \in Nat /\ n - 1 \in Nat
      /\ {0, 1, n - 1, n, n + 1} \subseteq 0 .. Len(s)
      /\ {1, n, n + 1} \subseteq 1 .. Len(s)
      /\ 1 <= n - 1 /\ 1 - 1 = 0 /\ n + 1 - 1 = n
  <2>1. Len(s) \in Nat
    BY LenProperties
  <2> QED BY <2>1, SMT
<1>2. C \in [0 .. Len(s) -> Nat] /\ \A i, k \in 0 .. Len(s) : i <= k => C[k] <= C[i]
  BY DEF Covers
<1>3. /\ C[0] \in Nat /\ C[1] \in Nat /\ C[n - 1] \in Nat /\ C[n] \in Nat
      /\ C[n + 1] \in Nat /\ C[n - 1] <= C[1]
  BY <1>1, <1>2
<1>4. ASSUME NEW k \in {1, n, n + 1} PROVE C[k] < C[k - 1]
  <2>1. ~Inside(s, C, k)
    <3>1. \A b \in 1 .. k - 1 : b \in 1 .. n + 1
      BY <1>1, SMT
    <3> QED BY <3>1 DEF Inside
  <2>2. s[k] \notin {Char("+"), Char("-")}
    BY DEF Char
  <2> QED BY <1>1, <2>1, <2>2 DEF Covers
<1>5. C[1] < C[0] /\ C[n] < C[n - 1] /\ C[n + 1] < C[n]
  BY <1>1, <1>4
<1> QED BY <1>3, <1>5, SMT

\* What a sending t may be charged: a packet that arrives two at its first
\* character and nothing at the others, what is damaged an even sum that falls
\* with each character.
Charges(t, V) ==
  /\ V \in [0 .. Len(t) -> Nat] /\ V[Len(t)] = 0 /\ Even(V[0])
  /\ \A i, k \in 0 .. Len(t) : i <= k => V[k] <= V[i]
  /\ \A k \in 1 .. Len(t) :
       \/ V[k] < V[k - 1]
       \/ /\ Even(V[k])
          /\ \/ t[k] \in {Char("+"), Char("-")}
             \/ (\E i \in Request : t = Packet(i)) /\ V[0] = V[1] + 2 /\ V[4] = V[1]

\* Two packets do not overlap.
LEMMA PacketsApart ==
  ASSUME NEW s \in Seq(Character), NEW a \in Nat \ {0}, NEW b \in Nat \ {0},
         Intact(s, a), Intact(s, b), a < b
  PROVE  a + 3 < b
<1>1. ASSUME b <= a + 3 PROVE FALSE
  <2>1. b - a \in 1 .. 3 /\ a + (b - a) = b
    BY <1>1, SMT
  <2>2. s[b] # Char("$")
    BY <2>1, IntactIs
  <2> QED BY <2>2 DEF Intact
<1> QED BY <1>1, SMT

\* There are no more packets with a number of their own than requests.
LEMMA RequestedFinite ==
  ASSUME NEW w \in Seq(Character), NEW n \in Nat, IsFiniteSet(Request)
  PROVE  /\ Requested(w, n) \in SUBSET Request
         /\ IsFiniteSet(Requested(w, n)) /\ Cardinality(Requested(w, n)) \in Nat
<1>1. ASSUME NEW b \in Packets(w, n) PROVE Number(w, b) \in Request
  <2>1. Len(w) \in Nat
    BY LenProperties
  <2>2. b \in Nat \ {0} /\ Intact(w, b)
    BY <2>1, SMT DEF Packets
  <2> QED BY <2>2, IntactIs
<1>2. Requested(w, n) \in SUBSET Request
  BY <1>1 DEF Requested
<1> QED BY <1>2, FS_Subset, FS_CardinalityType

\* No packet ends in what is sent.
AddsNone(s, t) == \A b \in Nat \ {0} : Intact(s \o t, b) => b + 3 <= Len(s)

\* What is sent adds one packet at most.
LEMMA RequestsAdded ==
  ASSUME NEW s \in Seq(Character), NEW t \in Seq(Character), Len(t) <= 4,
         NEW n \in Nat, NEW v \in Nat, IsFiniteSet(Request),
         v >= 2 \/ AddsNone(s, t)
  PROVE  /\ n <= Len(s) =>
              2 * Cardinality(Requested(s \o t, n))
                <= 2 * Cardinality(Requested(s, n)) + v
         /\ n > Len(s) => Requested(s \o t, n) = {}
<1> DEFINE u == s \o t
<1>1. /\ u \in Seq(Character) /\ Len(s) \in Nat /\ Len(t) \in Nat
      /\ Len(u) = Len(s) + Len(t)
  BY Joined
<1>3. /\ IsFiniteSet(Requested(s, n)) /\ IsFiniteSet(Requested(u, n))
      /\ Cardinality(Requested(s, n)) \in Nat /\ Cardinality(Requested(u, n)) \in Nat
  BY <1>1, RequestedFinite
<1>4. \A b \in Packets(u, n) : b \in Nat \ {0} /\ Intact(u, b) /\ b > n /\ b + 3 <= Len(u)
  <2>1. ASSUME NEW b \in Packets(u, n)
        PROVE  b \in Nat \ {0} /\ Intact(u, b) /\ b > n /\ b + 3 <= Len(u)
    <3>1. Intact(u, b) /\ b + 3 <= Len(u) /\ b \in n + 1 .. Len(u)
      BY <2>1 DEF Packets, Intact
    <3>2. b \in Nat \ {0} /\ b > n
      BY <1>1, <3>1, SMT
    <3> QED BY <3>1, <3>2
  <2> QED BY <2>1
<1> HIDE DEF u
<1>5. ASSUME NEW b \in Packets(u, n), b + 3 <= Len(s)
      PROVE  Number(u, b) \in Requested(s, n)
  <2>1. b \in 1 .. Len(s) /\ b \in n + 1 .. Len(s)
    BY <1>1, <1>4, <1>5, SMT
  <2>2. Intact(s, b) /\ Number(u, b) = Number(s, b)
    BY <1>4, <1>5, <2>1, IntactKept DEF u
  <2> QED BY <2>1, <2>2 DEF Requested, Packets
<1>6. CASE \A b \in Packets(u, n) : b + 3 <= Len(s)
  <2>1. Requested(u, n) \in SUBSET Requested(s, n)
    BY <1>5, <1>6 DEF Requested
  <2>2. Cardinality(Requested(u, n)) <= Cardinality(Requested(s, n))
    BY <1>3, <2>1, FS_Subset
  <2>3. n > Len(s) => Packets(u, n) = {}
    BY <1>1, <1>4, <1>6, SMT
  <2>4. 2 * Cardinality(Requested(u, n)) <= 2 * Cardinality(Requested(s, n)) + v
    BY <1>3, <2>2, SMT
  <2> QED BY <2>3, <2>4 DEF Requested, u
<1>7. ASSUME NEW a \in Packets(u, n), ~(a + 3 <= Len(s))
      PROVE  n <= Len(s) /\ 2 * Cardinality(Requested(u, n))
                              <= 2 * Cardinality(Requested(s, n)) + v
  <2>1. /\ a \in Nat \ {0} /\ Intact(u, a) /\ a > n /\ a + 3 <= Len(u)
        /\ a <= Len(s) + 1 /\ n <= Len(s)
    <3>1. a \in Nat \ {0} /\ Intact(u, a) /\ a > n /\ a + 3 <= Len(u)
      BY <1>4, <1>7
    <3> QED BY <1>1, <3>1, SMT
  <2>2. v >= 2
    BY <1>7, <2>1 DEF u, AddsNone
  <2>3. ASSUME NEW b \in Packets(u, n), b # a PROVE b + 3 <= Len(s)
    <3>1. b \in Nat \ {0} /\ Intact(u, b) /\ b + 3 <= Len(u)
      BY <1>4, <2>3
    <3>2. b < a => b + 3 < a
      BY <1>1, <2>1, <3>1, PacketsApart
    <3>3. a < b => a + 3 < b
      BY <1>1, <2>1, <3>1, PacketsApart
    <3> QED BY <1>1, <1>7, <2>1, <2>3, <3>1, <3>2, <3>3, SMT
  <2>4. Requested(u, n) \in SUBSET (Requested(s, n) \union {Number(u, a)})
    BY <1>5, <2>3 DEF Requested
  <2>5. /\ IsFiniteSet(Requested(s, n) \union {Number(u, a)})
        /\ Cardinality(Requested(s, n) \union {Number(u, a)})
             <= Cardinality(Requested(s, n)) + 1
    <3>1. /\ IsFiniteSet(Requested(s, n) \union {Number(u, a)})
          /\ Cardinality(Requested(s, n) \union {Number(u, a)})
             = IF Number(u, a) \in Requested(s, n)
                 THEN Cardinality(Requested(s, n)) ELSE Cardinality(Requested(s, n)) + 1
      BY <1>3, FS_AddElement
    <3> QED BY <1>3, <3>1, SMT
  <2>6. Cardinality(Requested(u, n))
          <= Cardinality(Requested(s, n) \union {Number(u, a)})
    BY <2>4, <2>5, FS_Subset
  <2>7. Cardinality(Requested(s, n) \union {Number(u, a)}) \in Nat
    BY <2>5, FS_CardinalityType
  <2> QED BY <1>3, <2>1, <2>2, <2>5, <2>6, <2>7, SMT
<1> QED BY <1>1, <1>6, <1>7, SMT DEF u

\* What is still to come is covered once more has been sent.
LEMMA CoversAdd ==
  ASSUME NEW s \in Seq(Character), NEW t \in Seq(Character), Len(t) <= 4,
         NEW C, Covers(s, C), NEW V, Charges(t, V), IsFiniteSet(Request),
         V[0] >= 2 \/ AddsNone(s, t)
  PROVE  \E D : Covers(s \o t, D) /\ D[0] = C[0] + V[0]
<1> DEFINE u == s \o t
           D == [k \in 0 .. Len(u) |->
                   IF k <= Len(s) THEN C[k] + V[0] ELSE V[k - Len(s)]]
<1>1. /\ u \in Seq(Character) /\ Len(s) \in Nat /\ Len(t) \in Nat
      /\ Len(u) = Len(s) + Len(t)
      /\ \A k \in 1 .. Len(s) : u[k] = s[k]
      /\ \A k \in 1 .. Len(t) : u[Len(s) + k] = t[k]
  BY Joined
<1>2. /\ C \in [0 .. Len(s) -> Nat] /\ C[Len(s)] = 0
      /\ \A i, k \in 0 .. Len(s) : i <= k => C[k] <= C[i]
      /\ \A k \in 1 .. Len(s) :
           \/ C[k] < C[k - 1]
           \/ Even(C[k]) /\ (s[k] \in {Char("+"), Char("-")} \/ Inside(s, C, k))
      /\ \A k \in 0 .. Len(s) : 2 * Cardinality(Requested(s, k)) <= C[k]
  BY DEF Covers
<1>3. /\ V \in [0 .. Len(t) -> Nat] /\ V[Len(t)] = 0 /\ Even(V[0])
      /\ \A i, k \in 0 .. Len(t) : i <= k => V[k] <= V[i]
      /\ \A k \in 1 .. Len(t) :
           \/ V[k] < V[k - 1]
           \/ /\ Even(V[k])
              /\ \/ t[k] \in {Char("+"), Char("-")}
                 \/ (\E i \in Request : t = Packet(i)) /\ V[0] = V[1] + 2 /\ V[4] = V[1]
  BY DEF Charges
<1>4. /\ \A k \in 0 .. Len(s) : k \in 0 .. Len(u) /\ k <= Len(s) /\ C[k] \in Nat
      /\ \A k \in 0 .. Len(t) : Len(s) + k \in 0 .. Len(u) /\ V[k] \in Nat
      /\ V[0] \in Nat
  <2>1. /\ \A k \in 0 .. Len(s) : k \in 0 .. Len(u) /\ k <= Len(s)
        /\ \A k \in 0 .. Len(t) : Len(s) + k \in 0 .. Len(u)
        /\ 0 \in 0 .. Len(t)
    BY <1>1, SMT
  <2> QED BY <1>2, <1>3, <2>1
<1>5. \A k \in 0 .. Len(s) : D[k] = C[k] + V[0]
  BY <1>4
<1>6. \A k \in 0 .. Len(t) : D[Len(s) + k] = V[k]
  <2>1. ASSUME NEW k \in 0 .. Len(t) PROVE D[Len(s) + k] = V[k]
    <3>1. CASE k = 0
      <4>1. Len(s) + k = Len(s) /\ Len(s) \in 0 .. Len(s)
        BY <1>1, <3>1, SMT
      <4>2. D[Len(s)] = 0 + V[0]
        BY <1>2, <1>5, <4>1
      <4> HIDE DEF D
      <4>3. 0 + V[0] = V[0]
        BY <1>4, SMT
      <4> QED BY <3>1, <4>1, <4>2, <4>3
    <3>2. CASE k # 0
      <4>1. /\ ~(Len(s) + k <= Len(s)) /\ Len(s) + k - Len(s) = k
            /\ Len(s) + k \in 0 .. Len(u)
        BY <1>1, <3>2, SMT
      <4> QED BY <4>1
    <3> QED BY <3>1, <3>2
  <2> QED BY <2>1
<1>7. \A k \in 0 .. Len(u) :
        k \in 0 .. Len(s) \/ (k - Len(s) \in 1 .. Len(t) /\ Len(s) + (k - Len(s)) = k)
  BY <1>1, SMT
<1>8. \A k \in 1 .. Len(t) : k \in 0 .. Len(t) /\ k - 1 \in 0 .. Len(t)
  BY <1>1, SMT
<1>9. D \in [0 .. Len(u) -> Nat]
  <2>1. \A k \in 0 .. Len(s) : C[k] + V[0] \in Nat
    BY <1>4, SMT
  <2>2. \A k \in 0 .. Len(u) : D[k] \in Nat
    <3> SUFFICES ASSUME NEW k \in 0 .. Len(u) PROVE D[k] \in Nat
      OBVIOUS
    <3>1. CASE k \in 0 .. Len(s)
      <4>1. D[k] = C[k] + V[0]
        BY <1>5, <3>1
      <4> HIDE DEF D
      <4> QED BY <2>1, <3>1, <4>1
    <3>2. CASE k - Len(s) \in 1 .. Len(t) /\ Len(s) + (k - Len(s)) = k
      <4>1. D[k] = V[k - Len(s)]
        BY <1>6, <1>8, <3>2
      <4> HIDE DEF D
      <4> QED BY <1>4, <1>8, <3>2, <4>1
    <3> QED BY <1>7, <3>1, <3>2
  <2>3. DOMAIN D = 0 .. Len(u) /\ D = [k \in 0 .. Len(u) |-> D[k]]
    OBVIOUS
  <2> HIDE DEF D
  <2> QED BY <2>2, <2>3
<1> HIDE DEF D
<1>10. D[Len(u)] = 0
  <2>1. Len(t) \in 0 .. Len(t)
    BY <1>1, SMT
  <2> QED BY <1>1, <1>3, <1>6, <2>1
<1>11. ASSUME NEW i \in 0 .. Len(u), NEW k \in 0 .. Len(u), i <= k
       PROVE  D[k] <= D[i]
  <2> DEFINE a == i - Len(s)
             b == k - Len(s)
  <2>1. CASE k \in 0 .. Len(s)
    <3>1. i \in 0 .. Len(s)
      BY <1>1, <1>11, <2>1, SMT
    <3>2. D[k] = C[k] + V[0] /\ D[i] = C[i] + V[0] /\ C[k] <= C[i]
      BY <1>2, <1>5, <1>11, <2>1, <3>1
    <3>3. C[k] \in Nat /\ C[i] \in Nat
      BY <1>4, <2>1, <3>1
    <3> QED BY <1>4, <3>2, <3>3, SMT
  <2>2. CASE b \in 1 .. Len(t) /\ Len(s) + b = k
    <3>1. D[k] = V[b] /\ V[b] \in Nat
      BY <1>4, <1>6, <1>8, <2>2
    <3>2. CASE i \in 0 .. Len(s)
      <4>1. D[i] = C[i] + V[0] /\ C[i] \in Nat
        BY <1>4, <1>5, <3>2
      <4>2. V[b] <= V[0]
        <5>1. 0 \in 0 .. Len(t) /\ b \in 0 .. Len(t) /\ 0 <= b
          BY <1>1, <2>2, SMT
        <5> QED BY <1>3, <5>1
      <4> QED BY <1>4, <3>1, <4>1, <4>2, SMT
    <3>3. CASE a \in 1 .. Len(t) /\ Len(s) + a = i
      <4>1. D[i] = V[a] /\ a \in 0 .. Len(t) /\ b \in 0 .. Len(t)
        BY <1>6, <1>8, <2>2, <3>3
      <4>2. a <= b
        BY <1>1, <1>11, SMT
      <4> HIDE DEF a, b
      <4> QED BY <1>3, <3>1, <4>1, <4>2
    <3> QED BY <1>7, <3>2, <3>3
  <2> QED BY <1>7, <2>1, <2>2
<1>12. ASSUME NEW k \in 1 .. Len(u)
       PROVE  \/ D[k] < D[k - 1]
              \/ Even(D[k]) /\ (u[k] \in {Char("+"), Char("-")} \/ Inside(u, D, k))
  <2>1. CASE k \in 1 .. Len(s)
    <3>1. /\ k \in 0 .. Len(s) /\ k - 1 \in 0 .. Len(s)
      BY <1>1, <2>1, SMT
    <3>2. /\ D[k] = C[k] + V[0] /\ D[k - 1] = C[k - 1] + V[0] /\ u[k] = s[k]
          /\ C[k] \in Nat /\ C[k - 1] \in Nat
      BY <1>1, <1>4, <1>5, <2>1, <3>1
    <3>3. C[k] < C[k - 1] => D[k] < D[k - 1]
      BY <1>4, <3>2, SMT
    <3>4. Even(C[k]) => Even(D[k])
      BY <1>3, <1>4, <3>2, EvenSum
    <3>5. ASSUME Inside(s, C, k) PROVE Inside(u, D, k)
      <4>1. PICK b \in 1 .. k - 1 :
              k <= b + 3 /\ Intact(s, b) /\ C[b - 1] = C[b] + 2 /\ C[b + 3] = C[b]
        BY <3>5 DEF Inside
      <4>2. b + 3 <= Len(s)
        BY <4>1 DEF Intact
      <4>3. /\ b \in 1 .. Len(s) /\ b - 1 \in 0 .. Len(s) /\ b \in 0 .. Len(s)
            /\ b + 3 \in 0 .. Len(s)
        BY <1>1, <2>1, <4>2, SMT
      <4>4. /\ D[b - 1] = C[b - 1] + V[0] /\ D[b] = C[b] + V[0]
            /\ D[b + 3] = C[b + 3] + V[0] /\ C[b] \in Nat
        BY <1>4, <1>5, <4>3
      <4>5. D[b - 1] = D[b] + 2 /\ D[b + 3] = D[b]
        BY <1>4, <4>1, <4>4, SMT
      <4>6. Intact(u, b)
        BY <4>1, <4>2, <4>3, IntactKept DEF u
      <4> QED BY <4>1, <4>5, <4>6 DEF Inside
    <3> QED BY <1>2, <2>1, <3>2, <3>3, <3>4, <3>5
  <2>2. CASE k \notin 1 .. Len(s)
    <3> DEFINE n == k - Len(s)
    <3>1. /\ n \in 1 .. Len(t) /\ Len(s) + n = k /\ Len(s) + (n - 1) = k - 1
      BY <1>1, <2>2, SMT
    <3>2. D[k] = V[n] /\ D[k - 1] = V[n - 1] /\ u[k] = t[n]
      BY <1>1, <1>6, <1>8, <3>1
    <3>3. ASSUME NEW i \in Request, t = Packet(i), V[0] = V[1] + 2, V[4] = V[1],
                 ~(V[n] < V[n - 1])
          PROVE  Inside(u, D, k)
      <4> DEFINE b == Len(s) + 1
      <4>1. Len(t) = 4 /\ Intact(u, b)
        <5>1. Len(Packet(i)) = 4
          BY PacketIs
        <5>2. 1 \in Nat \ {0}
          BY SMT
        <5> QED BY <3>3, <5>1, <5>2, PacketAdded DEF u
      <4>2. {0, 1, 4} \subseteq 0 .. Len(t)
        BY <4>1, SMT
      <4>3. /\ D[Len(s) + 0] = V[0] /\ D[Len(s) + 1] = V[1] /\ D[Len(s) + 4] = V[4]
            /\ V[1] \in Nat
        BY <1>4, <1>6, <4>2
      <4>4. Len(s) + 0 = b - 1 /\ Len(s) + 4 = b + 3
        BY <1>1, SMT
      <4>5. n # 1
        <5>1. V[1] < V[0]
          BY <3>3, <4>3, SMT
        <5>2. 1 - 1 = 0
          BY SMT
        <5> HIDE DEF n
        <5> QED BY <3>3, <5>1, <5>2
      <4>6. b \in 1 .. k - 1 /\ k <= b + 3
        BY <1>1, <3>1, <4>1, <4>5, SMT
      <4> QED BY <3>3, <4>1, <4>3, <4>4, <4>6 DEF Inside
    <3> HIDE DEF n
    <3> QED BY <1>3, <3>1, <3>2, <3>3
  <2> QED BY <2>1, <2>2
<1>13. ASSUME NEW k \in 0 .. Len(u)
       PROVE  2 * Cardinality(Requested(u, k)) <= D[k]
  <2>1. k \in Nat /\ D[k] \in Nat
    BY <1>1, <1>9, SMT
  <2>2. CASE k \in 0 .. Len(s)
    <3>1. D[k] = C[k] + V[0] /\ C[k] \in Nat /\ 2 * Cardinality(Requested(s, k)) <= C[k]
      BY <1>2, <1>4, <1>5, <2>2
    <3>2. 2 * Cardinality(Requested(u, k)) <= 2 * Cardinality(Requested(s, k)) + V[0]
      <4>1. k <= Len(s)
        BY <1>4, <2>2
      <4> QED BY <1>4, <2>1, <4>1, RequestsAdded DEF u
    <3>3. /\ Cardinality(Requested(u, k)) \in Nat
          /\ Cardinality(Requested(s, k)) \in Nat
      BY <1>1, <2>1, RequestedFinite
    <3> QED BY <1>4, <3>1, <3>2, <3>3, SMT
  <2>3. CASE k \notin 0 .. Len(s)
    <3>1. k > Len(s)
      BY <1>1, <2>3, SMT
    <3>2. Requested(u, k) = {}
      BY <1>4, <2>1, <3>1, RequestsAdded DEF u
    <3>3. Cardinality({}) = 0 /\ 2 * 0 = 0 /\ 0 <= D[k]
      BY <2>1, FS_EmptySet, SMT
    <3> QED BY <3>2, <3>3
  <2> QED BY <2>2, <2>3
<1>14. D[0] = C[0] + V[0]
  <2>1. 0 \in 0 .. Len(s)
    BY <1>1, SMT
  <2> QED BY <1>5, <2>1
<1>15. Covers(u, D)
  BY <1>9, <1>10, <1>11, <1>12, <1>13 DEF Covers
<1> QED BY <1>14, <1>15 DEF u

LEMMA SmallEven == Even(0) /\ Even(2) /\ Even(4)
<1>1. 0 \in Nat /\ 1 \in Nat /\ 2 \in Nat /\ 0 = 2 * 0 /\ 2 = 2 * 1 /\ 4 = 2 * 2
  BY SMT
<1> QED BY <1>1 DEF Even

\* A packet, a sign and what is damaged.
LEMMA ChargesPacket ==
  ASSUME NEW i \in Request
  PROVE  \E V : Charges(Packet(i), V) /\ V[0] = 2
<1> DEFINE V == [k \in 0 .. 4 |-> IF k = 0 THEN 2 ELSE 0]
<1>1. /\ 0 \in 0 .. 4 /\ 1 \in 0 .. 4 /\ 4 \in 0 .. 4 /\ 1 # 0 /\ 4 # 0
      /\ 2 = 0 + 2 /\ 0 \in Nat /\ 2 \in Nat /\ 0 <= 2 /\ 0 < 2 /\ 0 <= 0 /\ 2 <= 2
      /\ \A a, k \in 0 .. 4 : a <= k => (a = 0 \/ k # 0)
      /\ \A k \in 1 .. 4 : k \in 0 .. 4 /\ k # 0
  BY SMT
<1>2. V[0] = 2 /\ V[1] = 0 /\ V[4] = 0
  BY <1>1
<1>3. V \in [0 .. 4 -> Nat]
  BY <1>1
<1>4. \A k \in 0 .. 4 : V[k] = IF k = 0 THEN 2 ELSE 0
  OBVIOUS
<1> HIDE DEF V
<1>5. \A a, k \in 0 .. 4 : a <= k => V[k] <= V[a]
  BY <1>1, <1>4
<1>6. \A k \in 1 .. 4 : Even(V[k])
  BY <1>1, <1>4, SmallEven
<1>7. Charges(Packet(i), V)
  BY <1>1, <1>2, <1>3, <1>5, <1>6, PacketIs, SmallEven DEF Charges
<1> QED BY <1>2, <1>7

LEMMA ChargesSign ==
  ASSUME NEW x \in {"+", "-"}
  PROVE  \E V : Charges(<<Char(x)>>, V) /\ V[0] = 0
<1> DEFINE V == [k \in 0 .. 1 |-> 0]
<1>1. 0 \in 0 .. 1 /\ 1 \in 0 .. 1 /\ 0 \in Nat /\ 0 <= 0
  BY SMT
<1>2. V[0] = 0 /\ V \in [0 .. 1 -> Nat] /\ \A k \in 0 .. 1 : V[k] = 0
  BY <1>1
<1> HIDE DEF V
<1>3. \A k \in 1 .. 1 : k = 1
  BY SMT
<1>4. Charges(<<Char(x)>>, V)
  BY <1>1, <1>2, <1>3, SignIs, SmallEven DEF Charges
<1> QED BY <1>2, <1>4

LEMMA ChargesDamaged ==
  ASSUME NEW t \in Seq(Character), Len(t) # 0, NEW v \in {2, 4}, Len(t) <= v
  PROVE  \E V : Charges(t, V) /\ V[0] = v
<1> DEFINE n == Len(t)
           V == [k \in 0 .. n |-> IF k = 0 THEN v ELSE n - k]
<1>1. n \in Nat /\ n # 0 /\ n <= v /\ v \in Nat /\ Even(v)
  BY LenProperties, SmallEven, SMT
<1> HIDE DEF n
<1>2. 0 \in 0 .. n /\ n \in 0 .. n /\ n - n = 0 /\ \A k \in 0 .. n : n - k \in Nat
  BY <1>1, SMT
<1>3. V[0] = v /\ V[n] = 0
  BY <1>1, <1>2
<1>4. V \in [0 .. n -> Nat]
  BY <1>1, <1>2
<1>5. \A k \in 0 .. n : V[k] = IF k = 0 THEN v ELSE n - k
  OBVIOUS
<1> HIDE DEF V
<1>6. \A i, k \in 0 .. n : i <= k => V[k] <= V[i]
  BY <1>1, <1>5, SMT
<1>7. \A k \in 1 .. n : V[k] < V[k - 1]
  BY <1>1, <1>5, SMT
<1> QED BY <1>1, <1>3, <1>4, <1>6, <1>7 DEF Charges, n

LEMMA RequestFinite == IsFiniteSet(Request)
<1>1. 1 \in Int /\ MaxRequests \in Int
  BY SessionAssumption
<1> QED BY <1>1, FS_Interval DEF Request

\* A packet that arrives is charged two, a sign nothing.
LEMMA PacketArrives ==
  ASSUME NEW s \in Seq(Character), NEW i \in Request, NEW C, Covers(s, C)
  PROVE  \E D : Covers(s \o Packet(i), D) /\ D[0] = C[0] + 2
<1>1. PICK t \in Seq(Character) : t = Packet(i) /\ Len(t) <= 4
  <2>1. 4 <= 4
    BY SMT
  <2> QED BY <2>1, PacketIs
<1>2. PICK V : Charges(t, V) /\ V[0] = 2
  BY <1>1, ChargesPacket
<1>3. V[0] >= 2
  BY <1>2, SMT
<1>4. PICK D : Covers(s \o t, D) /\ D[0] = C[0] + V[0]
  BY <1>1, <1>2, <1>3, CoversAdd, RequestFinite
<1> QED BY <1>1, <1>2, <1>4

LEMMA SignArrives ==
  ASSUME NEW s \in Seq(Character), NEW x \in {"+", "-"}, NEW C, Covers(s, C)
  PROVE  \E D : Covers(s \o <<Char(x)>>, D) /\ D[0] = C[0]
<1>1. PICK t \in Seq(Character) : t = <<Char(x)>> /\ Len(t) <= 4
  <2>1. 1 <= 4
    BY SMT
  <2> QED BY <2>1, SignIs
<1>2. PICK V : Charges(t, V) /\ V[0] = 0
  BY <1>1, ChargesSign
<1>3. AddsNone(s, t)
  <2>1. Char(x) \in Plain
    BY DEF Plain
  <2> QED BY <1>1, <2>1, NoneAdded DEF AddsNone
<1>4. PICK D : Covers(s \o t, D) /\ D[0] = C[0] + V[0]
  <2>1. Len(t) <= 4 /\ Charges(t, V) /\ (V[0] >= 2 \/ AddsNone(s, t))
    BY <1>1, <1>2, <1>3
  <2> QED BY <2>1, CoversAdd, RequestFinite
<1>5. C[0] + 0 = C[0]
  <2>1. C[0] \in Nat
    BY CoversStarts
  <2> QED BY <2>1, SMT
<1> QED BY <1>1, <1>2, <1>4, <1>5

\* What is left of a damaged packet is charged four, of a damaged sign two.
LEMMA DamagedArrives ==
  ASSUME NEW s \in Seq(Character), NEW t \in Seq(Character), NEW v \in {2, 4},
         Len(t) <= v, NEW C, Covers(s, C)
  PROVE  \E D : Covers(s \o t, D) /\ D[0] <= C[0] + v
<1>1. v >= 2 /\ Len(t) <= 4 /\ v \in Nat
  BY LenProperties, SMT
<1>2. CASE Len(t) = 0
  <2>1. s \o t = s
    BY <1>2, EmptySeq, ConcatEmptySeq
  <2>3. C[0] \in Nat
    BY CoversStarts
  <2>4. C[0] <= C[0] + v
    BY <1>1, <2>3, SMT
  <2> QED BY <2>1, <2>4
<1>3. CASE Len(t) # 0
  <2>1. PICK V : Charges(t, V) /\ V[0] = v
    BY <1>3, ChargesDamaged
  <2>2. PICK D : Covers(s \o t, D) /\ D[0] = C[0] + v
    BY <1>1, <2>1, CoversAdd, RequestFinite
  <2>4. C[0] \in Nat
    BY CoversStarts
  <2>5. D[0] <= C[0] + v
    BY <1>1, <2>2, <2>4, SMT
  <2> QED BY <2>2, <2>5
<1> QED BY <1>2, <1>3

\* The client sends a packet or a sign.
LEMMA PacketCharged ==
  ASSUME toServer \in Seq(Character), faults \in 0 .. MaxFaults,
         NEW i \in Request, ToServer(Packet(i)), NEW C, Covers(toServer, C)
  PROVE  \/ /\ faults' = faults /\ toServer' = toServer \o Packet(i)
            /\ \E D : Covers(toServer', D) /\ D[0] <= C[0] + 2
         \/ /\ faults' = faults + 1
            /\ \E v \in Seq(Character) : toServer' = toServer \o v
            /\ \E D : Covers(toServer', D) /\ D[0] <= C[0] + 4
<1>1. /\ Packet(i) \in Seq(Character) /\ Len(Packet(i)) = 4 /\ Junk \subseteq Character
  BY PacketIs, SessionAssumption DEF Character
<1>2. /\ faults' \in {faults, faults + 1}
      /\ faults' = faults => toServer' = toServer \o Packet(i)
      /\ faults' # faults =>
           \E k \in 1 .. Len(Packet(i)) :
             \/ toServer' = toServer \o Without(Packet(i), k)
             \/ \E c \in Junk : toServer' = toServer \o [Packet(i) EXCEPT ![k] = c]
  BY <1>1, Sent
<1>3. CASE faults' = faults
  <2>1. PICK D : Covers(toServer', D) /\ D[0] = C[0] + 2
    BY <1>2, <1>3, PacketArrives
  <2>3. C[0] \in Nat
    BY CoversStarts
  <2>4. D[0] <= C[0] + 2
    BY <2>1, <2>3, SMT
  <2> QED BY <1>2, <1>3, <2>1, <2>4
<1>4. CASE faults' # faults
  <2>1. PICK v \in Seq(Character) : Len(v) <= 4 /\ toServer' = toServer \o v
    <3>1. PICK k \in 1 .. Len(Packet(i)) :
             \/ toServer' = toServer \o Without(Packet(i), k)
             \/ \E c \in Junk : toServer' = toServer \o [Packet(i) EXCEPT ![k] = c]
      BY <1>2, <1>4
    <3>2. Without(Packet(i), k) \in Seq(Character) /\ Len(Without(Packet(i), k)) <= 4
      <4>1. Len(Without(Packet(i), k)) = Len(Packet(i)) - 1
        BY <1>1, ShorterLength
      <4>2. Len(Without(Packet(i), k)) <= 4
        BY <1>1, <4>1, SMT
      <4> QED BY <1>1, <4>2, Shorter
    <3>3. ASSUME NEW c \in Junk
          PROVE  LET t == [Packet(i) EXCEPT ![k] = c]
                 IN  t \in Seq(Character) /\ Len(t) <= 4
      <4> DEFINE t == [Packet(i) EXCEPT ![k] = c]
      <4>1. c \in Character
        BY <1>1
      <4> HIDE DEF t
      <4>2. t \in Seq(Character) /\ Len(t) = Len(Packet(i))
        <5>1. t = [Packet(i) EXCEPT ![k] = c]
          BY DEF t
        <5>2. \A w \in Seq(Character) : k \in 1 .. Len(w) /\ t = [w EXCEPT ![k] = c]
                 => t \in Seq(Character) /\ Len(t) = Len(w)
          BY <4>1, Changed
        <5> QED BY <1>1, <5>1, <5>2
      <4>3. Len(t) <= 4
        BY <1>1, <4>2, SMT
      <4> QED BY <4>2, <4>3 DEF t
    <3> QED BY <3>1, <3>2, <3>3
  <2>2. \E D : Covers(toServer', D) /\ D[0] <= C[0] + 4
    BY <2>1, DamagedArrives
  <2> QED BY <1>2, <1>4, <2>1, <2>2
<1> QED BY <1>3, <1>4

LEMMA SignCharged ==
  ASSUME toServer \in Seq(Character), faults \in 0 .. MaxFaults,
         NEW x \in {"+", "-"}, ToServer(<<Char(x)>>), NEW C, Covers(toServer, C)
  PROVE  /\ \E v \in Seq(Character) : toServer' = toServer \o v
         /\ \E D : /\ Covers(toServer', D)
                   /\ \/ faults' = faults /\ D[0] = C[0]
                      \/ faults' = faults + 1 /\ D[0] <= C[0] + 2
<1>1. /\ <<Char(x)>> \in Seq(Character) /\ Junk \subseteq Character
      /\ Char(x) \in Character
  BY SignIs, SessionAssumption DEF Character, Plain
<1>2. /\ faults' \in {faults, faults + 1}
      /\ faults' = faults => toServer' = toServer \o <<Char(x)>>
      /\ faults' # faults =>
           \E k \in 1 .. Len(<<Char(x)>>) :
             \/ toServer' = toServer \o Without(<<Char(x)>>, k)
             \/ \E c \in Junk : toServer' = toServer \o [<<Char(x)>> EXCEPT ![k] = c]
  BY <1>1, Sent
<1>3. CASE faults' = faults
  <2>1. toServer' = toServer \o <<Char(x)>>
    BY <1>2, <1>3
  <2>2. \E D : Covers(toServer', D) /\ D[0] = C[0]
    BY <2>1, SignArrives
  <2> QED BY <1>1, <1>3, <2>1, <2>2
<1>4. CASE faults' # faults
  <2>1. PICK v \in Seq(Character) : Len(v) <= 2 /\ toServer' = toServer \o v
    <3>1. PICK k \in 1 .. Len(<<Char(x)>>) :
             \/ toServer' = toServer \o Without(<<Char(x)>>, k)
             \/ \E c \in Junk : toServer' = toServer \o [<<Char(x)>> EXCEPT ![k] = c]
      BY <1>2, <1>4
    <3>2. Without(<<Char(x)>>, k) = <<>> /\ <<>> \in Seq(Character) /\ Len(<<>>) <= 2
      <4>1. Without(<<Char(x)>>, k) = <<>>
        BY <1>1, SingleIs
      <4> QED BY <4>1, EmptySeq, SMT
    <3>3. ASSUME NEW c \in Junk
          PROVE  /\ [<<Char(x)>> EXCEPT ![k] = c] = <<c>>
                 /\ <<c>> \in Seq(Character) /\ Len(<<c>>) <= 2
      <4>1. c \in Character
        BY <1>1
      <4>2. [<<Char(x)>> EXCEPT ![k] = c] = <<c>>
        BY <1>1, <4>1, SingleIs
      <4> QED BY <4>1, <4>2, SMT
    <3> QED BY <3>1, <3>2, <3>3
  <2>2. \E D : Covers(toServer', D) /\ D[0] <= C[0] + 2
    BY <2>1, DamagedArrives
  <2> QED BY <1>2, <1>4, <2>1, <2>2
<1> QED BY <1>3, <1>4

Bit(p) == IF p THEN 1 ELSE 0

\* The requests for retransmission that are on their way to the client.
NakPlaces(c) == {k \in 1 .. Len(c) : c[k] = Nak}
Naks(c) == Cardinality(NakPlaces(c))

LEMMA NaksIs ==
  ASSUME NEW c \in Seq(Message)
  PROVE  IsFiniteSet(NakPlaces(c)) /\ Naks(c) \in Nat
<1>1. 1 \in Int /\ Len(c) \in Int
  BY LenProperties, SMT
<1>2. IsFiniteSet(1 .. Len(c))
  BY <1>1, FS_Interval
<1>3. NakPlaces(c) \in SUBSET (1 .. Len(c))
  BY DEF NakPlaces
<1> QED BY <1>2, <1>3, FS_Subset, FS_CardinalityType DEF Naks

LEMMA NaksOfOne ==
  /\ Naks(<<>>) = 0
  /\ \A x \in Message : Naks(<<x>>) = Bit(x = Nak)
<1>1. NakPlaces(<<>>) = {}
  <2>1. 1 .. Len(<<>>) = {}
    BY SMT
  <2> QED BY <2>1 DEF NakPlaces
<1>2. ASSUME NEW x \in Message PROVE Naks(<<x>>) = Bit(x = Nak)
  <2>1. 1 .. Len(<<x>>) = {1} /\ <<x>>[1] = x
    BY SMT
  <2>2. CASE x = Nak
    <3>1. NakPlaces(<<x>>) = {1}
      BY <2>1, <2>2 DEF NakPlaces
    <3> QED BY <2>2, <3>1, FS_Singleton DEF Naks, Bit
  <2>3. CASE x # Nak
    <3>1. NakPlaces(<<x>>) = {}
      BY <2>1, <2>3 DEF NakPlaces
    <3> QED BY <2>3, <3>1, FS_EmptySet DEF Naks, Bit
  <2> QED BY <2>2, <2>3
<1> QED BY <1>1, <1>2, FS_EmptySet DEF Naks

LEMMA NaksJoined ==
  ASSUME NEW c \in Seq(Message), NEW u \in Seq(Message)
  PROVE  Naks(c \o u) = Naks(c) + Naks(u)
<1>1. /\ c \o u \in Seq(Message) /\ Len(c \o u) = Len(c) + Len(u)
      /\ Len(c) \in Nat /\ Len(u) \in Nat
      /\ \A k \in 1 .. Len(c) : (c \o u)[k] = c[k]
      /\ \A k \in 1 .. Len(u) : (c \o u)[Len(c) + k] = u[k]
  BY Joined
<1> DEFINE f == [k \in NakPlaces(u) |-> Len(c) + k]
           B == {f[k] : k \in NakPlaces(u)}
<1>2. \A k \in NakPlaces(u) : k \in 1 .. Len(u) /\ k \in Nat /\ f[k] = Len(c) + k
  <2>1. \A k \in 1 .. Len(u) : k \in Nat
    BY <1>1, SMT
  <2> QED BY <2>1 DEF NakPlaces
<1> HIDE DEF f
<1>3. IsFiniteSet(B) /\ Cardinality(B) = Naks(u)
  <2>1. \A k, l \in NakPlaces(u) : k # l => f[k] # f[l]
    BY <1>1, <1>2, SMT
  <2> QED BY <2>1, NaksIs, ImageCardinality DEF Naks
<1>4. NakPlaces(c \o u) = NakPlaces(c) \union B
  <2>1. ASSUME NEW k \in NakPlaces(c) PROVE k \in NakPlaces(c \o u)
    <3>1. k \in 1 .. Len(c) /\ c[k] = Nak
      BY DEF NakPlaces
    <3>2. k \in 1 .. Len(c \o u)
      BY <1>1, <3>1, SMT
    <3> QED BY <1>1, <3>1, <3>2 DEF NakPlaces
  <2>2. ASSUME NEW k \in NakPlaces(u) PROVE f[k] \in NakPlaces(c \o u)
    <3>1. k \in 1 .. Len(u) /\ u[k] = Nak /\ f[k] = Len(c) + k
      BY <1>2 DEF NakPlaces
    <3>2. Len(c) + k \in 1 .. Len(c \o u)
      BY <1>1, <3>1, SMT
    <3> QED BY <1>1, <3>1, <3>2 DEF NakPlaces
  <2>3. ASSUME NEW k \in NakPlaces(c \o u), k \notin NakPlaces(c) PROVE k \in B
    <3>1. k \in 1 .. Len(c \o u) /\ (c \o u)[k] = Nak
      BY DEF NakPlaces
    <3>2. k \notin 1 .. Len(c)
      BY <1>1, <2>3, <3>1 DEF NakPlaces
    <3>3. k - Len(c) \in 1 .. Len(u) /\ Len(c) + (k - Len(c)) = k
      BY <1>1, <3>1, <3>2, SMT
    <3>4. k - Len(c) \in NakPlaces(u)
      BY <1>1, <3>1, <3>3 DEF NakPlaces
    <3> QED BY <1>2, <3>3, <3>4
  <2> QED BY <2>1, <2>2, <2>3
<1>5. NakPlaces(c) \cap B = {}
  <2>1. \A k \in NakPlaces(c) : k \in 1 .. Len(c)
    BY DEF NakPlaces
  <2> QED BY <1>1, <1>2, <2>1, SMT
<1>6. Cardinality(NakPlaces(c \o u)) = Cardinality(NakPlaces(c)) + Cardinality(B) - 0
  <2>1. Cardinality(NakPlaces(c) \union B)
          = Cardinality(NakPlaces(c)) + Cardinality(B) - Cardinality(NakPlaces(c) \cap B)
    BY <1>3, NaksIs, FS_Union
  <2> QED BY <1>4, <1>5, <2>1, FS_EmptySet
<1>7. Naks(c) \in Nat /\ Naks(u) \in Nat
  BY NaksIs
<1>8. Naks(c \o u) = Naks(c) + Naks(u) - 0
  BY <1>3, <1>6 DEF Naks
<1> QED BY <1>7, <1>8, SMT

\* A message less, or one that is not a request for retransmission damaged.
LEMMA NaksWithout ==
  ASSUME NEW u \in Seq(Message), NEW k \in 1 .. Len(u)
  PROVE  Naks(u) = Naks(Without(u, k)) + Bit(u[k] = Nak)
<1> DEFINE a == SubSeq(u, 1, k - 1)
           b == SubSeq(u, k + 1, Len(u))
           m == <<u[k]>>
<1>1. /\ Len(u) \in Nat /\ k \in 1 .. Len(u) /\ Len(u) \in k .. Len(u)
      /\ k - 1 \in 0 .. Len(u) /\ 1 \in 1 .. Len(u) + 1 /\ k - 1 + 1 = k
      /\ 1 - 1 = 0 /\ Len(u) \in k - 1 .. Len(u)
  <2>1. Len(u) \in Nat
    BY LenProperties
  <2> QED BY <2>1, SMT
<1>2. u = a \o SubSeq(u, k, Len(u))
  <2>1. SubSeq(u, 1, k - 1) \o SubSeq(u, k - 1 + 1, Len(u)) = SubSeq(u, 1, Len(u))
    BY <1>1, ConcatAdjacentSubSeq
  <2> QED BY <1>1, <2>1, SubSeqFull
<1>3. SubSeq(u, k, Len(u)) = m \o b
  BY <1>1, SubSeqRecursiveFirst
<1>4. a \in Seq(Message) /\ b \in Seq(Message) /\ u[k] \in Message
  <2>1. /\ \A i \in 1 .. k - 1 : i \in 1 .. Len(u)
        /\ \A i \in k + 1 .. Len(u) : i \in 1 .. Len(u)
        /\ 1 \in Int /\ k - 1 \in Int /\ k + 1 \in Int /\ Len(u) \in Int
    BY <1>1, SMT
  <2>2. /\ \A i \in 1 .. k - 1 : u[i] \in Message
        /\ \A i \in k + 1 .. Len(u) : u[i] \in Message
    BY <2>1, ElementOfSeq
  <2> QED BY <2>1, <2>2, SubSeqProperties, ElementOfSeq
<1>5. Without(u, k) = a \o b
  BY DEF Without
<1> HIDE DEF a, b
<1>6. m \in Seq(Message) /\ Naks(m) = Bit(u[k] = Nak)
  BY <1>4, NaksOfOne
<1> HIDE DEF m
<1>7. Naks(m \o b) = Naks(m) + Naks(b) /\ m \o b \in Seq(Message)
  BY <1>4, <1>6, NaksJoined, ConcatProperties
<1>8. Naks(u) = Naks(a) + (Naks(m) + Naks(b))
  <2>1. Naks(a \o (m \o b)) = Naks(a) + Naks(m \o b)
    BY <1>4, <1>7, NaksJoined
  <2> QED BY <1>2, <1>3, <1>7, <2>1
<1>9. Naks(Without(u, k)) = Naks(a) + Naks(b)
  BY <1>4, <1>5, NaksJoined
<1>10. Naks(a) \in Nat /\ Naks(b) \in Nat /\ Naks(m) \in Nat
  BY <1>4, <1>6, NaksIs
<1> QED BY <1>6, <1>8, <1>9, <1>10, SMT

LEMMA NaksRead ==
  ASSUME NEW c \in Seq(Message), c # <<>>
  PROVE  Naks(c) = Naks(Tail(c)) + Bit(Head(c) = Nak)
<1>1. Len(c) \in Nat \ {0}
  BY EmptySeq
<1>2. 1 \in 1 .. Len(c) /\ 1 - 1 < 1 /\ 1 \in Int /\ 1 - 1 \in Int /\ 1 + 1 = 2
  BY <1>1, SMT
<1>3. Without(c, 1) = Tail(c)
  <2>1. SubSeq(c, 1, 1 - 1) = <<>>
    BY <1>2, SubSeqEmpty
  <2>2. Tail(c) = SubSeq(c, 2, Len(c)) /\ Tail(c) \in Seq(Message)
    BY TailIsSubSeq, HeadTailProperties
  <2>3. <<>> \o Tail(c) = Tail(c)
    BY <2>2, ConcatEmptySeq
  <2> QED BY <1>2, <2>1, <2>2, <2>3 DEF Without
<1>4. Head(c) = c[1]
  OBVIOUS
<1> QED BY <1>2, <1>3, <1>4, NaksWithout

\* What is written adds no more requests for retransmission than it holds.
LEMMA NaksWritten ==
  ASSUME toClient \in Seq(Message), NEW u \in Seq(Message), NEW next,
         ToClient(u, next)
  PROVE  toClient' \in Seq(Message) => Naks(toClient') <= Naks(toClient) + Naks(u)
<1>1. Naks(toClient) \in Nat /\ Naks(u) \in Nat
  BY NaksIs
<1>2. CASE toClient' = toClient
  BY <1>1, <1>2, SMT
<1>3. CASE toClient' = toClient \o u
  BY <1>1, <1>3, NaksJoined, SMT
<1>4. ASSUME NEW k \in 1 .. Len(u), toClient' = toClient \o Without(u, k)
      PROVE  Naks(toClient') <= Naks(toClient) + Naks(u)
  <2>1. Without(u, k) \in Seq(Message)
    BY Shorter
  <2>2. Naks(toClient') = Naks(toClient) + Naks(Without(u, k))
    BY <1>4, <2>1, NaksJoined
  <2>3. Naks(u) = Naks(Without(u, k)) + Bit(u[k] = Nak)
    BY NaksWithout
  <2>4. Naks(Without(u, k)) \in Nat /\ Bit(u[k] = Nak) \in Nat
    BY <2>1, NaksIs, SMT DEF Bit
  <2> QED BY <1>1, <2>2, <2>3, <2>4, SMT
<1>5. ASSUME NEW k \in 1 .. Len(u), u[k] \notin {Ack, Nak},
             toClient' = toClient \o [u EXCEPT ![k] = Noise]
      PROVE  Naks(toClient') <= Naks(toClient) + Naks(u)
  <2> DEFINE v == [u EXCEPT ![k] = Noise]
  <2>1. /\ v \in Seq(Message) /\ Len(v) = Len(u)
        /\ \A i \in 1 .. Len(u) : v[i] = IF i = k THEN Noise ELSE u[i]
    BY MessageKinds, ExceptSeq
  <2> HIDE DEF v
  <2>2. NakPlaces(v) = NakPlaces(u)
    BY <1>5, <2>1, MessageKinds DEF NakPlaces
  <2>3. Naks(toClient') = Naks(toClient) + Naks(v)
    BY <1>5, <2>1, NaksJoined DEF v
  <2> QED BY <1>1, <2>2, <2>3, SMT DEF Naks
<1> QED BY <1>2, <1>3, <1>4, <1>5 DEF ToClient

(***************************************************************************)
(* What the repetitions are paid with.  Every fault pays for two; what it  *)
(* has paid for is spent on requests executed again, copies of packets     *)
(* under way, requests for retransmission and the characters that may      *)
(* still bring one about.                                                  *)
(***************************************************************************)
Executed == {executed[k] : k \in DOMAIN executed}
InHand == IF gdb = "handle" THEN {serving} ELSE {}

\* The requests that are executed or will be without another sending.
Covered == Executed \union InHand \union Requested(toServer, 0)

\* An intact packet, or what the client takes for its outcome, is under way.
Coming ==
  \/ Packets(toServer, 0) # {}
  \/ \E k \in 1 .. Len(toClient) : toClient[k] \in {Ack, Nak}

\* The client is going to send once more, and not for the first time.
Owed == phase = "ack" /\ asked \in Covered /\ ~Coming

Spent ==
  Len(executed) + Bit(gdb = "handle") - Cardinality(Covered)
    + Naks(toClient) + Bit(errors > 0) + Bit(Owed)

\* In half units, so that a character can cost half a repetition: two
\* invalid characters are needed for one request for retransmission.
Spending ==
  \E C : /\ Covers(toServer, C)
         /\ 2 * Spent + C[0] + Bit(errors # 1) <= 4 * faults + 1

LEMMA CoveredIs ==
  ASSUME NEW e \in Seq(Request), NEW X \in SUBSET Request,
         NEW s \in Seq(Character)
  PROVE  LET S == {e[k] : k \in DOMAIN e} \union X \union Requested(s, 0)
         IN  S \in SUBSET Request /\ IsFiniteSet(S) /\ Cardinality(S) \in Nat
<1>1. {e[k] : k \in DOMAIN e} \in SUBSET Request
  <2>1. DOMAIN e = 1 .. Len(e)
    BY LenProperties
  <2> QED BY <2>1, ElementOfSeq
<1>2. Requested(s, 0) \in SUBSET Request
  <2>1. 0 \in Nat
    BY SMT
  <2> QED BY <2>1, RequestedFinite, RequestFinite
<1>3. ASSUME NEW S \in SUBSET Request
      PROVE  IsFiniteSet(S) /\ Cardinality(S) \in Nat
  BY RequestFinite, FS_Subset, FS_CardinalityType
<1> QED BY <1>1, <1>2, <1>3

\* The numbers of the sum.
LEMMA SpentTypes ==
  ASSUME Known
  PROVE  /\ Covered \in SUBSET Request /\ IsFiniteSet(Covered)
         /\ Len(executed) \in Nat /\ Cardinality(Covered) \in Nat
         /\ Naks(toClient) \in Nat /\ faults \in Nat /\ errors \in Nat
         /\ toServer \in Seq(Character) /\ toClient \in Seq(Message)
         /\ faults \in 0 .. MaxFaults
<1>1. /\ executed \in Seq(Request) /\ toServer \in Seq(Character)
      /\ toClient \in Seq(Message) /\ faults \in 0 .. MaxFaults
      /\ errors \in Nat /\ faults \in Nat
  BY SessionTypes DEF Known, TypeOK
<1>2. InHand \in SUBSET Request
  BY SessionTypes DEF InHand, Known
<1>3. /\ Covered \in SUBSET Request /\ IsFiniteSet(Covered)
      /\ Cardinality(Covered) \in Nat
  BY <1>1, <1>2, CoveredIs DEF Covered, Executed
<1>4. Len(executed) \in Nat
  BY <1>1, LenProperties
<1> QED BY <1>1, <1>3, <1>4, NaksIs

LEMMA SpentTypesNext ==
  ASSUME Known'
  PROVE  /\ Covered' \in SUBSET Request /\ IsFiniteSet(Covered')
         /\ Len(executed') \in Nat /\ Cardinality(Covered') \in Nat
         /\ Naks(toClient') \in Nat /\ faults' \in Nat /\ errors' \in Nat
         /\ toServer' \in Seq(Character) /\ toClient' \in Seq(Message)
<1>1. /\ executed' \in Seq(Request) /\ toServer' \in Seq(Character)
      /\ toClient' \in Seq(Message) /\ faults' \in 0 .. MaxFaults
      /\ errors' \in 0 .. MAX_ERROR_SIZE - 1 /\ asked' \in 0 .. MaxRequests
  BY DEF Known, TypeOK
<1>2. faults' \in Nat /\ errors' \in Nat
  BY <1>1, SessionAssumption, SMT
<1>3. InHand' \in SUBSET Request
  <2>1. \A i \in 1 .. asked' : i \in Request
    BY <1>1, SessionAssumption, SMT DEF Request
  <2> QED BY <2>1 DEF InHand, Known
<1>4. /\ Covered' \in SUBSET Request /\ IsFiniteSet(Covered')
      /\ Cardinality(Covered') \in Nat
  BY <1>1, <1>3, CoveredIs DEF Covered, Executed
<1>5. Len(executed') \in Nat
  BY <1>1, LenProperties
<1> QED BY <1>1, <1>2, <1>4, <1>5, NaksIs

\* More is covered than before.
LEMMA CoveredMore ==
  ASSUME Known, Known', Covered \subseteq Covered'
  PROVE  Cardinality(Covered) <= Cardinality(Covered')
<1>1. IsFiniteSet(Covered')
  BY SpentTypesNext
<1> QED BY <1>1, FS_Subset

\* Messages under way stay there when more are written.
LEMMA MessagesStay ==
  ASSUME toClient \in Seq(Message), NEW u \in Seq(Message), NEW next,
         ToClient(u, next), NEW k \in 1 .. Len(toClient)
  PROVE  k \in 1 .. Len(toClient') /\ toClient'[k] = toClient[k]
<1>1. ASSUME NEW v \in Seq(Message), toClient' = toClient \o v
      PROVE  k \in 1 .. Len(toClient') /\ toClient'[k] = toClient[k]
  <2>1. /\ Len(toClient \o v) = Len(toClient) + Len(v)
        /\ Len(toClient) \in Nat /\ Len(v) \in Nat
        /\ \A i \in 1 .. Len(toClient) : (toClient \o v)[i] = toClient[i]
    BY Joined
  <2>2. k \in 1 .. Len(toClient \o v)
    BY <2>1, SMT
  <2> QED BY <1>1, <2>1, <2>2
<1>2. ASSUME NEW i \in 1 .. Len(u)
      PROVE  /\ Without(u, i) \in Seq(Message)
             /\ [u EXCEPT ![i] = Noise] \in Seq(Message)
  BY MessageKinds, Shorter, ExceptSeq
<1> QED BY <1>1, <1>2 DEF ToClient

(***************************************************************************)
(* The thread spends no more than it has.                                  *)
(***************************************************************************)

\* No packet reaches over the end of a token, and one that starts in it is all
\* of it.
LEMMA TokenWhole ==
  ASSUME NEW s \in Seq(Character), s # <<>>,
         NEW n, n = Rules!TokenOf(ClassesOf(s)).length,
         NEW b \in 1 .. n, Intact(s, b)
  PROVE  b = 1 /\ n = 4
<1>1. Len(s) \in Nat /\ n \in 1 .. Len(s)
  BY TokenLength, LenProperties
<1>2. b \in Nat \ {0} /\ b \in 1 .. Len(s)
  BY <1>1, SMT
<1>3. b = 1
  <2>1. ASSUME b # 1 PROVE FALSE
    <3> DEFINE from == b - 1
    <3>1. from \in 1 .. Len(s) /\ from + 1 = b /\ ~(n \in 1 .. from)
      BY <1>1, <1>2, <2>1, SMT
    <3>2. s[from + 1] = Char("$")
      BY <3>1 DEF Intact
    <3> HIDE DEF from
    <3>3. n \in 1 .. from
      BY <3>1, <3>2, TokenDebris
    <3> QED BY <3>1, <3>3
  <2> QED BY <2>1
<1>4. n = 4
  BY <1>3, TokenIntact
<1> QED BY <1>3, <1>4

\* A token takes its cost with it.
LEMMA TokenPassed ==
  ASSUME Known, ScanStep, NEW C, Covers(toServer, C)
  PROVE  \E n \in 1 .. Len(toServer) :
           /\ toServer # <<>> /\ n = Rules!TokenOf(ClassesOf(toServer)).length
           /\ toServer' = Rules!Drop(toServer, n)
           /\ \E D : Covers(toServer', D) /\ D[0] = C[n] /\ C[n] \in Nat
<1>1. toServer \in Seq(Character) /\ Len(toServer) \in Nat
  BY SessionTypes, LenProperties
<1>2. PICK rule \in Rules!Rule : Scan(rule)
  BY ScanRule
<1>3. PICK n \in 1 .. Len(toServer) :
        /\ n = Rules!TokenOf(ClassesOf(toServer)).length
        /\ toServer' = Rules!Drop(toServer, n)
  BY <1>1, <1>2, Scanned
<1>4. toServer # <<>>
  BY <1>1, <1>2, Scanned
<1>5. n \in 0 .. Len(toServer)
  BY <1>1, SMT
<1>6. \A b \in 1 .. n : Intact(toServer, b) => n = b + 3
  <2>1. 1 + 3 = 4
    BY SMT
  <2> QED BY <1>1, <1>3, <1>4, <2>1, TokenWhole
<1>7. \E D : Covers(Rules!Drop(toServer, n), D) /\ D[0] = C[n]
  BY <1>1, <1>5, <1>6, CoversDrop
<1>8. C[n] \in Nat
  BY <1>5 DEF Covers
<1> QED BY <1>3, <1>4, <1>7, <1>8

\* A packet is not passed over.
LEMMA NotAccepted ==
  ASSUME Known, ScanStep, ~AcceptPacket
  PROVE  /\ ~Intact(toServer, 1)
         /\ Requested(toServer', 0) = Requested(toServer, 0)
         /\ Packets(toServer, 0) # {} => Packets(toServer', 0) # {}
<1>1. toServer \in Seq(Character) /\ Len(toServer) \in Nat
  BY SessionTypes, LenProperties
<1>2. PICK rule \in Rules!Rule : Scan(rule)
  BY ScanRule
<1>3. PICK n \in 1 .. Len(toServer) :
        /\ n = Rules!TokenOf(ClassesOf(toServer)).length
        /\ toServer' = Rules!Drop(toServer, n)
  BY <1>1, <1>2, Scanned
<1>4. toServer # <<>>
  BY <1>1, <1>2, Scanned
<1>5. ~Intact(toServer, 1)
  BY <1>1, PacketScanned
<1>6. \A b \in 1 .. n : ~Intact(toServer, b)
  BY <1>1, <1>3, <1>4, <1>5, TokenWhole
<1>7. n \in 0 .. Len(toServer) /\ 0 \in 0 .. Len(toServer) - n /\ 0 + n = n
  BY <1>1, SMT
<1>8. Packets(toServer, 0) = Packets(toServer, n)
  <2>1. \A b \in 0 + 1 .. Len(toServer) : b \in 1 .. n \/ b \in n + 1 .. Len(toServer)
    BY <1>1, SMT
  <2>2. \A b \in n + 1 .. Len(toServer) : b \in 0 + 1 .. Len(toServer)
    BY <1>1, SMT
  <2> QED BY <1>6, <2>1, <2>2 DEF Packets
<1>9. Requested(toServer', 0) = Requested(toServer, n)
  BY <1>1, <1>3, <1>7, RequestedDrop
<1>10. Requested(toServer', 0) = Requested(toServer, 0)
  BY <1>8, <1>9 DEF Requested
<1>11. Packets(toServer, 0) # {} => Packets(toServer', 0) # {}
  BY <1>10 DEF Requested
<1> QED BY <1>5, <1>10, <1>11

\* A step of the thread that accepts no packet: what is covered stays so.
LEMMA ThreadKeeps ==
  ASSUME Known, GdbThread, ~AcceptPacket
  PROVE  /\ Len(executed') + Bit(gdb' = "handle")
              = Len(executed) + Bit(gdb = "handle")
         /\ Covered' = Covered /\ (Owed' => Owed)
<1>1. /\ toServer \in Seq(Character) /\ toClient \in Seq(Message)
      /\ Flush \in Seq(Message) /\ executed \in Seq(Request)
      /\ packet \in Seq(Message)
  BY SessionTypes DEF Known, TypeOK
<1>2. phase' = phase /\ asked' = asked
  BY DEF GdbThread, ScanAck, ScanRetransmission, RefusePacket, AcceptPacket,
     ScanInvalid, ScanNewline, ScanEnd, Handle, client
<1>3. ASSUME NEW u \in Seq(Message), NEW next, ToClient(u, next),
             Covered' = Covered, Packets(toServer, 0) # {} => Packets(toServer', 0) # {}
      PROVE  Owed' => Owed
  <2>1. Coming => Coming'
    BY <1>1, <1>3, MessagesStay DEF Coming
  <2> QED BY <1>2, <1>3, <2>1 DEF Owed
<1>4. CASE Handle
  <2>1. /\ gdb = "handle" /\ serving \in 1 .. asked
        /\ executed' = Append(executed, serving) /\ serving \in Request
        /\ toServer' = toServer
    BY <1>4, HandleServes, SessionTypes DEF Handle
  <2>2. /\ \E u \in Seq(Message), next \in {"scan"} : ToClient(u, next)
        /\ gdb' # "handle"
    <3>1. <<Answer(serving, Reply(Letter[serving]))>> \in Seq(Message)
      BY <2>1, MessageKinds DEF Sound
    <3> QED BY <1>4, <3>1 DEF Handle, ToClient
  <2>3. /\ Len(executed') = Len(executed) + 1 /\ Len(executed) \in Nat
        /\ \A k \in 1 .. Len(executed) : executed'[k] = executed[k]
        /\ executed'[Len(executed) + 1] = serving /\ executed' \in Seq(Request)
    BY <1>1, <2>1, AppendProperties, LenProperties
  <2>4. Executed' = Executed \union {serving}
    <3>1. DOMAIN executed = 1 .. Len(executed) /\ DOMAIN executed' = 1 .. Len(executed')
      BY <1>1, <2>3, LenProperties
    <3>2. /\ \A k \in 1 .. Len(executed') : k \in 1 .. Len(executed) \/ k = Len(executed) + 1
          /\ \A k \in 1 .. Len(executed) : k \in 1 .. Len(executed')
          /\ Len(executed) + 1 \in 1 .. Len(executed')
      BY <2>3, SMT
    <3> QED BY <2>3, <3>1, <3>2 DEF Executed
  <2>5. Covered' = Covered
    BY <2>1, <2>2, <2>4 DEF Covered, InHand
  <2>6. Bit(gdb' = "handle") = 0 /\ Bit(gdb = "handle") = 1
    BY <2>1, <2>2 DEF Bit
  <2>7. Len(executed) + 1 + 0 = Len(executed) + 1
    BY <2>3, SMT
  <2> QED BY <1>3, <2>1, <2>2, <2>3, <2>5, <2>6, <2>7
<1>5. CASE ScanStep \/ ScanEnd
  <2>1. gdb = "scan" /\ gdb' # "handle" /\ executed' = executed
    <3>1. gdb = "scan"
      BY <1>5, ScanRule DEF ScanEnd
    <3>2. executed' = executed
      BY <1>5 DEF ScanStep, ScanAck, ScanRetransmission, RefusePacket, AcceptPacket,
         ScanInvalid, ScanNewline, ScanEnd, server
    <3>3. gdb' # "handle"
      BY <1>5, <3>1 DEF ScanStep, ScanAck, ScanRetransmission, RefusePacket,
         ScanInvalid, ScanNewline, ScanEnd, ToClient, server
    <3> QED BY <3>1, <3>2, <3>3
  <2>2. /\ Requested(toServer', 0) = Requested(toServer, 0)
        /\ Packets(toServer, 0) # {} => Packets(toServer', 0) # {}
    <3>1. ScanEnd => toServer' = toServer
      BY DEF ScanEnd
    <3> QED BY <1>5, <3>1, NotAccepted
  <2>3. Covered' = Covered
    BY <2>1, <2>2 DEF Covered, InHand, Executed
  <2>4. Owed' => Owed
    <3>1. CASE ScanNewline
      <4>1. toClient' = toClient
        BY <3>1 DEF ScanNewline
      <4> QED BY <1>2, <2>2, <2>3, <4>1 DEF Owed, Coming
    <3>2. CASE ~ScanNewline
      <4>1. PICK u \in Seq(Message), next \in {"scan", "done"} : ToClient(u, next)
        <5>1. /\ Flush \o <<Nak>> \in Seq(Message) /\ Flush \o packet \in Seq(Message)
              /\ <<Nak>> \in Seq(Message) /\ <<>> \in Seq(Message)
          BY <1>1, ConcatProperties, EmptySeq, MessageKinds DEF Sound
        <5> QED BY <1>1, <1>5, <3>2, <5>1 DEF ScanStep, ScanAck, ScanRetransmission,
               RefusePacket, ScanInvalid, ScanEnd
      <4> QED BY <1>3, <2>2, <2>3, <4>1
    <3> QED BY <3>1, <3>2
  <2> QED BY <2>1, <2>3, <2>4
<1> QED BY <1>4, <1>5 DEF GdbThread, ScanStep

\* What a token with its requests for retransmission leaves.
LEMMA FlushWritten ==
  ASSUME Known, Known', NEW t \in Seq(Message), NEW next,
         ToClient(Flush \o t, next)
  PROVE  Naks(toClient') <= Naks(toClient) + Bit(errors > 0) + Naks(t)
<1>1. /\ toClient \in Seq(Message) /\ toClient' \in Seq(Message)
      /\ Flush \in Seq(Message) /\ Flush \o t \in Seq(Message)
  BY SpentTypes, SpentTypesNext, SessionTypes, ConcatProperties
<1>2. Naks(toClient') <= Naks(toClient) + Naks(Flush \o t)
  BY <1>1, NaksWritten
<1>3. Naks(Flush \o t) = Naks(Flush) + Naks(t)
  BY <1>1, NaksJoined
<1>4. Naks(Flush) = Bit(errors > 0)
  <2>1. CASE errors > 0
    BY <2>1, MessageKinds, NaksOfOne DEF Flush, Bit, Sound
  <2>2. CASE ~(errors > 0)
    BY <2>2, NaksOfOne DEF Flush, Bit
  <2> QED BY <2>1, <2>2
<1>5. /\ Naks(toClient) \in Nat /\ Naks(toClient') \in Nat /\ Naks(t) \in Nat
      /\ Bit(errors > 0) \in Nat
  BY <1>1, NaksIs, SMT DEF Bit
<1> QED BY <1>2, <1>3, <1>4, <1>5, SMT

LEMMA FlushOnly ==
  ASSUME Known, Known', NEW next, ToClient(Flush, next)
  PROVE  Naks(toClient') <= Naks(toClient) + Bit(errors > 0)
<1>1. Flush \in Seq(Message)
  BY SessionTypes
<1>2. Flush \o <<>> = Flush /\ <<>> \in Seq(Message) /\ Naks(<<>>) = 0
  BY <1>1, ConcatEmptySeq, EmptySeq, NaksOfOne
<1>3. Naks(toClient') <= Naks(toClient) + Bit(errors > 0) + 0
  BY <1>2, FlushWritten
<1>4. Naks(toClient) \in Nat /\ Bit(errors > 0) \in Nat
  BY SpentTypes, SMT DEF Bit
<1> QED BY <1>3, <1>4, SMT

\* How a step of the thread that accepts nothing changes the sum.
LEMMA ThreadSpent ==
  ASSUME Known, Known', GdbThread, ~AcceptPacket
  PROVE  /\ Spent \in Int /\ Spent' \in Int
         /\ Spent' <= Spent + (Naks(toClient') - Naks(toClient))
                            + (Bit(errors' > 0) - Bit(errors > 0))
<1> DEFINE a == Len(executed)
           b == Bit(gdb = "handle")
           c == Cardinality(Covered)
           d == Naks(toClient)
           e == Bit(errors > 0)
           f == Bit(Owed)
           a1 == Len(executed')
           b1 == Bit(gdb' = "handle")
           c1 == Cardinality(Covered')
           d1 == Naks(toClient')
           e1 == Bit(errors' > 0)
           f1 == Bit(Owed')
<1>1. a \in Nat /\ c \in Nat /\ d \in Nat /\ a1 \in Nat /\ c1 \in Nat /\ d1 \in Nat
  BY SpentTypes, SpentTypesNext
<1>2. /\ b \in Nat /\ e \in Nat /\ f \in Nat
      /\ b1 \in Nat /\ e1 \in Nat /\ f1 \in Nat
  BY SMT DEF Bit
<1>3. a1 + b1 = a + b /\ c1 = c
  BY ThreadKeeps
<1>4. f1 <= f
  <2>1. Owed' => Owed
    BY ThreadKeeps
  <2>2. CASE Owed
    <3>1. f = 1 /\ f1 \in {0, 1}
      BY <2>2 DEF Bit
    <3> HIDE DEF f, f1
    <3> QED BY <3>1, SMT
  <2>3. CASE ~Owed
    <3>1. f1 = 0
      BY <2>1, <2>3 DEF Bit
    <3> HIDE DEF f, f1
    <3> QED BY <1>2, <3>1, SMT
  <2> QED BY <2>2, <2>3
<1>5. Spent = a + b - c + d + e + f /\ Spent' = a1 + b1 - c1 + d1 + e1 + f1
  BY DEF Spent, Bit
<1> HIDE DEF a, b, c, d, e, f, a1, b1, c1, d1, e1, f1
<1>6. /\ Spent \in Int /\ Spent' \in Int
      /\ Spent' <= Spent + (d1 - d) + (e1 - e)
  BY <1>1, <1>2, <1>3, <1>4, <1>5, SMT
<1> QED BY <1>6 DEF d, e, d1, e1

\* An even sum leaves the odd half unit.
LEMMA EvenRoom ==
  ASSUME NEW p \in Int, NEW c \in Nat, Even(c), NEW f \in Nat, 2 * p + c <= 4 * f + 1
  PROVE  2 * p + c + 1 <= 4 * f + 1
<1>1. PICK h \in Nat : c = 2 * h
  BY DEF Even
<1>2. 2 * (p + h) <= 4 * f + 1
  BY <1>1, SMT
<1> DEFINE q == p + h
<1>3. q \in Int /\ 2 * q <= 4 * f + 1
  BY <1>1, <1>2, SMT
<1> HIDE DEF q
<1>4. 2 * q <= 4 * f
  BY <1>3, SMT
<1>5. 2 * p + c <= 4 * f
  BY <1>1, <1>4, SMT DEF q
<1> QED BY <1>5, SMT

LEMMA MoreFaults ==
  ASSUME NEW p \in Int, NEW f \in Nat, NEW g \in Nat, f <= g, p <= 4 * f + 1
  PROVE  p <= 4 * g + 1
  BY SMT

\* The errors are flushed by a token that costs, or by a sign.
LEMMA FlushSpends ==
  ASSUME Known, Known', GdbThread, ~AcceptPacket, NEW c \in Nat, NEW c1 \in Nat,
         NEW g \in Nat, g <= 1,
         2 * Spent + c + Bit(errors # 1) <= 4 * faults + 1, errors' = 0,
         Naks(toClient') <= Naks(toClient) + Bit(errors > 0) + g,
         c1 + 2 * g + 1 <= c \/ (g = 0 /\ c = c1 /\ Even(c1))
  PROVE  2 * Spent' + c1 + Bit(errors' # 1) <= 4 * faults' + 1
<1> DEFINE x == Spent
           y == Spent'
           d == Naks(toClient)
           d1 == Naks(toClient')
           e == Bit(errors > 0)
           b == Bit(errors # 1)
<1>1. Bit(errors' > 0) = 0 /\ Bit(errors' # 1) = 1
  <2>1. ~(0 > 0) /\ 0 # 1
    BY SMT
  <2> QED BY <2>1 DEF Bit
<1>2. e \in Nat /\ b \in Nat /\ d \in Nat /\ d1 \in Nat
  <2>1. e \in Nat /\ b \in Nat
    BY SMT DEF Bit
  <2> QED BY <2>1, SpentTypes, SpentTypesNext
<1>3. x \in Int /\ y \in Int /\ y <= x + (d1 - d) + (0 - e)
  BY <1>1, ThreadSpent
<1>4. faults \in Nat /\ faults' \in Nat /\ faults <= faults'
  <2>1. faults' \in {faults, faults + 1} /\ faults \in Nat
    BY OneFault, SpentTypes
  <2> QED BY <2>1, SMT
<1>5. 2 * x + c + b <= 4 * faults + 1 /\ d1 <= d + e + g
  OBVIOUS
<1> HIDE DEF x, y, d, d1, e, b
<1>6. y <= x + g
  BY <1>2, <1>3, <1>5, SMT
<1>7. 2 * y + c1 + 1 <= 4 * faults + 1
  <2>1. CASE c1 + 2 * g + 1 <= c
    BY <1>2, <1>3, <1>4, <1>5, <1>6, <2>1, SMT
  <2>2. CASE g = 0 /\ c = c1 /\ Even(c1)
    <3>1. 2 * y + c1 <= 4 * faults + 1
      BY <1>2, <1>3, <1>4, <1>5, <1>6, <2>2, SMT
    <3> QED BY <1>3, <1>4, <2>2, <3>1, EvenRoom
  <2> QED BY <2>1, <2>2
<1>8. 2 * y + c1 + 1 <= 4 * faults' + 1
  <2>1. 2 * y + c1 + 1 \in Int
    BY <1>3, SMT
  <2> QED BY <1>4, <1>7, <2>1, MoreFaults
<1> QED BY <1>1, <1>8 DEF y

\* An invalid character: two of them at least for a request.
LEMMA InvalidSpends ==
  ASSUME MAX_ERROR_SIZE >= 3, Known, Known', ScanInvalid,
         NEW c \in Nat, NEW c1 \in Nat, c1 < c,
         2 * Spent + c + Bit(errors # 1) <= 4 * faults + 1
  PROVE  2 * Spent' + c1 + Bit(errors' # 1) <= 4 * faults' + 1
<1> DEFINE x == Spent
           y == Spent'
           d == Naks(toClient)
           d1 == Naks(toClient')
           e == Bit(errors > 0)
           e1 == Bit(errors' > 0)
           b == Bit(errors # 1)
           b1 == Bit(errors' # 1)
<1>1. GdbThread /\ ~AcceptPacket
  BY DEF GdbThread, ScanInvalid, AcceptPacket, Scan
<1>2. /\ d \in Nat /\ d1 \in Nat /\ errors \in Nat /\ errors' \in Nat
      /\ toClient \in Seq(Message) /\ toClient' \in Seq(Message)
      /\ MAX_ERROR_SIZE \in Nat
  BY SpentTypes, SpentTypesNext, SessionAssumption
<1>3. x \in Int /\ y \in Int /\ y <= x + (d1 - d) + (e1 - e)
  BY <1>1, ThreadSpent
<1>4. faults \in Nat /\ faults' \in Nat /\ faults <= faults'
  <2>1. faults' \in {faults, faults + 1} /\ faults \in Nat
    BY <1>1, OneFault, SpentTypes
  <2> QED BY <2>1, SMT
<1>5. \/ errors > MAX_ERROR_SIZE - 2 /\ errors' = 1 /\ d1 <= d + 1
      \/ errors <= MAX_ERROR_SIZE - 2 /\ errors' = errors + 1 /\ d1 = d
  <2>1. CASE errors > MAX_ERROR_SIZE - 2
    <3>1. ToClient(<<Nak>>, "scan") /\ errors' = 1
      BY <2>1 DEF ScanInvalid
    <3>2. <<Nak>> \in Seq(Message) /\ Naks(<<Nak>>) = 1
      BY MessageKinds, NaksOfOne DEF Sound, Bit
    <3>3. d1 <= d + 1
      BY <1>2, <3>1, <3>2, NaksWritten
    <3> QED BY <2>1, <3>1, <3>3
  <2>2. CASE ~(errors > MAX_ERROR_SIZE - 2)
    <3>1. ToClient(<<>>, "scan") /\ errors' = errors + 1
      BY <2>2 DEF ScanInvalid
    <3>2. d1 = d
      BY <1>2, <3>1, WrittenNothing
    <3>3. errors <= MAX_ERROR_SIZE - 2
      BY <1>2, <2>2, SMT
    <3> QED BY <3>1, <3>2, <3>3
  <2> QED BY <2>1, <2>2
<1>6. /\ e = (IF errors > 0 THEN 1 ELSE 0) /\ b = (IF errors # 1 THEN 1 ELSE 0)
      /\ e1 = (IF errors' > 0 THEN 1 ELSE 0) /\ b1 = (IF errors' # 1 THEN 1 ELSE 0)
  BY DEF Bit
<1>7. 2 * x + c + b <= 4 * faults + 1
  OBVIOUS
<1> HIDE DEF x, y, d, d1, e, e1, b, b1
<1>8. 2 * (d1 - d) + 2 * (e1 - e) + (b1 - b) <= 1
  <2>1. CASE errors > MAX_ERROR_SIZE - 2 /\ errors' = 1 /\ d1 <= d + 1
    <3>1. errors > 1
      BY <1>2, <2>1, SMT
    <3>2. e = 1 /\ b = 1 /\ e1 = 1 /\ b1 = 0
      BY <1>2, <1>6, <2>1, <3>1, SMT
    <3> QED BY <1>2, <2>1, <3>2, SMT
  <2>2. CASE errors' = errors + 1 /\ d1 = d
    <3>1. CASE errors = 0
      <4>1. e = 0 /\ b = 1 /\ e1 = 1 /\ b1 = 0
        BY <1>2, <1>6, <2>2, <3>1, SMT
      <4> QED BY <1>2, <2>2, <4>1, SMT
    <3>2. CASE errors # 0
      <4>1. e = 1 /\ e1 = 1 /\ b \in {0, 1} /\ b1 \in {0, 1}
        BY <1>2, <1>6, <2>2, <3>2, SMT
      <4> QED BY <1>2, <2>2, <4>1, SMT
    <3> QED BY <3>1, <3>2
  <2> QED BY <1>5, <2>1, <2>2
<1>9. e \in Int /\ e1 \in Int /\ b \in Int /\ b1 \in Int
  BY <1>6, SMT
<1>10. 2 * y + c1 + b1 <= 4 * faults + 1
  BY <1>2, <1>3, <1>4, <1>7, <1>8, <1>9, SMT
<1>11. 2 * y + c1 + b1 <= 4 * faults' + 1
  <2>1. 2 * y + c1 + b1 \in Int
    BY <1>3, <1>9, SMT
  <2> QED BY <1>4, <1>10, <2>1, MoreFaults
<1> QED BY <1>11 DEF y, b1

\* The errors stay as they are and nothing is asked for.
LEMMA QuietSpends ==
  ASSUME Known, Known', GdbThread, ~AcceptPacket, NEW c \in Nat, NEW c1 \in Nat,
         c1 <= c, errors' = errors, Naks(toClient') <= Naks(toClient),
         2 * Spent + c + Bit(errors # 1) <= 4 * faults + 1
  PROVE  2 * Spent' + c1 + Bit(errors' # 1) <= 4 * faults' + 1
<1> DEFINE x == Spent
           y == Spent'
           d == Naks(toClient)
           d1 == Naks(toClient')
           e == Bit(errors > 0)
           b == Bit(errors # 1)
<1>1. e \in Nat /\ b \in Nat /\ d \in Nat /\ d1 \in Nat
  <2>1. e \in Nat /\ b \in Nat
    BY SMT DEF Bit
  <2> QED BY <2>1, SpentTypes, SpentTypesNext
<1>2. x \in Int /\ y \in Int /\ y <= x + (d1 - d) + (e - e)
  BY ThreadSpent
<1>3. faults \in Nat /\ faults' \in Nat /\ faults <= faults'
  <2>1. faults' \in {faults, faults + 1} /\ faults \in Nat
    BY OneFault, SpentTypes
  <2> QED BY <2>1, SMT
<1>4. 2 * x + c + b <= 4 * faults + 1 /\ d1 <= d
  OBVIOUS
<1> HIDE DEF x, y, d, d1, e, b
<1>5. y <= x
  BY <1>1, <1>2, <1>4, SMT
<1>6. 2 * y + c1 + b <= 4 * faults + 1 /\ 2 * y + c1 + b \in Int
  BY <1>1, <1>2, <1>3, <1>4, <1>5, SMT
<1>7. 2 * y + c1 + b <= 4 * faults' + 1
  BY <1>3, <1>6, MoreFaults
<1> QED BY <1>7 DEF y, b

\* An answer is no request for retransmission.
LEMMA AnswerNoNak ==
  ASSUME Known
  PROVE  /\ packet \in Seq(Message) /\ Naks(packet) = 0
         /\ \A i \in Request : /\ <<Answer(i, Reply(Letter[i]))>> \in Seq(Message)
                               /\ Naks(<<Answer(i, Reply(Letter[i]))>>) = 0
<1>1. ASSUME NEW i \in Request
      PROVE  /\ <<Answer(i, Reply(Letter[i]))>> \in Seq(Message)
             /\ Naks(<<Answer(i, Reply(Letter[i]))>>) = 0
  <2>1. Answer(i, Reply(Letter[i])) \in Message \ {Nak}
    BY MessageKinds DEF Replies
  <2> QED BY <2>1, NaksOfOne DEF Bit
<1>2. Naks(packet) = 0
  <2>1. CASE packet = <<>>
    BY <2>1, NaksOfOne
  <2>2. CASE packet = <<Answer(Last, Reply(Letter[Last]))>> /\ executed # <<>>
    BY <1>1, <2>2, SessionTypes
  <2> QED BY <2>1, <2>2 DEF Known
<1> QED BY <1>1, <1>2, SessionTypes

\* What a token of one character leaves to cover.
LEMMA OnePassed ==
  ASSUME Known, ScanStep, NEW rule \in Rules!Rule \ {"packet"}, Scan(rule),
         NEW C, Covers(toServer, C)
  PROVE  /\ C[0] \in Nat /\ C[1] \in Nat /\ C[1] <= C[0]
         /\ C[1] < C[0] \/ (Even(C[1]) /\ C[0] = C[1] /\ rule \in {"ack", "retransmission"})
         /\ \E D : Covers(toServer', D) /\ D[0] = C[1]
<1>1. toServer \in Seq(Character)
  BY SessionTypes
<1>2. toServer # <<>> /\ rule = Rules!TokenOf(ClassesOf(toServer)).rule
  BY <1>1, Scanned
<1>3. ~Rules!PacketAhead(ClassesOf(toServer))
  <2>1. ASSUME Rules!PacketAhead(ClassesOf(toServer)) PROVE FALSE
    <3>1. Rules!TokenOf(ClassesOf(toServer)).rule = "packet"
      BY <2>1 DEF Rules!TokenOf
    <3> QED BY <1>2, <3>1
  <2> QED BY <2>1
<1>4. /\ Rules!TokenOf(ClassesOf(toServer)).length = 1
      /\ toServer[1] = Char("+") => rule = "ack"
      /\ toServer[1] = Char("-") => rule = "retransmission"
  BY <1>1, <1>2, <1>3, AloneIs
<1>5. /\ C[0] \in Nat /\ C[1] \in Nat /\ C[1] <= C[0]
      /\ \/ C[1] < C[0]
         \/ Even(C[1]) /\ C[0] = C[1] /\ toServer[1] \in {Char("+"), Char("-")}
  BY <1>1, <1>2, CoversOne
<1>6. \E D : Covers(toServer', D) /\ D[0] = C[1]
  BY <1>4, TokenPassed
<1> QED BY <1>4, <1>5, <1>6

\* A packet that is refused takes three.
LEMMA RefusedPassed ==
  ASSUME Known, RefusePacket, NEW C, Covers(toServer, C)
  PROVE  /\ C[0] \in Nat
         /\ \E D : Covers(toServer', D) /\ D[0] \in Nat /\ D[0] + 3 <= C[0]
<1>1. toServer \in Seq(Character) /\ Scan("packet") /\ ScanStep /\ ~AcceptPacket
      /\ "packet" \in Rules!Rule
  BY SessionTypes DEF RefusePacket, AcceptPacket, ScanStep, Rules!Rule
<1>2. PICK n \in 1 .. Len(toServer) :
        /\ toServer # <<>> /\ n = Rules!TokenOf(ClassesOf(toServer)).length
        /\ toServer' = Rules!Drop(toServer, n)
        /\ \E D : Covers(toServer', D) /\ D[0] = C[n] /\ C[n] \in Nat
  BY <1>1, TokenPassed
<1>3. Rules!PacketAhead(ClassesOf(toServer))
  <2>1. Rules!TokenOf(ClassesOf(toServer)).rule = "packet"
    BY <1>1, Scanned
  <2> QED BY <1>1, <1>2, <2>1, AloneIs
<1> DEFINE m == Rules!Stop(ClassesOf(toServer))
<1>4. /\ m \in 2 .. Len(toServer) /\ m + 1 \in 1 .. Len(toServer)
      /\ toServer[1] = Char("$") /\ toServer[m] = Char("#") /\ toServer[m + 1][1] = "hex"
      /\ n = m + 1
  BY <1>1, <1>2, <1>3, AheadIs
<1>5. \A b \in 1 .. n : ~Intact(toServer, b)
  <2>1. ~Intact(toServer, 1)
    BY <1>1, NotAccepted
  <2> QED BY <1>1, <1>2, <2>1, TokenWhole
<1> HIDE DEF m
<1>6. C[0] \in Nat /\ C[m + 1] \in Nat /\ C[0] >= C[m + 1] + 3
  BY <1>1, <1>4, <1>5, CoversRefused
<1>7. C[m + 1] + 3 <= C[0]
  BY <1>6, SMT
<1> QED BY <1>2, <1>4, <1>6, <1>7

\* Every step of the thread but the acceptance of a packet.
LEMMA ThreadSpends ==
  ASSUME MAX_ERROR_SIZE >= 3, Known, Known', GdbThread, ~AcceptPacket, Spending
  PROVE  Spending'
<1>1. PICK C : /\ Covers(toServer, C)
               /\ 2 * Spent + C[0] + Bit(errors # 1) <= 4 * faults + 1
  BY DEF Spending
<1>2. /\ toServer \in Seq(Character) /\ toClient \in Seq(Message)
      /\ toClient' \in Seq(Message) /\ C[0] \in Nat
      /\ 0 \in Nat /\ 1 \in Nat /\ 0 <= 1 /\ 1 <= 1
  BY <1>1, SpentTypes, SpentTypesNext, CoversStarts, SMT
<1>3. Naks(toClient) \in Nat /\ Naks(toClient') \in Nat /\ Bit(errors > 0) \in Nat
  BY <1>2, NaksIs, SMT DEF Bit
<1>4. ASSUME NEW D, Covers(toServer', D),
             2 * Spent' + D[0] + Bit(errors' # 1) <= 4 * faults' + 1
      PROVE  Spending'
  BY <1>4 DEF Spending
<1>5. ASSUME NEW rule \in {"ack", "retransmission"}, Scan(rule), ScanStep, errors' = 0,
             Naks(toClient') <= Naks(toClient) + Bit(errors > 0)
      PROVE  Spending'
  <2>1. rule \in Rules!Rule \ {"packet"}
    BY DEF Rules!Rule
  <2>2. PICK D : /\ Covers(toServer', D) /\ D[0] \in Nat
                 /\ D[0] < C[0] \/ (C[0] = D[0] /\ Even(D[0]))
    BY <1>1, <1>5, <2>1, OnePassed
  <2>3. D[0] + 2 * 0 + 1 <= C[0] \/ (C[0] = D[0] /\ Even(D[0]))
    BY <1>2, <2>2, SMT
  <2>4. Naks(toClient') <= Naks(toClient) + Bit(errors > 0) + 0
    BY <1>3, <1>5, SMT
  <2>5. 2 * Spent' + D[0] + Bit(errors' # 1) <= 4 * faults' + 1
    BY <1>1, <1>2, <1>5, <2>2, <2>3, <2>4, FlushSpends
  <2> QED BY <1>4, <2>2, <2>5
<1>6. CASE ScanAck
  <2>1. /\ Scan("ack") /\ ScanStep /\ errors' = 0
        /\ Naks(toClient') <= Naks(toClient) + Bit(errors > 0)
    BY <1>6, FlushOnly DEF ScanAck, ScanStep
  <2> QED BY <1>5, <2>1
<1>7. CASE ScanRetransmission
  <2>1. /\ Scan("retransmission") /\ ScanStep /\ errors' = 0
        /\ ToClient(Flush \o packet, "scan")
    BY <1>7 DEF ScanRetransmission, ScanStep
  <2>2. Naks(toClient') <= Naks(toClient) + Bit(errors > 0) + Naks(packet)
        /\ Naks(packet) = 0
    BY <2>1, AnswerNoNak, FlushWritten
  <2>3. Naks(toClient') <= Naks(toClient) + Bit(errors > 0)
    BY <1>3, <2>2, SMT
  <2> QED BY <1>5, <2>1, <2>3
<1>8. CASE RefusePacket
  <2>1. PICK D : Covers(toServer', D) /\ D[0] \in Nat /\ D[0] + 3 <= C[0]
    BY <1>1, <1>8, RefusedPassed
  <2>2. Naks(toClient') <= Naks(toClient) + Bit(errors > 0) + 1 /\ errors' = 0
    <3>1. ToClient(Flush \o <<Nak>>, "scan") /\ errors' = 0
      BY <1>8 DEF RefusePacket
    <3>2. <<Nak>> \in Seq(Message) /\ Naks(<<Nak>>) = 1
      BY MessageKinds, NaksOfOne DEF Sound, Bit
    <3>3. Naks(toClient') <= Naks(toClient) + Bit(errors > 0) + Naks(<<Nak>>)
      BY <3>1, <3>2, FlushWritten
    <3> QED BY <3>1, <3>2, <3>3
  <2>3. D[0] + 2 * 1 + 1 <= C[0]
    BY <1>2, <2>1, SMT
  <2>4. 2 * Spent' + D[0] + Bit(errors' # 1) <= 4 * faults' + 1
    BY <1>1, <1>2, <2>1, <2>2, <2>3, FlushSpends
  <2> QED BY <1>4, <2>1, <2>4
<1>9. CASE ScanInvalid
  <2>1. "invalid" \in Rules!Rule \ {"packet"} /\ Scan("invalid") /\ ScanStep
    BY <1>9 DEF Rules!Rule, ScanInvalid, ScanStep
  <2>2. PICK D : Covers(toServer', D) /\ D[0] \in Nat /\ D[0] < C[0]
    <3>1. "invalid" \notin {"ack", "retransmission"}
      OBVIOUS
    <3> QED BY <1>1, <2>1, <3>1, OnePassed
  <2>3. 2 * Spent' + D[0] + Bit(errors' # 1) <= 4 * faults' + 1
    BY <1>1, <1>2, <1>9, <2>2, InvalidSpends
  <2> QED BY <1>4, <2>2, <2>3
<1>10. CASE ScanNewline
  <2>1. "newline" \in Rules!Rule \ {"packet"} /\ Scan("newline") /\ ScanStep
    BY <1>10 DEF Rules!Rule, ScanNewline, ScanStep
  <2>2. PICK D : Covers(toServer', D) /\ D[0] \in Nat /\ D[0] <= C[0]
    BY <1>1, <2>1, OnePassed
  <2>3. errors' = errors /\ Naks(toClient') <= Naks(toClient)
    <3>1. errors' = errors /\ toClient' = toClient
      BY <1>10 DEF ScanNewline, server
    <3> QED BY <1>3, <3>1, SMT
  <2>4. 2 * Spent' + D[0] + Bit(errors' # 1) <= 4 * faults' + 1
    BY <1>1, <1>2, <2>2, <2>3, QuietSpends
  <2> QED BY <1>4, <2>2, <2>4
<1>11. CASE ScanEnd
  <2>1. /\ toServer = <<>> /\ toServer' = toServer /\ errors' = 0
        /\ ToClient(Flush, "done")
    BY <1>11 DEF ScanEnd
  <2>2. C[0] = 0
    <3>1. Len(toServer) = 0
      BY <2>1
    <3> QED BY <1>1, <3>1 DEF Covers
  <2>3. Naks(toClient') <= Naks(toClient) + Bit(errors > 0) + 0
    <3>1. Naks(toClient') <= Naks(toClient) + Bit(errors > 0)
      BY <2>1, FlushOnly
    <3> QED BY <1>3, <3>1, SMT
  <2>4. 2 * Spent' + C[0] + Bit(errors' # 1) <= 4 * faults' + 1
    <3>1. Even(C[0])
      BY <2>2, SmallEven
    <3> QED BY <1>1, <1>2, <2>1, <2>3, <3>1, FlushSpends
  <2> QED BY <1>1, <1>4, <2>1, <2>4
<1>12. CASE Handle
  <2>1. toServer' = toServer /\ errors' = errors /\ serving \in Request
    BY <1>12, HandleServes, SessionTypes DEF Handle
  <2>2. Naks(toClient') <= Naks(toClient)
    <3>1. PICK u \in Seq(Message) : ToClient(u, "scan") /\ Naks(u) = 0
      BY <1>12, <2>1, AnswerNoNak DEF Handle
    <3>2. Naks(toClient') <= Naks(toClient) + 0
      BY <1>2, <3>1, NaksWritten
    <3> QED BY <1>3, <3>2, SMT
  <2>3. 2 * Spent' + C[0] + Bit(errors' # 1) <= 4 * faults' + 1
    <3>1. C[0] <= C[0]
      BY <1>2, SMT
    <3> QED BY <1>1, <1>2, <2>1, <2>2, <3>1, QuietSpends
  <2> QED BY <1>1, <1>4, <2>1, <2>3
<1> QED BY <1>6, <1>7, <1>8, <1>9, <1>10, <1>11, <1>12 DEF GdbThread

\* What the acceptance of a packet covers.
LEMMA AcceptCovers ==
  ASSUME Known, Known', AcceptPacket
  PROVE  /\ Intact(toServer, 1) /\ toServer' = Rules!Drop(toServer, 4)
         /\ Len(executed') = Len(executed) /\ gdb = "scan" /\ errors' = 0
         /\ Cardinality(Covered) + Bit(gdb' = "handle") <= Cardinality(Covered') + 1
<1>1. /\ Scan("packet") /\ ChecksumOk /\ serving' = toServer[2][2]
      /\ executed' = executed /\ errors' = 0 /\ gdb = "scan"
      /\ gdb' \in {"handle", "dead"}
  BY DEF AcceptPacket, Scan, ToClient
<1>2. toServer \in Seq(Character) /\ Len(toServer) \in Nat
  BY SpentTypes, LenProperties
<1>3. /\ Intact(toServer, 1) /\ serving' = Number(toServer, 1)
      /\ toServer' = Rules!Drop(toServer, 4)
  BY <1>1, <1>2, ChecksumIs
<1>4. /\ 4 \in 0 .. Len(toServer) /\ 0 \in 0 .. Len(toServer) - 4 /\ 0 + 4 = 4
      /\ 1 \in Nat \ {0} /\ \A b \in 0 + 1 .. Len(toServer) :
                              b = 1 \/ b \in 4 + 1 .. Len(toServer) \/ b \in 2 .. 4
  <2>1. 1 + 3 <= Len(toServer)
    BY <1>3 DEF Intact
  <2> QED BY <1>2, <2>1, SMT
<1>5. Requested(toServer', 0) = Requested(toServer, 4)
  BY <1>2, <1>3, <1>4, RequestedDrop
<1>6. Requested(toServer, 0) \subseteq Requested(toServer, 4) \union {serving'}
  <2>1. ASSUME NEW b \in Packets(toServer, 0), b # 1
        PROVE  b \in Packets(toServer, 4)
    <3>1. b \in 0 + 1 .. Len(toServer) /\ Intact(toServer, b)
      BY DEF Packets
    <3>2. b \notin 2 .. 4
      <4>1. ASSUME b \in 2 .. 4 PROVE FALSE
        <5>1. b \in Nat \ {0} /\ 1 < b /\ ~(1 + 3 < b)
          BY <4>1, SMT
        <5> QED BY <1>2, <1>3, <1>4, <3>1, <5>1, PacketsApart
      <4> QED BY <4>1
    <3> QED BY <1>4, <2>1, <3>1, <3>2 DEF Packets
  <2> QED BY <1>3, <2>1 DEF Requested
<1>7. Covered \subseteq Covered' \union {serving'}
  BY <1>1, <1>5, <1>6 DEF Covered, InHand, Executed
<1>8. /\ IsFiniteSet(Covered') /\ Cardinality(Covered') \in Nat
      /\ Cardinality(Covered) \in Nat
  BY SpentTypes, SpentTypesNext
<1>9. CASE gdb' = "handle"
  <2>1. Covered \subseteq Covered'
    BY <1>7, <1>9 DEF Covered, InHand
  <2>2. Cardinality(Covered) <= Cardinality(Covered')
    BY <1>8, <2>1, FS_Subset
  <2>3. Bit(gdb' = "handle") = 1
    BY <1>9 DEF Bit
  <2>4. Cardinality(Covered) + 1 <= Cardinality(Covered') + 1
    BY <1>8, <2>2, SMT
  <2> QED BY <1>1, <1>3, <2>3, <2>4
<1>10. CASE gdb' = "dead"
  <2>1. /\ IsFiniteSet(Covered' \union {serving'})
        /\ Cardinality(Covered' \union {serving'})
             = IF serving' \in Covered' THEN Cardinality(Covered')
                                        ELSE Cardinality(Covered') + 1
    BY <1>8, FS_AddElement
  <2>2. Cardinality(Covered) <= Cardinality(Covered' \union {serving'})
    BY <1>7, <2>1, FS_Subset
  <2>3. Bit(gdb' = "handle") = 0
    BY <1>10 DEF Bit
  <2>4. Cardinality(Covered) + 0 <= Cardinality(Covered') + 1
    BY <1>8, <2>1, <2>2, SMT
  <2> QED BY <1>1, <1>3, <2>3, <2>4
<1> QED BY <1>1, <1>9, <1>10

\* An acknowledgement that is not lost is under way.
LEMMA AcceptComes ==
  ASSUME Known, Known', AcceptPacket, faults' = faults
  PROVE  ~Owed'
<1>1. /\ ToClient(Flush \o <<Ack>>, "handle") /\ phase' = phase
      /\ toClient \in Seq(Message) /\ Flush \in Seq(Message)
      /\ <<Ack>> \in Seq(Message) /\ faults \in 0 .. MaxFaults
  BY SpentTypes, SessionTypes, MessageKinds DEF AcceptPacket, client, Sound
<1>2. CASE Closed
  <2>1. phase' # "ack"
    BY <1>1, <1>2 DEF Closed
  <2> QED BY <2>1 DEF Owed
<1>3. CASE ~Closed
  <2>1. Flush \o <<Ack>> \in Seq(Message)
    BY <1>1, ConcatProperties
  <2>2. toClient' = toClient \o (Flush \o <<Ack>>)
    BY <1>1, <1>3, <2>1, Written
  <2>3. toClient' = (toClient \o Flush) \o <<Ack>> /\ toClient \o Flush \in Seq(Message)
    BY <1>1, <2>2, ConcatAssociative, ConcatProperties
  <2>4. ASSUME NEW c \in Seq(Message)
        PROVE  \E k \in 1 .. Len(c \o <<Ack>>) : (c \o <<Ack>>)[k] = Ack
    <3>1. /\ Len(c \o <<Ack>>) = Len(c) + 1 /\ Len(c) \in Nat
          /\ (c \o <<Ack>>)[Len(c) + 1] = Ack
      <4>1. Len(<<Ack>>) = 1 /\ 1 \in 1 .. 1 /\ <<Ack>>[1] = Ack
        BY SMT
      <4> QED BY <1>1, <4>1, Joined
    <3>2. Len(c) + 1 \in 1 .. Len(c) + 1
      BY <3>1, SMT
    <3> QED BY <3>1, <3>2
  <2>5. Coming'
    BY <2>3, <2>4 DEF Coming
  <2> QED BY <2>5 DEF Owed
<1> QED BY <1>2, <1>3

LEMMA AcceptSpends ==
  ASSUME Known, Known', AcceptPacket, Spending
  PROVE  Spending'
<1>1. PICK C : /\ Covers(toServer, C)
               /\ 2 * Spent + C[0] + Bit(errors # 1) <= 4 * faults + 1
  BY DEF Spending
<1>2. /\ toServer \in Seq(Character) /\ toClient \in Seq(Message)
      /\ Intact(toServer, 1) /\ toServer' = Rules!Drop(toServer, 4)
  BY SpentTypes, AcceptCovers
<1>3. C[0] \in Nat /\ C[4] \in Nat /\ (C[0] >= C[4] + 3 \/ (C[0] = C[4] + 2 /\ Even(C[4])))
  BY <1>1, <1>2, CoversPacket
<1>4. PICK D : Covers(toServer', D) /\ D[0] = C[4]
  <2>1. ScanStep
    BY DEF ScanStep
  <2>2. PICK n \in 1 .. Len(toServer) :
          /\ n = Rules!TokenOf(ClassesOf(toServer)).length
          /\ \E E : Covers(toServer', E) /\ E[0] = C[n]
    BY <1>1, <2>1, TokenPassed
  <2>3. n = 4
    BY <1>2, <2>2, TokenIntact
  <2> QED BY <2>2, <2>3
<1> DEFINE a == Len(executed)
           c == Cardinality(Covered)
           d == Naks(toClient)
           e == Bit(errors > 0)
           b == Bit(errors # 1)
           f == Bit(Owed)
           b1 == Bit(gdb' = "handle")
           c1 == Cardinality(Covered')
           d1 == Naks(toClient')
           f1 == Bit(Owed')
           x == Spent
           y == Spent'
<1>5. /\ a \in Nat /\ c \in Nat /\ d \in Nat /\ c1 \in Nat /\ d1 \in Nat
      /\ faults \in Nat /\ faults' \in Nat
  BY SpentTypes, SpentTypesNext
<1>6. e \in Nat /\ f \in Nat /\ b \in Nat /\ b1 \in Nat /\ f1 \in {0, 1}
  BY SMT DEF Bit
<1>7. x = a + 0 - c + d + e + f /\ y = a + b1 - c1 + d1 + 0 + f1
  <2>1. /\ Len(executed') = Len(executed) /\ Bit(gdb = "handle") = 0
        /\ Bit(errors' > 0) = 0
    <3>1. Len(executed') = Len(executed) /\ gdb = "scan" /\ errors' = 0 /\ ~(0 > 0)
      BY AcceptCovers, SMT
    <3> QED BY <3>1 DEF Bit
  <2> QED BY <2>1 DEF Spent
<1>8. c + b1 <= c1 + 1
  BY AcceptCovers
<1>9. d1 <= d + e
  <2>1. ToClient(Flush \o <<Ack>>, "handle")
    BY DEF AcceptPacket
  <2>2. <<Ack>> \in Seq(Message) /\ Naks(<<Ack>>) = 0
    BY MessageKinds, NaksOfOne DEF Sound, Bit
  <2>3. Naks(toClient') <= Naks(toClient) + Bit(errors > 0) + Naks(<<Ack>>)
    BY <2>1, <2>2, FlushWritten
  <2>4. d1 <= d + e + 0
    BY <2>2, <2>3
  <2> HIDE DEF d, d1, e
  <2> QED BY <1>5, <1>6, <2>4, SMT
<1>10. (faults' = faults /\ f1 = 0) \/ faults' = faults + 1
  <2>1. faults' \in {faults, faults + 1}
    BY OneFault DEF GdbThread
  <2>2. faults' = faults => f1 = 0
    BY AcceptComes DEF Bit
  <2> QED BY <2>1, <2>2
<1>11. 2 * x + C[0] + b <= 4 * faults + 1
  BY <1>1
<1>12. Bit(errors' # 1) = 1
  <2>1. errors' = 0 /\ 0 # 1
    BY AcceptCovers
  <2> QED BY <2>1 DEF Bit
<1> HIDE DEF a, b, c, d, e, f, b1, c1, d1, f1, x, y
<1>13. x \in Int /\ y \in Int /\ y <= x + 1 + f1
  BY <1>5, <1>6, <1>7, <1>8, <1>9, SMT
<1>14. 2 * (x + 1) + C[4] + 1 <= 4 * faults + 1
  <2>1. CASE C[0] >= C[4] + 3
    BY <1>3, <1>5, <1>6, <1>11, <1>13, <2>1, SMT
  <2>2. CASE C[0] = C[4] + 2 /\ Even(C[4])
    <3>1. 2 * (x + 1) + C[4] <= 4 * faults + 1 /\ x + 1 \in Int
      BY <1>3, <1>5, <1>6, <1>11, <1>13, <2>2, SMT
    <3> QED BY <1>3, <1>5, <2>2, <3>1, EvenRoom
  <2> QED BY <1>3, <2>1, <2>2
<1>15. 2 * y + D[0] + 1 <= 4 * faults' + 1
  <2> DEFINE g == faults
             h == faults'
             m == C[4]
  <2>1. /\ g \in Nat /\ h \in Nat /\ m \in Nat
        /\ 2 * (x + 1) + m + 1 <= 4 * g + 1
        /\ (h = g /\ f1 = 0) \/ h = g + 1
    BY <1>3, <1>5, <1>10, <1>14
  <2> HIDE DEF g, h, m
  <2>2. 2 * y + m + 1 <= 4 * h + 1
    BY <1>6, <1>13, <2>1, SMT
  <2> QED BY <1>4, <2>2 DEF h, m
<1> QED BY <1>4, <1>12, <1>15 DEF Spending, y

(***************************************************************************)
(* The client sends again only what is paid for.                           *)
(***************************************************************************)

\* As long as a packet is under way the scanner can tell what comes next.
LEMMA PacketTold ==
  ASSUME NEW s \in Seq(Character), Packets(s, 0) # {}
  PROVE  s # <<>> /\ ~Rules!Open(ClassesOf(s))
<1> DEFINE c == ClassesOf(s)
<1>1. /\ c \in Seq(Rules!Class \union {"body"}) /\ Len(c) = Len(s) /\ Len(s) \in Nat
      /\ \A k \in 1 .. Len(s) : c[k] = s[k][1]
  BY ClassesAre
<1>2. PICK b \in 0 + 1 .. Len(s) : Intact(s, b)
  BY DEF Packets
<1>3. b \in 1 .. Len(s) /\ b \in 1 .. Len(c) /\ b <= Len(c) /\ Len(s) # 0
  BY <1>1, <1>2, SMT
<1>4. s # <<>>
  <2>1. Len(<<>>) = 0
    OBVIOUS
  <2> QED BY <1>3, <2>1
<1> HIDE DEF c
<1>5. ASSUME Rules!Begun(c) PROVE Rules!PacketAhead(c)
  <2>1. CASE b = 1
    BY <1>2, <2>1, TokenIntact DEF c
  <2>2. CASE b # 1
    <3>1. b \in 2 .. Len(c)
      BY <1>1, <1>3, <2>2, SMT
    <3>2. c[b] = "$"
      BY <1>1, <1>2, <1>3 DEF Intact, Char
    <3>3. b \in Rules!Stops(c)
      BY <3>1, <3>2 DEF Rules!Stops
    <3>4. /\ Rules!Stop(c) <= b /\ Rules!Stop(c) \in 2 .. Len(c)
          /\ c[Rules!Stop(c)] = "#"
      <4>1. Rules!Stops(c) # {}
        BY <3>3
      <4> QED BY <1>1, <1>5, <3>3, <4>1, StopIs DEF Rules!Begun
    <3>5. Rules!Stop(c) # b
      BY <3>2, <3>4
    <3>6. Rules!PacketLength(c) <= Len(c)
      BY <1>1, <1>3, <3>4, <3>5, SMT DEF Rules!PacketLength
    <3> QED BY <1>5, <3>3, <3>6 DEF Rules!PacketAhead
  <2> QED BY <2>1, <2>2
<1> QED BY <1>4, <1>5 DEF Rules!Open, c

\* A client that runs out of time does so because nothing comes.
LEMMA NothingComes ==
  ASSUME Known, Quiet, phase = "ack"
  PROVE  ~Coming
<1>1. toServer \in Seq(Character) /\ Token = "none" /\ toClient = <<>>
  BY SpentTypes DEF Quiet
<1>2. Classes = ClassesOf(toServer) /\ ~Closed
  BY DEF Classes, ClassesOf, Closed
<1>3. toServer = <<>> \/ Rules!Open(ClassesOf(toServer))
  <2>1. Rules!TokenOf(Classes).rule # "none"
    BY DEF Rules!TokenOf, Rules!Alone
  <2> QED BY <1>1, <1>2, <2>1 DEF Token
<1>4. Packets(toServer, 0) = {}
  BY <1>1, <1>3, PacketTold
<1>5. 1 .. Len(toClient) = {}
  <2>1. Len(toClient) = 0
    BY <1>1
  <2> QED BY <2>1, SMT
<1> QED BY <1>4, <1>5 DEF Coming

LEMMA ClientKeepsServer ==
  ASSUME ClientStep
  PROVE  UNCHANGED <<gdb, errors, serving, packet, executed>>
  BY DEF ClientStep, Wait, Ask, Acknowledged, Refused, Ignore, Damaged, Take,
     TimeOut, Retry, HastyTimeOut, GiveUp, Leave, Read, server

\* What was covered before a sending.
LEMMA SendingKeeps ==
  ASSUME Known, ClientStep, NEW v \in Seq(Character), toServer' = toServer \o v
  PROVE  /\ Covered \subseteq Covered'
         /\ Packets(toServer, 0) # {} => Packets(toServer', 0) # {}
<1>1. toServer \in Seq(Character) /\ 0 \in 0 .. Len(toServer)
  <2>1. toServer \in Seq(Character) /\ Len(toServer) \in Nat
    BY SpentTypes, LenProperties
  <2> QED BY <2>1, SMT
<1>2. ASSUME NEW k \in Packets(toServer, 0)
      PROVE  k \in Packets(toServer', 0) /\ Number(toServer', k) = Number(toServer, k)
  BY <1>1, PacketsKept
<1>3. Executed' = Executed /\ InHand' = InHand
  BY ClientKeepsServer DEF Executed, InHand
<1> QED BY <1>2, <1>3 DEF Covered, Requested

\* Nothing is covered that was not asked for.
LEMMA CoveredAsked ==
  ASSUME Known
  PROVE  \A i \in Covered : i <= asked /\ asked \in Nat
<1>1. /\ toServer \in Seq(Character) /\ toServer \in Seq(Made(asked))
      /\ executed \in Seq(1 .. asked) /\ asked \in Nat /\ Len(toServer) \in Nat
  <2>1. toServer \in Seq(Character) /\ asked \in Nat
    BY SessionTypes
  <2> QED BY <2>1, LenProperties DEF Known
<1>2. \A i \in 1 .. asked : i <= asked
  BY <1>1, SMT
<1>3. \A i \in Executed \union InHand : i \in 1 .. asked
  <2>1. DOMAIN executed = 1 .. Len(executed)
    BY <1>1, LenProperties
  <2>2. \A k \in 1 .. Len(executed) : executed[k] \in 1 .. asked
    BY <1>1, ElementOfSeq
  <2> QED BY <2>1, <2>2 DEF Executed, InHand, Known
<1>4. ASSUME NEW b \in Packets(toServer, 0) PROVE Number(toServer, b) <= asked
  <2>1. b \in Nat \ {0} /\ Intact(toServer, b)
    <3>1. b \in 0 + 1 .. Len(toServer) /\ Intact(toServer, b)
      BY DEF Packets
    <3> QED BY <1>1, <3>1, SMT
  <2>2. b + 1 \in 1 .. Len(toServer) /\ toServer[b + 1] = <<"body", Number(toServer, b)>>
    BY <1>1, <2>1, IntactIs
  <2>3. toServer[b + 1] \in Made(asked)
    BY <1>1, <2>2, ElementOfSeq
  <2> QED BY <2>2, <2>3 DEF Made
<1> QED BY <1>1, <1>2, <1>3, <1>4 DEF Covered, Requested

LEMMA BitLess ==
  ASSUME NEW p \in BOOLEAN, NEW q \in BOOLEAN, p => q
  PROVE  Bit(p) <= Bit(q)
<1>1. CASE q
  <2>1. Bit(q) = 1 /\ Bit(p) \in {0, 1}
    BY <1>1 DEF Bit
  <2> QED BY <2>1, SMT
<1>2. CASE ~q
  <2>1. Bit(q) = 0 /\ Bit(p) = 0
    BY <1>2 DEF Bit
  <2> QED BY <2>1, SMT
<1> QED BY <1>1, <1>2

\* How a step of the client changes the sum.
LEMMA ClientSpent ==
  ASSUME Known, Known', ClientStep
  PROVE  /\ Spent \in Int /\ Spent' \in Int
         /\ Spent' = Spent + (Naks(toClient') - Naks(toClient))
                           - (Cardinality(Covered') - Cardinality(Covered))
                           + (Bit(Owed') - Bit(Owed))
<1> DEFINE a == Len(executed)
           b == Bit(gdb = "handle")
           c == Cardinality(Covered)
           d == Naks(toClient)
           e == Bit(errors > 0)
           f == Bit(Owed)
           c1 == Cardinality(Covered')
           d1 == Naks(toClient')
           f1 == Bit(Owed')
<1>1. a \in Nat /\ c \in Nat /\ d \in Nat /\ c1 \in Nat /\ d1 \in Nat
  BY SpentTypes, SpentTypesNext
<1>2. b \in Nat /\ e \in Nat /\ f \in Nat /\ f1 \in Nat
  BY SMT DEF Bit
<1>3. Spent = a + b - c + d + e + f
  BY DEF Spent, Bit
<1>4. Spent' = a + b - c1 + d1 + e + f1
  <2>1. executed' = executed /\ gdb' = gdb /\ errors' = errors
    BY ClientKeepsServer
  <2>2. Spent' = Len(executed') + Bit(gdb' = "handle") - c1 + d1 + Bit(errors' > 0) + f1
    BY DEF Spent, Bit
  <2> QED BY <2>1, <2>2
<1> HIDE DEF a, b, c, d, e, f, c1, d1, f1
<1>5. /\ Spent \in Int /\ Spent' \in Int
      /\ Spent' = Spent + (d1 - d) - (c1 - c) + (f1 - f)
  <2> DEFINE x == Spent
             y == Spent'
  <2>1. x = a + b - c + d + e + f /\ y = a + b - c1 + d1 + e + f1
    BY <1>3, <1>4
  <2> HIDE DEF x, y
  <2>2. x \in Int /\ y \in Int /\ y = x + (d1 - d) - (c1 - c) + (f1 - f)
    BY <1>1, <1>2, <2>1, SMT
  <2> QED BY <2>2 DEF x, y
<1> QED BY <1>5 DEF c, d, f, c1, d1, f1

\* A step of the client that costs z, and the fault that pays for it.
LEMMA ClientPays ==
  ASSUME Known, Known', ClientStep, NEW C, NEW D, C[0] \in Nat, D[0] \in Nat,
         2 * Spent + C[0] + Bit(errors # 1) <= 4 * faults + 1,
         Covers(toServer', D), NEW z \in Int, Spent' <= Spent + z,
         \/ faults' = faults /\ 2 * z + D[0] <= C[0]
         \/ faults' = faults + 1 /\ 2 * z + D[0] <= C[0] + 4
  PROVE  Spending'
<1> DEFINE x == Spent
           y == Spent'
           g == faults
           h == faults'
           b == Bit(errors # 1)
           m == C[0]
           n == D[0]
<1>1. /\ x \in Int /\ y \in Int /\ g \in Nat /\ h \in Nat /\ m \in Nat /\ n \in Nat
      /\ 2 * x + m + b <= 4 * g + 1 /\ y <= x + z
      /\ (h = g /\ 2 * z + n <= m) \/ (h = g + 1 /\ 2 * z + n <= m + 4)
  BY ClientSpent, SpentTypes, SpentTypesNext
<1>2. b \in Nat /\ Bit(errors' # 1) = b
  <2>1. errors' = errors
    BY ClientKeepsServer
  <2>2. b \in Nat
    BY SMT DEF Bit
  <2> QED BY <2>1, <2>2
<1> HIDE DEF x, y, g, h, b, m, n
<1>3. 2 * y + n + b <= 4 * h + 1
  BY <1>1, <1>2, SMT
<1>4. 2 * Spent' + D[0] + Bit(errors' # 1) <= 4 * faults' + 1
  BY <1>2, <1>3 DEF y, n, h
<1> QED BY <1>4 DEF Spending

\* The client does not send.
LEMMA SilentSpends ==
  ASSUME Known, Known', Acknowledged \/ Ignore \/ GiveUp \/ Leave, Spending
  PROVE  Spending'
<1>1. ClientStep
  BY DEF ClientStep, Wait
<1>2. PICK C : /\ Covers(toServer, C)
               /\ 2 * Spent + C[0] + Bit(errors # 1) <= 4 * faults + 1
  BY DEF Spending
<1>3. /\ toServer' = toServer /\ faults' = faults
      /\ \/ phase' # "ack" /\ toClient' = toClient
         \/ /\ toClient # <<>> /\ toClient' = Tail(toClient) /\ asked' = asked
            /\ \/ phase' # "ack"
               \/ phase = "ack" /\ Head(toClient) \notin {Ack, Nak}
  BY DEF Acknowledged, Ignore, GiveUp, Leave, Read
<1>4. /\ toServer \in Seq(Character) /\ toClient \in Seq(Message)
      /\ Naks(toClient) \in Nat /\ Naks(toClient') \in Nat
      /\ Cardinality(Covered) \in Nat /\ C[0] \in Nat
  BY <1>2, SpentTypes, SpentTypesNext, CoversStarts
<1>5. Covered' = Covered
  BY <1>1, <1>3, ClientKeepsServer DEF Covered, Executed, InHand
<1>6. Naks(toClient') <= Naks(toClient)
  <2>1. CASE toClient' = toClient
    BY <1>4, <2>1, SMT
  <2>2. CASE toClient # <<>> /\ toClient' = Tail(toClient)
    <3>1. Naks(toClient) = Naks(toClient') + Bit(Head(toClient) = Nak)
      BY <1>4, <2>2, NaksRead
    <3>2. Bit(Head(toClient) = Nak) \in Nat
      BY SMT DEF Bit
    <3> QED BY <1>4, <3>1, <3>2, SMT
  <2> QED BY <1>3, <2>1, <2>2
<1>7. Owed' => Owed
  <2>1. CASE phase' # "ack"
    BY <2>1 DEF Owed
  <2>2. CASE /\ toClient # <<>> /\ toClient' = Tail(toClient) /\ asked' = asked
             /\ phase = "ack" /\ Head(toClient) \notin {Ack, Nak}
    <3>1. /\ Len(toClient) \in Nat /\ Len(Tail(toClient)) = Len(toClient) - 1
          /\ \A i \in 1 .. Len(Tail(toClient)) : Tail(toClient)[i] = toClient[i + 1]
          /\ Head(toClient) = toClient[1]
      BY <1>4, <2>2, HeadTailProperties, LenProperties
    <3>2. ASSUME NEW k \in 1 .. Len(toClient), toClient[k] \in {Ack, Nak}
          PROVE  k - 1 \in 1 .. Len(toClient') /\ toClient'[k - 1] = toClient[k]
      <4>1. k # 1
        BY <2>2, <3>1, <3>2
      <4>2. k - 1 \in 1 .. Len(Tail(toClient)) /\ k - 1 + 1 = k
        BY <3>1, <4>1, SMT
      <4> QED BY <2>2, <3>1, <4>2
    <3>3. Coming => Coming'
      BY <1>3, <3>2 DEF Coming
    <3> QED BY <1>5, <2>2, <3>3 DEF Owed
  <2> QED BY <1>3, <2>1, <2>2
<1>8. Bit(Owed') <= Bit(Owed)
  BY <1>7, BitLess DEF Owed
<1>9. Bit(Owed') \in Nat /\ Bit(Owed) \in Nat
  BY SMT DEF Bit
<1>10. Spent' <= Spent + 0
  <2> DEFINE x == Spent
             y == Spent'
             c == Cardinality(Covered)
             c1 == Cardinality(Covered')
             d == Naks(toClient)
             d1 == Naks(toClient')
             f == Bit(Owed)
             f1 == Bit(Owed')
  <2>1. /\ x \in Int /\ y \in Int /\ y = x + (d1 - d) - (c1 - c) + (f1 - f)
        /\ d1 <= d /\ f1 <= f /\ c1 = c /\ c \in Nat /\ d \in Nat /\ d1 \in Nat
        /\ f \in Nat /\ f1 \in Nat
    BY <1>1, <1>4, <1>5, <1>6, <1>8, <1>9, ClientSpent
  <2> HIDE DEF x, y, c, c1, d, d1, f, f1
  <2>2. y <= x + 0
    BY <2>1, SMT
  <2> QED BY <2>2 DEF x, y
<1>11. 0 \in Int /\ 2 * 0 + C[0] <= C[0]
  BY <1>4, SMT
<1>12. Covers(toServer', C)
  BY <1>2, <1>3
<1> QED BY <1>1, <1>2, <1>3, <1>4, <1>10, <1>11, <1>12, ClientPays

\* The client sends a sign.
LEMMA SignSpends ==
  ASSUME Known, Known', ClientStep, Spending, phase' # "ack",
         Naks(toClient') <= Naks(toClient), NEW x \in {"+", "-"},
         \/ ToServer(<<Char(x)>>)
         \/ toServer' = toServer \o <<Char(x)>> /\ faults' = faults + 1
  PROVE  Spending'
<1>1. PICK C : /\ Covers(toServer, C)
               /\ 2 * Spent + C[0] + Bit(errors # 1) <= 4 * faults + 1
  BY DEF Spending
<1>2. /\ toServer \in Seq(Character) /\ C[0] \in Nat /\ faults \in 0 .. MaxFaults
      /\ toServer' \in Seq(Character)
      /\ Naks(toClient) \in Nat /\ Naks(toClient') \in Nat
      /\ Cardinality(Covered) \in Nat /\ Cardinality(Covered') \in Nat
  BY <1>1, SpentTypes, SpentTypesNext, CoversStarts
<1>3. /\ \E v \in Seq(Character) : toServer' = toServer \o v
      /\ \E D : /\ Covers(toServer', D)
                /\ \/ faults' = faults /\ D[0] = C[0]
                   \/ faults' = faults + 1 /\ D[0] <= C[0] + 2
  <2>1. CASE ToServer(<<Char(x)>>)
    BY <1>1, <1>2, <2>1, SignCharged
  <2>2. CASE toServer' = toServer \o <<Char(x)>> /\ faults' = faults + 1
    <3>1. \E D : Covers(toServer \o <<Char(x)>>, D) /\ D[0] = C[0]
      BY <1>1, <1>2, SignArrives
    <3>2. PICK D : Covers(toServer', D) /\ D[0] = C[0]
      BY <2>2, <3>1
    <3>3. D[0] <= C[0] + 2
      BY <1>2, <3>2, SMT
    <3> QED BY <2>2, <3>2, <3>3, SignIs
  <2> QED BY <2>1, <2>2
<1>4. PICK D : /\ Covers(toServer', D)
               /\ \/ faults' = faults /\ D[0] = C[0]
                  \/ faults' = faults + 1 /\ D[0] <= C[0] + 2
  BY <1>3
<1>5. D[0] \in Nat
  BY <1>2, <1>4, CoversStarts
<1>6. Cardinality(Covered) <= Cardinality(Covered')
  BY <1>3, SendingKeeps, CoveredMore
<1>7. Bit(Owed') = 0 /\ Bit(Owed) \in Nat
  <2>1. Bit(Owed) \in Nat
    BY SMT DEF Bit
  <2>2. ~Owed'
    BY DEF Owed
  <2> QED BY <2>1, <2>2 DEF Bit
<1>8. Spent' <= Spent + 0
  <2> DEFINE u == Spent
             w == Spent'
             c == Cardinality(Covered)
             c1 == Cardinality(Covered')
             d == Naks(toClient)
             d1 == Naks(toClient')
             f == Bit(Owed)
  <2>1. /\ u \in Int /\ w \in Int /\ w = u + (d1 - d) - (c1 - c) + (0 - f)
        /\ d1 <= d /\ c <= c1 /\ c \in Nat /\ c1 \in Nat /\ d \in Nat /\ d1 \in Nat
        /\ f \in Nat
    BY <1>2, <1>6, <1>7, ClientSpent
  <2> HIDE DEF u, w, c, c1, d, d1, f
  <2>2. w <= u + 0
    BY <2>1, SMT
  <2> QED BY <2>2 DEF u, w
<1>9. /\ 0 \in Int
      /\ \/ faults' = faults /\ 2 * 0 + D[0] <= C[0]
         \/ faults' = faults + 1 /\ 2 * 0 + D[0] <= C[0] + 4
  <2>1. D[0] = C[0] => 2 * 0 + D[0] <= C[0]
    BY <1>2, <1>5, SMT
  <2>2. D[0] <= C[0] + 2 => 2 * 0 + D[0] <= C[0] + 4
    BY <1>2, <1>5, SMT
  <2>3. 0 \in Int
    BY SMT
  <2> QED BY <1>4, <2>1, <2>2, <2>3
<1> QED BY <1>1, <1>2, <1>4, <1>5, <1>8, <1>9, ClientPays

\* The packet the client waits for is under way once it has arrived.
LEMMA PacketCovers ==
  ASSUME Known, Known', ClientStep, asked' \in Request,
         toServer' = toServer \o Packet(asked')
  PROVE  /\ Covered \union {asked'} \subseteq Covered' /\ Coming'
         /\ asked' \notin Covered => Cardinality(Covered) + 1 <= Cardinality(Covered')
<1>1. /\ toServer \in Seq(Character) /\ Len(toServer) \in Nat
      /\ Packet(asked') \in Seq(Character)
  BY SpentTypes, LenProperties, PacketIs
<1>2. Covered \subseteq Covered'
  BY <1>1, SendingKeeps
<1>3. /\ Len(toServer') = Len(toServer) + 4 /\ Intact(toServer', Len(toServer) + 1)
      /\ Number(toServer', Len(toServer) + 1) = asked'
  <2>1. 1 \in Nat \ {0}
    BY SMT
  <2> QED BY <1>1, <2>1, PacketAdded
<1>4. Len(toServer) + 1 \in Packets(toServer', 0)
  <2>1. Len(toServer) + 1 \in 0 + 1 .. Len(toServer')
    BY <1>1, <1>3, SMT
  <2> QED BY <1>3, <2>1 DEF Packets
<1>5. asked' \in Covered' /\ Coming'
  BY <1>3, <1>4 DEF Covered, Requested, Coming
<1>6. ASSUME asked' \notin Covered
      PROVE  Cardinality(Covered) + 1 <= Cardinality(Covered')
  <2>1. IsFiniteSet(Covered) /\ IsFiniteSet(Covered')
    BY SpentTypes, SpentTypesNext
  <2>2. Cardinality(Covered \union {asked'}) = Cardinality(Covered) + 1
    BY <1>6, <2>1, FS_AddElement
  <2>3. Cardinality(Covered \union {asked'}) <= Cardinality(Covered')
    BY <1>2, <1>5, <2>1, FS_Subset
  <2> QED BY <2>2, <2>3
<1> QED BY <1>2, <1>5, <1>6

\* The client sends a packet: one that arrives is paid for by what it has
\* waited for, or is the first of its request; one that does not, by a fault.
LEMMA PacketSpends ==
  ASSUME Known, Known', ClientStep, Spending, asked' \in Request,
         NEW d \in Nat, NEW f \in Nat, d = Naks(toClient) - Naks(toClient'),
         f = Bit(Owed),
         \/ /\ ToServer(Packet(asked'))
            /\ asked' \notin Covered \/ d + f >= 1
            /\ \/ d >= 1 \/ (Owed' => Owed)
               \/ toServer' = toServer \o Packet(asked')
         \/ toServer' = toServer \o Packet(asked') /\ faults' = faults + 1
  PROVE  Spending'
<1>1. PICK C : /\ Covers(toServer, C)
               /\ 2 * Spent + C[0] + Bit(errors # 1) <= 4 * faults + 1
  BY DEF Spending
<1>2. /\ toServer \in Seq(Character) /\ C[0] \in Nat /\ faults \in 0 .. MaxFaults
      /\ toServer' \in Seq(Character)
      /\ Naks(toClient) \in Nat /\ Naks(toClient') \in Nat
      /\ Cardinality(Covered) \in Nat /\ Cardinality(Covered') \in Nat
  BY <1>1, SpentTypes, SpentTypesNext, CoversStarts
<1> DEFINE c == Cardinality(Covered)
           c1 == Cardinality(Covered')
           f1 == Bit(Owed')
           x == Spent
           y == Spent'
           n == Naks(toClient)
           n1 == Naks(toClient')
<1>3. /\ x \in Int /\ y \in Int /\ y = x + (n1 - n) - (c1 - c) + (f1 - f)
      /\ n \in Nat /\ n1 \in Nat /\ d = n - n1 /\ c \in Nat /\ c1 \in Nat
      /\ d \in Nat /\ f \in Nat /\ f1 \in {0, 1}
  <2>1. f1 \in {0, 1}
    BY DEF Bit
  <2> QED BY <1>2, <2>1, ClientSpent
<1>4. ASSUME NEW v \in Seq(Character), toServer' = toServer \o v PROVE c <= c1
  BY <1>4, SendingKeeps, CoveredMore
<1>5. ASSUME toServer' = toServer \o Packet(asked')
      PROVE  /\ f1 = 0 /\ c <= c1 /\ (asked' \notin Covered => c + 1 <= c1)
             /\ \E D : Covers(toServer', D) /\ D[0] \in Nat /\ D[0] = C[0] + 2
  <2>1. /\ Coming' /\ (asked' \notin Covered => c + 1 <= c1)
    BY <1>5, PacketCovers
  <2>2. f1 = 0
    BY <2>1 DEF Owed, Bit
  <2>3. c <= c1
    BY <1>4, <1>5, PacketIs
  <2>4. PICK D : Covers(toServer', D) /\ D[0] = C[0] + 2
    BY <1>1, <1>2, <1>5, PacketArrives
  <2>5. D[0] \in Nat
    BY <1>2, <2>4, CoversStarts
  <2> QED BY <2>1, <2>2, <2>3, <2>4, <2>5
<1>6. ASSUME NEW D, Covers(toServer', D), D[0] \in Nat, NEW z \in Int, y <= x + z,
             \/ faults' = faults /\ 2 * z + D[0] <= C[0]
             \/ faults' = faults + 1 /\ 2 * z + D[0] <= C[0] + 4
      PROVE  Spending'
  BY <1>1, <1>2, <1>6, ClientPays
<1> HIDE DEF c, c1, f1, x, y, n, n1
<1>7. 0 \in Int /\ -1 \in Int
  BY SMT
<1>8. CASE toServer' = toServer \o Packet(asked') /\ faults' = faults + 1
  <2>1. y <= x + 0
    BY <1>3, <1>5, <1>8, SMT
  <2>2. PICK D : Covers(toServer', D) /\ D[0] \in Nat /\ D[0] = C[0] + 2
    BY <1>5, <1>8
  <2>3. 2 * 0 + D[0] <= C[0] + 4
    BY <1>2, <2>2, SMT
  <2> QED BY <1>6, <1>7, <1>8, <2>1, <2>2, <2>3
<1>9. CASE /\ ToServer(Packet(asked'))
           /\ asked' \notin Covered \/ d + f >= 1
           /\ \/ d >= 1 \/ (Owed' => Owed)
              \/ toServer' = toServer \o Packet(asked')
  <2>1. \/ /\ faults' = faults /\ toServer' = toServer \o Packet(asked')
           /\ \E D : Covers(toServer', D) /\ D[0] <= C[0] + 2
        \/ /\ faults' = faults + 1
           /\ \E v \in Seq(Character) : toServer' = toServer \o v
           /\ \E D : Covers(toServer', D) /\ D[0] <= C[0] + 4
    BY <1>1, <1>2, <1>9, PacketCharged
  <2>2. CASE faults' = faults /\ toServer' = toServer \o Packet(asked')
    <3>1. /\ f1 = 0 /\ c <= c1 /\ (asked' \notin Covered => c + 1 <= c1)
      BY <1>5, <2>2
    <3>2. y <= x + (-1)
      <4>1. CASE asked' \notin Covered
        <5>1. c + 1 <= c1
          BY <3>1, <4>1
        <5> QED BY <1>3, <3>1, <5>1, SMT
      <4>2. CASE d + f >= 1
        BY <1>3, <3>1, <4>2, SMT
      <4> QED BY <1>9, <4>1, <4>2
    <3>3. PICK D : Covers(toServer', D) /\ D[0] \in Nat /\ D[0] = C[0] + 2
      BY <1>5, <2>2
    <3>4. 2 * (-1) + D[0] <= C[0]
      BY <1>2, <3>3, SMT
    <3> QED BY <1>6, <1>7, <2>2, <3>2, <3>3, <3>4
  <2>3. CASE /\ faults' = faults + 1
             /\ \E v \in Seq(Character) : toServer' = toServer \o v
             /\ \E D : Covers(toServer', D) /\ D[0] <= C[0] + 4
    <3>1. c <= c1
      BY <1>4, <2>3
    <3>2. d >= 1 \/ f1 <= f
      <4>1. CASE toServer' = toServer \o Packet(asked')
        <5>1. f1 = 0
          BY <1>5, <4>1
        <5>2. f \in Nat
          OBVIOUS
        <5> QED BY <5>1, <5>2, SMT
      <4>2. CASE Owed' => Owed
        <5>1. Bit(Owed') <= Bit(Owed)
          BY <4>2, BitLess DEF Owed
        <5> QED BY <5>1 DEF f1
      <4> QED BY <1>9, <4>1, <4>2
    <3>3. y <= x + 0
      <4>1. CASE d >= 1
        BY <1>3, <3>1, <4>1, SMT
      <4>2. CASE f1 <= f
        BY <1>3, <3>1, <4>2, SMT
      <4> QED BY <3>2, <4>1, <4>2
    <3>4. PICK D : Covers(toServer', D) /\ D[0] <= C[0] + 4
      BY <2>3
    <3>5. D[0] \in Nat
      BY <1>2, <3>4, CoversStarts
    <3>6. 2 * 0 + D[0] <= C[0] + 4
      BY <1>2, <3>4, <3>5, SMT
    <3> QED BY <1>6, <1>7, <2>3, <3>3, <3>4, <3>5, <3>6
  <2> QED BY <2>1, <2>2, <2>3
<1> QED BY <1>8, <1>9

LEMMA ReadLess ==
  ASSUME Known, toClient # <<>>, toClient' = Tail(toClient)
  PROVE  /\ Naks(toClient) \in Nat /\ Naks(toClient') \in Nat
         /\ Naks(toClient) = Naks(toClient') + Bit(Head(toClient) = Nak)
         /\ Naks(toClient') <= Naks(toClient)
<1>1. toClient \in Seq(Message) /\ toClient' \in Seq(Message)
  BY SpentTypes
<1>2. PICK h \in Nat, n \in Nat : h = Naks(toClient) /\ n = Naks(toClient')
  BY <1>1, NaksIs
<1>3. PICK b \in {0, 1} : b = Bit(Head(toClient) = Nak)
  BY DEF Bit
<1>4. h = n + b
  BY <1>1, <1>2, <1>3, NaksRead
<1>5. n <= h
  BY <1>4, SMT
<1> QED BY <1>2, <1>3, <1>4, <1>5

\* Who is owed a sending for a request has sent it before.
LEMMA OwedBefore ==
  ASSUME ClientStep, Owed'
  PROVE  asked' \in Covered
<1>1. asked' \in Covered' /\ Packets(toServer', 0) = {}
  BY DEF Owed, Coming
<1>2. asked' \in Executed' \union InHand'
  BY <1>1 DEF Covered, Requested
<1>3. Executed' = Executed /\ InHand' = InHand
  BY ClientKeepsServer DEF Executed, InHand
<1> QED BY <1>2, <1>3 DEF Covered

LEMMA AskSpends ==
  ASSUME Known, Known', Ask, Spending
  PROVE  Spending'
<1>1. ClientStep
  BY DEF ClientStep
<1>2. /\ asked \in Nat /\ asked' = asked + 1 /\ asked < MaxRequests
      /\ MaxRequests \in Nat /\ toClient' = toClient /\ ToServer(Packet(asked + 1))
  BY SessionTypes DEF Ask
<1>3. asked' \in Request
  BY <1>2, SMT DEF Request
<1>4. asked' \notin Covered
  <2>1. \A i \in Covered : i <= asked
    BY CoveredAsked
  <2>2. ~(asked + 1 <= asked)
    BY <1>2, SMT
  <2> QED BY <1>2, <2>1, <2>2
<1>5. ~Owed'
  BY <1>1, <1>4, OwedBefore
<1>6. PICK f \in Nat : f = Bit(Owed)
  <2>1. Bit(Owed) \in Nat
    BY SMT DEF Bit
  <2> QED BY <2>1
<1>7. 0 \in Nat /\ 0 = Naks(toClient) - Naks(toClient')
  <2>1. PICK n \in Nat : n = Naks(toClient)
    BY SpentTypes
  <2>2. 0 = n - n
    BY SMT
  <2> QED BY <1>2, <2>1, <2>2
<1> QED BY <1>1, <1>2, <1>3, <1>4, <1>5, <1>6, <1>7, PacketSpends

LEMMA RefusedSpends ==
  ASSUME Known, Known', Refused, Spending
  PROVE  Spending'
<1>1. ClientStep
  BY DEF ClientStep, Wait
<1>2. /\ asked \in Request /\ asked' = asked /\ ToServer(Packet(asked))
      /\ toClient # <<>> /\ toClient' = Tail(toClient) /\ Head(toClient) = Nak
  BY SessionTypes DEF Refused, Read
<1>3. PICK f \in Nat : f = Bit(Owed)
  <2>1. Bit(Owed) \in Nat
    BY SMT DEF Bit
  <2> QED BY <2>1
<1>4. 1 \in Nat /\ 1 = Naks(toClient) - Naks(toClient')
  <2>1. PICK h \in Nat, n \in Nat :
          h = Naks(toClient) /\ n = Naks(toClient') /\ h = n + 1
    BY <1>2, ReadLess DEF Bit
  <2>2. 1 = h - n
    BY <2>1, SMT
  <2> QED BY <2>1, <2>2
<1>5. 1 + f >= 1 /\ 1 >= 1
  BY SMT
<1> QED BY <1>1, <1>2, <1>3, <1>4, <1>5, PacketSpends

LEMMA RetrySpends ==
  ASSUME Known, Known', TimeOut \/ HastyTimeOut, phase = "ack", Spending
  PROVE  Spending'
<1>1. ClientStep
  BY DEF ClientStep, Wait
<1>2. asked \in Request /\ asked' = asked /\ toClient' = toClient
  BY SessionTypes DEF TimeOut, Retry, HastyTimeOut
<1>3. PICK f \in Nat : f = Bit(Owed)
  <2>1. Bit(Owed) \in Nat
    BY SMT DEF Bit
  <2> QED BY <2>1
<1>4. 0 \in Nat /\ 0 = Naks(toClient) - Naks(toClient')
  <2>1. PICK n \in Nat : n = Naks(toClient)
    BY SpentTypes
  <2>2. 0 = n - n
    BY SMT
  <2> QED BY <1>2, <2>1, <2>2
<1>5. CASE TimeOut
  <2>1. ToServer(Packet(asked)) /\ Quiet
    BY <1>5 DEF TimeOut, Retry
  <2>2. ~Coming
    BY <2>1, NothingComes
  <2>3. Owed' => Owed
    BY <1>1, <1>2, <2>2, OwedBefore DEF Owed
  <2>4. asked \notin Covered \/ 0 + f >= 1
    <3>1. ASSUME asked \in Covered PROVE 0 + f >= 1
      <4>1. f = 1
        BY <1>3, <2>2, <3>1 DEF Owed, Bit
      <4> QED BY <4>1, SMT
    <3> QED BY <3>1
  <2> QED BY <1>1, <1>2, <1>3, <1>4, <2>1, <2>3, <2>4, PacketSpends
<1>6. CASE HastyTimeOut
  <2>1. toServer' = toServer \o Packet(asked) /\ faults' = faults + 1
    BY <1>6 DEF HastyTimeOut, Fault
  <2> QED BY <1>1, <1>2, <1>3, <1>4, <2>1, PacketSpends
<1> QED BY <1>5, <1>6

LEMMA ClientSpends ==
  ASSUME Known, Known', ClientStep, Spending
  PROVE  Spending'
<1>1. CASE Acknowledged \/ Ignore \/ GiveUp \/ Leave
  BY <1>1, SilentSpends
<1>2. CASE Damaged \/ Take
  <2>1. phase' # "ack" /\ toClient # <<>> /\ toClient' = Tail(toClient)
    BY <1>2 DEF Damaged, Take, Read
  <2>2. ToServer(<<Char("-")>>) \/ ToServer(<<Char("+")>>)
    BY <1>2 DEF Damaged, Take
  <2>3. Naks(toClient') <= Naks(toClient)
    BY <2>1, ReadLess
  <2> QED BY <2>1, <2>2, <2>3, SignSpends
<1>3. CASE Ask
  BY <1>3, AskSpends
<1>4. CASE Refused
  BY <1>4, RefusedSpends
<1>5. CASE (TimeOut \/ HastyTimeOut) /\ phase = "ack"
  BY <1>5, RetrySpends
<1>6. CASE (TimeOut \/ HastyTimeOut) /\ phase = "answer"
  <2>1. phase' # "ack" /\ toClient' = toClient
    BY <1>6 DEF TimeOut, Retry, HastyTimeOut
  <2>2. Naks(toClient') <= Naks(toClient)
    <3>1. PICK n \in Nat : n = Naks(toClient)
      BY SpentTypes
    <3>2. n <= n
      BY SMT
    <3> QED BY <2>1, <3>1, <3>2
  <2>3. \/ ToServer(<<Char("-")>>)
        \/ toServer' = toServer \o <<Char("-")>> /\ faults' = faults + 1
    <3>1. toServer \in Seq(Character) /\ Char("-") \in Character
      BY SpentTypes DEF Character, Plain
    <3>2. Append(toServer, Char("-")) = toServer \o <<Char("-")>>
      BY <3>1, AppendIsConcat
    <3> QED BY <1>6, <3>2 DEF TimeOut, Retry, HastyTimeOut, Fault
  <2> QED BY <2>1, <2>2, <2>3, SignSpends
<1> QED BY <1>1, <1>2, <1>3, <1>4, <1>5, <1>6, StepsByPhase

(***************************************************************************)
(* The budget holds throughout, and bounds the repetitions.                *)
(***************************************************************************)
LEMMA CoversEmpty == \E C : Covers(<<>>, C) /\ C[0] = 0
<1> DEFINE C == [k \in 0 .. 0 |-> 0]
<1>1. /\ 0 .. 0 = {0} /\ 1 .. 0 = {} /\ Len(<<>>) = 0 /\ <<>> \in Seq(Character)
      /\ 0 \in Nat /\ 0 <= 0 /\ 2 * 0 = 0
  BY SMT
<1>2. C \in [0 .. 0 -> Nat] /\ C[0] = 0
  BY <1>1
<1>3. Requested(<<>>, 0) = {}
  <2>1. 0 + 1 .. 0 = {}
    BY SMT
  <2> QED BY <1>1, <2>1 DEF Requested, Packets
<1>4. Cardinality(Requested(<<>>, 0)) = 0
  BY <1>3, FS_EmptySet
<1> HIDE DEF C
<1>5. Covers(<<>>, C)
  BY <1>1, <1>2, <1>4 DEF Covers
<1> QED BY <1>2, <1>5

LEMMA SpendingInit == Init => Spending
<1> SUFFICES ASSUME Init PROVE Spending
  OBVIOUS
<1>1. PICK C : Covers(toServer, C) /\ C[0] = 0
  BY CoversEmpty DEF Init
<1>2. /\ Bit(gdb = "handle") = 0 /\ Bit(Owed) = 0 /\ Bit(errors > 0) = 0
      /\ Bit(errors # 1) = 1
  <2>1. ~(0 > 0) /\ 0 # 1
    BY SMT
  <2> QED BY <2>1 DEF Init, Bit, Owed
<1>3. Naks(toClient) = 0
  <2>1. NakPlaces(toClient) = {}
    <3>1. 1 .. 0 = {}
      BY SMT
    <3> QED BY <3>1 DEF Init, NakPlaces
  <2> QED BY <2>1, FS_EmptySet DEF Naks
<1>4. Cardinality(Covered) = 0
  <2>1. 0 + 1 .. 0 = {}
    BY SMT
  <2>2. Requested(toServer, 0) = {}
    BY <2>1 DEF Init, Requested, Packets
  <2>3. Covered = {}
    BY <2>2 DEF Init, Covered, Executed, InHand
  <2> QED BY <2>3, FS_EmptySet
<1>5. Len(executed) = 0 /\ faults = 0
  BY DEF Init
<1>6. 2 * Spent + C[0] + Bit(errors # 1) <= 4 * faults + 1
  <2>1. Spent = 0 + 0 - 0 + 0 + 0 + 0
    BY <1>2, <1>3, <1>4, <1>5 DEF Spent
  <2>2. 2 * (0 + 0 - 0 + 0 + 0 + 0) + 0 + 1 <= 4 * 0 + 1
    BY SMT
  <2> QED BY <1>1, <1>2, <1>5, <2>1, <2>2
<1> QED BY <1>1, <1>6 DEF Spending

LEMMA SpendingNext ==
  ASSUME MAX_ERROR_SIZE >= 3
  PROVE  Known /\ Spending /\ [Next]_vars => Spending'
<1> SUFFICES ASSUME Known, Spending, [Next]_vars PROVE Spending'
  OBVIOUS
<1>1. Known'
  BY KnownNext
<1>2. CASE UNCHANGED vars
  <2>1. Spent' = Spent
    BY <1>2 DEF vars, Spent, Covered, Executed, InHand, Owed, Coming
  <2>2. toServer' = toServer /\ errors' = errors /\ faults' = faults
    BY <1>2 DEF vars
  <2> QED BY <2>1, <2>2 DEF Spending
<1>3. CASE AcceptPacket
  BY <1>1, <1>3, AcceptSpends
<1>4. CASE GdbThread /\ ~AcceptPacket
  BY <1>1, <1>4, ThreadSpends
<1>5. CASE ClientStep
  BY <1>1, <1>5, ClientSpends
<1> QED BY <1>2, <1>3, <1>4, <1>5, StepsAre

LEMMA AtMostBoth ==
  ASSUME NEW S, NEW T, IsFiniteSet(S), IsFiniteSet(T)
  PROVE  /\ IsFiniteSet(S \union T)
         /\ Cardinality(S \union T) <= Cardinality(S) + Cardinality(T)
<1>1. PICK a \in Nat, b \in Nat, c \in Nat :
        /\ a = Cardinality(S) /\ b = Cardinality(T) /\ c = Cardinality(S \cap T)
        /\ Cardinality(S \union T) = a + b - c
  <2>1. IsFiniteSet(S \cap T)
    BY FS_Subset
  <2>2. /\ Cardinality(S) \in Nat /\ Cardinality(T) \in Nat
        /\ Cardinality(S \cap T) \in Nat
    BY <2>1, FS_CardinalityType
  <2>3. Cardinality(S \union T) =
          Cardinality(S) + Cardinality(T) - Cardinality(S \cap T)
    BY FS_Union
  <2> QED BY <2>2, <2>3
<1>2. a + b - c <= a + b
  BY <1>1, SMT
<1> QED BY <1>1, <1>2, FS_Union

\* The requests executed are those covered, but for the one in hand and the
\* ones under way, which the characters under way pay for.
LEMMA CoveredLess ==
  ASSUME Known, NEW C, Covers(toServer, C)
  PROVE  2 * Cardinality(Covered)
           <= 2 * Cardinality(Executed) + 2 * Bit(gdb = "handle") + C[0]
<1> DEFINE R == Requested(toServer, 0)
<1>1. /\ IsFiniteSet(Covered) /\ Executed \subseteq Covered
      /\ InHand \subseteq Covered /\ R \subseteq Covered
  BY SpentTypes DEF Covered
<1>2. IsFiniteSet(Executed) /\ IsFiniteSet(InHand) /\ IsFiniteSet(R)
  BY <1>1, FS_Subset
<1>3. /\ Cardinality(Executed \union InHand) <= Cardinality(Executed) + Cardinality(InHand)
      /\ IsFiniteSet(Executed \union InHand)
  BY <1>2, AtMostBoth
<1>4. Cardinality(Covered) <= Cardinality(Executed \union InHand) + Cardinality(R)
  BY <1>2, <1>3, AtMostBoth DEF Covered
<1>5. Cardinality(InHand) = Bit(gdb = "handle")
  <2>1. Cardinality({serving}) = 1 /\ Cardinality({}) = 0
    BY FS_Singleton, FS_EmptySet
  <2> QED BY <2>1 DEF InHand, Bit
<1>6. 2 * Cardinality(R) <= C[0]
  <2>1. Len(toServer) \in Nat
    BY SpentTypes, LenProperties
  <2>2. 0 \in 0 .. Len(toServer)
    BY <2>1, SMT
  <2> QED BY <2>2 DEF Covers
<1>7. C[0] \in Nat
  BY SpentTypes, CoversStarts
<1> DEFINE a == Cardinality(Executed)
           b == Cardinality(InHand)
           c == Cardinality(Covered)
           d == Cardinality(Executed \union InHand)
           e == Cardinality(R)
           m == C[0]
<1>8. /\ a \in Nat /\ b \in Nat /\ c \in Nat /\ d \in Nat /\ e \in Nat /\ m \in Nat
      /\ d <= a + b /\ c <= d + e /\ 2 * e <= m
  BY <1>1, <1>2, <1>3, <1>4, <1>6, <1>7, FS_CardinalityType
<1> HIDE DEF a, b, c, d, e, m
<1>9. 2 * c <= 2 * a + 2 * b + m
  BY <1>8, SMT
<1> QED BY <1>5, <1>9 DEF a, b, c, m

LEMMA SpendingBounds ==
  ASSUME Known, Spending
  PROVE  RepeatsBounded
<1>1. PICK C : /\ Covers(toServer, C)
               /\ 2 * Spent + C[0] + Bit(errors # 1) <= 4 * faults + 1
  BY DEF Spending
<1> DEFINE l == Len(executed)
           h == Bit(gdb = "handle")
           c == Cardinality(Covered)
           n == Naks(toClient)
           e == Bit(errors > 0)
           o == Bit(Owed)
           i == Bit(errors # 1)
           m == C[0]
           x == Cardinality(Executed)
           f == faults
<1>2. /\ l \in Nat /\ c \in Nat /\ n \in Nat /\ m \in Nat /\ f \in Nat
  BY <1>1, SpentTypes, CoversStarts
<1>3. h \in Nat /\ e \in Nat /\ o \in Nat /\ i \in Nat
  BY SMT DEF Bit
<1>4. x \in Nat
  <2>1. Executed \subseteq Covered /\ IsFiniteSet(Covered)
    BY SpentTypes DEF Covered
  <2> QED BY <2>1, FS_Subset, FS_CardinalityType
<1>5. 2 * (l + h - c + n + e + o) + m + i <= 4 * f + 1
  BY <1>1 DEF Spent
<1>6. 2 * c <= 2 * x + 2 * h + m
  BY <1>1, CoveredLess
<1>7. Repeats = l - x
  BY DEF Repeats, Executed
<1> HIDE DEF l, h, c, n, e, o, i, m, x, f
<1>8. l - x <= 2 * f
  BY <1>2, <1>3, <1>4, <1>5, <1>6, SMT
<1> QED BY <1>7, <1>8 DEF RepeatsBounded, f

\* However many are lost or damaged, at most two requests are executed again
\* for each fault, when the buffer of invalid characters holds at least two
\* beside its NUL (scanner.l:40-68).
THEOREM RepeatsCorrect ==
  ASSUME MAX_ERROR_SIZE >= 3
  PROVE  Spec => []RepeatsBounded
<1>1. Known /\ Spending => RepeatsBounded
  BY SpendingBounds
<1>2. Known /\ Spending /\ [Next]_vars => Spending'
  BY SpendingNext
<1> QED BY <1>1, <1>2, KnownInit, KnownNext, SpendingInit, PTL DEF Spec
=============================================================================
