-------------------------- MODULE GdbAccessProofs --------------------------
(***************************************************************************)
(* Proofs about the single accesses of gdb, for any memory, any bytes to   *)
(* escape, any packets and any registers: what gdb is told of a read and   *)
(* of a write is true, and the process dies only of what runs past the end.*)
(***************************************************************************)
EXTENDS GdbAccess, TLAPS

MemoryP == INSTANCE MemoryAreaProofs WITH status <- "success", value <- 0

-----------------------------------------------------------------------------
(***************************************************************************)
(* What the two loops rely on between their turns.                         *)
(***************************************************************************)
Done == Len(request.data.bytes) - left

ReadLoop ==
  handler = "read" =>
    /\ Asked("m") /\ request.address < Size
    /\ address = request.address + Len(buffer)
    /\ Len(buffer) + left = request.size
    /\ \A i \in 1 .. Len(buffer) : buffer[i] = mem[request.address + i - 1]

WriteLoop ==
  handler = "write" =>
    /\ Asked("X") /\ request.address < Size
    /\ left <= Len(request.data.bytes)
    /\ address = request.address + Done
    /\ next = request.data.at[Done + 1]

IndInv ==
  /\ TypeOK /\ ReadLoop /\ WriteLoop
  /\ WritesTold /\ ReadsTold /\ DiesOnlyOutside
  /\ regs = written /\ RegistersKept

\* A byte passes the check of the memory up to the one after its end
\* (memory.c:52).
LEMMA PassesUpToSize == ASSUME address \in Address PROVE Passes <=> address <= Size
BY AccessAssumption, SMT DEF Passes, Memory!Checked, Memory!At, Address

\* The kind of a request tells its fields.
LEMMA RequestFields ==
  ASSUME request \in Requests
  PROVE  /\ Asked("m") => /\ request.address \in Address
                          /\ request.size \in 0 .. MaxSize
         /\ Asked("X") => request.address \in Address /\ request.data \in Data
         /\ Asked("p") \/ Asked("P") => request.number \in Numbers
BY SMT DEF Requests, Asked

\* The fields of an X packet.
LEMMA DataFields ==
  ASSUME NEW p \in Data
  PROVE  /\ p.bytes \in Seq(Byte) /\ Len(p.bytes) \in Nat
         /\ \A i \in 1 .. Len(p.bytes) : p.bytes[i] \in Byte
         /\ p.at[1] = 1
         /\ \A i \in 1 .. Len(p.bytes) + 1 : p.at[i] \in Nat
BY DataAssumption, SMT DEF Encodes

\* A word leaves bytes in the memory (memory.c:116-126).
LEMMA WordStoredType ==
  ASSUME NEW m \in [Index -> Byte], NEW a \in Address, NEW v \in Words,
         NEW be \in {0, 1}
  PROVE  Memory!WordStored(m, a, v, be) \in [Index -> Byte]
<1>1. ASSUME NEW x \in Nat, NEW r \in Nat, r > 1
      PROVE  x \div r \in Nat /\ x % r \in 0 .. r - 1
  BY <1>1, SMT
<1>2. v \in Nat /\ Radix \in Nat /\ Radix > 1
  BY AccessAssumption, SMT
<1>3. Radix * Radix \in Nat /\ Radix * Radix > 1
  BY <1>2, SMT
<1>4. Radix * Radix * Radix \in Nat /\ Radix * Radix * Radix > 1
  BY <1>2, <1>3, SMT
<1>5. /\ Memory!Digit0(v) \in Byte /\ Memory!Digit1(v) \in Byte
      /\ Memory!Digit2(v) \in Byte /\ Memory!Digit3(v) \in Byte
  BY <1>1, <1>2, <1>3, <1>4
     DEF Memory!Digit0, Memory!Digit1, Memory!Digit2, Memory!Digit3, Byte
<1> QED BY <1>5 DEF Memory!WordStored
-----------------------------------------------------------------------------
LEMMA InitIndInv == Init => IndInv
<1> SUFFICES ASSUME Init PROVE IndInv
  OBVIOUS
<1>1. TypeOK
  BY AccessAssumption, SMT DEF Init, TypeOK, Registers, Requests, Address
<1> QED BY <1>1, SMT DEF Init, IndInv, ReadLoop, WriteLoop, WritesTold,
           ReadsTold, DiesOnlyOutside, RegistersKept, Asked

\* The registers and the memory are left alone, the handler stays or becomes
\* idle, and the request is not looked at: what every action of gdb on a
\* register shares.
LEMMA RegisterStep ==
  ASSUME IndInv, NEW n \in Numbers,
         ReadRegister(n) \/ \E v \in Given : WriteRegister(n, v)
  PROVE  IndInv'
<1> USE DEF IndInv
<1>1. /\ mem' = mem /\ mem \in [Index -> Byte] /\ before' = mem
      /\ request'.kind \in {"p", "P"} /\ request'.number = n
      /\ request' \in Requests
      /\ handler' \in {"idle", "dead"} /\ handler = "idle"
  BY SMT DEF ReadRegister, WriteRegister, Come, Reply, Die, machine, Requests,
             TypeOK
<1>2. /\ regs' = written' /\ regs' \in [Registers -> Values]
      /\ handler' = "dead" => n > 15
  <2>1. n \in Nat
    BY AccessAssumption, SMT
  <2>2. n <= 15 => n \in Registers /\ Atoi(n) \in Registers
    BY <2>1, SMT DEF Atoi, Registers
  <2>3. regs = written /\ regs \in [Registers -> Values]
    BY DEF TypeOK
  <2>4. CASE ReadRegister(n)
    <3>1. regs' = regs /\ written' = written
      BY <2>4 DEF ReadRegister, Die, machine
    <3>2. handler' = "dead" => Atoi(n) \notin Registers
      BY <2>4, SMT DEF ReadRegister, Reply
    <3> QED BY <2>1, <2>2, <2>3, <3>1, <3>2, SMT
  <2>5. ASSUME NEW v \in Given, WriteRegister(n, v)
        PROVE  /\ regs' = written' /\ regs' \in [Registers -> Values]
               /\ handler' = "dead" => n > 15
    <3>1. CASE n \in Registers
      <4>1. /\ regs' = [regs EXCEPT ![n] = v]
            /\ written' = [written EXCEPT ![n] = v] /\ handler' = "idle"
        BY <2>5, <3>1 DEF WriteRegister, Reply
      <4>2. v \in Values
        BY AccessAssumption
      <4> QED BY <2>3, <3>1, <4>1, <4>2
    <3>2. CASE n \notin Registers
      <4>1. regs' = regs /\ written' = written
        BY <2>5, <3>2 DEF WriteRegister, Die, machine
      <4> QED BY <2>1, <2>2, <2>3, <3>2, <4>1, SMT
    <3> QED BY <3>1, <3>2
  <2> QED BY <2>4, <2>5
<1>3. /\ address' \in Address /\ left' \in Nat /\ next' \in Nat
      /\ buffer' \in Seq(Byte)
  <2>1. \/ address' = 0 /\ left' = 0 /\ next' = 1 /\ buffer' = <<>>
        \/ address' = address /\ left' = left /\ next' = next
           /\ buffer' = buffer
    BY DEF ReadRegister, WriteRegister, Reply, Die, loop
  <2>2. 0 \in Address /\ <<>> \in Seq(Byte)
    BY AccessAssumption, SMT DEF Address
  <2>3. /\ address \in Address /\ left \in Nat /\ next \in Nat
        /\ buffer \in Seq(Byte)
    BY DEF TypeOK
  <2>4. 0 \in Nat /\ 1 \in Nat
    OBVIOUS
  <2> HIDE DEF IndInv
  <2> QED BY <2>1, <2>2, <2>3, <2>4, Zenon
<1>4. TypeOK'
  BY <1>1, <1>2, <1>3, SMT DEF TypeOK
<1>5. RegistersKept'
  <2>1. n \in Nat /\ (n < 10 => Atoi(n) = n /\ n \in Registers)
    BY AccessAssumption, SMT DEF Atoi, Registers
  <2>2. request'.kind = "p" => ReadRegister(n)
    BY DEF ReadRegister, WriteRegister, Come
  <2>3. ASSUME ReadRegister(n), n < 10
        PROVE  answer' = <<"word", written'[n]>>
    <3>1. answer' = <<"word", regs[n]>> /\ written' = written
      BY <2>1, <2>3 DEF ReadRegister, Reply, machine
    <3> QED BY <3>1
  <2> QED BY <1>1, <2>2, <2>3 DEF RegistersKept, Asked
<1> QED
  BY <1>1, <1>2, <1>4, <1>5, SMT
     DEF ReadLoop, WriteLoop, WritesTold, ReadsTold, DiesOnlyOutside, Asked

\* The guest stores a word between two packets.
LEMMA GuestStep ==
  ASSUME IndInv, NEW a \in Address, NEW v \in Words, GuestStore(a, v)
  PROVE  IndInv'
<1>1. mem' \in [Index -> Byte]
  BY WordStoredType, AccessAssumption DEF IndInv, TypeOK, GuestStore
<1>2. TypeOK'
  BY <1>1, SMT DEF IndInv, TypeOK, GuestStore, loop, Requests
<1> QED
  BY <1>2, SMT DEF IndInv, GuestStore, ReadLoop, WriteLoop, WritesTold,
                   ReadsTold, DiesOnlyOutside, RegistersKept, Asked

\* A packet m, up to its loop.
LEMMA ReadMemoryStep ==
  ASSUME IndInv, NEW a \in Address, NEW n \in 0 .. MaxSize, ReadMemory(a, n)
  PROVE  IndInv'
<1>1. /\ request' = [kind |-> "m", address |-> a, size |-> n]
      /\ request' \in Requests /\ n \in Nat /\ a \in Nat
      /\ mem' = mem /\ before' = mem /\ regs' = regs /\ written' = written
      /\ handler = "idle"
  BY AccessAssumption, SMT DEF ReadMemory, Come, machine, Requests, Address
<1>2. CASE a < Size
  <2>1. /\ handler' = "read" /\ address' = a /\ left' = n /\ buffer' = <<>>
        /\ next' = next
    BY <1>2, SMT DEF ReadMemory
  <2>2. /\ mem \in [Index -> Byte] /\ regs \in [Registers -> Values]
        /\ written \in [Registers -> Values] /\ next \in Nat
    BY DEF IndInv, TypeOK
  <2>3. <<>> \in Seq(Byte) /\ a <= Size
    BY <1>1, <1>2, AccessAssumption, SMT
  <2>4. TypeOK'
    BY <1>1, <2>1, <2>2, <2>3, Zenon DEF TypeOK
  <2> QED
    BY <1>1, <1>2, <2>1, <2>4, SMT
       DEF IndInv, ReadLoop, WriteLoop, WritesTold, ReadsTold,
           DiesOnlyOutside, RegistersKept, Asked
<1>3. CASE ~(a < Size)
  <2>1. /\ handler' = "idle" /\ answer' = <<"E0E">>
        /\ address' = 0 /\ left' = 0 /\ next' = 1 /\ buffer' = <<>>
    BY <1>3, SMT DEF ReadMemory, Reply
  <2>2. TypeOK'
    BY <1>1, <2>1, AccessAssumption, SMT DEF IndInv, TypeOK, Address
  <2>3. a >= Size
    BY <1>1, <1>3, AccessAssumption, SMT
  <2> QED
    BY <1>1, <2>1, <2>2, <2>3, SMT
       DEF IndInv, ReadLoop, WriteLoop, WritesTold, ReadsTold,
           DiesOnlyOutside, RegistersKept, Asked
<1> QED BY <1>2, <1>3

\* One byte is read.
LEMMA ReadTurnStep == ASSUME IndInv, ReadTurn PROVE IndInv'
<1> DEFINE a == request.address
<1>1. /\ handler = "read" /\ handler' = "read" /\ left > 0 /\ address \in Index
      /\ mem' = mem /\ regs' = regs /\ written' = written /\ next' = next
      /\ request' = request /\ before' = before
      /\ buffer' = Append(buffer, mem[address])
      /\ address' = (address + 1) % Space /\ left' = left - 1
  BY SMT DEF ReadTurn, machine
<1>2. /\ mem[address] \in Byte /\ buffer \in Seq(Byte) /\ left \in Nat
      /\ request \in Requests
  BY <1>1, SMT DEF IndInv, TypeOK
<1>3. /\ Asked("m") /\ a < Size /\ address = a + Len(buffer)
      /\ Len(buffer) + left = request.size /\ a \in Nat
      /\ \A i \in 1 .. Len(buffer) : buffer[i] = mem[a + i - 1]
  BY <1>1, <1>2, RequestFields, AccessAssumption, SMT
     DEF IndInv, ReadLoop, Address
<1>4. address' = address + 1 /\ address + 1 <= Size /\ address + 1 \in Address
  BY <1>1, AccessAssumption, SMT DEF Index, Address
<1>5. /\ buffer' \in Seq(Byte) /\ Len(buffer') = Len(buffer) + 1
      /\ \A i \in 1 .. Len(buffer) : buffer'[i] = buffer[i]
      /\ buffer'[Len(buffer) + 1] = mem[address]
      /\ Len(buffer) \in Nat
  BY <1>1, <1>2, SMT
<1>6. TypeOK'
  BY <1>1, <1>2, <1>4, <1>5, SMT DEF IndInv, TypeOK
<1>7. \A i \in 1 .. Len(buffer') : buffer'[i] = mem[a + i - 1]
  <2> SUFFICES ASSUME NEW i \in 1 .. Len(buffer')
               PROVE  buffer'[i] = mem[a + i - 1]
    OBVIOUS
  <2>1. CASE i \in 1 .. Len(buffer)
    BY <2>1, <1>3, <1>5
  <2>2. CASE i = Len(buffer) + 1
    <3>1. a + i - 1 = address
      BY <2>2, <1>3, <1>5, SMT
    <3> QED BY <3>1, <2>2, <1>5
  <2> QED BY <2>1, <2>2, <1>5, SMT
<1>8. ReadLoop'
  <2> DEFINE l == Len(buffer)
  <2>0. l \in Nat /\ left \in Nat /\ a \in Nat /\ Len(buffer') = l + 1
        /\ left' = left - 1 /\ address = a + l /\ l + left = request.size
        /\ address' = address + 1
    BY <1>1, <1>2, <1>3, <1>4, <1>5
  <2> HIDE DEF a, l
  <2>1. address' = a + Len(buffer') /\ Len(buffer') + left' = request.size
    BY <2>0, SMT
  <2>2. /\ request.kind = "m" /\ a < Size /\ request' = request /\ mem' = mem
        /\ \A i \in 1 .. Len(buffer') : buffer'[i] = mem[a + i - 1]
    BY <1>1, <1>3, <1>7 DEF Asked
  <2> QED BY <2>1, <2>2 DEF ReadLoop, Asked, a
<1> QED
  BY <1>1, <1>3, <1>6, <1>8, SMT
     DEF IndInv, WriteLoop, WritesTold, ReadsTold, DiesOnlyOutside, RegistersKept, Asked

\* The answer to m.
LEMMA ReadEndStep == ASSUME IndInv, ReadEnd PROVE IndInv'
<1>1. /\ handler = "read" /\ ~(left > 0 /\ Passes) /\ handler' = "idle"
      /\ answer' = <<"bytes", buffer>>
      /\ address' = 0 /\ left' = 0 /\ next' = 1 /\ buffer' = <<>>
      /\ mem' = mem /\ regs' = regs /\ written' = written
      /\ request' = request /\ before' = before
  BY SMT DEF ReadEnd, Reply, machine
<1>2. /\ address \in Address /\ address <= Size /\ left \in Nat
      /\ buffer \in Seq(Byte) /\ request \in Requests
  BY <1>1, SMT DEF IndInv, TypeOK
<1>3. left = 0
  BY <1>1, <1>2, PassesUpToSize, SMT
<1>4. TypeOK'
  BY <1>1, AccessAssumption, SMT DEF IndInv, TypeOK, Address
<1>5. /\ Asked("m") /\ Len(buffer) = request.size
      /\ request.address + request.size <= Size
      /\ \A i \in 1 .. Len(buffer) : buffer[i] = mem[request.address + i - 1]
  BY <1>1, <1>2, <1>3, SMT DEF IndInv, ReadLoop
<1>6. buffer = [i \in 1 .. request.size |-> mem[request.address + i - 1]]
  BY <1>2, <1>5, SMT
<1>7. ReadsTold'
  BY <1>1, <1>5, <1>6, SMT DEF IndInv, ReadsTold, Fits, Asked
<1> QED
  BY <1>1, <1>4, <1>5, <1>7, SMT
     DEF IndInv, ReadLoop, WriteLoop, WritesTold, DiesOnlyOutside, RegistersKept, Asked

\* A packet X, up to its loop.
LEMMA WriteMemoryStep ==
  ASSUME IndInv, NEW a \in Address, NEW p \in Data, WriteMemory(a, p)
  PROVE  IndInv'
<1>1. /\ request' = [kind |-> "X", address |-> a, data |-> p]
      /\ request' \in Requests /\ a \in Nat
      /\ mem' = mem /\ before' = mem /\ regs' = regs /\ written' = written
      /\ handler = "idle"
  BY AccessAssumption, SMT DEF WriteMemory, Come, machine, Requests, Address
<1>2. /\ Len(p.bytes) \in Nat /\ p.at[1] = 1
      /\ mem \in [Index -> Byte] /\ regs \in [Registers -> Values]
      /\ written \in [Registers -> Values] /\ buffer \in Seq(Byte)
  BY DataFields DEF IndInv, TypeOK
<1>3. CASE a < Size
  <2>1. /\ handler' = "write" /\ address' = a /\ left' = Len(p.bytes)
        /\ next' = 1 /\ buffer' = buffer
    BY <1>3, SMT DEF WriteMemory
  <2>2. 1 \in Nat /\ a <= Size
    BY <1>1, <1>3, AccessAssumption, SMT
  <2>3. TypeOK'
    BY <1>1, <1>2, <2>1, <2>2, Zenon DEF TypeOK
  <2>4. WriteLoop'
    BY <1>1, <1>2, <1>3, <2>1, SMT DEF WriteLoop, Done, Asked
  <2>5. Overlaid(mem, a, p.bytes, 0) = mem
    BY <1>1, <1>2, SMT DEF Overlaid, Index
  <2>6. WritesTold'
    BY <1>1, <1>2, <2>1, <2>5, SMT DEF WritesTold, Asked
  <2> QED
    BY <1>1, <2>1, <2>3, <2>4, <2>6, SMT
       DEF IndInv, ReadLoop, ReadsTold, DiesOnlyOutside, RegistersKept, Asked
<1>4. CASE ~(a < Size)
  <2>1. /\ handler' = "idle" /\ answer' = <<"E02">>
        /\ address' = 0 /\ left' = 0 /\ next' = 1 /\ buffer' = <<>>
    BY <1>4, SMT DEF WriteMemory, Reply
  <2>2. 0 \in Address /\ 0 \in Nat /\ 1 \in Nat /\ <<>> \in Seq(Byte)
        /\ a >= Size
    BY <1>1, <1>4, AccessAssumption, SMT DEF Address
  <2>3. TypeOK'
    BY <1>1, <1>2, <2>1, <2>2, SMT DEF TypeOK
  <2> QED
    BY <1>1, <2>1, <2>2, <2>3, SMT
       DEF IndInv, ReadLoop, WriteLoop, WritesTold, ReadsTold,
           DiesOnlyOutside, RegistersKept, Asked
<1> QED BY <1>3, <1>4

\* One byte, escaped or not, is written: the next of the packet.
LEMMA WriteTurnStep == ASSUME IndInv, WriteTurn PROVE IndInv'
<1> DEFINE a == request.address
           bytes == request.data.bytes
           at == request.data.at
           k == Done + 1
           byte == IF Content[next] = Esc THEN Flip[Content[next + 1]]
                                          ELSE Content[next]
<1>1. /\ handler = "write" /\ handler' = "write" /\ left > 0
      /\ address \in Index /\ mem' = [mem EXCEPT ![address] = byte]
      /\ next' = IF Content[next] = Esc THEN next + 2 ELSE next + 1
      /\ address' = (address + 1) % Space /\ left' = left - 1
      /\ regs' = regs /\ written' = written /\ buffer' = buffer
      /\ request' = request /\ before' = before
  BY DEF WriteTurn
<1>2. /\ mem \in [Index -> Byte] /\ before \in [Index -> Byte] /\ left \in Nat
      /\ request \in Requests
  BY DEF IndInv, TypeOK
<1>3. /\ Asked("X") /\ a < Size /\ left <= Len(bytes)
      /\ address = a + Done /\ next = at[k]
  BY <1>1 DEF IndInv, WriteLoop
<1>4. /\ a \in Nat /\ request.data \in Data
  BY <1>2, <1>3, RequestFields, AccessAssumption, SMT DEF Address
<1>5. /\ Len(bytes) \in Nat /\ k \in 1 .. Len(bytes) /\ Done \in Nat
      /\ Done' = k /\ bytes[k] \in Byte /\ at[k] \in Nat /\ at[k + 1] \in Nat
  <2>1. Len(bytes) \in Nat
    BY <1>4, DataFields
  <2>2. k \in 1 .. Len(bytes) /\ Done \in Nat /\ Done' = k
    BY <1>1, <1>2, <1>3, <2>1, SMT DEF Done
  <2>3. k \in 1 .. Len(bytes) + 1 /\ k + 1 \in 1 .. Len(bytes) + 1
    BY <2>1, <2>2, SMT
  <2> QED BY <1>4, <2>1, <2>2, <2>3, DataFields
<1>6. byte = bytes[k] /\ next' = at[k + 1]
  <2>1. \/ /\ bytes[k] \notin Special /\ Content[at[k]] = bytes[k]
           /\ at[k + 1] = at[k] + 1
        \/ /\ Content[at[k]] = Esc /\ Content[at[k] + 1] = Flip[bytes[k]]
           /\ at[k + 1] = at[k] + 2
    BY <1>4, <1>5, DataAssumption DEF Encodes, Content
  <2>2. Esc \in Special /\ Flip[Flip[bytes[k]]] = bytes[k]
    BY <1>5, AccessAssumption
  <2> QED BY <1>1, <1>3, <2>1, <2>2
<1>7. address' = address + 1 /\ address + 1 <= Size /\ address + 1 \in Address
  BY <1>1, AccessAssumption, SMT DEF Index, Address
<1>8. mem' = [mem EXCEPT ![address] = bytes[k]] /\ mem' \in [Index -> Byte]
  BY <1>1, <1>2, <1>5, <1>6
<1>9. TypeOK'
  <2>1. left' \in Nat /\ next' \in Nat
    BY <1>1, <1>2, <1>5, <1>6, SMT
  <2> QED BY <1>1, <1>7, <1>8, <2>1 DEF IndInv, TypeOK
<1>10. WriteLoop'
  <2> DEFINE l == Len(bytes)
             d == Done
             e == Done'
  <2>0. /\ l \in Nat /\ left \in Nat /\ a \in Nat /\ d \in Nat /\ left <= l
        /\ left' = left - 1 /\ address = a + d /\ e = d + 1
        /\ address' = address + 1
    BY <1>1, <1>2, <1>3, <1>4, <1>5, <1>7
  <2>1. left' <= l /\ address' = a + e
    <3> HIDE DEF a, l, d, e
    <3> QED BY <2>0, SMT
  <2> QED BY <1>1, <1>3, <1>5, <1>6, <2>1 DEF WriteLoop, Asked, Done
<1>11. mem' = Overlaid(before, a, bytes, k)
  <2>1. mem = Overlaid(before, a, bytes, Done)
    BY <1>1, <1>3 DEF IndInv, WritesTold, Done
  <2> HIDE DEF a, bytes, at
  <2>2. ASSUME NEW i \in Index
        PROVE  mem'[i] = IF i \in a .. a + k - 1 THEN bytes[i - a + 1]
                                                 ELSE before[i]
    <3>1. mem[i] = IF i \in a .. a + Done - 1 THEN bytes[i - a + 1]
                                              ELSE before[i]
      BY <2>1, <2>2 DEF Overlaid
    <3>2. i \in Int
      BY <2>2, AccessAssumption, SMT DEF Index
    <3>3. CASE i = address
      <4>1. i - a + 1 = k /\ i \in a .. a + k - 1
        BY <1>3, <1>4, <1>5, <3>2, <3>3, SMT
      <4> QED BY <1>2, <1>8, <2>2, <3>3, <4>1
    <3>4. CASE i # address
      <4>1. mem'[i] = mem[i]
        BY <1>2, <1>8, <2>2, <3>4
      <4>2. i \in a .. a + k - 1 <=> i \in a .. a + Done - 1
        BY <1>3, <1>4, <1>5, <3>2, <3>4, SMT
      <4> QED BY <3>1, <4>1, <4>2
    <3> QED BY <3>3, <3>4
  <2> QED BY <1>8, <2>2 DEF Overlaid
<1>12. WritesTold'
  BY <1>1, <1>5, <1>11 DEF WritesTold, Done
<1> QED
  BY <1>1, <1>3, <1>9, <1>10, <1>12, SMT
     DEF IndInv, ReadLoop, ReadsTold, DiesOnlyOutside, RegistersKept, Asked

\* The answer to X: the loop has ended with all bytes written, because the
\* check never refuses before the byte after the end.
LEMMA WriteEndStep == ASSUME IndInv, WriteEnd PROVE IndInv'
<1> DEFINE bytes == request.data.bytes
<1>1. /\ handler = "write" /\ ~(left > 0 /\ Passes) /\ handler' = "idle"
      /\ answer' = IF left = 0 THEN <<"OK">> ELSE <<"E02">>
      /\ address' = 0 /\ left' = 0 /\ next' = 1 /\ buffer' = <<>>
      /\ mem' = mem /\ regs' = regs /\ written' = written
      /\ request' = request /\ before' = before
  BY DEF WriteEnd, Reply, machine
<1>2. /\ address \in Address /\ address <= Size /\ left \in Nat
      /\ request \in Requests
  BY <1>1, SMT DEF IndInv, TypeOK
<1>3. left = 0
  BY <1>1, <1>2, PassesUpToSize, SMT
<1>4. TypeOK'
  BY <1>1, AccessAssumption, SMT DEF IndInv, TypeOK, Address
<1>5. /\ Asked("X") /\ address = request.address + Done
      /\ mem = Overlaid(before, request.address, bytes, Done)
  BY <1>1 DEF IndInv, WriteLoop, WritesTold, Done
<1>6. Done = Len(bytes)
  <2>1. Len(bytes) \in Nat
    BY <1>2, <1>5, RequestFields, DataFields
  <2> QED BY <1>3, <2>1, SMT DEF Done
<1>7. WritesTold'
  <2>1. Fits(request.address, Len(bytes))
    BY <1>2, <1>5, <1>6 DEF Fits
  <2>2. answer' = <<"OK">>
    BY <1>1, <1>3
  <2> QED BY <1>1, <1>5, <1>6, <2>1, <2>2 DEF WritesTold
<1> QED
  BY <1>1, <1>4, <1>5, <1>7, SMT
     DEF IndInv, ReadLoop, WriteLoop, ReadsTold, DiesOnlyOutside,
         RegistersKept, Asked

\* The process dies at the byte after the memory, with bytes still to come.
LEMMA OutsideStep == ASSUME IndInv, Outside PROVE IndInv'
<1>1. /\ handler \in {"read", "write"} /\ left > 0 /\ Passes
      /\ address \notin Index /\ handler' = "dead"
      /\ mem' = mem /\ regs' = regs /\ written' = written
      /\ answer' = answer /\ request' = request /\ before' = before
      /\ address' = address /\ left' = left /\ next' = next
      /\ buffer' = buffer
  BY DEF Outside, Die, machine, loop
<1>2. /\ address \in Address /\ left \in Nat /\ request \in Requests
      /\ buffer \in Seq(Byte) /\ Len(buffer) \in Nat
  BY SMT DEF IndInv, TypeOK
<1>3. address >= Size
  BY <1>1, <1>2, AccessAssumption, SMT DEF Address, Index
<1>4. TypeOK'
  BY <1>1, SMT DEF IndInv, TypeOK
<1>5. CASE handler = "read"
  <2>1. /\ Asked("m") /\ address = request.address + Len(buffer)
        /\ Len(buffer) + left = request.size
    BY <1>5 DEF IndInv, ReadLoop
  <2>2. request.address \in Nat /\ Size \in Nat
    BY <1>2, <2>1, RequestFields, AccessAssumption, SMT DEF Address
  <2>3. ~Fits(request.address, request.size)
    <3> DEFINE l == Len(buffer)
    <3>1. /\ l \in Nat /\ address = request.address + l
          /\ l + left = request.size
      BY <1>2, <2>1
    <3> HIDE DEF l
    <3> QED BY <1>1, <1>2, <1>3, <2>2, <3>1, SMT DEF Fits
  <2> QED
    BY <1>1, <1>4, <1>5, <2>1, <2>3, SMT
       DEF IndInv, ReadLoop, WriteLoop, WritesTold, ReadsTold,
           DiesOnlyOutside, RegistersKept, Asked
<1>6. CASE handler = "write"
  <2> DEFINE bytes == request.data.bytes
  <2>1. Asked("X") /\ address = request.address + Done
    BY <1>6 DEF IndInv, WriteLoop
  <2>2. /\ request.address \in Nat /\ Size \in Nat /\ Len(bytes) \in Nat
    BY <1>2, <2>1, RequestFields, DataFields, AccessAssumption, SMT
       DEF Address
  <2>3. ~Fits(request.address, Len(bytes))
    <3> DEFINE l == Len(bytes)
    <3>1. l \in Nat /\ address = request.address + (l - left)
      BY <2>1, <2>2 DEF Done
    <3> HIDE DEF l
    <3>2. ~(request.address + l <= Size)
      BY <1>1, <1>2, <1>3, <2>2, <3>1, SMT
    <3> QED BY <3>2 DEF Fits, l
  <2>4. WritesTold'
    BY <1>1, <1>6, <2>1 DEF IndInv, WritesTold
  <2>5. DiesOnlyOutside'
    BY <1>1, <2>1, <2>3 DEF DiesOnlyOutside, Fits, Asked
  <2> QED
    BY <1>1, <1>4, <2>1, <2>4, <2>5, SMT
       DEF IndInv, ReadLoop, WriteLoop, ReadsTold, RegistersKept, Asked
<1> QED BY <1>1, <1>5, <1>6

\* A step that changes nothing.
LEMMA StutterStep == ASSUME IndInv, UNCHANGED vars PROVE IndInv'
BY Zenon DEF IndInv, vars, TypeOK, ReadLoop, WriteLoop, Done, WritesTold,
             ReadsTold, DiesOnlyOutside, RegistersKept, Asked

LEMMA NextIndInv == IndInv /\ [Next]_vars => IndInv'
<1> SUFFICES ASSUME IndInv, [Next]_vars PROVE IndInv'
  OBVIOUS
<1>1. ASSUME NEW a \in Address, NEW n \in 0 .. MaxSize, ReadMemory(a, n)
      PROVE  IndInv'
  BY <1>1, ReadMemoryStep
<1>2. ASSUME NEW a \in Address, NEW p \in Data, WriteMemory(a, p)
      PROVE  IndInv'
  BY <1>2, WriteMemoryStep
<1>3. ASSUME NEW a \in Address, NEW v \in Words, GuestStore(a, v)
      PROVE  IndInv'
  BY <1>3, GuestStep
<1>4. ASSUME NEW n \in Numbers,
             ReadRegister(n) \/ \E v \in Given : WriteRegister(n, v)
      PROVE  IndInv'
  BY <1>4, RegisterStep
<1>5. CASE ReadTurn
  BY <1>5, ReadTurnStep
<1>6. CASE ReadEnd
  BY <1>6, ReadEndStep
<1>7. CASE WriteTurn
  BY <1>7, WriteTurnStep
<1>8. CASE WriteEnd
  BY <1>8, WriteEndStep
<1>9. CASE Outside
  BY <1>9, OutsideStep
<1>10. CASE Ended \/ UNCHANGED vars
  BY <1>10, StutterStep DEF Ended
<1> QED
  BY <1>1, <1>2, <1>3, <1>4, <1>5, <1>6, <1>7, <1>8, <1>9, <1>10, Zenon
     DEF Next
-----------------------------------------------------------------------------
(***************************************************************************)
(* Theorems.                                                               *)
(***************************************************************************)

LEMMA Inductive == Spec => []IndInv
BY InitIndInv, NextIndInv, PTL DEF Spec

\* Whatever size a packet asks for, the loops of read_memory and
\* write_memory_binary stay within the memory and the byte after it
\* (gdb_protocol.c:258-275, 361-387).
THEOREM TypeCorrect == Spec => []TypeOK
<1>1. IndInv => TypeOK
  BY DEF IndInv
<1> QED BY <1>1, Inductive, PTL

\* What gdb is told of an X packet is true, for any bytes and any way to
\* escape them: OK when all are in their places and nothing else has changed,
\* E02 when nothing has (gdb_protocol.c:361-387).
THEOREM WritesCorrect == Spec => []WritesTold
<1>1. IndInv => WritesTold
  BY DEF IndInv
<1> QED BY <1>1, Inductive, PTL

\* The answer to m has as many bytes as were asked for, those of the memory
\* (gdb_protocol.c:258-275).
THEOREM ReadsCorrect == Spec => []ReadsTold
<1>1. IndInv => ReadsTold
  BY DEF IndInv
<1> QED BY <1>1, Inductive, PTL

\* The process dies of no other packet than one whose bytes run past the end
\* of the memory or whose register it takes for one beyond 15
\* (gdb_protocol.c:228, 265, 313, 370).
THEOREM DiesCorrect == Spec => []DiesOnlyOutside
<1>1. IndInv => DiesOnlyOutside
  BY DEF IndInv
<1> QED BY <1>1, Inductive, PTL

\* A register of one digit reads as what was written into it last, although
\* its number is read in base ten and written in base sixteen
\* (gdb_protocol.c:277-282, 352-359).
THEOREM RegistersCorrect == Spec => []RegistersKept
<1>1. IndInv => RegistersKept
  BY DEF IndInv
<1> QED BY <1>1, Inductive, PTL

\* The word of four bytes, reversed twice, is itself (memory.c:73-85).
LEMMA WordOfBytes ==
  ASSUME NEW m \in [Index -> Byte], NEW i \in Nat, i + 4 <= Size
  PROVE  LET word == Memory!WordAt(m, i, BE)
         IN ((m[i] * Radix + m[i + 1]) * Radix + m[i + 2]) * Radix + m[i + 3]
              = IF BE = 1 THEN word ELSE Memory!Reverse4(word)
<1> DEFINE a == m[i]  b == m[i + 1]  c == m[i + 2]  d == m[i + 3]
           big == ((a * Radix + b) * Radix + c) * Radix + d
           little == ((d * Radix + c) * Radix + b) * Radix + a
<1>1. MemoryP!SizeAssumption /\ MemoryP!RadixAssumption /\ MemoryP!Byte = Byte
  BY AccessAssumption
     DEF MemoryP!SizeAssumption, MemoryP!RadixAssumption, MemoryP!Byte, Byte
<1>0. Size \in Nat /\ Space \in Nat /\ Size < Space
  BY AccessAssumption
<1>2. /\ Memory!At(i, 1) = i + 1 /\ Memory!At(i, 2) = i + 2
      /\ Memory!At(i, 3) = i + 3 /\ i \in Index /\ i + 1 \in Index
      /\ i + 2 \in Index /\ i + 3 \in Index
  <2>1. ASSUME NEW k \in 0 .. 3
        PROVE  Memory!At(i, k) = i + k /\ i + k \in Index
    <3>1. i + k \in 0 .. Space - 1 /\ i + k \in 0 .. Size - 1
      BY <1>0, SMT
    <3>2. (i + k) % Space = i + k
      BY <1>0, <3>1, SMT
    <3> QED BY <3>1, <3>2 DEF Memory!At, Index
  <2>2. 0 \in 0 .. 3 /\ 1 \in 0 .. 3 /\ 2 \in 0 .. 3 /\ 3 \in 0 .. 3 /\ i + 0 = i
    BY SMT
  <2> QED BY <2>1, <2>2, Zenon
<1>3. a \in Byte /\ b \in Byte /\ c \in Byte /\ d \in Byte
  BY <1>2
<1>4. \A x, y, z, t \in Byte :
        Memory!Reverse4(((x * Radix + y) * Radix + z) * Radix + t)
          = ((t * Radix + z) * Radix + y) * Radix + x
  <2> TAKE x, y, z, t \in Byte
  <2> DEFINE v == ((x * Radix + y) * Radix + z) * Radix + t
  <2>1. /\ MemoryP!Digit3(v) = x /\ MemoryP!Digit2(v) = y
        /\ MemoryP!Digit1(v) = z /\ MemoryP!Digit0(v) = t
    BY <1>1, MemoryP!DigitsOfWord
  <2> HIDE DEF v
  <2>2. /\ Memory!Digit3(v) = x /\ Memory!Digit2(v) = y
        /\ Memory!Digit1(v) = z /\ Memory!Digit0(v) = t
    BY <2>1 DEF MemoryP!Digit0, MemoryP!Digit1, MemoryP!Digit2,
                MemoryP!Digit3, Memory!Digit0, Memory!Digit1, Memory!Digit2,
                Memory!Digit3
  <2>3. Memory!Reverse4(v) = ((t * Radix + z) * Radix + y) * Radix + x
    BY <2>2 DEF Memory!Reverse4
  <2> QED BY <2>3 DEF v
<1> HIDE DEF a, b, c, d
<1>5. Memory!Reverse4(big) = little /\ Memory!Reverse4(little) = big
  BY <1>3, <1>4
<1>6. Memory!WordAt(m, i, BE) = IF BE = 0 THEN Memory!Reverse4(big) ELSE big
  BY <1>2 DEF Memory!WordAt, a, b, c, d
<1>7. BE = 0 \/ BE = 1
  BY AccessAssumption
<1> HIDE DEF big, little
<1>8. big = IF BE = 1 THEN Memory!WordAt(m, i, BE)
                      ELSE Memory!Reverse4(Memory!WordAt(m, i, BE))
  BY <1>5, <1>6, <1>7
<1> QED BY <1>8 DEF big, a, b, c, d

\* Four bytes of an answer are the word that the guest loads there, reversed
\* if the guest is little endian (gdb_protocol.c:268, memory.c:73-85).
THEOREM TextCorrect == Spec => []TextIsWord
<1>1. IndInv => TextIsWord
  <2> SUFFICES ASSUME IndInv, Asked("m"), handler = "idle",
                      answer[1] = "bytes", request.size = 4
      PROVE  LET b == answer[2]
                 word == Memory!WordAt(mem, request.address, BE)
             IN ((b[1] * Radix + b[2]) * Radix + b[3]) * Radix + b[4]
                  = IF BE = 1 THEN word ELSE Memory!Reverse4(word)
    BY DEF TextIsWord
  <2> DEFINE i == request.address
  <2>1. i \in Nat /\ mem \in [Index -> Byte]
    <3>1. i \in Address
      BY RequestFields DEF IndInv, TypeOK
    <3> QED BY <3>1, AccessAssumption, SMT DEF Address, IndInv, TypeOK
  <2>2. /\ i + 4 <= Size
        /\ answer[2] = [k \in 1 .. 4 |-> mem[i + k - 1]]
    BY DEF IndInv, ReadsTold, Fits
  <2> HIDE DEF i
  <2>3. /\ answer[2][1] = mem[i] /\ answer[2][2] = mem[i + 1]
        /\ answer[2][3] = mem[i + 2] /\ answer[2][4] = mem[i + 3]
    <3>1. /\ 1 \in 1 .. 4 /\ 2 \in 1 .. 4 /\ 3 \in 1 .. 4 /\ 4 \in 1 .. 4
          /\ i + 1 - 1 = i /\ i + 2 - 1 = i + 1 /\ i + 3 - 1 = i + 2
          /\ i + 4 - 1 = i + 3
      BY <2>1, SMT
    <3> QED BY <2>2, <3>1, Zenon
  <2>4. LET word == Memory!WordAt(mem, i, BE)
        IN ((mem[i] * Radix + mem[i + 1]) * Radix + mem[i + 2]) * Radix
              + mem[i + 3]
             = IF BE = 1 THEN word ELSE Memory!Reverse4(word)
    BY <2>1, <2>2, WordOfBytes
  <2> QED BY <2>3, <2>4 DEF i
<1> QED BY <1>1, Inductive, PTL
=============================================================================
