----------------------------- MODULE GdbAccess -----------------------------
(***************************************************************************)
(* What gdb reads and writes of the simulated machine by single accesses   *)
(* (gdb_protocol.c): the memory with the packets m and X, a register with  *)
(* p and P, over the memory of MemoryArea and next to a guest that stores  *)
(* words in it.  One step of a handler is one turn of its loop.            *)
(*                                                                         *)
(* The lock keeps the guest out while a handler runs (Simulator).  An X    *)
(* packet has as many characters as its size tells: the checksum has been  *)
(* verified (GdbSession), and gdb asks for no more than fits PacketSize.   *)
(***************************************************************************)
EXTENDS Integers, Sequences

CONSTANTS
  Size, Space, Radix,  \* as in MemoryArea
  BE,                  \* the byte order of the guest: 1 is big endian
  Esc,                 \* the character 0x7d
  Special,             \* the bytes that gdb sends escaped, Esc is one
  Flip,                \* a byte with the bit 0x20 inverted
  Data,                \* the X packets: bytes, characters, places of the bytes
  MaxSize,             \* bound: the bytes a packet m asks for
  Numbers,             \* the numbers of registers gdb asks for
  Values,              \* what a register holds
  Given,               \* what gdb writes into one
  Start,               \* the registers when the session starts
  Words                \* what the guest stores

Address == 0 .. Space - 1
Index == 0 .. Size - 1
Byte == 0 .. Radix - 1
Registers == 0 .. 15

\* The characters of p.content stand for the bytes p.bytes: byte i has one
\* character, or two if it is escaped, from the place p.at[i].
Encodes(p) ==
  /\ p.bytes \in Seq(Byte) /\ p.content \in Seq(Byte)
  /\ p.at \in [1 .. Len(p.bytes) + 1 -> Nat] /\ p.at[1] = 1
  /\ \A i \in 1 .. Len(p.bytes) :
       \/ /\ p.bytes[i] \notin Special /\ p.content[p.at[i]] = p.bytes[i]
          /\ p.at[i + 1] = p.at[i] + 1
       \/ /\ p.content[p.at[i]] = Esc
          /\ p.content[p.at[i] + 1] = Flip[p.bytes[i]]
          /\ p.at[i + 1] = p.at[i] + 2

ASSUME AccessAssumption ==
  /\ Size \in Nat /\ Space \in Nat /\ Size < Space /\ Space >= 4
  /\ Radix \in Nat /\ Radix > 1 /\ BE \in {0, 1}
  /\ Special \subseteq Byte /\ Esc \in Special
  /\ Flip \in [Byte -> Byte] /\ \A b \in Byte : Flip[Flip[b]] = b
  /\ MaxSize \in Nat /\ Numbers \subseteq 0 .. 159 /\ Given \subseteq Values
  /\ Start \subseteq [0 .. 15 -> Values]
  /\ Words \subseteq 0 .. Radix * Radix * Radix * Radix - 1
ASSUME DataAssumption == \A p \in Data : Encodes(p)

VARIABLES
  mem,      \* the bytes of the memory
  regs,     \* the registers
  handler,  \* "idle", "read" and "write" in their loops, or "dead"
  address,  \* the next byte to access
  left,     \* what remains of size
  next,     \* the place of content in an X packet
  buffer,   \* the bytes of the answer to m
  answer,   \* the last answer
  written,  \* history: what each register was given last
  request,  \* history: the last request
  before    \* history: the memory when it came

vars == <<mem, regs, handler, address, left, next, buffer, answer, written,
          request, before>>
machine == <<mem, regs, written>>
loop == <<address, left, next, buffer>>

Memory == INSTANCE MemoryArea WITH
  status <- "success", value <- 0

Requests ==
  [kind : {"none"}]
    \union [kind : {"m"}, address : Address, size : 0 .. MaxSize]
    \union [kind : {"X"}, address : Address, data : Data]
    \union [kind : {"p", "P"}, number : Numbers]

Init ==
  /\ mem \in [Index -> Byte] /\ regs \in Start /\ written = regs
  /\ handler = "idle" /\ address = 0 /\ left = 0 /\ next = 1 /\ buffer = <<>>
  /\ answer = <<"none">> /\ request = [kind |-> "none"] /\ before = mem
-----------------------------------------------------------------------------
Come(r) == handler = "idle" /\ request' = r /\ before' = mem

\* The variables of a handler live as long as it does.
Reply(a) ==
  /\ handler' = "idle" /\ answer' = a
  /\ address' = 0 /\ left' = 0 /\ next' = 1 /\ buffer' = <<>>

\* AddressSanitizer, or an assertion, ends the process.
Die == handler' = "dead" /\ UNCHANGED <<machine, answer, loop>>

\* The byte at the address passes the check of the memory.
Passes == Memory!Checked(address, 1)

\* A slip of ReadMemory: the loop takes one turn more.
ReadMemoryOneMore(a, n) ==
  /\ Come([kind |-> "m", address |-> a, size |-> n])
  /\ IF a < Size
       THEN /\ handler' = "read" /\ address' = a /\ left' = n + 1
            /\ buffer' = <<>> /\ UNCHANGED <<next, answer>>
       ELSE Reply(<<"E0E">>)
  /\ UNCHANGED machine

\* read_memory up to its loop.
ReadMemory(a, n) ==
  /\ Come([kind |-> "m", address |-> a, size |-> n])
  /\ IF a < Size
       THEN /\ handler' = "read" /\ address' = a /\ left' = n /\ buffer' = <<>>
            /\ UNCHANGED <<next, answer>>
       ELSE Reply(<<"E0E">>)
  /\ UNCHANGED machine

\* A slip of ReadTurn: the answer is filled from its other end.
ReadTurnReversed ==
  /\ handler = "read" /\ left > 0 /\ Passes /\ address \in Index
  /\ buffer' = <<mem[address]>> \o buffer
  /\ address' = (address + 1) % Space /\ left' = left - 1
  /\ UNCHANGED <<machine, handler, next, answer, request, before>>

ReadTurn ==
  /\ handler = "read" /\ left > 0 /\ Passes /\ address \in Index
  /\ buffer' = Append(buffer, mem[address])
  /\ address' = (address + 1) % Space /\ left' = left - 1
  /\ UNCHANGED <<machine, handler, next, answer, request, before>>

ReadEnd ==
  /\ handler = "read" /\ ~(left > 0 /\ Passes)
  /\ Reply(<<"bytes", buffer>>)
  /\ UNCHANGED <<machine, request, before>>

\* write_memory_binary up to its loop.
WriteMemory(a, p) ==
  /\ Come([kind |-> "X", address |-> a, data |-> p])
  /\ IF a < Size
       THEN /\ handler' = "write" /\ address' = a /\ left' = Len(p.bytes)
            /\ next' = 1 /\ UNCHANGED <<buffer, answer>>
       ELSE Reply(<<"E02">>)
  /\ UNCHANGED machine

Content == request.data.content

\* A slip of WriteTurn: the place moves on by one character only.
WriteTurnShort ==
  /\ handler = "write" /\ left > 0 /\ Passes /\ address \in Index
  /\ LET escaped == Content[next] = Esc
     IN /\ mem' = [mem EXCEPT ![address] =
                     IF escaped THEN Flip[Content[next + 1]] ELSE Content[next]]
        /\ next' = next + 1
  /\ address' = (address + 1) % Space /\ left' = left - 1
  /\ UNCHANGED <<regs, written, handler, buffer, answer, request, before>>

WriteTurn ==
  /\ handler = "write" /\ left > 0 /\ Passes /\ address \in Index
  /\ LET escaped == Content[next] = Esc
     IN /\ mem' = [mem EXCEPT ![address] =
                     IF escaped THEN Flip[Content[next + 1]] ELSE Content[next]]
        /\ next' = IF escaped THEN next + 2 ELSE next + 1
  /\ address' = (address + 1) % Space /\ left' = left - 1
  /\ UNCHANGED <<regs, written, handler, buffer, answer, request, before>>

\* The loop ends with all bytes written, or at the first the memory refuses.
WriteEnd ==
  /\ handler = "write" /\ ~(left > 0 /\ Passes)
  /\ Reply(IF left = 0 THEN <<"OK">> ELSE <<"E02">>)
  /\ UNCHANGED <<machine, request, before>>

\* The byte passes the check but is not in the memory.
Outside ==
  /\ handler \in {"read", "write"} /\ left > 0 /\ Passes /\ address \notin Index
  /\ Die /\ UNCHANGED <<request, before>>
-----------------------------------------------------------------------------
\* A register number in hexadecimal, as atoi takes it: decimal digits up to
\* the first letter.
Atoi(n) ==
  IF n < 10 THEN n ELSE IF n < 16 THEN 0
    ELSE LET high == n \div 16
             low == n % 16
         IN IF low < 10 THEN 10 * high + low ELSE high

\* read_single_register, for numbers of up to two decimal digits.
ReadRegister(n) ==
  /\ Come([kind |-> "p", number |-> n])
  /\ IF Atoi(n) \in Registers
       THEN Reply(<<"word", regs[Atoi(n)]>>) /\ UNCHANGED machine
       ELSE Die

\* A slip of WriteRegister: the number is taken for a decimal one here too.
WriteRegisterAtoi(n, v) ==
  /\ Come([kind |-> "P", number |-> n])
  /\ IF Atoi(n) \in Registers
       THEN /\ regs' = [regs EXCEPT ![Atoi(n)] = v]
            /\ written' = [written EXCEPT ![n] = v]
            /\ Reply(<<"OK">>) /\ UNCHANGED mem
       ELSE Die

WriteRegister(n, v) ==
  /\ Come([kind |-> "P", number |-> n])
  /\ IF n \in Registers
       THEN /\ regs' = [regs EXCEPT ![n] = v]
            /\ written' = [written EXCEPT ![n] = v]
            /\ Reply(<<"OK">>) /\ UNCHANGED mem
       ELSE Die

\* Between two packets the guest stores a word.
GuestStore(a, v) ==
  /\ handler = "idle" /\ Memory!Inside(a, 4)
  /\ mem' = Memory!WordStored(mem, a, v, BE)
  /\ request' = [kind |-> "none"] /\ before' = mem'
  /\ UNCHANGED <<regs, written, handler, loop, answer>>

Ended == handler = "dead" /\ UNCHANGED vars

Next ==
  \/ \E a \in Address :
       \/ \E n \in 0 .. MaxSize : ReadMemory(a, n)
       \/ \E p \in Data : WriteMemory(a, p)
       \/ \E v \in Words : GuestStore(a, v)
  \/ ReadTurn \/ ReadEnd \/ WriteTurn \/ WriteEnd \/ Outside
  \/ \E n \in Numbers :
       ReadRegister(n) \/ \E v \in Given : WriteRegister(n, v)
  \/ Ended

Spec == Init /\ [][Next]_vars
-----------------------------------------------------------------------------
(***************************************************************************)
(* Properties.                                                             *)
(***************************************************************************)

\* The answers and the places have their types; a loop never goes beyond the
\* byte after the memory, whatever the size.
TypeOK ==
  /\ mem \in [Index -> Byte] /\ before \in [Index -> Byte]
  /\ regs \in [Registers -> Values] /\ written \in [Registers -> Values]
  /\ handler \in {"idle", "read", "write", "dead"}
  /\ address \in Address /\ left \in Nat /\ next \in Nat
  /\ buffer \in Seq(Byte) /\ request \in Requests
  /\ handler \in {"read", "write"} => address <= Size

Fits(a, n) == a + n <= Size
Asked(kind) == request.kind = kind

\* The memory m with the first n of some bytes from the address a.
Overlaid(m, a, bytes, n) ==
  [i \in Index |-> IF i \in a .. a + n - 1 THEN bytes[i - a + 1] ELSE m[i]]

\* What gdb is told of an X packet is true: OK when every byte, escaped or
\* not, is in its place and no other has changed, E02 when nothing has.  On
\* the way, and where the process dies, the bytes are written in order
\* (gdb_protocol.c:361-387).
WritesTold ==
  Asked("X") =>
    LET a == request.address
        bytes == request.data.bytes
    IN IF handler = "idle"
         THEN \/ /\ answer = <<"OK">> /\ Fits(a, Len(bytes))
                 /\ mem = Overlaid(before, a, bytes, Len(bytes))
              \/ answer = <<"E02">> /\ a >= Size /\ mem = before
         ELSE mem = Overlaid(before, a, bytes, Len(bytes) - left)

\* The answer to m has as many bytes as were asked for, and they are those of
\* the memory; an error means that the first address is outside
\* (gdb_protocol.c:258-275).
ReadsTold ==
  Asked("m") =>
    /\ mem = before
    /\ handler = "idle" =>
         \/ /\ Fits(request.address, request.size)
            /\ answer = <<"bytes", [i \in 1 .. request.size |->
                                      mem[request.address + i - 1]]>>
         \/ answer = <<"E0E">> /\ request.address >= Size

\* The process dies only of an access that starts inside of the memory and
\* runs past its end, or of a register whose number it takes for one beyond
\* 15 (gdb_protocol.c:228, 265, 313, 370).
DiesOnlyOutside ==
  handler = "dead" =>
    \/ Asked("m") /\ ~Fits(request.address, request.size)
    \/ Asked("X") /\ ~Fits(request.address, Len(request.data.bytes))
    \/ (Asked("p") \/ Asked("P")) /\ request.number > 15

\* A register whose number has one digit in both bases reads as what was
\* written into it last, also after writes of registers whose numbers have
\* not (gdb_protocol.c:277-282 with atoi, 352-359 with %x).
RegistersKept ==
  Asked("p") /\ handler = "idle" /\ request.number < 10 =>
    answer = <<"word", written[request.number]>>

\* Four bytes in the text of an answer are the word that the guest loads
\* there, reversed if the guest is little endian (gdb_protocol.c:268,
\* memory.c:73-85).
TextIsWord ==
  Asked("m") /\ handler = "idle" /\ answer[1] = "bytes" /\ request.size = 4 =>
    LET b == answer[2]
        word == Memory!WordAt(mem, request.address, BE)
    IN ((b[1] * Radix + b[2]) * Radix + b[3]) * Radix + b[4]
         = IF BE = 1 THEN word ELSE Memory!Reverse4(word)
=============================================================================
