----------------------------- MODULE GdbSession -----------------------------
(***************************************************************************)
(* The packets of a gdb session: the scanner (scanner.l, and the matching  *)
(* that flex generates for it), the checksum, the acknowledgements and the *)
(* requests for retransmission, between the gdb thread and a client, over  *)
(* a link that may damage or lose what is sent.                            *)
(*                                                                         *)
(* A character is a pair: its class and, for the body and the checksum of  *)
(* a packet, the request it belongs to.  The body of a packet is one       *)
(* character, its two hexadecimal digits another.  A checksum matches only *)
(* the body it was made for.  The handlers are reduced to their answers:   *)
(* Simulator has what they do.                                             *)
(***************************************************************************)
EXTENDS Integers, Sequences, FiniteSets

CONSTANTS
  MaxRequests,     \* bound: requests the client makes
  Letter,          \* the kind of each request
  MAX_ERROR_SIZE,  \* the buffer of invalid characters
  Junk,            \* what a damaged character may turn into
  MaxFaults,       \* bound: damaged or lost characters, hasty time-outs
  MaxTries         \* time-outs in a row after which the client gives up

Request == 1 .. MaxRequests

\* A step; the queries Supported and any other; H for a thread that is one
\* of all and for another; a letter without a handler.
Letters == {"s", "qSupported", "q", "H", "Hother", "unsupported"}

Char(c) == <<c, 0>>
Plain == {Char(c) : c \in {"$", "#", "+", "-", "hex", "other", "newline"}}
Character == Plain \union ({"body", "hex"} \X Request)

ASSUME SessionAssumption ==
  /\ MaxRequests \in Nat /\ MaxFaults \in Nat /\ MaxTries \in Nat \ {0}
  /\ Letter \in [Request -> Letters]
  /\ MAX_ERROR_SIZE \in Nat /\ MAX_ERROR_SIZE >= 2
  /\ Junk \subseteq Plain

VARIABLES
  gdb,       \* the gdb thread: "scan", "handle", "done" or "dead"
  errors,    \* data->len, the invalid characters kept
  serving,   \* the request being handled
  packet,    \* gdb->packet: the last answer, none at first (gdb->len = 0)
  executed,  \* history: the requests executed
  toServer,  \* characters the scanner has not consumed
  toClient,  \* messages the client has not read
  asked,     \* requests the client has made
  phase,     \* the client: "idle", or waiting for an "ack", an "answer"
  tries,     \* its time-outs in a row
  taken,     \* the answers it has taken, one for each request
  faults     \* history: faults so far

vars == <<gdb, errors, serving, packet, executed, toServer, toClient, asked,
          phase, tries, taken, faults>>
server == <<gdb, errors, serving, packet, executed>>
client == <<asked, phase, tries, taken>>

Ack == <<"+">>
Nak == <<"-">>
Noise == <<"noise">>
Answer(i, text) == <<"answer", i, text>>
Text == {"S05", "PacketSize=400", "OK", "E01", ""}
Message == {Ack, Nak, Noise} \union {Answer(i, t) : i \in Request, t \in Text}

Init ==
  /\ gdb = "scan" /\ errors = 0 /\ serving = 0 /\ packet = <<>>
  /\ executed = <<>> /\ toServer = <<>> /\ toClient = <<>>
  /\ asked = 0 /\ phase = "idle" /\ tries = 0 /\ taken = <<>> /\ faults = 0

Rules == INSTANCE ScannerRules WITH Digits <- 1
-----------------------------------------------------------------------------
(***************************************************************************)
(* The link.                                                               *)
(***************************************************************************)
Fault == faults < MaxFaults /\ faults' = faults + 1

Without(s, k) == SubSeq(s, 1, k - 1) \o SubSeq(s, k + 1, Len(s))

\* The client sends characters, of which one may be lost or damaged.
ToServer(s) ==
  \/ toServer' = toServer \o s /\ UNCHANGED faults
  \/ \E k \in 1 .. Len(s) :
       /\ Fault
       /\ \/ toServer' = toServer \o Without(s, k)
          \/ \E c \in Junk : toServer' = toServer \o [s EXCEPT ![k] = c]

Closed == phase \in {"closed", "given_up"}

\* The thread writes messages and goes on.  An answer may arrive damaged,
\* any message may be lost.  The write to a client that has closed may fail
\* and end the process.
ToClient(s, next) ==
  \/ /\ gdb' = next /\ UNCHANGED faults
     /\ toClient' = IF Closed THEN toClient ELSE toClient \o s
  \/ \E k \in 1 .. Len(s) :
       /\ ~Closed /\ Fault /\ gdb' = next
       /\ \/ toClient' = toClient \o Without(s, k)
          \/ /\ s[k] \notin {Ack, Nak}
             /\ toClient' = toClient \o [s EXCEPT ![k] = Noise]
  \/ /\ Closed /\ s # <<>>
     /\ gdb' = "dead" /\ UNCHANGED <<toClient, faults>>
-----------------------------------------------------------------------------
(***************************************************************************)
(* The scanner.                                                            *)
(***************************************************************************)
Classes == [k \in DOMAIN toServer |-> toServer[k][1]]

\* The rule of the next token, once the scanner can tell: it reads on in what
\* may become a packet.
Token ==
  IF toServer = <<>> \/ (Rules!Open(Classes) /\ ~Closed) THEN "none"
    ELSE Rules!TokenOf(Classes).rule

\* The thread scans a token of this rule.
Scan(rule) ==
  /\ gdb = "scan" /\ Token = rule
  /\ toServer' = Rules!Drop(toServer, Rules!TokenOf(Classes).length)

\* handle_error, before the action of a token: invalid characters ask for a
\* retransmission.
Flush == IF errors > 0 THEN <<Nak>> ELSE <<>>

ScanAck ==
  /\ Scan("ack")
  /\ ToClient(Flush, "scan") /\ errors' = 0
  /\ UNCHANGED <<serving, packet, executed, client>>

\* A slip of ScanRetransmission: the packet is acknowledged, not sent again.
ScanRetransmissionAcks ==
  /\ Scan("retransmission")
  /\ ToClient(Flush \o <<Ack>>, "scan") /\ errors' = 0
  /\ UNCHANGED <<serving, packet, executed, client>>

\* gdb_transmit_packet sends what the buffer holds, nothing before the first
\* answer.
ScanRetransmission ==
  /\ Scan("retransmission")
  /\ ToClient(Flush \o packet, "scan") /\ errors' = 0
  /\ UNCHANGED <<serving, packet, executed, client>>

\* A slip of ChecksumOk: the two sums should differ.
ChecksumOkInverted ==
  /\ Rules!Stop(Classes) = 3 /\ toServer[2][1] = "body"
  /\ toServer[4] # <<"hex", toServer[2][2]>>

\* The sum of the body is the one the packet gives.
ChecksumOk ==
  /\ Rules!Stop(Classes) = 3 /\ toServer[2][1] = "body"
  /\ toServer[4] = <<"hex", toServer[2][2]>>

\* A slip of RefusePacket: the packet is acknowledged all the same.
RefusePacketAcks ==
  /\ Scan("packet") /\ ~ChecksumOk
  /\ ToClient(Flush \o <<Ack>>, "scan") /\ errors' = 0
  /\ UNCHANGED <<serving, packet, executed, client>>

\* gdb_packet_analysis of a packet with a wrong checksum.
RefusePacket ==
  /\ Scan("packet") /\ ~ChecksumOk
  /\ ToClient(Flush \o <<Nak>>, "scan") /\ errors' = 0
  /\ UNCHANGED <<serving, packet, executed, client>>

\* A slip of AcceptPacket: there is no acknowledgement.
AcceptPacketSilently ==
  /\ Scan("packet") /\ ChecksumOk
  /\ ToClient(Flush, "handle") /\ errors' = 0
  /\ serving' = toServer[2][2]
  /\ UNCHANGED <<packet, executed, client>>

\* gdb_packet_analysis of a correct packet, up to the call of its handler.
AcceptPacket ==
  /\ Scan("packet") /\ ChecksumOk
  /\ ToClient(Flush \o <<Ack>>, "handle") /\ errors' = 0
  /\ serving' = toServer[2][2]
  /\ UNCHANGED <<packet, executed, client>>

\* A slip of ScanInvalid: the buffer is filled to its last byte.
ScanInvalidToTheEnd ==
  /\ Scan("invalid")
  /\ IF errors > MAX_ERROR_SIZE - 1
       THEN ToClient(<<Nak>>, "scan") /\ errors' = 1
       ELSE ToClient(<<>>, "scan") /\ errors' = errors + 1
  /\ UNCHANGED <<serving, packet, executed, client>>

\* add_character_to_error.
ScanInvalid ==
  /\ Scan("invalid")
  /\ IF errors > MAX_ERROR_SIZE - 2
       THEN ToClient(<<Nak>>, "scan") /\ errors' = 1
       ELSE ToClient(<<>>, "scan") /\ errors' = errors + 1
  /\ UNCHANGED <<serving, packet, executed, client>>

\* No rule matches a newline: the scanner copies it to its output.
ScanNewline ==
  /\ Scan("newline")
  /\ UNCHANGED <<server, toClient, client, faults>>

\* The client has closed and all it has sent is consumed.
ScanEnd ==
  /\ gdb = "scan" /\ toServer = <<>> /\ Closed
  /\ ToClient(Flush, "done") /\ errors' = 0
  /\ UNCHANGED <<serving, packet, executed, toServer, client>>

\* What the handlers answer, of which those of queries and of H do nothing
\* else.
Reply(letter) ==
  CASE letter = "s" -> "S05"
    [] letter = "qSupported" -> "PacketSize=400"
    [] letter = "H" -> "OK"
    [] letter = "Hother" -> "E01"
    [] letter \in {"q", "unsupported"} -> ""

\* The handler runs, and gdb_send_buffer puts its answer into the buffer
\* and sends it.
Handle ==
  /\ gdb = "handle"
  /\ executed' = Append(executed, serving)
  /\ LET answer == <<Answer(serving, Reply(Letter[serving]))>>
     IN packet' = answer /\ ToClient(answer, "scan")
  /\ UNCHANGED <<errors, serving, toServer, client>>

GdbThread ==
  \/ ScanAck \/ ScanRetransmission \/ RefusePacket \/ AcceptPacket
  \/ ScanInvalid \/ ScanNewline \/ ScanEnd \/ Handle
-----------------------------------------------------------------------------
(***************************************************************************)
(* The client, as gdb does: one request at a time, each sent again when it *)
(* is refused or not acknowledged, each answer asked for again when it is  *)
(* damaged or does not come.                                               *)
(***************************************************************************)
Packet(i) == <<Char("$"), <<"body", i>>, Char("#"), <<"hex", i>>>>

Ask ==
  /\ phase = "idle" /\ asked < MaxRequests
  /\ asked' = asked + 1 /\ phase' = "ack" /\ tries' = 0
  /\ ToServer(Packet(asked + 1))
  /\ UNCHANGED <<server, toClient, taken>>

\* The client reads a message in this phase, and goes on to another.
Read(from, to) ==
  /\ phase = from /\ phase' = to
  /\ toClient # <<>> /\ toClient' = Tail(toClient)
  /\ UNCHANGED <<server, asked>>

Acknowledged ==
  /\ Read("ack", "answer") /\ Head(toClient) = Ack
  /\ tries' = 0 /\ UNCHANGED <<toServer, faults, taken>>

Refused ==
  /\ Read("ack", "ack") /\ Head(toClient) = Nak
  /\ ToServer(Packet(asked)) /\ UNCHANGED <<tries, taken>>

\* A message that is not expected in this phase.
Ignore ==
  /\ \/ Read("ack", "ack") /\ Head(toClient) \notin {Ack, Nak}
     \/ Read("answer", "answer") /\ Head(toClient) \in {Ack, Nak}
  /\ UNCHANGED <<toServer, faults, tries, taken>>

Damaged ==
  /\ Read("answer", "answer") /\ Head(toClient) = Noise
  /\ ToServer(<<Char("-")>>) /\ UNCHANGED <<tries, taken>>

Take ==
  /\ Read("answer", "idle") /\ Head(toClient) \notin {Ack, Nak, Noise}
  /\ taken' = Append(taken, Head(toClient)[2])
  /\ ToServer(<<Char("+")>>) /\ UNCHANGED tries

\* Nothing is under way, and nothing will come.
Quiet == gdb = "scan" /\ Token = "none" /\ toClient = <<>>

Retry ==
  /\ tries < MaxTries /\ tries' = tries + 1
  /\ \/ phase = "ack" /\ ToServer(Packet(asked))
     \/ phase = "answer" /\ ToServer(<<Char("-")>>)
  /\ UNCHANGED <<server, toClient, asked, phase, taken>>

TimeOut == Quiet /\ Retry

\* A time-out while the answer is late: counts as a fault.
HastyTimeOut ==
  /\ ~Quiet /\ tries < MaxTries /\ tries' = tries + 1 /\ Fault
  /\ \/ phase = "ack" /\ toServer' = toServer \o Packet(asked)
     \/ phase = "answer" /\ toServer' = Append(toServer, Char("-"))
  /\ UNCHANGED <<server, toClient, asked, phase, taken>>

GiveUp ==
  /\ Quiet /\ phase \in {"ack", "answer"} /\ tries = MaxTries
  /\ phase' = "given_up"
  /\ UNCHANGED <<server, toServer, toClient, asked, tries, taken, faults>>

Leave ==
  /\ phase = "idle" /\ phase' = "closed"
  /\ UNCHANGED <<server, toServer, toClient, asked, tries, taken, faults>>

Wait ==
  \/ Acknowledged \/ Refused \/ Ignore \/ Damaged \/ Take \/ TimeOut
  \/ GiveUp

ClientStep == Ask \/ Wait \/ HastyTimeOut \/ Leave

Ended == gdb \in {"done", "dead"} /\ UNCHANGED vars

Next == GdbThread \/ (gdb # "dead" /\ ClientStep) \/ Ended

Spec == Init /\ [][Next]_vars

\* The scheduler runs the thread; the client does not wait for ever.
FairSpec ==
  Spec /\ WF_vars(GdbThread) /\ WF_vars(gdb # "dead" /\ Wait)
-----------------------------------------------------------------------------
(***************************************************************************)
(* Properties.                                                             *)
(***************************************************************************)
Last == IF executed = <<>> THEN 0 ELSE executed[Len(executed)]

\* There is room for the NUL that ends the invalid characters; the packet
\* buffer always holds the answer to the last request executed, so that a
\* retransmission can give no other (scanner.l:42, 51; gdb_protocol.c:126-133).
TypeOK ==
  /\ gdb \in {"scan", "handle", "done", "dead"}
  /\ errors \in 0 .. MAX_ERROR_SIZE - 1
  /\ serving \in Request \union {0}
  /\ packet = <<>> \/ packet[1] = Answer(Last, Reply(Letter[Last]))
  /\ executed \in Seq(Request)
  /\ toServer \in Seq(Character) /\ toClient \in Seq(Message)
  /\ asked \in 0 .. MaxRequests
  /\ phase \in {"idle", "ack", "answer", "closed", "given_up"}
  /\ tries \in 0 .. MaxTries /\ taken \in Seq(Request)
  /\ faults \in 0 .. MaxFaults

\* Requests are executed in the order they are made and none is passed over
\* as long as there is at most one fault; after a second one a late answer or
\* acknowledgement may be taken for that of another request
\* (gdb_protocol.c:463-476, scanner.l:62-70).
Service == INSTANCE RequestService WITH done <- Last
InOrder == Service!Spec

\* Without faults each request is executed exactly once.  One is executed
\* again only when a fault has made the client send it again, and one fault
\* makes it do so at most twice: the "-" for invalid characters goes out
\* ahead of the "+" for the packet behind them (scanner.l:40-48, 67-70).  If
\* MAX_ERROR_SIZE were 2, every invalid character would ask for a repetition.
Repeats == Len(executed) - Cardinality({executed[k] : k \in DOMAIN executed})
RepeatsBounded == Repeats <= 2 * faults

\* No single fault makes the client give up: whatever is lost or damaged, the
\* requests for retransmission of both sides mend it (scanner.l:62-66,
\* gdb_protocol.c:114-116, 463-467).
OneFaultMended == phase = "given_up" => faults > 1

\* A request does not go back and forth for ever: the client gets its answer,
\* or gives up, or the process ends (scanner.l:40-70).
Settles ==
  phase \in {"ack", "answer"}
    ~> phase \notin {"ack", "answer"} \/ gdb = "dead"
=============================================================================
