---------------------------- MODULE ScannerRules ----------------------------
(***************************************************************************)
(* The rules of the packet scanner (scanner.l): what the next token of a   *)
(* sequence of characters is.  A character is given by its class, the one  *)
(* that the rules tell it by.                                              *)
(***************************************************************************)
EXTENDS Naturals, Sequences

CONSTANT Digits  \* the characters of a checksum: 2 in the code

Class == {"nul", "other", "newline", "#", "$", "+", "-", "hex"}
Rule == {"ack", "retransmission", "packet", "invalid", "newline"}

\* The rule of a character that is a token by itself.
Alone(c) ==
  CASE c = "+" -> "ack"
    [] c = "-" -> "retransmission"
    [] c = "newline" -> "newline"
    [] OTHER -> "invalid"

\* The places where the body of a packet at the head of s may stop.
Stops(s) == {k \in 2 .. Len(s) : s[k] \in {"$", "#"}}
Stop(s) == CHOOSE k \in Stops(s) : \A j \in Stops(s) : k <= j
PacketLength(s) == Stop(s) + Digits

\* s starts with "$", or has a "#" after it, and so far agrees with a packet.
Begun(s) ==
  /\ s # <<>> /\ s[1] = "$"
  /\ Stops(s) # {} =>
       /\ s[Stop(s)] = "#"
       /\ \A k \in Stop(s) + 1 .. PacketLength(s) : k <= Len(s) => s[k] = "hex"

PacketAhead(s) == Begun(s) /\ Stops(s) # {} /\ PacketLength(s) <= Len(s)

\* More characters may still make a packet of s.
Open(s) == Begun(s) /\ ~PacketAhead(s)

\* The first token of a sequence to which nothing is added: its rule and its
\* length.
TokenOf(s) ==
  IF PacketAhead(s) THEN [rule |-> "packet", length |-> PacketLength(s)]
                    ELSE [rule |-> Alone(s[1]), length |-> 1]

Drop(s, n) == SubSeq(s, n + 1, Len(s))
=============================================================================
