------------------------------ MODULE Scanner ------------------------------
(***************************************************************************)
(* The scanner that flex makes from scanner.l (scanner.c): the automaton   *)
(* with its tables, and the buffer that is filled by reads of any length.  *)
(* One step is one character matched, one action chosen, one return from   *)
(* the end of the buffer.                                                  *)
(*                                                                         *)
(* Offsets count from 0 as in C.  The buffer is followed by two characters *)
(* YY_END_OF_BUFFER_CHAR, which are NUL as the client may send it too.     *)
(* That yytext ends in a NUL that is taken back (yy_hold_char) is left     *)
(* out.                                                                    *)
(***************************************************************************)
EXTENDS Integers, Sequences

CONSTANTS
  Inputs,           \* what the client may send before it closes
  YY_BUF_SIZE,      \* the first size of the buffer
  YY_READ_BUF_SIZE  \* the most one read asks for

Rules == INSTANCE ScannerRules WITH Digits <- 2

ASSUME ScannerAssumption ==
  /\ YY_BUF_SIZE \in Nat /\ YY_BUF_SIZE > 1
  /\ YY_READ_BUF_SIZE \in Nat /\ YY_READ_BUF_SIZE > 0
  /\ Inputs \subseteq Seq(Rules!Class)

VARIABLES
  input,      \* what has not been read yet
  yy_ch_buf,  \* the characters of the buffer
  buf_size,   \* its size
  status,     \* yy_buffer_status: "new", "normal" or "eof_pending"
  text,       \* yytext_ptr: where the token starts
  cp,         \* yy_cp: the next character to match
  current,    \* yy_current_state
  last,       \* the last accepting state and its yy_cp
  pc,         \* "match", "action", "end_of_buffer", "done" or "dead"
  rule        \* history: the rule of the last token

buffer == <<input, yy_ch_buf, buf_size, status>>
vars == <<buffer, text, cp, current, last, pc, rule>>

yy_n_chars == Len(yy_ch_buf)
-----------------------------------------------------------------------------
(***************************************************************************)
(* The tables, from 0 as in C (the first element is that of the index 0).  *)
(***************************************************************************)
At(table, k) == table[k + 1]

yy_accept == <<0, 0, 0, 6, 4, 5, 4, 1, 2, 0, 0, 0, 3, 0>>
yy_meta == <<0, 1, 1, 1, 2, 1, 1, 1>>
yy_base == <<0, 0, 0, 13, 14, 14, 9, 14, 14, 8, 3, 2, 14, 14, 7>>
yy_def == <<0, 13, 1, 13, 13, 13, 14, 13, 13, 14, 13, 13, 13, 0, 13>>
yy_nxt == <<0, 4, 5, 4, 6, 7, 8, 4, 9, 12, 11, 10, 10, 13, 3, 13, 13, 13,
            13, 13, 13, 13>>
yy_chk == <<0, 1, 1, 1, 1, 1, 1, 1, 14, 11, 10, 9, 6, 3, 13, 13, 13, 13,
            13, 13, 13, 13>>

\* The column of a class of characters.
yy_ec(c) ==
  CASE c = "nul" -> 0 [] c = "other" -> 1 [] c = "newline" -> 2
    [] c = "#" -> 3 [] c = "$" -> 4 [] c = "+" -> 5 [] c = "-" -> 6
    [] c = "hex" -> 7

Jam == 13
Accepts(s) == At(yy_accept, s) # 0

\* The state after s on each column, found through the default states.
Move[s \in 1 .. 14] ==
  [c \in 0 .. 7 |->
     IF At(yy_chk, At(yy_base, s) + c) = s
       THEN At(yy_nxt, At(yy_base, s) + c)
       ELSE LET d == At(yy_def, s)
            IN Move[d][IF d >= 14 THEN At(yy_meta, c) ELSE c]]

\* No move leads on from s: the token is decided without a look ahead.
Final(s) == At(yy_base, s) = 14

RuleOf(action) ==
  CASE action = 1 -> "ack" [] action = 2 -> "retransmission"
    [] action = 3 -> "packet" [] action = 4 -> "invalid"
    [] action = 5 -> "newline"
YY_END_OF_BUFFER == 6

CharAt(buf, k) == IF k < Len(buf) THEN buf[k + 1] ELSE "nul"
-----------------------------------------------------------------------------
Init ==
  /\ input \in Inputs /\ yy_ch_buf = <<>> /\ buf_size = YY_BUF_SIZE
  /\ status = "new" /\ text = 0 /\ cp = 0 /\ current = 1 /\ last = <<1, 0>>
  /\ pc = "match" /\ rule = "none"

Accepting(s, k) == IF Accepts(s) THEN <<s, k>> ELSE last

\* A slip of Match: the token is decided only when a character does not fit
\* any more, as in a scanner that is not interactive.
MatchToTheJam ==
  /\ pc = "match"
  /\ last' = Accepting(current, cp)
  /\ current' = Move[current][yy_ec(CharAt(yy_ch_buf, cp))]
  /\ cp' = cp + 1
  /\ pc' = IF current' = Jam THEN "action" ELSE "match"
  /\ UNCHANGED <<buffer, text, rule>>

\* One turn of the loop at yy_match.
Match ==
  /\ pc = "match"
  /\ last' = Accepting(current, cp)
  /\ current' = Move[current][yy_ec(CharAt(yy_ch_buf, cp))]
  /\ cp' = cp + 1
  /\ pc' = IF Final(current') THEN "action" ELSE "match"
  /\ UNCHANGED <<buffer, text, rule>>

\* The state and the end of the token at yy_find_action, after backing up.
Found == IF Accepts(current) THEN <<current, cp>> ELSE last
Action == At(yy_accept, Found[1])

\* A slip of Deliver: what was matched beyond the token is not given back.
DeliverAll ==
  /\ pc = "action" /\ Action # YY_END_OF_BUFFER
  /\ rule' = RuleOf(Action)
  /\ text' = cp /\ cp' = cp /\ current' = 1 /\ pc' = "match"
  /\ UNCHANGED <<buffer, last>>

\* A rule is found: its action, and the head of the loop for the next token.
Deliver ==
  /\ pc = "action" /\ Action # YY_END_OF_BUFFER
  /\ rule' = RuleOf(Action)
  /\ text' = Found[2] /\ cp' = Found[2] /\ current' = 1 /\ pc' = "match"
  /\ UNCHANGED <<buffer, last>>

AtNul ==
  /\ pc = "action" /\ Action = YY_END_OF_BUFFER
  /\ cp' = Found[2] /\ current' = Found[1] /\ pc' = "end_of_buffer"
  /\ status' = IF status = "new" THEN "normal" ELSE status
  /\ UNCHANGED <<input, yy_ch_buf, buf_size, text, last, rule>>

\* A slip of Column: a NUL is taken for the end of the buffer again.
ColumnNul(c) == yy_ec(c)

\* The column of a character that is known not to end the buffer.
Column(c) == IF c = "nul" THEN 1 ELSE yy_ec(c)

\* yy_get_previous_state: the state before each character of the token so
\* far, and the last accepting one up to an offset.
States(buf, from, to) ==
  LET state[k \in from .. to] ==
        IF k = from THEN 1 ELSE Move[state[k - 1]][Column(CharAt(buf, k - 1))]
  IN state

LastSeen(state, from, to) ==
  LET seen == {k \in from .. to : Accepts(state[k])}
  IN IF seen = {} THEN last
       ELSE LET k == CHOOSE k \in seen : \A j \in seen : j <= k
            IN <<state[k], k>>

\* The NUL is one of the client's: yy_try_NUL_trans moves on it.
RealNul ==
  /\ pc = "end_of_buffer" /\ cp <= yy_n_chars
  /\ LET nul == cp - 1
         state == States(yy_ch_buf, text, nul)
         next == Move[state[nul]][1]
     IN /\ last' = LastSeen(state, text, nul)
        /\ IF next = Jam
             THEN current' = state[nul] /\ cp' = nul /\ pc' = "action"
             ELSE current' = next /\ cp' = cp /\ pc' = "match"
  /\ UNCHANGED <<buffer, text, rule>>

\* The end of the buffer, in the middle of a token of this length.
Matched == cp - text - 1
AtEnd == pc = "end_of_buffer" /\ cp > yy_n_chars
Kept == SubSeq(yy_ch_buf, text + 1, text + Matched)

\* A slip of Room: the buffer never grows, and one character more is read.
RoomFixed == [size |-> buf_size, free |-> buf_size - Matched]

\* The size of the buffer, doubled when there is no room to read, and what
\* is free.
Room ==
  LET size == IF buf_size - Matched - 1 <= 0 THEN 2 * buf_size ELSE buf_size
  IN [size |-> size, free |-> size - Matched - 1]

\* The token so far is moved to the start of the buffer and scanned again up
\* to its end.
MoveToStart(more, next) ==
  LET buf == Kept \o more
      state == States(buf, 0, Matched)
  IN /\ yy_ch_buf' = buf /\ text' = 0 /\ cp' = Matched
     /\ current' = state[Matched] /\ last' = LastSeen(state, 0, Matched - 1)
     /\ pc' = next

\* yy_get_next_buffer reads some characters.
Refill ==
  /\ AtEnd /\ status # "eof_pending"
  /\ \E n \in 1 .. Len(input) :
       /\ n <= Room.free /\ n <= YY_READ_BUF_SIZE
       /\ input' = SubSeq(input, n + 1, Len(input))
       /\ MoveToStart(SubSeq(input, 1, n), "match")
  /\ buf_size' = Room.size /\ UNCHANGED <<status, rule>>

\* A read that fails ends the process: the client has reset the connection.
ReadFails ==
  /\ AtEnd /\ status # "eof_pending"
  /\ pc' = "dead"
  /\ UNCHANGED <<buffer, text, cp, current, last, rule>>

\* The client has closed in the middle of a token: it is ended here.
LastMatch ==
  /\ AtEnd /\ Matched > 0 /\ (status # "eof_pending" => input = <<>>)
  /\ status' = "eof_pending"
  /\ buf_size' = IF status = "eof_pending" THEN buf_size ELSE Room.size
  /\ MoveToStart(<<>>, "action")
  /\ UNCHANGED <<input, rule>>

\* The client has closed and every character has been taken: yyrestart
\* empties the buffer, and the rule of <<EOF>> returns.
EndOfFile ==
  /\ AtEnd /\ Matched = 0 /\ (status # "eof_pending" => input = <<>>)
  /\ yy_ch_buf' = <<>> /\ text' = 0 /\ cp' = 0 /\ status' = "new"
  /\ pc' = "done"
  /\ UNCHANGED <<input, buf_size, current, last, rule>>

Ended == pc \in {"done", "dead"} /\ UNCHANGED vars

Next ==
  \/ Match \/ Deliver \/ AtNul \/ RealNul
  \/ Refill \/ ReadFails \/ LastMatch \/ EndOfFile \/ Ended

Spec == Init /\ [][Next]_vars

\* The scheduler runs the thread, and the client goes on sending or closes.
FairSpec == Spec /\ WF_vars(Next)
-----------------------------------------------------------------------------
(***************************************************************************)
(* Properties.                                                             *)
(***************************************************************************)

\* The token so far lies in the buffer; nothing is read past the second
\* character that ends it, and the buffer with both lies within what was
\* allocated, however tokens, reads and growths fall together; the automaton
\* stays within its tables (scanner.c:741-758, 1003-1054, 1087-1088).
InBuffer ==
  /\ current \in 1 .. 13 /\ last \in (1 .. 13) \X Nat
  /\ text \in 0 .. yy_n_chars /\ cp \in text .. yy_n_chars + 2
  /\ pc \in {"match", "end_of_buffer"} => cp <= yy_n_chars + 1
  /\ yy_n_chars <= buf_size
  /\ AtEnd /\ status # "eof_pending" => Room.free > 0

\* The scanner waits for the client only when it must: with no character in
\* hand, or in the middle of what may be a packet.  A client that waits for
\* the acknowledgement of a whole packet never waits for ever
\* (scanner.l:56, option interactive; scanner.c:758).  One case is left: a
\* NUL of the client, invalid by itself, is matched like a NUL but looked
\* beyond (scanner.c:874-880), and waits for the next character.
WaitsWhenOpen ==
  AtEnd /\ status # "eof_pending" =>
    Kept \in {<<>>, <<"nul">>} \/ Rules!Open(Kept)

\* The tokens are those of the rules, whatever the reads and wherever the end
\* of the buffer, a NUL or the end of the input falls (scanner.c:689-1153).
Remaining == SubSeq(yy_ch_buf, text + 1, yy_n_chars) \o input
Stream == INSTANCE TokenStream WITH Digits <- 2, rest <- Remaining
CutsByRules == Stream!Spec

\* The scan ends, with every character in a token, unless a read fails
\* (scanner.c:889-941).
ScanEnds == <>(pc = "dead" \/ (pc = "done" /\ Remaining = <<>>))
=============================================================================
