---------------------------- MODULE ScannerProofs ----------------------------
(***************************************************************************)
(* Proofs about the generated scanner, for every input, every size of the  *)
(* buffer and every way the reads cut the input: nothing is read or        *)
(* written outside the buffer, the scanner waits only in the middle of     *)
(* what may be a packet, and the tokens are those of the rules.            *)
(***************************************************************************)
EXTENDS Scanner, SequenceTheorems, FiniteSetTheorems, TLAPS
-----------------------------------------------------------------------------
(***************************************************************************)
(* The automaton that the tables of flex stand for, as a matrix.           *)
(***************************************************************************)

\* The moves of the 14 states on the columns 0 to 7: the states 1 and 2 before
\* a token, 6 after "$", 9 in the body of a packet, 10 after "#", 11 after one
\* digit, 3 at a NUL, 13 jammed, 14 a template; the others end a token.
Moves ==
  LET start == <<3, 4, 5, 4, 6, 7, 8, 4>>
      body == <<3, 9, 9, 10, 13, 9, 9, 9>>
      whole == <<3, 13, 13, 13, 13, 13, 13, 13>>
  IN <<start, start, <<13, 13, 13, 13, 13, 13, 13, 13>>, whole, whole, body,
       whole, whole, body, <<3, 13, 13, 13, 13, 13, 13, 11>>,
       <<3, 13, 13, 13, 13, 13, 13, 12>>, whole, whole,
       <<3, 9, 13, 13, 13, 13, 13, 13>> >>

\* A row of the function that the tables define from the rows of f.
Row(f, s) ==
  [c \in 0 .. 7 |->
     IF At(yy_chk, At(yy_base, s) + c) = s
       THEN At(yy_nxt, At(yy_base, s) + c)
       ELSE LET d == At(yy_def, s)
            IN f[d][IF d >= 14 THEN At(yy_meta, c) ELSE c]]

\* The default states and their template.
LEMMA Row13 ==
  ASSUME NEW f, NEW c \in 0 .. 7
  PROVE  Row(f, 13)[c] = Moves[13][c + 1]
<1>1. At(yy_base, 13) = 14 /\ At(yy_def, 13) = 0
  BY SMT DEF At, yy_base, yy_def
<1> QED BY <1>1, SMT DEF Row, Moves, At, yy_chk, yy_nxt

LEMMA Row14 ==
  ASSUME NEW f, NEW c \in 0 .. 7,
         \A x \in 0 .. 7 : f[13][x] = Moves[13][x + 1]
  PROVE  Row(f, 14)[c] = Moves[14][c + 1]
<1>1. At(yy_base, 14) = 7 /\ At(yy_def, 14) = 13
  BY SMT DEF At, yy_base, yy_def
<1> QED BY <1>1, SMT DEF Row, Moves, At, yy_chk, yy_nxt

LEMMA Row1 ==
  ASSUME NEW f, NEW c \in 0 .. 7,
         \A x \in 0 .. 7 : f[13][x] = Moves[13][x + 1]
  PROVE  Row(f, 1)[c] = Moves[1][c + 1]
<1>1. At(yy_base, 1) = 0 /\ At(yy_def, 1) = 13
  BY SMT DEF At, yy_base, yy_def
<1> QED BY <1>1, SMT DEF Row, Moves, At, yy_chk, yy_nxt

LEMMA Rows ==
  ASSUME NEW f, NEW s \in 1 .. 14, NEW c \in 0 .. 7,
         \A x \in 0 .. 7 : /\ f[1][x] = Moves[1][x + 1]
                           /\ f[13][x] = Moves[13][x + 1]
                           /\ f[14][x] = Moves[14][x + 1]
  PROVE  Row(f, s)[c] = Moves[s][c + 1]
<1>1. ASSUME s \in {1, 13, 14} PROVE Row(f, s)[c] = Moves[s][c + 1]
  <2>1. CASE s = 1
    BY <2>1, Row1
  <2>2. CASE s = 13
    BY <2>2, Row13
  <2>3. CASE s = 14
    BY <2>3, Row14
  <2> QED BY <1>1, <2>1, <2>2, <2>3
<1> USE DEF Row, Moves, At, yy_chk, yy_nxt, yy_base, yy_def, yy_meta
<1>2. CASE s = 2
  BY <1>2, SMT
<1>3. CASE s = 3
  BY <1>3, SMT
<1>4. CASE s = 4
  BY <1>4, SMT
<1>5. CASE s = 5
  BY <1>5, SMT
<1>6. CASE s = 6
  BY <1>6, SMT
<1>7. CASE s = 7
  BY <1>7, SMT
<1>8. CASE s = 8
  BY <1>8, SMT
<1>9. CASE s = 9
  BY <1>9, SMT
<1>10. CASE s = 10
  BY <1>10, SMT
<1>11. CASE s = 11
  BY <1>11, SMT
<1>12. CASE s = 12
  BY <1>12, SMT
<1> QED
  <2>1. \/ s = 2 \/ s = 3 \/ s = 4 \/ s = 5 \/ s = 6 \/ s = 7 \/ s = 8 \/ s = 9
        \/ s = 10 \/ s = 11 \/ s = 12 \/ s \in {1, 13, 14}
    BY SMT
  <2> QED BY <1>1, <1>2, <1>3, <1>4, <1>5, <1>6, <1>7, <1>8, <1>9, <1>10, <1>11,
             <1>12, <2>1

\* The tables that flex has packed (yy_meta, yy_base, yy_def, yy_nxt, yy_chk),
\* searched as the loops do, are this matrix (scanner.c:351-418, 741-758).
THEOREM TablesCorrect ==
  ASSUME NEW s \in 1 .. 14, NEW c \in 0 .. 7
  PROVE  Move[s][c] = Moves[s][c + 1]
<1> DEFINE f == [t \in 1 .. 14 |-> [x \in 0 .. 7 |-> Moves[t][x + 1]]]
<1>1. f = [t \in 1 .. 14 |-> Row(f, t)]
  <2>1. \A t \in 1 .. 14, x \in 0 .. 7 : f[t][x] = Moves[t][x + 1]
    OBVIOUS
  <2>2. 1 \in 1 .. 14 /\ 13 \in 1 .. 14 /\ 14 \in 1 .. 14
    BY SMT
  <2> HIDE DEF f
  <2>3. \A t \in 1 .. 14, x \in 0 .. 7 : Row(f, t)[x] = Moves[t][x + 1]
    <3>1. \A x \in 0 .. 7 : /\ f[1][x] = Moves[1][x + 1]
                            /\ f[13][x] = Moves[13][x + 1]
                            /\ f[14][x] = Moves[14][x + 1]
      BY <2>1, <2>2
    <3> QED BY <3>1, Rows
  <2>4. \A t \in 1 .. 14 : Row(f, t) = [x \in 0 .. 7 |-> Row(f, t)[x]]
    BY DEF Row
  <2>5. \A t \in 1 .. 14 : Row(f, t) = [x \in 0 .. 7 |-> Moves[t][x + 1]]
    BY <2>3, <2>4
  <2> QED BY <2>5 DEF f
<1>2. Move = [t \in 1 .. 14 |-> Row(Move, t)]
  <2> HIDE DEF f
  <2> QED BY <1>1 DEF Move, Row
<1>3. 1 \in 1 .. 14 /\ 13 \in 1 .. 14 /\ 14 \in 1 .. 14
  BY SMT
<1>4. \A t \in 1 .. 14 : Move[t] = Row(Move, t)
  BY <1>2
<1>5. \A x \in 0 .. 7 : Move[13][x] = Moves[13][x + 1]
  BY <1>3, <1>4, Row13
<1>6. \A x \in 0 .. 7 : /\ Move[1][x] = Moves[1][x + 1]
                        /\ Move[14][x] = Moves[14][x + 1]
  BY <1>3, <1>4, <1>5, Row1, Row14
<1>7. \A x \in 0 .. 7 : /\ Move[1][x] = Moves[1][x + 1]
                        /\ Move[13][x] = Moves[13][x + 1]
                        /\ Move[14][x] = Moves[14][x + 1]
  BY <1>5, <1>6
<1>8. Row(Move, s)[c] = Moves[s][c + 1]
  <2> HIDE DEF f
  <2> QED BY <1>7, Rows
<1> QED BY <1>4, <1>8
-----------------------------------------------------------------------------
(***************************************************************************)
(* The moves by characters.                                                *)
(***************************************************************************)
LEMMA Columns ==
  ASSUME NEW c \in Rules!Class
  PROVE  /\ Column(c) = IF c = "newline" THEN 2 ELSE IF c = "#" THEN 3
                        ELSE IF c = "$" THEN 4 ELSE IF c = "+" THEN 5
                        ELSE IF c = "-" THEN 6 ELSE IF c = "hex" THEN 7 ELSE 1
         /\ Column(c) \in 1 .. 7
         /\ yy_ec(c) = IF c = "nul" THEN 0 ELSE Column(c)
<1> USE DEF Column, yy_ec, Rules!Class
<1>1. CASE c = "nul"
  BY <1>1
<1>2. CASE c \in {"other", "newline", "#", "$"}
  BY <1>2
<1>3. CASE c \in {"+", "-", "hex"}
  BY <1>3
<1> QED BY <1>1, <1>2, <1>3

\* The states in which a token is not decided, and where they lead.
LEMMA MovesOn ==
  ASSUME NEW c \in Rules!Class
  PROVE  /\ Move[1][Column(c)] =
              IF c = "$" THEN 6 ELSE IF c = "+" THEN 7
              ELSE IF c = "-" THEN 8 ELSE IF c = "newline" THEN 5 ELSE 4
         /\ Move[4][Column(c)] = 13
         /\ \A q \in {6, 9} : Move[q][Column(c)] =
              IF c = "#" THEN 10 ELSE IF c = "$" THEN 13 ELSE 9
         /\ Move[10][Column(c)] = IF c = "hex" THEN 11 ELSE 13
         /\ Move[11][Column(c)] = IF c = "hex" THEN 12 ELSE 13
         /\ Move[3][yy_ec(c)] = 13
         /\ \A q \in {1, 4, 6, 9, 10, 11} : Move[q][yy_ec("nul")] = 3
<1> DEFINE k == Column(c)
<1>1. /\ k \in 0 .. 7 /\ k + 1 \in 2 .. 8
      /\ yy_ec(c) \in 0 .. 7 /\ yy_ec(c) + 1 \in 1 .. 8
  BY Columns, SMT
<1>2. \A s \in {1, 3, 4, 6, 9, 10, 11} : s \in 1 .. 14
  BY SMT
<1>3. \A s \in {1, 3, 4, 6, 9, 10, 11} :
        /\ Move[s][k] = Moves[s][k + 1]
        /\ Move[s][yy_ec(c)] = Moves[s][yy_ec(c) + 1]
        /\ Move[s][0] = Moves[s][1]
  <2>1. 0 \in 0 .. 7 /\ 0 + 1 = 1
    BY SMT
  <2> HIDE DEF k
  <2> QED BY <1>1, <1>2, <2>1, TablesCorrect
<1>4. yy_ec("nul") = 0
  BY DEF yy_ec
<1>5. /\ Moves[1][k + 1] =
              IF c = "$" THEN 6 ELSE IF c = "+" THEN 7
              ELSE IF c = "-" THEN 8 ELSE IF c = "newline" THEN 5 ELSE 4
      /\ Moves[4][k + 1] = 13
      /\ \A q \in {6, 9} : Moves[q][k + 1] =
              IF c = "#" THEN 10 ELSE IF c = "$" THEN 13 ELSE 9
      /\ Moves[10][k + 1] = IF c = "hex" THEN 11 ELSE 13
      /\ Moves[11][k + 1] = IF c = "hex" THEN 12 ELSE 13
  <2>1. \/ k = 1 /\ c \notin {"newline", "#", "$", "+", "-", "hex"}
        \/ k = 2 /\ c = "newline"
        \/ k = 3 /\ c = "#"
        \/ k = 4 /\ c = "$"
        \/ k = 5 /\ c = "+"
        \/ k = 6 /\ c = "-"
        \/ k = 7 /\ c = "hex"
    BY Columns
  <2> HIDE DEF k
  <2> QED BY <2>1, SMT DEF Moves
<1>6. Moves[3][yy_ec(c) + 1] = 13
  <2> DEFINE e == yy_ec(c) + 1
  <2>1. e \in 1 .. 8
    BY <1>1
  <2> HIDE DEF e
  <2>2. Moves[3][e] = 13
    BY <2>1, SMT DEF Moves
  <2> QED BY <2>2 DEF e
<1>7. \A q \in {1, 4, 6, 9, 10, 11} : Moves[q][1] = 3
  BY SMT DEF Moves
<1> QED BY <1>3, <1>4, <1>5, <1>6, <1>7

\* Which states accept (all that are not listed do not), and which are final.
LEMMA Accepting13 ==
  /\ \A s \in {1, 9, 10, 11, 13} : ~Accepts(s)
  /\ \A s \in {3, 4, 5, 6, 7, 8, 12} : Accepts(s)
  /\ \A s \in {4, 5, 7, 8, 12, 13} : Final(s)
  /\ \A s \in {1, 3, 6, 9, 10, 11} : ~Final(s)
  /\ At(yy_accept, 3) = YY_END_OF_BUFFER
  /\ \A s \in {4, 5, 6, 7, 8, 12} : At(yy_accept, s) # YY_END_OF_BUFFER
  /\ RuleOf(At(yy_accept, 4)) = "invalid" /\ RuleOf(At(yy_accept, 6)) = "invalid"
  /\ RuleOf(At(yy_accept, 5)) = "newline" /\ RuleOf(At(yy_accept, 7)) = "ack"
  /\ RuleOf(At(yy_accept, 8)) = "retransmission"
  /\ RuleOf(At(yy_accept, 12)) = "packet"
<1>1. /\ At(yy_accept, 1) = 0 /\ At(yy_accept, 3) = 6 /\ At(yy_accept, 4) = 4
      /\ At(yy_accept, 5) = 5 /\ At(yy_accept, 6) = 4 /\ At(yy_accept, 7) = 1
      /\ At(yy_accept, 8) = 2 /\ At(yy_accept, 9) = 0 /\ At(yy_accept, 10) = 0
      /\ At(yy_accept, 11) = 0 /\ At(yy_accept, 12) = 3 /\ At(yy_accept, 13) = 0
  BY SMT DEF At, yy_accept
<1>2. /\ At(yy_base, 1) = 0 /\ At(yy_base, 3) = 13 /\ At(yy_base, 4) = 14
      /\ At(yy_base, 5) = 14 /\ At(yy_base, 6) = 9 /\ At(yy_base, 7) = 14
      /\ At(yy_base, 8) = 14 /\ At(yy_base, 9) = 8 /\ At(yy_base, 10) = 3
      /\ At(yy_base, 11) = 2 /\ At(yy_base, 12) = 14 /\ At(yy_base, 13) = 14
  BY SMT DEF At, yy_base
<1>3. /\ RuleOf(1) = "ack" /\ RuleOf(2) = "retransmission"
      /\ RuleOf(3) = "packet" /\ RuleOf(4) = "invalid" /\ RuleOf(5) = "newline"
  BY SMT DEF RuleOf
<1> QED BY <1>1, <1>2, <1>3, SMT DEF Accepts, Final, YY_END_OF_BUFFER
-----------------------------------------------------------------------------
(***************************************************************************)
(* Tokens that are not decided: the characters buf[from + 1] to buf[to].   *)
(***************************************************************************)

\* Nothing, a NUL, or what may become a packet: "$", no other "$", and a "#"
\* only at the end or before one last digit.
Pending(buf, from, to) ==
  \/ to = from
  \/ to = from + 1 /\ buf[to] = "nul"
  \/ /\ to > from /\ buf[from + 1] = "$"
     /\ \A j \in from + 2 .. to :
          /\ buf[j] # "$"
          /\ buf[j] = "#" => j = to \/ (j = to - 1 /\ buf[to] = "hex")

\* The state the automaton is in after such a token.
StateAt(buf, from, to) ==
  IF to = from THEN 1
  ELSE IF to = from + 1 THEN (IF buf[to] = "nul" THEN 4 ELSE 6)
  ELSE IF buf[to] = "#" THEN 10
  ELSE IF buf[to - 1] = "#" THEN 11 ELSE 9

LEMMA StateAtType ==
  ASSUME NEW buf, NEW from \in Nat, NEW to \in Nat
  PROVE  StateAt(buf, from, to) \in {1, 4, 6, 9, 10, 11}
BY DEF StateAt

\* What is before the end of a token that is not decided is not either, and
\* each of its characters moves the automaton to the state above.
LEMMA PendingBefore ==
  ASSUME NEW buf \in Seq(Rules!Class), NEW from \in Nat, NEW to \in Nat,
         from <= to, to < Len(buf), Pending(buf, from, to + 1)
  PROVE  /\ Pending(buf, from, to)
         /\ StateAt(buf, from, to + 1)
              = Move[StateAt(buf, from, to)][Column(buf[to + 1])]
<1>1. to + 1 \in 1 .. Len(buf) /\ buf[to + 1] \in Rules!Class
  BY SMT
<1>2. Pending(buf, from, to)
  BY SMT DEF Pending
<1> DEFINE c == buf[to + 1]
<1>3. CASE to = from
  <2>1. c \in {"nul", "$"}
    BY <1>3, SMT DEF Pending
  <2>2. StateAt(buf, from, to) = 1
    BY <1>3 DEF StateAt
  <2>3. StateAt(buf, from, to + 1) = IF c = "nul" THEN 4 ELSE 6
    BY <1>3, SMT DEF StateAt
  <2> HIDE DEF c
  <2>4. Move[1][Column(c)] = IF c = "nul" THEN 4 ELSE 6
    BY <1>1, <2>1, MovesOn DEF c
  <2> QED BY <1>2, <2>2, <2>3, <2>4 DEF c
<1>4. CASE to > from
  <2>1. /\ buf[from + 1] = "$" /\ c # "$"
        /\ \A j \in from + 2 .. to : buf[j] = "#" => j = to /\ c = "hex"
    BY <1>4, SMT DEF Pending
  <2>2. StateAt(buf, from, to + 1) = IF c = "#" THEN 10
                                     ELSE IF buf[to] = "#" THEN 11 ELSE 9
    BY <1>4, SMT DEF StateAt
  <2>3. CASE to = from + 1
    <3>1. StateAt(buf, from, to) = 6 /\ buf[to] = "$"
      BY <2>1, <2>3, SMT DEF StateAt
    <3> HIDE DEF c
    <3> QED BY <1>1, <1>2, <2>1, <2>2, <3>1, MovesOn DEF c
  <2>4. CASE to > from + 1
    <3>1. to \in from + 2 .. to /\ to - 1 \in from + 1 .. to
      BY <2>4, SMT
    <3>2. buf[to] = "#" => c = "hex"
      BY <2>1, <3>1
    <3>3. buf[to - 1] # "#"
      BY <2>1, <2>4, SMT
    <3>4. StateAt(buf, from, to) = IF buf[to] = "#" THEN 10 ELSE 9
      BY <2>4, <3>3, SMT DEF StateAt
    <3> HIDE DEF c
    <3> QED BY <1>1, <1>2, <2>1, <2>2, <3>2, <3>4, MovesOn DEF c
  <2> QED BY <1>4, <2>3, <2>4, SMT
<1> QED BY <1>3, <1>4, SMT

\* A character more: the token stays undecided in the states below.
LEMMA PendingAfter ==
  ASSUME NEW buf \in Seq(Rules!Class), NEW from \in Nat, NEW to \in Nat,
         from <= to, to < Len(buf), Pending(buf, from, to),
         NEW q, q = Move[StateAt(buf, from, to)][Column(buf[to + 1])],
         q \in {6, 9, 10, 11} \/ (q = 4 /\ buf[to + 1] = "nul")
  PROVE  Pending(buf, from, to + 1) /\ StateAt(buf, from, to + 1) = q
<1>1. to + 1 \in 1 .. Len(buf) /\ buf[to + 1] \in Rules!Class
  BY SMT
<1> DEFINE c == buf[to + 1]
           p == StateAt(buf, from, to)
<1>2. p \in {1, 4, 6, 9, 10, 11}
  BY StateAtType
<1>3. /\ p = 1 => c \in {"nul", "$"}
      /\ p \in {6, 9} => c # "$"
      /\ p = 10 => c = "hex"
      /\ p \notin {4, 11}
  <2> HIDE DEF p, c
  <2>1. q = Move[p][Column(c)] /\ (q \in {6, 9, 10, 11} \/ (q = 4 /\ c = "nul"))
    BY DEF p, c
  <2> QED BY <1>1, <2>1, MovesOn DEF c
<1>4. Pending(buf, from, to + 1)
  <2>1. CASE p = 1
    <3>1. to = from
      BY <2>1, SMT DEF StateAt
    <3> QED BY <1>3, <2>1, <3>1, SMT DEF Pending
  <2>2. CASE p = 6
    <3>1. to = from + 1 /\ buf[to] # "nul"
      BY <2>2, SMT DEF StateAt
    <3>2. buf[from + 1] = "$"
      BY <3>1, SMT DEF Pending
    <3> QED BY <1>3, <2>2, <3>1, <3>2, SMT DEF Pending
  <2>3. CASE p = 9
    <3>1. to > from + 1 /\ buf[to] # "#" /\ buf[to - 1] # "#"
      BY <2>3, SMT DEF StateAt
    <3>2. /\ buf[from + 1] = "$"
          /\ \A j \in from + 2 .. to : buf[j] \notin {"$", "#"}
      BY <3>1, SMT DEF Pending
    <3> QED BY <1>3, <2>3, <3>1, <3>2, SMT DEF Pending
  <2>4. CASE p = 10
    <3>1. to > from + 1 /\ buf[to] = "#"
      BY <2>4, SMT DEF StateAt
    <3>2. /\ buf[from + 1] = "$"
          /\ \A j \in from + 2 .. to :
               buf[j] # "$" /\ (buf[j] = "#" => j = to)
      BY <3>1, SMT DEF Pending
    <3> QED BY <1>3, <2>4, <3>1, <3>2, SMT DEF Pending
  <2> QED BY <1>2, <1>3, <2>1, <2>2, <2>3, <2>4
<1> QED BY <1>4, PendingBefore
-----------------------------------------------------------------------------
(***************************************************************************)
(* yy_get_previous_state finds those states again.                         *)
(***************************************************************************)

\* A set of naturals has a least element: what stands for induction.
LEMMA LeastNatural ==
  ASSUME NEW T \in SUBSET Nat, T # {}
  PROVE  \E m \in T : \A n \in T : m <= n
<1> DEFINE Below(n) == 0 .. n - 1
           U == {Below(n) : n \in T}
<1>1. \A n \in Nat : IsFiniteSet(Below(n)) /\ Below(n) \in SUBSET Nat
  BY FS_Interval, SMT
<1>2. U \subseteq FiniteSubsetsOf(Nat) /\ U # {}
  <2> HIDE DEF Below
  <2> QED BY <1>1 DEF FiniteSubsetsOf
<1>3. PICK X \in U : \A Y \in U : ~(<<Y, X>> \in StrictSubsetOrdering(Nat))
  <2> HIDE DEF U
  <2> QED BY <1>2, FS_StrictSubsetOrderingWellFounded, WFMin
<1>4. PICK m \in T : X = Below(m)
  BY <1>3
<1>5. ASSUME NEW n \in T, n < m PROVE FALSE
  <2>1. Below(n) \in SUBSET Below(m) /\ Below(n) # Below(m)
    <3>1. n \in Nat /\ m \in Nat
      OBVIOUS
    <3>2. n \in Below(m) /\ n \notin Below(n)
      BY <1>5, <3>1, SMT
    <3>3. \A k \in Below(n) : k \in Below(m)
      BY <1>5, <3>1, SMT
    <3> QED BY <3>2, <3>3
  <2>2. Below(n) \in U /\ Below(n) \in SUBSET Nat /\ Below(m) \in SUBSET Nat
    BY <1>1
  <2> HIDE DEF Below, U
  <2>3. <<Below(n), X>> \in StrictSubsetOrdering(Nat)
    BY <1>4, <2>1, <2>2 DEF StrictSubsetOrdering
  <2> QED BY <1>3, <2>2, <2>3
<1> QED
  <2>1. ASSUME NEW n \in T PROVE m <= n
    BY <1>5, SMT
  <2> QED BY <2>1

LEMMA PrefixPending ==
  ASSUME NEW buf \in Seq(Rules!Class), NEW from \in Nat, NEW to \in Nat,
         to <= Len(buf), Pending(buf, from, to), NEW k \in from .. to
  PROVE  Pending(buf, from, k)
BY SMT DEF Pending

LEMMA StatesKnown ==
  ASSUME NEW buf \in Seq(Rules!Class), NEW from \in Nat, NEW to \in Nat,
         from <= to, to <= Len(buf), Pending(buf, from, to)
  PROVE  States(buf, from, to) = [k \in from .. to |-> StateAt(buf, from, k)]
<1> DEFINE Rest(f) == [k \in from .. to |->
             IF k = from THEN 1
                         ELSE Move[f[k - 1]][Column(CharAt(buf, k - 1))]]
           g == [k \in from .. to |-> StateAt(buf, from, k)]
           f == States(buf, from, to)
<1>1. ASSUME NEW k \in from .. to, k # from
      PROVE  /\ k - 1 \in from .. to
             /\ StateAt(buf, from, k)
                  = Move[StateAt(buf, from, k - 1)][Column(CharAt(buf, k - 1))]
  <2> DEFINE i == k - 1
  <2>1. i \in Nat /\ i \in from .. to /\ i < Len(buf) /\ k = i + 1 /\ from <= i
    BY <1>1, SMT
  <2>2. Pending(buf, from, i + 1)
    BY <2>1, PrefixPending
  <2>3. CharAt(buf, i) = buf[i + 1]
    BY <2>1 DEF CharAt
  <2> HIDE DEF i
  <2>4. StateAt(buf, from, i + 1) = Move[StateAt(buf, from, i)][Column(buf[i + 1])]
    BY <2>1, <2>2, PendingBefore
  <2> QED BY <2>1, <2>3, <2>4 DEF i
<1>2. StateAt(buf, from, from) = 1
  BY DEF StateAt
<1>3. g = Rest(g)
  <2>1. \A k \in from .. to : g[k] = Rest(g)[k]
    BY <1>1, <1>2
  <2> QED BY <2>1
<1>4. f = Rest(f)
  <2> HIDE DEF g
  <2> QED BY <1>3 DEF States
<1>5. \A k \in from .. to : f[k] = StateAt(buf, from, k)
  <2> DEFINE T == {k \in from .. to : f[k] # StateAt(buf, from, k)}
  <2>1. ASSUME T # {} PROVE FALSE
    <3>1. PICK m \in T : \A k \in T : m <= k
      <4>1. T \in SUBSET Nat
        BY SMT
      <4> HIDE DEF T
      <4> QED BY <2>1, <4>1, LeastNatural
    <3>2. m \in from .. to
      BY <3>1
    <3> HIDE DEF f
    <3>3. \A k \in from .. to : f[k] = Rest(f)[k]
      BY <1>4
    <3>4. CASE m = from
      BY <1>2, <3>1, <3>2, <3>3, <3>4
    <3>5. CASE m # from
      <4>1. m - 1 \in from .. to /\ ~(m <= m - 1)
        BY <3>2, <3>5, SMT
      <4>2. f[m - 1] = StateAt(buf, from, m - 1)
        BY <3>1, <4>1
      <4>3. f[m] = Move[f[m - 1]][Column(CharAt(buf, m - 1))]
        BY <3>2, <3>3, <3>5
      <4> QED BY <1>1, <3>1, <3>2, <3>5, <4>2, <4>3
    <3> QED BY <3>4, <3>5
  <2> QED BY <2>1
<1>6. f = [k \in from .. to |-> f[k]]
  <2> HIDE DEF f
  <2> QED BY <1>4
<1> HIDE DEF f
<1> QED BY <1>5, <1>6 DEF f

\* It finds no accepting state but that after the first character.
LEMMA LastSeenKnown ==
  ASSUME NEW buf \in Seq(Rules!Class), NEW from \in Nat, NEW to \in Nat,
         from <= to, to <= Len(buf), Pending(buf, from, to),
         NEW m \in Int, m <= to
  PROVE  LastSeen(States(buf, from, to), from, m)
           = IF m > from THEN <<StateAt(buf, from, from + 1), from + 1>> ELSE last
<1> DEFINE f == States(buf, from, to)
           seen == {k \in from .. m : Accepts(f[k])}
<1>1. \A k \in from .. m : f[k] = StateAt(buf, from, k)
  <2>1. \A k \in from .. m : k \in from .. to
    BY SMT
  <2>2. f = [k \in from .. to |-> StateAt(buf, from, k)]
    BY StatesKnown
  <2> HIDE DEF f
  <2> QED BY <2>1, <2>2
<1>2. StateAt(buf, from, from) = 1 /\ StateAt(buf, from, from + 1) \in {4, 6}
  BY SMT DEF StateAt
<1>3. ASSUME NEW k \in from .. m, k > from + 1
      PROVE  StateAt(buf, from, k) \in {9, 10, 11}
  BY <1>3, SMT DEF StateAt
<1>4. \A k \in from .. m : Accepts(f[k]) <=> k = from + 1
  <2>1. ASSUME NEW k \in from .. m PROVE k = from \/ k = from + 1 \/ k > from + 1
    BY SMT
  <2>2. from # from + 1 /\ \A k \in from .. m : k > from + 1 => k # from + 1
    BY SMT
  <2> HIDE DEF f
  <2> QED BY <1>1, <1>2, <1>3, <2>1, <2>2, Accepting13
<1> HIDE DEF f
<1>5. LastSeen(f, from, m) =
        IF seen = {} THEN last
          ELSE <<f[CHOOSE k \in seen : \A j \in seen : j <= k],
                 CHOOSE k \in seen : \A j \in seen : j <= k>>
  BY DEF LastSeen
<1>6. CASE m > from
  <2>1. seen = {from + 1}
    <3>1. from + 1 \in from .. m
      BY <1>6, SMT
    <3> QED BY <1>4, <3>1
  <2>2. (CHOOSE k \in seen : \A j \in seen : j <= k) = from + 1
    <3>1. from + 1 <= from + 1
      BY SMT
    <3> HIDE DEF seen
    <3> QED BY <2>1, <3>1
  <2>3. from + 1 \in from .. m
    BY <1>6, SMT
  <2>4. f[from + 1] = StateAt(buf, from, from + 1)
    BY <1>1, <2>3
  <2> HIDE DEF seen
  <2> QED BY <1>5, <1>6, <2>1, <2>2, <2>4 DEF f
<1>7. CASE ~(m > from)
  <2>1. from + 1 \notin from .. m
    BY <1>7, SMT
  <2>2. seen = {}
    BY <1>4, <2>1
  <2> HIDE DEF seen
  <2> QED BY <1>5, <1>7, <2>2 DEF f
<1> QED BY <1>6, <1>7
-----------------------------------------------------------------------------
(***************************************************************************)
(* The token so far moved to the start of the buffer.                      *)
(***************************************************************************)
LEMMA PieceThenMore ==
  ASSUME NEW S, NEW buf \in Seq(S), NEW more \in Seq(S),
         NEW from \in Nat, NEW to \in Nat, from <= to, to <= Len(buf)
  PROVE  /\ SubSeq(buf, from + 1, to) \in Seq(S)
         /\ Len(SubSeq(buf, from + 1, to)) = to - from
         /\ SubSeq(buf, from + 1, to) \o more \in Seq(S)
         /\ Len(SubSeq(buf, from + 1, to) \o more) = to - from + Len(more)
         /\ \A i \in 1 .. to - from :
              /\ SubSeq(buf, from + 1, to)[i] = buf[from + i]
              /\ (SubSeq(buf, from + 1, to) \o more)[i] = buf[from + i]
<1> DEFINE s == SubSeq(buf, from + 1, to)
<1>1. s \in Seq(S) /\ Len(s) = to - from
  BY SMT
<1>2. \A i \in 1 .. to - from : s[i] = buf[from + i]
  BY SMT
<1> HIDE DEF s
<1>3. s \o more \in Seq(S) /\ Len(s \o more) = to - from + Len(more)
  BY <1>1, SMT
<1>4. \A i \in 1 .. to - from : (s \o more)[i] = s[i]
  BY <1>1, SMT
<1> QED BY <1>1, <1>2, <1>3, <1>4 DEF s

LEMMA PendingMoved ==
  ASSUME NEW buf \in Seq(Rules!Class), NEW more \in Seq(Rules!Class),
         NEW from \in Nat, NEW to \in Nat, from <= to, to <= Len(buf),
         Pending(buf, from, to),
         NEW b, b = SubSeq(buf, from + 1, to) \o more
  PROVE  /\ Pending(b, 0, to - from)
         /\ StateAt(b, 0, to - from) = StateAt(buf, from, to)
<1> DEFINE n == to - from
<1>1. n \in Nat /\ to = from + n
  BY SMT
<1>2. \A i \in 1 .. n : b[i] = buf[from + i]
  BY PieceThenMore
<1> HIDE DEF n
<1>3. StateAt(b, 0, n) = StateAt(buf, from, to)
  <2>1. CASE n = 0
    BY <1>1, <2>1, SMT DEF StateAt
  <2>2. CASE n = 1
    <3>1. b[1] = buf[from + 1]
      <4>1. 1 \in 1 .. n
        BY <2>2, SMT
      <4> QED BY <1>2, <4>1
    <3> QED BY <1>1, <2>2, <3>1, SMT DEF StateAt
  <2>3. CASE n > 1
    <3>1. b[n] = buf[to] /\ b[n - 1] = buf[to - 1]
      <4>1. n \in 1 .. n /\ n - 1 \in 1 .. n /\ from + (n - 1) = to - 1
        BY <1>1, <2>3, SMT
      <4> QED BY <1>1, <1>2, <4>1
    <3> QED BY <1>1, <2>3, <3>1, SMT DEF StateAt
  <2> QED BY <1>1, <2>1, <2>2, <2>3, SMT
<1>4. Pending(b, 0, n)
  <2>1. CASE n = 0
    BY <2>1 DEF Pending
  <2>2. CASE n = 1 /\ buf[to] = "nul"
    <3>1. b[1] = buf[from + 1]
      <4>1. 1 \in 1 .. n
        BY <2>2, SMT
      <4> QED BY <1>2, <4>1
    <3> QED BY <1>1, <2>2, <3>1, SMT DEF Pending
  <2>3. CASE n > 0 /\ ~(n = 1 /\ buf[to] = "nul")
    <3>1. /\ buf[from + 1] = "$"
          /\ \A j \in from + 2 .. to :
               /\ buf[j] # "$"
               /\ buf[j] = "#" => j = to \/ (j = to - 1 /\ buf[to] = "hex")
      BY <1>1, <2>3, SMT DEF Pending
    <3>2. b[1] = buf[from + 1] /\ b[n] = buf[to]
      <4>1. 1 \in 1 .. n /\ n \in 1 .. n
        BY <1>1, <2>3, SMT
      <4> QED BY <1>1, <1>2, <4>1
    <3>3. ASSUME NEW i \in 2 .. n
          PROVE  b[i] # "$" /\ (b[i] = "#" => i = n \/ (i = n - 1 /\ b[n] = "hex"))
      <4> DEFINE j == from + i
      <4>1. i \in 1 .. n /\ j \in from + 2 .. to
        BY <1>1, SMT
      <4>2. b[i] = buf[j]
        BY <1>2, <4>1
      <4>3. (j = to => i = n) /\ (j = to - 1 => i = n - 1)
        BY <1>1, <4>1, SMT
      <4> HIDE DEF j
      <4> QED BY <3>1, <3>2, <4>1, <4>2, <4>3
    <3> QED BY <1>1, <2>3, <3>1, <3>2, <3>3, SMT DEF Pending
  <2> QED BY <1>1, <2>1, <2>2, <2>3, SMT
<1> QED BY <1>3, <1>4 DEF n
-----------------------------------------------------------------------------
(***************************************************************************)
(* What the rules say (scanner.l).                                         *)
(***************************************************************************)

\* The body of a packet stops at the first "$" or "#".
LEMMA StopIs ==
  ASSUME NEW s \in Seq(Rules!Class), NEW k \in 2 .. Len(s),
         s[k] \in {"$", "#"}, \A j \in 2 .. k - 1 : s[j] \notin {"$", "#"}
  PROVE  Rules!Stops(s) # {} /\ Rules!Stop(s) = k
<1>1. k \in Rules!Stops(s)
  BY DEF Rules!Stops
<1>2. \A j \in Rules!Stops(s) : k <= j
  <2>1. ASSUME NEW j \in 2 .. Len(s), s[j] \in {"$", "#"} PROVE k <= j
    BY <2>1, SMT
  <2> QED BY <2>1 DEF Rules!Stops
<1>3. ASSUME NEW m \in Rules!Stops(s), \A j \in Rules!Stops(s) : m <= j
      PROVE  m = k
  <2>1. m <= k /\ k <= m
    BY <1>1, <1>2, <1>3
  <2>2. m \in Int /\ k \in Int
    BY SMT DEF Rules!Stops
  <2> QED BY <2>1, <2>2, SMT
<1> HIDE DEF Rules!Stops
<1> QED BY <1>1, <1>2, <1>3 DEF Rules!Stop

\* A character that is no packet's first is a token by itself.
LEMMA TokenAlone ==
  ASSUME NEW s \in Seq(Rules!Class), s # <<>>, s[1] # "$"
  PROVE  Rules!TokenOf(s) = [rule |-> Rules!Alone(s[1]), length |-> 1]
BY DEF Rules!TokenOf, Rules!PacketAhead, Rules!Begun

\* A "$" is one too when the body stops at another "$", or one of the two
\* characters after its "#" is no digit.
LEMMA TokenBroken ==
  ASSUME NEW s \in Seq(Rules!Class), NEW k \in 2 .. Len(s), s[1] = "$",
         \A j \in 2 .. k - 1 : s[j] \notin {"$", "#"},
         \/ s[k] = "$"
         \/ /\ s[k] = "#"
            /\ \E i \in k + 1 .. k + 2 : i <= Len(s) /\ s[i] # "hex"
  PROVE  Rules!TokenOf(s) = [rule |-> "invalid", length |-> 1]
<1>1. Rules!Stops(s) # {} /\ Rules!Stop(s) = k
  BY StopIs
<1>2. ~Rules!Begun(s)
  BY <1>1 DEF Rules!Begun, Rules!PacketLength
<1> QED BY <1>2 DEF Rules!TokenOf, Rules!PacketAhead, Rules!Alone

LEMMA TokenPacket ==
  ASSUME NEW s \in Seq(Rules!Class), NEW k \in 2 .. Len(s), s[1] = "$",
         \A j \in 2 .. k - 1 : s[j] \notin {"$", "#"}, s[k] = "#",
         k + 2 <= Len(s), s[k + 1] = "hex", s[k + 2] = "hex"
  PROVE  Rules!TokenOf(s) = [rule |-> "packet", length |-> k + 2]
<1>1. Rules!Stops(s) # {} /\ Rules!Stop(s) = k
  BY StopIs
<1>2. \A i \in k + 1 .. k + 2 : s[i] = "hex"
  <2>1. \A i \in k + 1 .. k + 2 : i = k + 1 \/ i = k + 2
    BY SMT
  <2> QED BY <2>1
<1>3. s # <<>>
  BY SMT
<1> QED BY <1>1, <1>2, <1>3
        DEF Rules!TokenOf, Rules!PacketAhead, Rules!Begun, Rules!PacketLength

\* A token that is not decided, and that nothing follows: more characters may
\* make a packet of it; when none come, its first one is invalid.
LEMMA TokenOpen ==
  ASSUME NEW s \in Seq(Rules!Class), Pending(s, 0, Len(s)), s # <<>>
  PROVE  /\ Rules!TokenOf(s) = [rule |-> "invalid", length |-> 1]
         /\ s = <<"nul">> \/ Rules!Open(s)
<1> DEFINE n == Len(s)
<1>1. n \in Nat /\ n > 0
  BY SMT
<1>2. CASE n = 1 /\ s[1] = "nul"
  <2>1. s = <<"nul">>
    BY <1>2, SMT
  <2> QED BY <1>2, <2>1, TokenAlone DEF Rules!Alone
<1>3. CASE ~(n = 1 /\ s[1] = "nul")
  <2>1. /\ s[1] = "$"
        /\ \A j \in 2 .. n :
             s[j] # "$" /\ (s[j] = "#" => j = n \/ (j = n - 1 /\ s[n] = "hex"))
    <3> HIDE DEF n
    <3>1. Pending(s, 0, n)
      BY DEF n
    <3> QED BY <1>1, <1>3, <3>1, SMT DEF Pending
  <2>2. CASE Rules!Stops(s) = {}
    BY <2>1, <2>2 DEF Rules!TokenOf, Rules!PacketAhead, Rules!Open,
                      Rules!Begun, Rules!Alone
  <2>3. CASE Rules!Stops(s) # {}
    <3>1. \E k \in 2 .. n : /\ s[k] = "#" /\ k + 2 > n
                            /\ k = n - 1 => s[n] = "hex"
                            /\ \A j \in 2 .. k - 1 : s[j] \notin {"$", "#"}
      <4>1. PICK i \in 2 .. n : s[i] \in {"$", "#"}
        BY <2>3 DEF Rules!Stops
      <4>2. s[i] = "#" /\ (i = n \/ (i = n - 1 /\ s[n] = "hex"))
        BY <2>1, <4>1
      <4> HIDE DEF n
      <4>3. ASSUME NEW j \in 2 .. i - 1 PROVE s[j] \notin {"$", "#"}
        BY <1>1, <2>1, <4>1, <4>2, SMT
      <4>4. i + 2 > n /\ (i = n - 1 => s[n] = "hex")
        BY <1>1, <4>1, <4>2, SMT
      <4> QED BY <4>1, <4>2, <4>3, <4>4
    <3>2. PICK k \in 2 .. n : /\ s[k] = "#" /\ k + 2 > n
                              /\ k = n - 1 => s[n] = "hex"
                              /\ \A j \in 2 .. k - 1 : s[j] \notin {"$", "#"}
      BY <3>1
    <3>3. Rules!Stop(s) = k
      BY <3>2, StopIs
    <3>4. ASSUME NEW i \in k + 1 .. k + 2, i <= n PROVE s[i] = "hex"
      <4>1. i = n /\ k = n - 1
        BY <1>1, <3>2, <3>4, SMT
      <4> QED BY <3>2, <4>1
    <3>5. ~(k + 2 <= n)
      BY <1>1, <3>2, SMT
    <3>6. s # <<>> /\ Rules!PacketLength(s) = k + 2
      BY <3>3 DEF Rules!PacketLength
    <3>7. Rules!Begun(s) /\ ~Rules!PacketAhead(s)
      BY <2>1, <3>2, <3>3, <3>4, <3>5, <3>6 DEF Rules!Begun, Rules!PacketAhead
    <3> QED BY <2>1, <3>7 DEF Rules!TokenOf, Rules!Open, Rules!Alone
  <2> QED BY <2>2, <2>3
<1> QED BY <1>2, <1>3

\* The state q after one character more than such a token decides the rule and
\* the length of the first token of what remains, s, as the rules do.
Decides(q, s, from, to) ==
  /\ q \in {4, 5, 7, 8} =>
       /\ to = from
       /\ Rules!TokenOf(s) = [rule |-> RuleOf(At(yy_accept, q)), length |-> 1]
  /\ q = 12 =>
       Rules!TokenOf(s) = [rule |-> "packet", length |-> to + 1 - from]
  /\ q = 13 => Rules!TokenOf(s) = [rule |-> "invalid", length |-> 1]
  /\ q \in {4, 5, 6, 7, 8, 9, 10, 11, 12, 13}

LEMMA TokenDecided ==
  ASSUME NEW buf \in Seq(Rules!Class), NEW from \in Nat, NEW to \in Nat,
         from <= to, to < Len(buf), Pending(buf, from, to),
         NEW q, q = Move[StateAt(buf, from, to)][Column(buf[to + 1])],
         NEW s \in Seq(Rules!Class), Len(s) >= Len(buf) - from,
         \A i \in 1 .. Len(buf) - from : s[i] = buf[from + i]
  PROVE  Decides(q, s, from, to)
<1> DEFINE n == to - from
           c == buf[to + 1]
           p == StateAt(buf, from, to)
<1>1. n \in Nat /\ to = from + n /\ Len(buf) \in Nat /\ Len(s) \in Nat
  BY SMT
<1>2. n + 1 <= Len(s) /\ s # <<>>
  BY <1>1, SMT
<1>3. \A i \in 1 .. n + 1 : s[i] = buf[from + i]
  BY <1>1, SMT
<1>4. s[n + 1] = c /\ c \in Rules!Class
  <2>1. n + 1 \in 1 .. n + 1 /\ from + (n + 1) = to + 1 /\ to + 1 \in 1 .. Len(buf)
    BY <1>1, SMT
  <2> QED BY <1>3, <2>1
<1>5. p \in {1, 4, 6, 9, 10, 11}
  BY StateAtType
<1> HIDE DEF n, c, p
<1>6. q = Move[p][Column(c)]
  BY DEF p, c
<1>7. q \in {4, 5, 6, 7, 8, 9, 10, 11, 12, 13}
  <2>1. CASE p = 1
    BY <1>4, <1>6, <2>1, MovesOn
  <2>2. CASE p \in {6, 9}
    BY <1>4, <1>6, <2>2, MovesOn
  <2>3. CASE p \in {4, 10, 11}
    BY <1>4, <1>6, <2>3, MovesOn
  <2> QED BY <1>5, <2>1, <2>2, <2>3
<1>8. CASE p = 1
  <2>1. n = 0
    BY <1>1, <1>8, SMT DEF p, StateAt
  <2>2. s[1] = c
    BY <1>4, <2>1, SMT
  <2>3. q = IF c = "$" THEN 6 ELSE IF c = "+" THEN 7
            ELSE IF c = "-" THEN 8 ELSE IF c = "newline" THEN 5 ELSE 4
    BY <1>4, <1>6, <1>8, MovesOn
  <2>4. c # "$" => Rules!TokenOf(s) = [rule |-> Rules!Alone(c), length |-> 1]
    BY <1>2, <2>2, TokenAlone
  <2>5. c # "$" => RuleOf(At(yy_accept, q)) = Rules!Alone(c)
    BY <2>3, Accepting13 DEF Rules!Alone
  <2>6. c = "$" => q = 6
    BY <2>3
  <2>7. q \notin {12, 13}
    BY <2>3
  <2>8. to = from
    BY <1>1, <2>1, SMT
  <2> QED BY <1>7, <2>4, <2>5, <2>6, <2>7, <2>8 DEF Decides
<1>9. CASE p = 4
  <2>1. n = 1 /\ buf[to] = "nul"
    BY <1>1, <1>9, SMT DEF p, StateAt
  <2>2. s[1] = "nul"
    <3>1. 1 \in 1 .. n + 1 /\ from + 1 = to
      BY <1>1, <2>1, SMT
    <3> QED BY <1>3, <2>1, <3>1
  <2>3. q = 13
    BY <1>4, <1>6, <1>9, MovesOn
  <2> QED BY <1>2, <2>2, <2>3, TokenAlone DEF Decides, Rules!Alone
<1>10. CASE p \in {6, 9, 10, 11}
  <2>1. n > 0 /\ ~(n = 1 /\ buf[to] = "nul")
    BY <1>1, <1>10, SMT DEF p, StateAt
  <2>2. /\ buf[from + 1] = "$"
        /\ \A j \in from + 2 .. to :
             /\ buf[j] # "$"
             /\ buf[j] = "#" => j = to \/ (j = to - 1 /\ buf[to] = "hex")
    BY <1>1, <2>1, SMT DEF Pending
  <2>3. s[1] = "$"
    <3>1. 1 \in 1 .. n + 1
      BY <2>1, <1>1, SMT
    <3> QED BY <1>3, <2>2, <3>1
  <2>4. ASSUME NEW j \in 2 .. n
        PROVE  /\ s[j] # "$"
               /\ s[j] = "#" => \/ j = n
                                \/ j = n - 1 /\ buf[to] = "hex"
    <3>1. /\ j \in 1 .. n + 1 /\ from + j \in from + 2 .. to
          /\ (from + j = to => j = n) /\ (from + j = to - 1 => j = n - 1)
      BY <1>1, SMT
    <3> QED BY <1>3, <2>2, <3>1
  <2>5. CASE p \in {6, 9}
    <3>1. \A j \in 2 .. n : s[j] # "#"
      <4>1. CASE p = 6
        BY <1>1, <4>1, SMT DEF p, StateAt
      <4>2. CASE p = 9
        <5>1. n > 1 /\ buf[to] # "#" /\ buf[to - 1] # "#"
          BY <1>1, <4>2, SMT DEF p, StateAt
        <5>2. s[n] # "#" /\ s[n - 1] # "#"
          <6>1. /\ n \in 1 .. n + 1 /\ n - 1 \in 1 .. n + 1
                /\ from + n = to /\ from + (n - 1) = to - 1
            BY <1>1, <5>1, SMT
          <6> QED BY <1>3, <5>1, <6>1
        <5> QED BY <2>4, <5>2
      <4> QED BY <2>5, <4>1, <4>2
    <3>2. q = IF c = "#" THEN 10 ELSE IF c = "$" THEN 13 ELSE 9
      BY <1>4, <1>6, <2>5, MovesOn
    <3>3. c = "$" => Rules!TokenOf(s) = [rule |-> "invalid", length |-> 1]
      <4> DEFINE k == n + 1
      <4>1. k \in 2 .. Len(s) /\ k - 1 = n
        BY <1>1, <1>2, <2>1, SMT
      <4> HIDE DEF k
      <4>2. c = "$" => s[k] = "$"
        BY <1>4 DEF k
      <4>3. \A j \in 2 .. k - 1 : s[j] \notin {"$", "#"}
        BY <2>4, <3>1, <4>1
      <4> QED BY <2>3, <4>1, <4>2, <4>3, TokenBroken
    <3> QED BY <1>7, <3>2, <3>3 DEF Decides
  <2>6. CASE p = 10
    <3>1. n > 1 /\ s[n] = "#" /\ buf[to] = "#"
      <4>1. n > 1 /\ buf[to] = "#"
        BY <1>1, <2>6, SMT DEF p, StateAt
      <4>2. n \in 1 .. n + 1 /\ from + n = to
        BY <1>1, <4>1, SMT
      <4> QED BY <1>3, <4>1, <4>2
    <3>2. q = IF c = "hex" THEN 11 ELSE 13
      BY <1>4, <1>6, <2>6, MovesOn
    <3>3. n \in 2 .. Len(s) /\ n + 1 \in n + 1 .. n + 2
      BY <1>1, <1>2, <3>1, SMT
    <3>4. ASSUME NEW j \in 2 .. n - 1 PROVE s[j] \notin {"$", "#"}
      <4>1. j \in 2 .. n /\ j # n
        BY <1>1, SMT
      <4> QED BY <2>4, <3>1, <4>1
    <3>5. c # "hex" => Rules!TokenOf(s) = [rule |-> "invalid", length |-> 1]
      BY <1>2, <1>4, <2>3, <3>1, <3>3, <3>4, TokenBroken
    <3> QED BY <3>2, <3>5 DEF Decides
  <2>7. CASE p = 11
    <3> DEFINE k == n - 1
    <3>1. n > 1 /\ buf[to] # "#" /\ buf[to - 1] = "#"
      BY <1>1, <2>7, SMT DEF p, StateAt
    <3>2. s[k] = "#" /\ k \in 1 .. n + 1 /\ k \in Int /\ k > 0
      <4>1. k \in 1 .. n + 1 /\ from + k = to - 1 /\ k \in Int /\ k > 0
        BY <1>1, <3>1, SMT
      <4> QED BY <1>3, <3>1, <4>1
    <3>3. k # 1
      BY <2>3, <3>2
    <3>4. k \in 2 .. Len(s) /\ k + 2 <= Len(s) /\ k \in 2 .. n /\ k # n
      BY <1>1, <1>2, <3>2, <3>3, SMT
    <3>5. buf[to] = "hex"
      BY <2>4, <3>2, <3>4
    <3>6. s[k + 1] = "hex" /\ s[k + 2] = c /\ k + 2 \in k + 1 .. k + 2
      <4>1. /\ k + 1 = n /\ k + 2 = n + 1 /\ n \in 1 .. n + 1 /\ from + n = to
            /\ k + 2 \in k + 1 .. k + 2
        BY <1>1, <3>1, SMT
      <4> QED BY <1>3, <1>4, <3>5, <4>1
    <3>7. ASSUME NEW j \in 2 .. k - 1 PROVE s[j] \notin {"$", "#"}
      <4>1. j \in 2 .. n /\ j # n /\ j # n - 1
        BY <1>1, SMT
      <4> QED BY <2>4, <4>1
    <3>8. q = IF c = "hex" THEN 12 ELSE 13
      BY <1>4, <1>6, <2>7, MovesOn
    <3>9. k + 2 = to + 1 - from
      BY <1>1, SMT
    <3> HIDE DEF k
    <3>10. c # "hex" => Rules!TokenOf(s) = [rule |-> "invalid", length |-> 1]
      BY <2>3, <3>2, <3>4, <3>6, <3>7, TokenBroken
    <3>11. c = "hex" => Rules!TokenOf(s) = [rule |-> "packet", length |-> k + 2]
      BY <2>3, <3>2, <3>4, <3>6, <3>7, TokenPacket
    <3> QED BY <3>8, <3>9, <3>10, <3>11 DEF Decides
  <2> QED BY <1>10, <2>5, <2>6, <2>7
<1> QED BY <1>5, <1>7, <1>8, <1>9, <1>10

\* A token has a length.
LEMMA TokenLength ==
  ASSUME NEW s \in Seq(Rules!Class)
  PROVE  Rules!TokenOf(s).length \in Nat
<1>1. CASE Rules!PacketAhead(s)
  <2>1. Rules!Stops(s) # {} /\ Rules!Stops(s) \in SUBSET Nat
    BY <1>1, SMT DEF Rules!PacketAhead, Rules!Stops
  <2>2. \E k \in Rules!Stops(s) : \A j \in Rules!Stops(s) : k <= j
    BY <2>1, LeastNatural
  <2>3. Rules!Stop(s) \in Nat
    BY <2>1, <2>2 DEF Rules!Stop
  <2> QED BY <1>1, <2>3 DEF Rules!TokenOf, Rules!PacketLength
<1>2. CASE ~Rules!PacketAhead(s)
  BY <1>2 DEF Rules!TokenOf
<1> QED BY <1>1, <1>2
-----------------------------------------------------------------------------
(***************************************************************************)
(* The inductive invariant.                                                *)
(***************************************************************************)
Types ==
  /\ input \in Seq(Rules!Class) /\ yy_ch_buf \in Seq(Rules!Class)
  /\ buf_size \in Nat /\ buf_size > 1 /\ yy_n_chars <= buf_size
  /\ text \in Nat /\ text <= yy_n_chars
  /\ cp \in Nat /\ text <= cp /\ cp <= yy_n_chars + 2
  /\ current \in 1 .. 13 /\ last \in (1 .. 13) \X Nat
  /\ status = "eof_pending" => input = <<>>

\* In the middle of a token that is not decided.
InToken ==
  /\ cp <= yy_n_chars /\ Pending(yy_ch_buf, text, cp)
  /\ current = StateAt(yy_ch_buf, text, cp)
  /\ cp > text + 1 => last = <<6, text + 1>>

\* After a NUL, one of the client's or the first at the end of the buffer,
\* that follows such a token.
AfterNul(k) ==
  /\ k \in text + 1 .. yy_n_chars + 1
  /\ CharAt(yy_ch_buf, k - 1) = "nul" /\ Pending(yy_ch_buf, text, k - 1)

\* The state and the end of the token found are those that the rules say.
Decided ==
  /\ text < yy_n_chars /\ Found[1] \in {4, 5, 6, 7, 8, 12}
  /\ Found[2] = text + Rules!TokenOf(Remaining).length
  /\ Found[2] <= yy_n_chars
  /\ RuleOf(Action) = Rules!TokenOf(Remaining).rule

Place ==
  /\ pc = "match" => InToken \/ (current = 3 /\ AfterNul(cp))
  /\ pc = "end_of_buffer" => current = 3 /\ AfterNul(cp)
  /\ pc = "action" =>
       \/ current = 13 /\ last = <<3, cp - 1>> /\ AfterNul(cp - 1)
       \/ Decided

IInv == Types /\ Place

LEMMA InitTypes == Init => IInv
<1> SUFFICES ASSUME Init PROVE IInv
  OBVIOUS
<1>1. yy_n_chars = 0 /\ yy_ch_buf \in Seq(Rules!Class)
  BY DEF Init, yy_n_chars
<1>2. Types
  <2>1. input \in Seq(Rules!Class)
    BY ScannerAssumption DEF Init
  <2>2. <<1, 0>> \in (1 .. 13) \X Nat /\ 1 \in 1 .. 13
    BY SMT
  <2> QED BY <1>1, <2>1, <2>2, ScannerAssumption DEF Init, Types
<1>3. InToken
  BY <1>1, SMT DEF Init, InToken, Pending, StateAt
<1> QED BY <1>2, <1>3 DEF Init, IInv, Place

\* What remains is the rest of the buffer and then what was not read.
LEMMA RemainingKnown ==
  ASSUME Types
  PROVE  /\ Remaining \in Seq(Rules!Class)
         /\ Len(Remaining) = yy_n_chars - text + Len(input)
         /\ Len(Remaining) >= yy_n_chars - text
         /\ \A i \in 1 .. yy_n_chars - text : Remaining[i] = yy_ch_buf[text + i]
<1>1. /\ yy_ch_buf \in Seq(Rules!Class) /\ input \in Seq(Rules!Class)
      /\ text \in Nat /\ yy_n_chars \in Nat
      /\ text <= yy_n_chars /\ yy_n_chars <= Len(yy_ch_buf)
  <2>1. /\ yy_ch_buf \in Seq(Rules!Class) /\ input \in Seq(Rules!Class)
        /\ text \in Nat /\ text <= yy_n_chars
    BY DEF Types
  <2> QED BY <2>1, SMT DEF yy_n_chars
<1>2. Len(input) \in Nat
  BY <1>1
<1>3. Len(Remaining) = yy_n_chars - text + Len(input)
  BY <1>1, PieceThenMore DEF Remaining
<1>4. Len(Remaining) >= yy_n_chars - text
  BY <1>1, <1>2, <1>3, SMT
<1> QED BY <1>1, <1>3, <1>4, PieceThenMore DEF Remaining

\* In the middle of a token that has begun, the last accepting state seen is
\* that after its first character.
LEMMA SeenInToken ==
  ASSUME Types, InToken, current # 1
  PROVE  /\ cp > text
         /\ Accepting(current, cp)
              = <<IF current = 4 THEN 4 ELSE 6, text + 1>>
<1>1. text \in Nat /\ cp \in Nat /\ text <= cp
  BY DEF Types
<1>2. current = StateAt(yy_ch_buf, text, cp)
  BY DEF InToken
<1>3. current \in {4, 6, 9, 10, 11}
  BY <1>1, <1>2, StateAtType
<1>4. cp # text
  BY <1>2 DEF StateAt
<1>5. CASE current \in {4, 6}
  <2>1. cp = text + 1
    BY <1>1, <1>2, <1>4, <1>5, SMT DEF StateAt
  <2> QED BY <1>1, <1>4, <1>5, <2>1, Accepting13, SMT DEF Accepting
<1>6. CASE current \in {9, 10, 11}
  <2>1. cp > text + 1
    BY <1>1, <1>2, <1>4, <1>6, SMT DEF StateAt
  <2>2. last = <<6, text + 1>> /\ ~Accepts(current)
    BY <1>6, <2>1, Accepting13 DEF InToken
  <2> QED BY <1>1, <1>4, <1>6, <2>2, SMT DEF Accepting
<1> QED BY <1>3, <1>5, <1>6

LEMMA MatchKeeps ==
  ASSUME IInv, Match PROVE IInv'
<1> DEFINE c == CharAt(yy_ch_buf, cp)
<1>1. /\ pc = "match" /\ Types
      /\ yy_ch_buf \in Seq(Rules!Class) /\ yy_n_chars = Len(yy_ch_buf)
      /\ text \in Nat /\ cp \in Nat /\ text <= cp /\ yy_n_chars \in Nat
      /\ last \in (1 .. 13) \X Nat /\ current \in 1 .. 13
  <2>1. /\ pc = "match" /\ Types /\ yy_ch_buf \in Seq(Rules!Class)
        /\ text \in Nat /\ cp \in Nat /\ text <= cp
        /\ last \in (1 .. 13) \X Nat /\ current \in 1 .. 13
    BY DEF IInv, Types, Match
  <2>2. yy_n_chars = Len(yy_ch_buf) /\ yy_n_chars \in Nat
    BY <2>1, SMT DEF yy_n_chars
  <2> QED BY <2>1, <2>2
<1>2. c \in Rules!Class
  <2>1. "nul" \in Rules!Class
    BY DEF Rules!Class
  <2>2. cp < Len(yy_ch_buf) => yy_ch_buf[cp + 1] \in Rules!Class
    BY <1>1, SMT
  <2> QED BY <2>1, <2>2 DEF CharAt
<1>3. /\ last' = Accepting(current, cp) /\ current' = Move[current][yy_ec(c)]
      /\ cp' = cp + 1 /\ pc' = (IF Final(current') THEN "action" ELSE "match")
      /\ UNCHANGED <<input, yy_ch_buf, buf_size, status, text>>
  BY DEF Match, buffer
<1>4. yy_n_chars' = yy_n_chars /\ Remaining' = Remaining
  BY <1>3 DEF yy_n_chars, Remaining
<1>5. last' \in (1 .. 13) \X Nat
  BY <1>1, <1>3 DEF Accepting
<1>6. ASSUME cp' <= yy_n_chars + 2, current' \in 1 .. 13 PROVE Types'
  <2>1. cp' \in Nat /\ text <= cp'
    BY <1>1, <1>3, SMT
  <2> QED BY <1>1, <1>3, <1>4, <1>5, <1>6, <2>1 DEF Types
<1> HIDE DEF c
<1>7. CASE current = 3 /\ AfterNul(cp)
  <2>1. current' = 13 /\ pc' = "action"
    BY <1>2, <1>3, <1>7, MovesOn, Accepting13
  <2>2. last' = <<3, cp>> /\ cp = cp' - 1
    BY <1>1, <1>3, <1>7, Accepting13, SMT DEF Accepting
  <2>3. cp' <= yy_n_chars + 2
    BY <1>1, <1>3, <1>7, SMT DEF AfterNul
  <2>4. (AfterNul(cp - 1))'
    BY <1>3, <1>4, <1>7, <2>2 DEF AfterNul
  <2>5. Types'
    BY <1>6, <2>1, <2>3
  <2> QED BY <2>1, <2>2, <2>4, <2>5 DEF IInv, Place
<1>8. CASE InToken
  <2>1. /\ cp <= yy_n_chars /\ Pending(yy_ch_buf, text, cp)
        /\ current = StateAt(yy_ch_buf, text, cp)
    BY <1>8 DEF InToken
  <2>2. current \in {1, 4, 6, 9, 10, 11}
    BY <1>1, <2>1, StateAtType
  <2>3. cp' <= yy_n_chars + 2
    BY <1>1, <1>3, <2>1, SMT
  <2>4. CASE c = "nul"
    <3>1. current' = 3
      BY <1>2, <1>3, <2>2, <2>4, MovesOn
    <3>2. pc' = "match" /\ current' \in 1 .. 13
      BY <1>3, <3>1, Accepting13
    <3>3. cp' \in text + 1 .. yy_n_chars + 1 /\ cp' - 1 = cp
      BY <1>1, <1>3, <2>1, SMT
    <3>4. (AfterNul(cp))'
      BY <1>3, <1>4, <2>1, <2>4, <3>3 DEF AfterNul, c
    <3>5. Types'
      BY <1>6, <2>3, <3>2
    <3> QED BY <3>1, <3>2, <3>4, <3>5 DEF IInv, Place
  <2>5. CASE c # "nul"
    <3>1. cp < Len(yy_ch_buf) /\ c = yy_ch_buf[cp + 1]
      BY <2>5 DEF CharAt, c
    <3>2. current' = Move[StateAt(yy_ch_buf, text, cp)][Column(yy_ch_buf[cp + 1])]
      <4>1. yy_ec(c) = Column(c)
        BY <1>2, <2>5, Columns
      <4> QED BY <1>3, <2>1, <3>1, <4>1
    <3>3. /\ Remaining \in Seq(Rules!Class)
          /\ Len(Remaining) >= Len(yy_ch_buf) - text
          /\ \A i \in 1 .. Len(yy_ch_buf) - text :
               Remaining[i] = yy_ch_buf[text + i]
      BY <1>1, RemainingKnown
    <3>4. Decides(current', Remaining, text, cp)
      <4>1. ASSUME NEW q,
                   q = Move[StateAt(yy_ch_buf, text, cp)][Column(yy_ch_buf[cp + 1])]
            PROVE  Decides(q, Remaining, text, cp)
        BY <1>1, <2>1, <3>1, <3>3, <4>1, TokenDecided
      <4> QED BY <3>2, <4>1
    <3>5. cp' <= yy_n_chars /\ text < yy_n_chars
      BY <1>1, <1>3, <3>1, SMT
    <3>6. Types'
      <4>1. current' \in 1 .. 13
        BY <3>4, SMT DEF Decides
      <4> QED BY <1>6, <2>3, <4>1
    <3>7. CASE current' \in {6, 9, 10, 11}
      <4>1. /\ Pending(yy_ch_buf, text, cp + 1)
            /\ StateAt(yy_ch_buf, text, cp + 1) = current'
        BY <1>1, <2>1, <3>1, <3>2, <3>7, PendingAfter
      <4>2. pc' = "match"
        BY <1>3, <3>7, Accepting13
      <4>3. cp' > text + 1 => last' = <<6, text + 1>>
        <5>1. cp' > text + 1 => current # 1
          <6>1. cp' > text + 1 => cp # text
            BY <1>1, <1>3, SMT
          <6> QED BY <1>1, <2>1, <6>1, SMT DEF StateAt
        <5>2. current # 4
          BY <1>2, <1>3, <2>5, <3>7, Columns, MovesOn
        <5> QED BY <1>1, <1>3, <1>8, <5>1, <5>2, SeenInToken
      <4>4. InToken'
        BY <1>3, <1>4, <3>5, <4>1, <4>3 DEF InToken
      <4> QED BY <3>6, <4>2, <4>4 DEF IInv, Place
    <3>8. CASE current' \in {4, 5, 7, 8, 12}
      <4>1. pc' = "action"
        BY <1>3, <3>8, Accepting13
      <4>2. Found' = <<current', cp'>>
        BY <3>8, Accepting13 DEF Found
      <4>3. cp' = text + Rules!TokenOf(Remaining).length
        BY <1>1, <1>3, <3>4, <3>8, SMT DEF Decides
      <4>4. RuleOf(At(yy_accept, current')) = Rules!TokenOf(Remaining).rule
        BY <3>4, <3>8, Accepting13 DEF Decides
      <4>5. Decided'
        BY <1>3, <1>4, <3>5, <3>8, <4>2, <4>3, <4>4 DEF Decided, Action
      <4> QED BY <3>6, <4>1, <4>5 DEF IInv, Place
    <3>9. CASE current' = 13
      <4>1. pc' = "action" /\ Found' = last'
        BY <1>3, <3>9, Accepting13 DEF Found
      <4>2. current # 1
        <5>1. current = 1 => current' # 13
          BY <1>2, <1>3, <2>5, Columns, MovesOn
        <5> QED BY <3>9, <5>1
      <4>3. last' = <<IF current = 4 THEN 4 ELSE 6, text + 1>>
        BY <1>1, <1>3, <1>8, <4>2, SeenInToken
      <4>4. Decided'
        <5>1. text + 1 <= yy_n_chars
          BY <1>1, <3>5, SMT
        <5>2. RuleOf(At(yy_accept, IF current = 4 THEN 4 ELSE 6)) = "invalid"
          BY Accepting13
        <5> QED BY <1>3, <1>4, <3>4, <3>5, <3>9, <4>1, <4>3, <5>1, <5>2
                DEF Decided, Decides, Action
      <4> QED BY <3>6, <4>1, <4>4 DEF IInv, Place
    <3> QED BY <3>4, <3>7, <3>8, <3>9 DEF Decides
  <2> QED BY <2>4, <2>5
<1> QED BY <1>1, <1>7, <1>8 DEF IInv, Place

LEMMA DeliverKeeps ==
  ASSUME IInv, Deliver
  PROVE  IInv' /\ Decided
<1>1. Types /\ pc = "action" /\ Action # YY_END_OF_BUFFER
  BY DEF IInv, Deliver
<1>2. Decided
  <2>1. CASE current = 13 /\ last = <<3, cp - 1>>
    <3>1. Found = <<3, cp - 1>>
      BY <2>1, Accepting13 DEF Found
    <3>2. Action = YY_END_OF_BUFFER
      BY <3>1, Accepting13 DEF Action
    <3> QED BY <1>1, <3>2
  <2> QED BY <1>1, <2>1 DEF IInv, Place
<1>3. /\ text' = Found[2] /\ cp' = Found[2] /\ current' = 1 /\ pc' = "match"
      /\ UNCHANGED <<input, yy_ch_buf, buf_size, status, last>>
      /\ yy_n_chars' = yy_n_chars
  BY DEF Deliver, buffer, yy_n_chars
<1>4. /\ Found[2] \in Nat /\ Found[2] <= yy_n_chars
      /\ Found[2] <= yy_n_chars + 2 /\ Found[2] <= Found[2]
  <2>1. yy_n_chars \in Nat
    <3>1. yy_ch_buf \in Seq(Rules!Class)
      BY <1>1 DEF Types
    <3> QED BY <3>1 DEF yy_n_chars
  <2>2. Found[2] \in Nat
    <3>1. cp \in Nat /\ last[2] \in Nat
      BY <1>1 DEF Types
    <3>2. Found[2] = IF Accepts(current) THEN cp ELSE last[2]
      BY DEF Found
    <3> QED BY <3>1, <3>2
  <2>3. Found[2] <= yy_n_chars
    BY <1>2 DEF Decided
  <2> QED BY <2>1, <2>2, <2>3, SMT
<1>5. Types'
  <2>1. current' \in 1 .. 13
    BY <1>3, SMT
  <2> QED BY <1>1, <1>3, <1>4, <2>1 DEF Types
<1>6. InToken'
  <2>1. ~(cp' > text' + 1)
    BY <1>3, <1>4, SMT
  <2>2. StateAt(yy_ch_buf', text', cp') = 1 /\ Pending(yy_ch_buf', text', cp')
    BY <1>3 DEF StateAt, Pending
  <2> QED BY <1>3, <1>4, <2>1, <2>2 DEF InToken
<1> QED BY <1>2, <1>3, <1>5, <1>6 DEF IInv, Place

LEMMA AtNulKeeps ==
  ASSUME IInv, AtNul PROVE IInv'
<1>1. Types /\ pc = "action" /\ Action = YY_END_OF_BUFFER
  BY DEF IInv, AtNul
<1>2. current = 13 /\ last = <<3, cp - 1>> /\ AfterNul(cp - 1)
  <2>1. ~Decided
    BY <1>1, Accepting13 DEF Decided, Action
  <2> QED BY <1>1, <2>1 DEF IInv, Place
<1>3. Found = <<3, cp - 1>>
  BY <1>2, Accepting13 DEF Found
<1>4. /\ cp' = cp - 1 /\ current' = 3 /\ pc' = "end_of_buffer"
      /\ UNCHANGED <<input, yy_ch_buf, buf_size, text, last>>
      /\ status' = "eof_pending" => status = "eof_pending"
      /\ yy_n_chars' = yy_n_chars
  BY <1>3 DEF AtNul, yy_n_chars
<1>5. (AfterNul(cp))'
  BY <1>2, <1>4 DEF AfterNul
<1>6. Types'
  <2>1. cp - 1 \in text + 1 .. yy_n_chars + 1
    BY <1>2 DEF AfterNul
  <2>2. text \in Nat /\ yy_n_chars \in Int /\ cp \in Nat
    <3>1. text \in Nat /\ yy_ch_buf \in Seq(Rules!Class) /\ cp \in Nat
      BY <1>1 DEF Types
    <3> QED BY <3>1, SMT DEF yy_n_chars
  <2>3. cp' \in Nat /\ text <= cp' /\ cp' <= yy_n_chars + 2
    BY <1>4, <2>1, <2>2, SMT
  <2>4. current' \in 1 .. 13
    BY <1>4, SMT
  <2> QED BY <1>1, <1>4, <2>3, <2>4 DEF Types
<1> QED BY <1>4, <1>5, <1>6 DEF IInv, Place

LEMMA RealNulKeeps ==
  ASSUME IInv, RealNul PROVE IInv'
<1> DEFINE t == cp - 1
           p == StateAt(yy_ch_buf, text, t)
           q == Move[p][1]
           first == StateAt(yy_ch_buf, text, text + 1)
<1>1. /\ Types /\ pc = "end_of_buffer" /\ cp <= yy_n_chars
      /\ yy_ch_buf \in Seq(Rules!Class) /\ yy_n_chars = Len(yy_ch_buf)
      /\ text \in Nat /\ cp \in Nat /\ yy_n_chars \in Nat
      /\ last \in (1 .. 13) \X Nat
  <2>1. Types /\ pc = "end_of_buffer" /\ cp <= yy_n_chars
    BY DEF IInv, RealNul
  <2>2. /\ yy_ch_buf \in Seq(Rules!Class) /\ text \in Nat /\ cp \in Nat
        /\ last \in (1 .. 13) \X Nat
    BY <2>1 DEF Types
  <2> QED BY <2>1, <2>2, SMT DEF yy_n_chars
<1>2. t \in Nat /\ text <= t /\ t < Len(yy_ch_buf) /\ cp = t + 1
  <2>1. cp \in text + 1 .. yy_n_chars + 1
    BY <1>1 DEF IInv, Place, AfterNul
  <2> QED BY <1>1, <2>1, SMT
<1>3. Pending(yy_ch_buf, text, t) /\ yy_ch_buf[t + 1] = "nul"
  BY <1>1, <1>2 DEF IInv, Place, AfterNul, CharAt
<1> HIDE DEF t
<1>4. /\ UNCHANGED <<input, yy_ch_buf, buf_size, status, text>>
      /\ last' = IF t > text THEN <<first, text + 1>> ELSE last
      /\ q = 13 => current' = p /\ cp' = t /\ pc' = "action"
      /\ q # 13 => current' = q /\ cp' = cp /\ pc' = "match"
      /\ yy_n_chars' = yy_n_chars /\ Remaining' = Remaining
  <2> DEFINE f == States(yy_ch_buf, text, t)
  <2>1. f[t] = p
    <3>1. f = [k \in text .. t |-> StateAt(yy_ch_buf, text, k)]
      BY <1>1, <1>2, <1>3, StatesKnown
    <3>2. t \in text .. t
      BY <1>1, <1>2, SMT
    <3> HIDE DEF f
    <3> QED BY <3>1, <3>2
  <2>2. LastSeen(f, text, t) = IF t > text THEN <<first, text + 1>> ELSE last
    <3>1. t \in Int /\ t <= t /\ t <= Len(yy_ch_buf)
      BY <1>2, SMT
    <3> QED BY <1>1, <1>2, <1>3, <3>1, LastSeenKnown
  <2>3. /\ last' = LastSeen(f, text, t)
        /\ IF Move[f[t]][1] = Jam
             THEN current' = f[t] /\ cp' = t /\ pc' = "action"
             ELSE current' = Move[f[t]][1] /\ cp' = cp /\ pc' = "match"
        /\ UNCHANGED <<input, yy_ch_buf, buf_size, status, text>>
    BY DEF RealNul, buffer, t
  <2> HIDE DEF f, p
  <2> QED BY <2>1, <2>2, <2>3 DEF Jam, yy_n_chars, Remaining
<1>5. p \in {1, 4, 6, 9, 10, 11} /\ first \in {4, 6}
  <2>1. first \in {4, 6}
    BY <1>1, SMT DEF StateAt
  <2> QED BY <1>1, <1>2, <2>1, StateAtType
<1>6. q = Move[p][Column(yy_ch_buf[t + 1])]
  BY <1>3 DEF Column
<1>7. /\ p = 1 => q = 4
      /\ p \in {6, 9} => q = 9
      /\ p \in {4, 10, 11} => q = 13
  <2>1. "nul" \in Rules!Class /\ Column("nul") = 1
    BY DEF Rules!Class, Column
  <2> HIDE DEF p
  <2>2. /\ Move[1][1] = 4 /\ Move[4][1] = 13 /\ Move[6][1] = 9
        /\ Move[9][1] = 9 /\ Move[10][1] = 13 /\ Move[11][1] = 13
    BY <2>1, MovesOn
  <2> QED BY <2>2
\* After the first character the state was that after a NUL or a "$".
<1>8. p # 1 => t > text /\ (p = 4 => t = text + 1 /\ first = 4)
                        /\ (p # 4 => first = 6)
                        /\ (p = 6 => t = text + 1)
  <2>1. p # 1 => t > text
    <3>1. p # 1 => t # text
      BY DEF StateAt
    <3> QED BY <1>1, <1>2, <3>1, SMT
  <2>2. p \in {4, 6} => t = text + 1
    BY <1>1, <1>2, SMT DEF StateAt
  <2>3. p \notin {1, 4} => yy_ch_buf[text + 1] # "nul"
    <3>1. CASE p = 6
      BY <2>2, <3>1, SMT DEF StateAt
    <3>2. CASE p \in {9, 10, 11}
      <4>1. t > text + 1
        BY <1>1, <1>2, <3>2, SMT DEF StateAt
      <4>2. yy_ch_buf[text + 1] = "$"
        BY <1>1, <1>2, <1>3, <4>1, SMT DEF Pending
      <4> QED BY <4>2
    <3> QED BY <1>5, <3>1, <3>2
  <2>4. first = IF yy_ch_buf[text + 1] = "nul" THEN 4 ELSE 6
    BY <1>1, SMT DEF StateAt
  <2> HIDE DEF first
  <2>5. p = 4 => first = 4
    <3>1. p = 4 => first = p
      BY <2>2 DEF first
    <3> QED BY <3>1
  <2> QED BY <2>1, <2>2, <2>3, <2>4, <2>5
<1>9. last' \in (1 .. 13) \X Nat
  <2>1. text + 1 \in Nat /\ first \in 1 .. 13
    BY <1>1, <1>5, SMT
  <2> HIDE DEF first
  <2> QED BY <1>1, <1>4, <2>1
<1>10. cp <= yy_n_chars + 2 /\ t <= yy_n_chars + 2 /\ text <= cp /\ text < yy_n_chars
  BY <1>1, <1>2, SMT
<1>11. CASE q = 13
  <2>1. Decides(13, Remaining, text, t)
    <3>1. /\ Remaining \in Seq(Rules!Class)
          /\ Len(Remaining) >= Len(yy_ch_buf) - text
          /\ \A i \in 1 .. Len(yy_ch_buf) - text :
               Remaining[i] = yy_ch_buf[text + i]
      BY <1>1, RemainingKnown
    <3>2. ASSUME NEW r, r = Move[StateAt(yy_ch_buf, text, t)][Column(yy_ch_buf[t + 1])]
          PROVE  Decides(r, Remaining, text, t)
      BY <1>1, <1>2, <1>3, <3>1, <3>2, TokenDecided
    <3> QED BY <1>6, <1>11, <3>2
  <2>2. Rules!TokenOf(Remaining) = [rule |-> "invalid", length |-> 1]
    BY <2>1 DEF Decides
  <2>3. p # 1 /\ p \in {4, 10, 11}
    BY <1>5, <1>7, <1>11
  <2>4. Found' = <<first, text + 1>>
    <3> HIDE DEF first, p, q
    <3>1. current' = p /\ cp' = t /\ last' = <<first, text + 1>>
      BY <1>4, <1>8, <1>11, <2>3
    <3>2. CASE p = 4
      BY <1>8, <3>1, <3>2, Accepting13 DEF Found
    <3>3. CASE p \in {10, 11}
      BY <3>1, <3>3, Accepting13 DEF Found
    <3> QED BY <2>3, <3>2, <3>3
  <2> HIDE DEF first, p, q
  <2>5. Decided'
    <3>1. text + 1 <= yy_n_chars
      BY <1>1, <1>10, SMT
    <3>2. RuleOf(At(yy_accept, first)) = "invalid"
      BY <1>5, Accepting13
    <3> QED BY <1>4, <1>5, <1>10, <2>2, <2>4, <3>1, <3>2 DEF Decided, Action
  <2>6. Types'
    <3>1. current' \in 1 .. 13
      BY <1>4, <1>5, <1>11, SMT
    <3> QED BY <1>1, <1>2, <1>4, <1>9, <1>10, <1>11, <3>1 DEF Types
  <2> QED BY <1>4, <1>11, <2>5, <2>6 DEF IInv, Place
<1>12. CASE q # 13
  <2>1. p \in {1, 6, 9} /\ q = IF p = 1 THEN 4 ELSE 9
    BY <1>5, <1>7, <1>12
  <2>2. /\ Pending(yy_ch_buf, text, t + 1)
        /\ StateAt(yy_ch_buf, text, t + 1) = q
    <3>1. ASSUME NEW r, r = Move[StateAt(yy_ch_buf, text, t)][Column(yy_ch_buf[t + 1])],
                 r \in {6, 9, 10, 11} \/ (r = 4 /\ yy_ch_buf[t + 1] = "nul")
          PROVE  /\ Pending(yy_ch_buf, text, t + 1)
                 /\ StateAt(yy_ch_buf, text, t + 1) = r
      BY <1>1, <1>2, <1>3, <3>1, PendingAfter
    <3>2. q \in {6, 9, 10, 11} \/ (q = 4 /\ yy_ch_buf[t + 1] = "nul")
      BY <1>3, <2>1
    <3> QED BY <1>6, <3>1, <3>2
  <2> HIDE DEF q
  <2>3. cp > text + 1 => last' = <<6, text + 1>>
    <3>1. cp > text + 1 => t > text
      BY <1>1, <1>2, SMT
    <3>2. t > text => p # 1
      <4>1. t > text => t # text
        BY <1>1, <1>2, SMT
      <4> QED BY <1>1, <1>2, <4>1, SMT DEF StateAt
    <3> HIDE DEF first, p
    <3> QED BY <1>4, <1>8, <2>1, <3>1, <3>2
  <2>4. InToken'
    BY <1>1, <1>2, <1>4, <1>12, <2>2, <2>3 DEF InToken
  <2>5. Types'
    <3>1. current' \in 1 .. 13
      BY <1>4, <1>12, <2>1, SMT
    <3> QED BY <1>1, <1>4, <1>9, <1>10, <1>12, <3>1 DEF Types
  <2> QED BY <1>4, <1>12, <2>4, <2>5 DEF IInv, Place
<1> QED BY <1>11, <1>12
-----------------------------------------------------------------------------
(***************************************************************************)
(* The end of the buffer.                                                  *)
(***************************************************************************)
LEMMA AtTheEnd ==
  ASSUME IInv, AtEnd
  PROVE  /\ Types /\ cp = yy_n_chars + 1
         /\ Matched \in Nat /\ Matched = yy_n_chars - text
         /\ text + Matched = yy_n_chars /\ Matched <= yy_n_chars
         /\ yy_n_chars \in Nat /\ yy_n_chars = Len(yy_ch_buf)
         /\ text \in Nat /\ text <= Len(yy_ch_buf)
         /\ yy_ch_buf \in Seq(Rules!Class) /\ input \in Seq(Rules!Class)
         /\ Pending(yy_ch_buf, text, yy_n_chars)
         /\ Kept = SubSeq(yy_ch_buf, text + 1, yy_n_chars)
         /\ Kept \in Seq(Rules!Class) /\ Len(Kept) = Matched
         /\ Remaining = Kept \o input
<1>1. Types /\ cp > yy_n_chars /\ AfterNul(cp)
  BY DEF IInv, Place, AtEnd
<1>2. /\ text \in Nat /\ cp \in Nat /\ text <= yy_n_chars
      /\ yy_ch_buf \in Seq(Rules!Class) /\ input \in Seq(Rules!Class)
  BY <1>1 DEF Types
<1>3. yy_n_chars \in Nat /\ yy_n_chars = Len(yy_ch_buf)
  BY <1>2, SMT DEF yy_n_chars
<1>4. cp = yy_n_chars + 1 /\ cp - 1 = yy_n_chars
  <2>1. cp \in text + 1 .. yy_n_chars + 1 /\ cp > yy_n_chars
    BY <1>1 DEF AfterNul
  <2> QED BY <1>2, <1>3, <2>1, SMT
<1>5. Pending(yy_ch_buf, text, yy_n_chars)
  BY <1>1, <1>4 DEF AfterNul
<1>6. /\ Matched \in Nat /\ Matched = yy_n_chars - text
      /\ text + Matched = yy_n_chars /\ Matched <= yy_n_chars
  BY <1>2, <1>3, <1>4, SMT DEF Matched
<1>7. Kept = SubSeq(yy_ch_buf, text + 1, yy_n_chars)
  BY <1>6 DEF Kept
<1>8. Kept \in Seq(Rules!Class) /\ Len(Kept) = Matched
  <2>1. yy_n_chars <= Len(yy_ch_buf)
    BY <1>3
  <2>2. /\ SubSeq(yy_ch_buf, text + 1, yy_n_chars) \in Seq(Rules!Class)
        /\ Len(SubSeq(yy_ch_buf, text + 1, yy_n_chars)) = yy_n_chars - text
    BY <1>2, <1>3, <2>1, PieceThenMore
  <2> QED BY <1>6, <1>7, <2>2
<1>9. text <= Len(yy_ch_buf)
  BY <1>2, <1>3
<1>10. Remaining = Kept \o input
  BY <1>7 DEF Remaining
<1> QED BY <1>1, <1>2, <1>3, <1>4, <1>5, <1>6, <1>7, <1>8, <1>9, <1>10

\* There is room to read at least one character, and no less than before.
LEMMA RoomLeft ==
  ASSUME IInv, AtEnd
  PROVE  /\ Room.size \in Nat /\ Room.size >= buf_size /\ Room.free > 0
         /\ Room.free = Room.size - Matched - 1
<1>1. /\ Matched \in Nat /\ Matched <= yy_n_chars /\ yy_n_chars \in Nat
      /\ buf_size \in Nat /\ buf_size > 1 /\ yy_n_chars <= buf_size
  BY AtTheEnd DEF Types
<1> DEFINE size == IF buf_size - Matched - 1 <= 0 THEN 2 * buf_size
                                                 ELSE buf_size
<1>2. size \in Nat /\ size >= buf_size /\ size - Matched - 1 > 0
  BY <1>1, SMT
<1>3. Room = [size |-> size, free |-> size - Matched - 1]
  BY DEF Room
<1> HIDE DEF size
<1> QED BY <1>2, <1>3

\* The token so far after the move, and the automaton as it was.
LEMMA MovedToStart ==
  ASSUME IInv, AtEnd, NEW more \in Seq(Rules!Class), NEW next,
         MoveToStart(more, next)
  PROVE  /\ yy_ch_buf' = Kept \o more /\ yy_ch_buf' \in Seq(Rules!Class)
         /\ Len(yy_ch_buf') = Matched + Len(more)
         /\ text' = 0 /\ cp' = Matched /\ pc' = next
         /\ Pending(yy_ch_buf', 0, Matched)
         /\ current' = StateAt(yy_ch_buf', 0, Matched)
         /\ last' \in (1 .. 13) \X Nat
         /\ Matched > 1 => last' = <<6, 1>>
<1> DEFINE b == Kept \o more
           n == Matched
<1>1. /\ yy_ch_buf' = b /\ text' = 0 /\ cp' = n /\ pc' = next
      /\ current' = States(b, 0, n)[n]
      /\ last' = LastSeen(States(b, 0, n), 0, n - 1)
  BY DEF MoveToStart
<1>2. n \in Nat /\ last \in (1 .. 13) \X Nat
  BY AtTheEnd DEF Types
<1>3. b \in Seq(Rules!Class) /\ Len(b) = n + Len(more) /\ n <= Len(b)
  <2>1. Kept \in Seq(Rules!Class) /\ Len(Kept) = n
    BY AtTheEnd
  <2>2. b \in Seq(Rules!Class) /\ Len(b) = n + Len(more) /\ Len(more) \in Nat
    BY <2>1, ConcatProperties, LenProperties
  <2> HIDE DEF b, n
  <2> QED BY <1>2, <2>2, SMT
<1>4. Pending(b, 0, n)
  <2>1. /\ yy_ch_buf \in Seq(Rules!Class) /\ text \in Nat /\ yy_n_chars \in Nat
        /\ text <= yy_n_chars /\ yy_n_chars <= Len(yy_ch_buf)
        /\ Pending(yy_ch_buf, text, yy_n_chars)
        /\ b = SubSeq(yy_ch_buf, text + 1, yy_n_chars) \o more
        /\ n = yy_n_chars - text
    <3>1. /\ yy_ch_buf \in Seq(Rules!Class) /\ text \in Nat
          /\ yy_n_chars \in Nat /\ yy_n_chars = Len(yy_ch_buf)
          /\ text <= Len(yy_ch_buf) /\ Pending(yy_ch_buf, text, yy_n_chars)
          /\ Kept = SubSeq(yy_ch_buf, text + 1, yy_n_chars)
          /\ Matched = yy_n_chars - text
      BY AtTheEnd
    <3>2. yy_n_chars <= Len(yy_ch_buf) /\ text <= yy_n_chars
      BY <3>1
    <3> QED BY <3>1, <3>2
  <2> HIDE DEF b, n
  <2> QED BY <2>1, PendingMoved
<1> HIDE DEF b, n
<1>5. States(b, 0, n) = [k \in 0 .. n |-> StateAt(b, 0, k)]
  <2>1. 0 \in Nat /\ 0 <= n
    BY <1>2
  <2> QED BY <1>2, <1>3, <1>4, <2>1, StatesKnown
<1>6. current' = StateAt(b, 0, n)
  <2>1. n \in 0 .. n
    BY <1>2
  <2> QED BY <1>1, <1>5, <2>1
<1>7. last' = IF n - 1 > 0 THEN <<StateAt(b, 0, 1), 1>> ELSE last
  <2>1. 0 \in Nat /\ 0 <= n /\ n - 1 \in Int /\ n - 1 <= n /\ 0 + 1 = 1
    BY <1>2, SMT
  <2> QED BY <1>1, <1>2, <1>3, <1>4, <2>1, LastSeenKnown
<1>8. StateAt(b, 0, 1) \in {4, 6}
  BY SMT DEF StateAt
<1>9. last' \in (1 .. 13) \X Nat
  <2>1. 4 \in 1 .. 13 /\ 6 \in 1 .. 13 /\ 1 \in Nat
    BY SMT
  <2> QED BY <1>2, <1>7, <1>8, <2>1
<1>10. n > 1 => last' = <<6, 1>>
  <2>1. n > 1 => n - 1 > 0 /\ b[1] = "$"
    BY <1>2, <1>4, SMT DEF Pending
  <2>2. b[1] = "$" => StateAt(b, 0, 1) = 6
    BY SMT DEF StateAt
  <2> QED BY <1>7, <2>1, <2>2
<1> QED BY <1>1, <1>3, <1>4, <1>6, <1>9, <1>10 DEF b, n

LEMMA RefillKeeps ==
  ASSUME IInv, Refill
  PROVE  IInv' /\ Remaining' = Remaining
<1>1. PICK n \in 1 .. Len(input) :
        /\ n <= Room.free
        /\ input' = SubSeq(input, n + 1, Len(input))
        /\ MoveToStart(SubSeq(input, 1, n), "match")
  BY DEF Refill
<1>2. AtEnd /\ buf_size' = Room.size /\ status' = status /\ status # "eof_pending"
  BY DEF Refill
<1> DEFINE more == SubSeq(input, 1, n)
<1>3. input \in Seq(Rules!Class) /\ Kept \in Seq(Rules!Class)
  BY <1>2, AtTheEnd
<1>4. /\ more \in Seq(Rules!Class) /\ input' \in Seq(Rules!Class)
      /\ more \o input' = input /\ Len(more) = n /\ n \in Nat
  <2>1. ASSUME NEW S, NEW s \in Seq(S), NEW k \in 1 .. Len(s)
        PROVE  /\ SubSeq(s, 1, k) \in Seq(S) /\ Len(SubSeq(s, 1, k)) = k
               /\ SubSeq(s, k + 1, Len(s)) \in Seq(S) /\ k \in Nat
               /\ SubSeq(s, 1, k) \o SubSeq(s, k + 1, Len(s)) = s
    <3>1. k \in Nat /\ SubSeq(s, 1, k) \in Seq(S) /\ Len(SubSeq(s, 1, k)) = k
      BY SMT
    <3>2. SubSeq(s, k + 1, Len(s)) \in Seq(S)
      BY SMT
    <3>3. /\ 1 \in 1 .. Len(s) + 1 /\ k \in 1 - 1 .. Len(s)
          /\ Len(s) \in k .. Len(s)
      BY SMT
    <3>4. SubSeq(s, 1, k) \o SubSeq(s, k + 1, Len(s)) = SubSeq(s, 1, Len(s))
      BY <3>3, ConcatAdjacentSubSeq
    <3> QED BY <3>1, <3>2, <3>4, SubSeqFull
  <2> QED BY <1>1, <1>3, <2>1
<1> HIDE DEF more
<1>5. MoveToStart(more, "match")
  BY <1>1 DEF more
<1>6. /\ yy_ch_buf' = Kept \o more /\ yy_ch_buf' \in Seq(Rules!Class)
      /\ Len(yy_ch_buf') = Matched + n
      /\ text' = 0 /\ cp' = Matched /\ pc' = "match"
      /\ Pending(yy_ch_buf', 0, Matched)
      /\ current' = StateAt(yy_ch_buf', 0, Matched)
      /\ last' \in (1 .. 13) \X Nat
      /\ Matched > 1 => last' = <<6, 1>>
  BY <1>2, <1>4, <1>5, MovedToStart
<1>7. /\ Matched \in Nat /\ buf_size \in Nat /\ buf_size > 1
      /\ Room.size \in Nat /\ Room.size >= buf_size
      /\ Room.free = Room.size - Matched - 1
  BY <1>2, AtTheEnd, RoomLeft DEF Types
<1>8. /\ Matched + n <= Room.size /\ Room.size > 1 /\ 0 <= Matched + n
      /\ Matched <= Matched + n /\ Matched <= Matched + n + 2 /\ 0 <= Matched
  BY <1>1, <1>4, <1>7, SMT
<1>9. current' \in 1 .. 13
  <2>1. current' \in {1, 4, 6, 9, 10, 11}
    BY <1>6, <1>7, StateAtType
  <2> QED BY <2>1, SMT
<1>10. Types'
  BY <1>2, <1>4, <1>6, <1>7, <1>8, <1>9 DEF Types, yy_n_chars
<1>11. InToken'
  <2>1. 0 + 1 = 1
    BY SMT
  <2> QED BY <1>6, <1>8, <2>1 DEF InToken, yy_n_chars
<1>12. Remaining' = Remaining
  <2>1. Remaining' = SubSeq(yy_ch_buf', 0 + 1, Len(yy_ch_buf')) \o input'
    BY <1>6 DEF Remaining, yy_n_chars
  <2>2. SubSeq(yy_ch_buf', 0 + 1, Len(yy_ch_buf')) = yy_ch_buf'
    <3>1. 0 + 1 = 1
      BY SMT
    <3>2. ASSUME NEW s \in Seq(Rules!Class) PROVE SubSeq(s, 1, Len(s)) = s
      BY SubSeqFull
    <3> QED BY <1>6, <3>1, <3>2
  <2>3. (Kept \o more) \o input' = Kept \o (more \o input')
    <3>1. ASSUME NEW s \in Seq(Rules!Class), NEW t \in Seq(Rules!Class),
                 NEW u \in Seq(Rules!Class)
          PROVE  (s \o t) \o u = s \o (t \o u)
      BY ConcatAssociative
    <3> QED BY <1>3, <1>4, <3>1
  <2>4. Remaining = Kept \o input
    BY <1>2, AtTheEnd
  <2> QED BY <1>4, <1>6, <2>1, <2>2, <2>3, <2>4
<1> QED BY <1>6, <1>10, <1>11, <1>12 DEF IInv, Place

LEMMA LastMatchKeeps ==
  ASSUME IInv, LastMatch
  PROVE  IInv' /\ Remaining' = Remaining
<1>1. /\ AtEnd /\ Matched > 0 /\ MoveToStart(<<>>, "action") /\ input' = input
      /\ status # "eof_pending" => input = <<>>
      /\ buf_size' = buf_size \/ buf_size' = Room.size
  BY DEF LastMatch
<1>2. /\ Types /\ Kept \in Seq(Rules!Class) /\ Len(Kept) = Matched
      /\ Matched \in Nat /\ Matched <= yy_n_chars /\ yy_n_chars \in Nat
      /\ Remaining = Kept \o input
  BY <1>1, AtTheEnd
<1>3. input = <<>>
  BY <1>1, <1>2 DEF Types
<1>4. Kept \o <<>> = Kept
  BY <1>2, ConcatEmptySeq
<1>5. /\ yy_ch_buf' = Kept /\ text' = 0 /\ cp' = Matched /\ pc' = "action"
      /\ Pending(Kept, 0, Matched) /\ current' = StateAt(Kept, 0, Matched)
      /\ last' \in (1 .. 13) \X Nat
      /\ Matched > 1 => last' = <<6, 1>>
  <2>1. <<>> \in Seq(Rules!Class)
    OBVIOUS
  <2> QED BY <1>1, <1>4, <2>1, MovedToStart
<1>6. /\ buf_size \in Nat /\ buf_size > 1 /\ yy_n_chars <= buf_size
      /\ Room.size \in Nat /\ Room.size >= buf_size
  BY <1>1, <1>2, RoomLeft DEF Types
<1>7. buf_size' \in Nat /\ buf_size' > 1 /\ Matched <= buf_size'
  <2>1. CASE buf_size' = buf_size
    BY <1>2, <1>6, <2>1, SMT
  <2>2. CASE buf_size' = Room.size
    BY <1>2, <1>6, <2>2, SMT
  <2> QED BY <1>1, <2>1, <2>2
<1>8. current' \in {4, 6, 9, 10, 11}
  <2>1. current' \in {1, 4, 6, 9, 10, 11}
    BY <1>2, <1>5, StateAtType
  <2>2. current' # 1
    BY <1>1, <1>2, <1>5, SMT DEF StateAt
  <2> QED BY <2>1, <2>2
<1>9. Types'
  <2>1. /\ 0 <= Matched /\ Matched <= Matched + 2 /\ current' \in 1 .. 13
    BY <1>2, <1>8, SMT
  <2> QED BY <1>1, <1>2, <1>3, <1>5, <1>7, <2>1 DEF Types, yy_n_chars
<1>10. Remaining' = Kept /\ Remaining = Kept
  <2>1. SubSeq(Kept, 1, Len(Kept)) = Kept
    BY <1>2, SubSeqFull
  <2>2. 0 + 1 = 1
    BY SMT
  <2>3. Remaining' = SubSeq(Kept, 0 + 1, Len(Kept)) \o <<>>
    BY <1>1, <1>3, <1>5 DEF Remaining, yy_n_chars
  <2> QED BY <1>2, <1>3, <1>4, <2>1, <2>2, <2>3
<1>11. Rules!TokenOf(Kept) = [rule |-> "invalid", length |-> 1]
  <2>1. Kept # <<>>
    BY <1>1, <1>2
  <2> QED BY <1>2, <1>5, <2>1, TokenOpen
<1>12. Found' = <<IF current' = 4 THEN 4 ELSE 6, 1>>
  <2>1. CASE current' \in {4, 6}
    <3>1. Matched = 1
      BY <1>1, <1>2, <1>5, <2>1, SMT DEF StateAt
    <3> QED BY <1>5, <2>1, <3>1, Accepting13 DEF Found
  <2>2. CASE current' \in {9, 10, 11}
    <3>1. Matched > 1
      BY <1>1, <1>2, <1>5, <2>2, SMT DEF StateAt
    <3> QED BY <1>5, <2>2, <3>1, Accepting13 DEF Found
  <2> QED BY <1>8, <2>1, <2>2
<1>13. Decided'
  <2>1. 1 = 0 + 1 /\ 1 <= Matched /\ 0 < Matched
    BY <1>1, <1>2, SMT
  <2>2. RuleOf(At(yy_accept, IF current' = 4 THEN 4 ELSE 6)) = "invalid"
    BY Accepting13
  <2>3. yy_n_chars' = Matched
    BY <1>2, <1>5 DEF yy_n_chars
  <2> QED BY <1>5, <1>10, <1>11, <1>12, <2>1, <2>2, <2>3 DEF Decided, Action
<1> QED BY <1>5, <1>9, <1>10, <1>13 DEF IInv, Place

LEMMA EndOfFileKeeps ==
  ASSUME IInv, EndOfFile
  PROVE  IInv' /\ Remaining' = Remaining
<1>1. /\ AtEnd /\ Matched = 0 /\ input' = input /\ pc' = "done"
      /\ status # "eof_pending" => input = <<>>
      /\ yy_ch_buf' = <<>> /\ text' = 0 /\ cp' = 0 /\ status' = "new"
      /\ UNCHANGED <<buf_size, current, last>>
  BY DEF EndOfFile
<1>2. Types /\ Kept \in Seq(Rules!Class) /\ Len(Kept) = 0 /\ Remaining = Kept \o input
  BY <1>1, AtTheEnd
<1>3. input = <<>> /\ Kept = <<>>
  BY <1>1, <1>2 DEF Types
<1>4. SubSeq(<<>>, 0 + 1, Len(<<>>)) = <<>> /\ <<>> \o <<>> = <<>>
  OBVIOUS
<1>5. Remaining' = Remaining
  BY <1>1, <1>2, <1>3, <1>4 DEF Remaining, yy_n_chars
<1>6. Types'
  <2>1. <<>> \in Seq(Rules!Class) /\ Len(<<>>) = 0 /\ 0 <= 0 /\ 0 <= 0 + 2 /\ 0 \in Nat
    BY SMT
  <2>2. buf_size \in Nat /\ buf_size > 1 /\ 0 <= buf_size
    <3>1. buf_size \in Nat /\ buf_size > 1
      BY <1>2 DEF Types
    <3> QED BY <3>1, SMT
  <2> QED BY <1>1, <1>2, <2>1, <2>2 DEF Types, yy_n_chars
<1> QED BY <1>1, <1>5, <1>6 DEF IInv, Place

\* The steps that leave the buffer and the token alone.
LEMMA StillKeeps ==
  ASSUME IInv, ReadFails \/ Ended \/ UNCHANGED vars
  PROVE  IInv' /\ Remaining' = Remaining /\ rule' = rule
<1>1. /\ UNCHANGED <<input, yy_ch_buf, buf_size, status, text, cp, current, last>>
      /\ rule' = rule /\ (pc' = pc \/ pc' = "dead")
  BY DEF ReadFails, Ended, vars, buffer
<1>2. /\ yy_n_chars' = yy_n_chars /\ Remaining' = Remaining /\ Found' = Found
      /\ Types'
  BY <1>1 DEF IInv, Types, yy_n_chars, Remaining, Found
<1>3. /\ InToken' = InToken /\ Decided' = Decided
      /\ (AfterNul(cp))' = AfterNul(cp) /\ (AfterNul(cp - 1))' = AfterNul(cp - 1)
  BY <1>1, <1>2 DEF InToken, Decided, AfterNul, Action
<1> QED BY <1>1, <1>2, <1>3 DEF IInv, Place
-----------------------------------------------------------------------------
(***************************************************************************)
(* The theorems.                                                           *)
(***************************************************************************)
LEMMA Inductive == IInv /\ [Next]_vars => IInv'
<1> SUFFICES ASSUME IInv, [Next]_vars PROVE IInv'
  OBVIOUS
<1>1. CASE Match
  BY <1>1, MatchKeeps
<1>2. CASE Deliver
  BY <1>2, DeliverKeeps
<1>3. CASE AtNul
  BY <1>3, AtNulKeeps
<1>4. CASE RealNul
  BY <1>4, RealNulKeeps
<1>5. CASE Refill
  BY <1>5, RefillKeeps
<1>6. CASE LastMatch
  BY <1>6, LastMatchKeeps
<1>7. CASE EndOfFile
  BY <1>7, EndOfFileKeeps
<1>8. CASE ReadFails \/ Ended \/ UNCHANGED vars
  BY <1>8, StillKeeps
<1> QED BY <1>1, <1>2, <1>3, <1>4, <1>5, <1>6, <1>7, <1>8 DEF Next

\* The place of the scanner in the buffer and in its token, as above, is an
\* invariant of every scan (scanner.c:689-1153).
THEOREM PlaceCorrect == Spec => []IInv
BY InitTypes, Inductive, PTL DEF Spec

\* Nothing is read past the second character that ends the buffer, the buffer
\* lies within what was allocated and always has room to read on, and the
\* automaton stays within its tables (scanner.c:741-758, 1003-1054,
\* 1087-1088), for every input and every way the reads cut it.
THEOREM BufferCorrect == Spec => []InBuffer
<1>1. IInv => InBuffer
  <2> SUFFICES ASSUME IInv PROVE InBuffer
    OBVIOUS
  <2>1. /\ text \in Nat /\ cp \in Nat /\ yy_n_chars \in Nat
        /\ text <= yy_n_chars /\ text <= cp /\ cp <= yy_n_chars + 2
        /\ current \in 1 .. 13 /\ last \in (1 .. 13) \X Nat
        /\ yy_n_chars <= buf_size
    <3>1. Types /\ yy_ch_buf \in Seq(Rules!Class)
      BY DEF IInv, Types
    <3>2. yy_n_chars \in Nat
      BY <3>1 DEF yy_n_chars
    <3> QED BY <3>1, <3>2 DEF Types
  <2>2. text \in 0 .. yy_n_chars /\ cp \in text .. yy_n_chars + 2
    BY <2>1, SMT
  <2>3. pc \in {"match", "end_of_buffer"} => cp <= yy_n_chars + 1
    <3>1. ASSUME InToken PROVE cp <= yy_n_chars + 1
      BY <2>1, <3>1, SMT DEF InToken
    <3>2. ASSUME AfterNul(cp) PROVE cp <= yy_n_chars + 1
      BY <2>1, <3>2, SMT DEF AfterNul
    <3> QED BY <3>1, <3>2 DEF IInv, Place
  <2>4. AtEnd => Room.free > 0
    BY RoomLeft
  <2> QED BY <2>1, <2>2, <2>3, <2>4 DEF InBuffer
<1> QED BY <1>1, PlaceCorrect, PTL

\* A read is made with no character in hand, after a NUL, or in the middle of
\* what may be a packet, and never after a whole token (scanner.l:56;
\* scanner.c:758).
THEOREM WaitsCorrect == Spec => []WaitsWhenOpen
<1>1. IInv => WaitsWhenOpen
  <2> SUFFICES ASSUME IInv, AtEnd
               PROVE  Kept \in {<<>>, <<"nul">>} \/ Rules!Open(Kept)
    BY DEF WaitsWhenOpen
  <2>1. /\ yy_ch_buf \in Seq(Rules!Class) /\ text \in Nat
        /\ yy_n_chars \in Nat /\ yy_n_chars = Len(yy_ch_buf)
        /\ text <= Len(yy_ch_buf) /\ Pending(yy_ch_buf, text, yy_n_chars)
        /\ Kept = SubSeq(yy_ch_buf, text + 1, yy_n_chars)
        /\ Kept \in Seq(Rules!Class) /\ Len(Kept) = yy_n_chars - text
    BY AtTheEnd
  <2>2. yy_n_chars <= Len(yy_ch_buf) /\ text <= yy_n_chars
    BY <2>1
  <2>3. <<>> \in Seq(Rules!Class) /\ Kept = Kept \o <<>>
    BY <2>1, ConcatEmptySeq
  <2>4. Pending(Kept, 0, Len(Kept))
    BY <2>1, <2>2, <2>3, PendingMoved
  <2>5. Kept # <<>> => Kept = <<"nul">> \/ Rules!Open(Kept)
    BY <2>1, <2>4, TokenOpen
  <2> QED BY <2>5
<1> QED BY <1>1, PlaceCorrect, PTL

\* The operators of the abstract specification are those of the rules.
LEMMA SameRules ==
  \A s : /\ Stream!TokenOf(s) = Rules!TokenOf(s)
         /\ \A n : Stream!Drop(s, n) = SubSeq(s, n + 1, Len(s))
<1>1. \A s : Stream!Stops(s) = Rules!Stops(s)
  BY DEF Stream!Stops, Rules!Stops
<1>2. \A s : Stream!Stop(s) = Rules!Stop(s)
  BY <1>1 DEF Stream!Stop, Rules!Stop
<1>3. \A s : Stream!PacketLength(s) = Rules!PacketLength(s)
  BY <1>2 DEF Stream!PacketLength, Rules!PacketLength
<1>4. \A s : Stream!Begun(s) = Rules!Begun(s)
  BY <1>1, <1>2, <1>3 DEF Stream!Begun, Rules!Begun
<1>5. \A s : Stream!PacketAhead(s) = Rules!PacketAhead(s)
  BY <1>1, <1>3, <1>4 DEF Stream!PacketAhead, Rules!PacketAhead
<1>6. \A c : Stream!Alone(c) = Rules!Alone(c)
  BY DEF Stream!Alone, Rules!Alone
<1>7. \A s : Stream!TokenOf(s) = Rules!TokenOf(s)
  BY <1>3, <1>5, <1>6 DEF Stream!TokenOf, Rules!TokenOf
<1> QED BY <1>7 DEF Stream!Drop

\* Taking a token from the buffer drops it from what remains.
LEMMA Dropped ==
  ASSUME NEW S, NEW buf \in Seq(S), NEW rest \in Seq(S), NEW n \in Nat,
         NEW from \in Nat, from + n <= Len(buf)
  PROVE  LET s == SubSeq(buf, from + 1, Len(buf)) \o rest
         IN SubSeq(s, n + 1, Len(s))
              = SubSeq(buf, from + n + 1, Len(buf)) \o rest
<1> DEFINE a == SubSeq(buf, from + 1, Len(buf))
           s == a \o rest
           b == SubSeq(buf, from + n + 1, Len(buf))
           t == SubSeq(s, n + 1, Len(s))
           u == b \o rest
<1>1. /\ Len(buf) \in Nat /\ Len(rest) \in Nat
      /\ Len(buf) - from - n \in Nat
  BY SMT
<1>2. /\ a \in Seq(S) /\ Len(a) = Len(buf) - from
      /\ \A i \in 1 .. Len(buf) - from : a[i] = buf[from + i]
  BY SMT
<1>3. /\ b \in Seq(S) /\ Len(b) = Len(buf) - from - n
      /\ \A i \in 1 .. Len(buf) - from - n : b[i] = buf[from + n + i]
  BY SMT
<1> HIDE DEF a, b
<1>4. /\ s \in Seq(S) /\ Len(s) = Len(a) + Len(rest)
      /\ \A i \in 1 .. Len(a) + Len(rest) :
           s[i] = IF i <= Len(a) THEN a[i] ELSE rest[i - Len(a)]
  BY <1>2, ConcatProperties
<1>5. /\ u \in Seq(S) /\ Len(u) = Len(b) + Len(rest)
      /\ \A i \in 1 .. Len(b) + Len(rest) :
           u[i] = IF i <= Len(b) THEN b[i] ELSE rest[i - Len(b)]
  BY <1>3, ConcatProperties
<1> HIDE DEF s, u
<1>6. /\ t \in Seq(S) /\ Len(t) = Len(s) - n
      /\ \A i \in 1 .. Len(s) - n : t[i] = s[n + i]
  <2>1. n <= Len(s)
    BY <1>1, <1>2, <1>4, SMT
  <2> QED BY <1>4, <2>1, SMT
<1> HIDE DEF t
<1>7. Len(t) = Len(u)
  BY <1>1, <1>2, <1>3, <1>4, <1>5, <1>6, SMT
<1>8. ASSUME NEW i \in 1 .. Len(t) PROVE t[i] = u[i]
  <2>1. t[i] = IF n + i <= Len(a) THEN a[n + i] ELSE rest[n + i - Len(a)]
    <3>1. i \in 1 .. Len(s) - n /\ n + i \in 1 .. Len(a) + Len(rest)
      BY <1>1, <1>2, <1>4, <1>6, SMT
    <3> QED BY <1>4, <1>6, <3>1
  <2>2. u[i] = IF i <= Len(b) THEN b[i] ELSE rest[i - Len(b)]
    BY <1>5, <1>7
  <2>3. CASE i <= Len(b)
    <3>1. /\ n + i <= Len(a) /\ n + i \in 1 .. Len(buf) - from
          /\ i \in 1 .. Len(buf) - from - n
          /\ from + (n + i) = from + n + i
      BY <1>1, <1>2, <1>3, <2>3, SMT
    <3> QED BY <1>2, <1>3, <2>1, <2>2, <2>3, <3>1
  <2>4. CASE ~(i <= Len(b))
    <3>1. ~(n + i <= Len(a)) /\ n + i - Len(a) = i - Len(b)
      BY <1>1, <1>2, <1>3, <2>4, SMT
    <3> QED BY <2>1, <2>2, <2>4, <3>1
  <2> QED BY <2>3, <2>4
<1>9. t = u
  BY <1>5, <1>6, <1>7, <1>8, SeqEqual
<1> QED BY <1>9 DEF a, b, s, t, u

\* The tokens are those of the rules, whatever the sizes of the reads and
\* wherever the end of the buffer, a NUL or the end of the input falls: the
\* scanner implements TokenStream.  Delivering a token takes the next one, and
\* every other step leaves what remains alone (scanner.c:689-1153).
THEOREM CutsCorrect == Spec => CutsByRules
<1>1. Init => Stream!Init
  <2> SUFFICES ASSUME Init PROVE Stream!Init
    OBVIOUS
  <2>1. input \in Inputs /\ yy_ch_buf = <<>> /\ text = 0 /\ rule = "none"
    BY DEF Init
  <2>2. input \in Seq(Rules!Class)
    BY <2>1, ScannerAssumption
  <2>3. SubSeq(<<>>, 0 + 1, Len(<<>>)) = <<>> /\ <<>> \o input = input
    BY <2>2, ConcatEmptySeq
  <2>4. Remaining = input
    BY <2>1, <2>3 DEF Remaining, yy_n_chars
  <2> QED BY <2>1, <2>4 DEF Stream!Init
<1>2. IInv /\ [Next]_vars => [Stream!Next]_(Stream!vars)
  <2> SUFFICES ASSUME IInv, [Next]_vars PROVE [Stream!Next]_(Stream!vars)
    OBVIOUS
  <2>1. CASE Deliver
    <3>1. Decided /\ Types
      BY <2>1, DeliverKeeps DEF IInv
    <3>2. /\ rule' = RuleOf(Action) /\ text' = Found[2]
          /\ UNCHANGED <<input, yy_ch_buf>>
      BY <2>1 DEF Deliver, buffer
    <3> DEFINE n == Rules!TokenOf(Remaining).length
    <3>3. /\ text < yy_n_chars /\ Found[2] = text + n /\ Found[2] <= yy_n_chars
          /\ rule' = Rules!TokenOf(Remaining).rule
      BY <3>1, <3>2 DEF Decided
    <3>4. n \in Nat
      BY <3>1, RemainingKnown, TokenLength
    <3>5. /\ yy_ch_buf \in Seq(Rules!Class) /\ input \in Seq(Rules!Class)
          /\ text \in Nat /\ text + n <= Len(yy_ch_buf)
      BY <3>1, <3>3 DEF Types, yy_n_chars
    <3> HIDE DEF n
    <3>6. SubSeq(Remaining, n + 1, Len(Remaining))
            = SubSeq(yy_ch_buf, text + n + 1, Len(yy_ch_buf)) \o input
      BY <3>4, <3>5, Dropped DEF Remaining, yy_n_chars
    <3>7. Remaining' = SubSeq(yy_ch_buf, text + n + 1, Len(yy_ch_buf)) \o input
      BY <3>2, <3>3 DEF Remaining, yy_n_chars
    <3>8. Remaining # <<>>
      <4>1. Len(Remaining) >= yy_n_chars - text /\ yy_n_chars \in Nat
        BY <3>1, <3>5, RemainingKnown DEF yy_n_chars
      <4>2. Len(<<>>) = 0 /\ ~(0 >= yy_n_chars - text)
        BY <3>3, <3>5, <4>1, SMT
      <4> QED BY <4>1, <4>2
    <3>9. Stream!Take
      BY <3>3, <3>6, <3>7, <3>8, SameRules DEF Stream!Take, n
    <3> QED BY <3>9 DEF Stream!Next
  <2>2. CASE Match \/ AtNul \/ RealNul
    <3>1. UNCHANGED <<input, yy_ch_buf, text, rule>>
      BY <2>2 DEF Match, AtNul, RealNul, buffer
    <3>2. Remaining' = Remaining
      BY <3>1 DEF Remaining, yy_n_chars
    <3> QED BY <3>1, <3>2 DEF Stream!vars
  <2>3. CASE Refill
    BY <2>3, RefillKeeps DEF Refill, Stream!vars
  <2>4. CASE LastMatch
    BY <2>4, LastMatchKeeps DEF LastMatch, Stream!vars
  <2>5. CASE EndOfFile
    BY <2>5, EndOfFileKeeps DEF EndOfFile, Stream!vars
  <2>6. CASE ReadFails \/ Ended \/ UNCHANGED vars
    BY <2>6, StillKeeps DEF Stream!vars
  <2> QED BY <2>1, <2>2, <2>3, <2>4, <2>5, <2>6 DEF Next
<1> QED BY <1>1, <1>2, PlaceCorrect, PTL DEF Spec, CutsByRules, Stream!Spec
=============================================================================
