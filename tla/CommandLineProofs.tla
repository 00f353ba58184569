------------------------- MODULE CommandLineProofs -------------------------
(***************************************************************************)
(* Proofs about the settings that the command line leaves, for any number  *)
(* of options and any size of the table of debugged files.                 *)
(***************************************************************************)
EXTENDS CommandLine, FiniteSetTheorems, TLAPS

(***************************************************************************)
(* The table.                                                              *)
(***************************************************************************)
Name(i) == debugged_files[i]

\* The table holds the first MaxFiles names that were given, and no others.
TableInv ==
  /\ given \in Seq(Files)
  /\ process # "overrun" =>
       nb_debugged_files = IF Len(given) <= MaxFiles THEN Len(given) ELSE MaxFiles
  /\ process # "overrun" =>
       \A k \in 0 .. nb_debugged_files - 1 :
         \E i \in 1 .. Len(given) : i <= MaxFiles /\ given[i] = Name(k)
  /\ process # "overrun" =>
       \A i \in 1 .. Len(given) :
         i <= MaxFiles => \E k \in 0 .. nb_debugged_files - 1 : given[i] = Name(k)

IndInv == TypeOK /\ OverrunOnlyFull /\ TracesAsked /\ TableInv

\* A set of naturals has a least element.
LEMMA LeastNatural ==
  ASSUME NEW T \in SUBSET Nat, T # {}
  PROVE  \E m \in T : \A n \in T : m <= n
<1> DEFINE Below(n) == 0 .. n - 1
           U == {Below(n) : n \in T}
<1>1. \A n \in Nat : IsFiniteSet(Below(n)) /\ Below(n) \in SUBSET Nat
  BY FS_Interval, SMT
<1>2. U \subseteq FiniteSubsetsOf(Nat) /\ U # {}
  <2> HIDE DEF Below
  <2> QED BY <1>1 DEF FiniteSubsetsOf
<1>3. PICK X \in U : \A Y \in U : ~(<<Y, X>> \in StrictSubsetOrdering(Nat))
  <2> HIDE DEF U
  <2> QED BY <1>2, FS_StrictSubsetOrderingWellFounded, WFMin
<1>4. PICK m \in T : X = Below(m)
  BY <1>3
<1>5. ASSUME NEW n \in T, n < m PROVE FALSE
  <2>1. Below(n) \in SUBSET Below(m) /\ Below(n) # Below(m)
    <3>1. n \in Nat /\ m \in Nat
      OBVIOUS
    <3>2. n \in Below(m) /\ n \notin Below(n)
      BY <1>5, <3>1, SMT
    <3>3. \A k \in Below(n) : k \in Below(m)
      BY <1>5, <3>1, SMT
    <3> QED BY <3>2, <3>3
  <2>2. Below(n) \in U /\ Below(n) \in SUBSET Nat /\ Below(m) \in SUBSET Nat
    BY <1>1
  <2> HIDE DEF Below, U
  <2>3. <<Below(n), X>> \in StrictSubsetOrdering(Nat)
    BY <1>4, <2>1, <2>2 DEF StrictSubsetOrdering
  <2> QED BY <1>3, <2>2, <2>3
<1> QED
  <2>1. ASSUME NEW n \in T PROVE m <= n
    BY <1>5, SMT
  <2> QED BY <2>1

\* The slots in use and the one behind them.
LEMMA Bounds ==
  ASSUME TypeOK
  PROVE  /\ MaxFiles \in Nat /\ MaxFiles > 0
         /\ nb_debugged_files \in Nat /\ nb_debugged_files <= MaxFiles
         /\ \A k \in 0 .. nb_debugged_files - 1 : k \in Slot /\ k \in Nat
<1>1. MaxFiles \in Nat /\ MaxFiles > 0
  BY ArgumentAssumption, SMT
<1>2. nb_debugged_files \in 0 .. MaxFiles
  BY DEF TypeOK
<1>3. nb_debugged_files \in Nat /\ nb_debugged_files <= MaxFiles
  BY <1>1, <1>2, SMT
<1>4. \A k \in 0 .. nb_debugged_files - 1 : k \in Slot /\ k \in Nat
  BY <1>1, <1>3, SMT DEF Slot
<1> QED BY <1>1, <1>3, <1>4

\* In a sorted table, every name before the place comes before the new one,
\* and every name from it on does not (debug.c:35-38).
LEMMA PlaceFound ==
  ASSUME TypeOK, NEW name \in Argument
  PROVE  LET i == Place(name)
         IN /\ i \in 0 .. nb_debugged_files
            /\ i = nb_debugged_files \/ Name(i) >= name
            /\ \A j \in 0 .. i - 1 : Name(j) < name
<1> DEFINE nb == nb_debugged_files
           Stops(i) == i = nb \/ Name(i) >= name
           T == {i \in 0 .. nb : Stops(i)}
           Is(i) == Stops(i) /\ \A j \in 0 .. i - 1 : Name(j) < name
<1>1. nb \in Nat
  BY Bounds
<1>2. T \in SUBSET Nat /\ T # {}
  <2>1. nb \in T
    BY <1>1, SMT
  <2> QED BY <1>1, <2>1, SMT
<1>3. PICK m \in T : \A n \in T : m <= n
  BY <1>2, LeastNatural
<1>4. ASSUME NEW j \in 0 .. m - 1 PROVE Name(j) < name
  <2>0. m \in 0 .. nb
    BY <1>3
  <2>1. j \in 0 .. nb /\ j < m /\ m \in Nat /\ j \in Nat
    BY <1>1, <1>4, <2>0, SMT
  <2>2. j \notin T
    BY <1>3, <2>1, SMT
  <2>3. j \in 0 .. nb - 1 /\ ~(Name(j) >= name)
    BY <1>1, <1>3, <2>1, <2>2, SMT
  <2>4. j \in Slot
    BY <2>3, Bounds
  <2>5. debugged_files[j] \in Argument \union {0} /\ Argument \subseteq Nat
        /\ 0 \in Nat
    BY <2>4, ArgumentAssumption DEF TypeOK
  <2> HIDE DEF nb, T
  <2>6. Name(j) \in Nat /\ name \in Nat
    BY <2>5, Zenon DEF Name
  <2> HIDE DEF Name
  <2> QED BY <2>3, <2>6, SMT
<1>5. \E i \in 0 .. nb : Is(i)
  BY <1>3, <1>4
<1>6. Place(name) = CHOOSE i \in 0 .. nb : Is(i)
  BY DEF Place, Name
<1> HIDE DEF Is
<1>7. Place(name) \in 0 .. nb /\ Is(Place(name))
  BY <1>5, <1>6, Zenon
<1> QED BY <1>7 DEF Is
-----------------------------------------------------------------------------
(***************************************************************************)
(* The dichotomy.  Its function exists: what finds in windows of up to n   *)
(* steps tells what finds in those of n + 1.  An induction is a least      *)
(* counterexample here.                                                    *)
(***************************************************************************)
Middle(w) == (w[1] + w[2]) \div 2

\* One turn of the loop, where f answers for the window that remains.
Looked(f, w, name) ==
  IF w[1] < w[2]
    THEN IF Name(Middle(w)) < name THEN f[<<Middle(w) + 1, w[2]>>]
         ELSE IF Name(Middle(w)) > name THEN f[<<w[1], Middle(w) - 1>>]
         ELSE TRUE
    ELSE w[1] = w[2] /\ Name(w[1]) = name

Upto(n) == {w \in Window : w[2] - w[1] <= n}

\* The windows that remain are smaller, and their slots are of the table.
LEMMA Halves ==
  ASSUME NEW w \in Window, w[1] < w[2]
  PROVE  /\ w[1] \in Nat /\ w[2] \in Nat /\ w[2] < MaxFiles
         /\ Middle(w) \in w[1] .. w[2] - 1
         /\ <<Middle(w) + 1, w[2]>> \in Upto(w[2] - w[1] - 1)
         /\ <<w[1], Middle(w) - 1>> \in Upto(w[2] - w[1] - 1)
<1> DEFINE from == w[1]
           to == w[2]
           middle == Middle(w)
<1>1. from \in 0 .. MaxFiles /\ to \in -1 .. MaxFiles - 1 /\ MaxFiles \in Nat
  BY ArgumentAssumption DEF Window
<1>2. from \in Nat /\ to \in Nat /\ to < MaxFiles /\ from < to
  BY <1>1, SMT
<1>3. middle \in from .. to - 1
  BY <1>2, SMT DEF Middle
<1> HIDE DEF from, to, middle
<1>4. /\ middle + 1 \in 0 .. MaxFiles /\ middle - 1 \in -1 .. MaxFiles - 1
      /\ to - (middle + 1) <= to - from - 1 /\ middle - 1 - from <= to - from - 1
  BY <1>1, <1>2, <1>3, SMT
<1>5. /\ <<middle + 1, to>> \in Window /\ <<from, middle - 1>> \in Window
  BY <1>1, <1>4 DEF Window
<1>6. /\ <<middle + 1, to>> \in Upto(to - from - 1)
      /\ <<from, middle - 1>> \in Upto(to - from - 1)
  BY <1>4, <1>5 DEF Upto
<1> QED BY <1>2, <1>3, <1>6 DEF from, to, middle

Answers(f, n, name) ==
  f \in [Window -> BOOLEAN] /\ \A w \in Upto(n) : f[w] = Looked(f, w, name)

LEMMA AnswersNext ==
  ASSUME NEW n \in Nat, NEW name, NEW f, Answers(f, n, name)
  PROVE  Answers([w \in Window |-> Looked(f, w, name)], n + 1, name)
<1> DEFINE g == [w \in Window |-> Looked(f, w, name)]
<1>1. g \in [Window -> BOOLEAN]
  <2>1. ASSUME NEW w \in Window PROVE Looked(f, w, name) \in BOOLEAN
    <3>1. CASE w[1] < w[2]
      <4>1. /\ f[<<Middle(w) + 1, w[2]>>] \in BOOLEAN
            /\ f[<<w[1], Middle(w) - 1>>] \in BOOLEAN
        BY <3>1, Halves DEF Answers, Upto
      <4> QED BY <3>1, <4>1, Zenon DEF Looked
    <3>2. CASE ~(w[1] < w[2])
      BY <3>2, Zenon DEF Looked
    <3> QED BY <3>1, <3>2
  <2> QED BY <2>1
<1>2. ASSUME NEW w \in Upto(n) PROVE g[w] = f[w]
  BY <1>2 DEF Answers, Upto
<1>3. ASSUME NEW w \in Upto(n + 1) PROVE g[w] = Looked(g, w, name)
  <2>1. w \in Window /\ g[w] = Looked(f, w, name)
    BY <1>3 DEF Upto
  <2>2. CASE w[1] < w[2]
    <3>1. /\ <<Middle(w) + 1, w[2]>> \in Upto(n)
          /\ <<w[1], Middle(w) - 1>> \in Upto(n)
      <4>1. w[2] - w[1] <= n + 1
        BY <1>3 DEF Upto
      <4>2. w[1] \in Nat /\ w[2] \in Nat
        BY <2>1, <2>2, Halves
      <4>3. w[2] - w[1] - 1 <= n /\ w[2] - w[1] - 1 \in Int
        BY <4>1, <4>2, SMT
      <4>4. \A x \in Upto(w[2] - w[1] - 1) : x \in Upto(n)
        <5>1. SUFFICES ASSUME NEW x \in Window,
                              x[2] - x[1] <= w[2] - w[1] - 1
                       PROVE  x[2] - x[1] <= n
          BY DEF Upto
        <5>2. x[2] - x[1] \in Int
          BY ArgumentAssumption, SMT DEF Window
        <5> QED BY <4>3, <5>1, <5>2, SMT
      <4> QED BY <2>1, <2>2, <4>4, Halves
    <3>2. /\ g[<<Middle(w) + 1, w[2]>>] = f[<<Middle(w) + 1, w[2]>>]
          /\ g[<<w[1], Middle(w) - 1>>] = f[<<w[1], Middle(w) - 1>>]
      BY <1>2, <3>1
    <3> HIDE DEF g
    <3> QED BY <2>1, <2>2, <3>2, Zenon DEF Looked
  <2>3. CASE ~(w[1] < w[2])
    <3> HIDE DEF g
    <3> QED BY <2>1, <2>3, Zenon DEF Looked
  <2> QED BY <2>2, <2>3
<1> QED BY <1>1, <1>3 DEF Answers

LEMMA AnswersExist ==
  ASSUME NEW n \in Nat, NEW name
  PROVE  \E f : Answers(f, n, name)
<1> DEFINE T == {k \in Nat : ~ \E f : Answers(f, k, name)}
<1>1. ASSUME T # {} PROVE FALSE
  <2>1. PICK m \in T : \A k \in T : m <= k
    BY <1>1, LeastNatural
  <2>2. CASE m = 0
    <3> DEFINE f == [w \in Window |-> w[1] = w[2] /\ Name(w[1]) = name]
    <3>1. ASSUME NEW w \in Upto(0) PROVE f[w] = Looked(f, w, name)
      <4>1. w \in Window /\ ~(w[1] < w[2])
        <5>1. w \in Window /\ w[2] - w[1] <= 0
          BY <3>1 DEF Upto
        <5>2. w[1] \in Int /\ w[2] \in Int
          BY <5>1, ArgumentAssumption, SMT DEF Window
        <5> QED BY <5>1, <5>2, SMT
      <4>2. f[w] = (w[1] = w[2] /\ Name(w[1]) = name)
        BY <4>1
      <4> HIDE DEF f
      <4> QED BY <4>1, <4>2, Zenon DEF Looked
    <3>2. Answers(f, 0, name)
      BY <3>1 DEF Answers
    <3> QED BY <2>1, <2>2, <3>2
  <2>3. CASE m # 0
    <3>1. m - 1 \in Nat /\ ~(m <= m - 1) /\ (m - 1) + 1 = m
      BY <2>1, <2>3, SMT
    <3>2. PICK f : Answers(f, m - 1, name)
      BY <2>1, <3>1
    <3>3. Answers([w \in Window |-> Looked(f, w, name)], m, name)
      BY <3>1, <3>2, AnswersNext
    <3> QED BY <2>1, <3>3
  <2> QED BY <2>2, <2>3
<1> QED BY <1>1

\* What the dichotomy computes satisfies its own recursion.
LEMMA SearchUnfolds ==
  ASSUME NEW name
  PROVE  \E f : /\ f = [w \in Window |-> Looked(f, w, name)]
                /\ IsDebugged(name) = f[<<0, nb_debugged_files - 1>>]
<1> DEFINE Is(f) == f = [w \in Window |-> Looked(f, w, name)]
<1>1. \E f : Is(f)
  <2>1. MaxFiles \in Nat
    BY ArgumentAssumption
  <2>2. PICK f : Answers(f, MaxFiles, name)
    BY <2>1, AnswersExist
  <2>3. ASSUME NEW w \in Window PROVE w \in Upto(MaxFiles)
    <3>1. w[2] - w[1] <= MaxFiles
      BY ArgumentAssumption, SMT DEF Window
    <3> QED BY <3>1 DEF Upto
  <2>4. Is(f)
    BY <2>2, <2>3 DEF Answers
  <2> QED BY <2>4
<1>2. IsDebugged(name) = (CHOOSE f : Is(f))[<<0, nb_debugged_files - 1>>]
  BY Zenon DEF IsDebugged, Looked, Middle, Name
<1>3. Is(CHOOSE f : Is(f))
  <2> HIDE DEF Is
  <2> QED BY <1>1, Zenon
<1> QED BY <1>2, <1>3

\* In a sorted table, it finds what a window of slots in use holds
\* (debug.c:52-64).
LEMMA SearchFinds ==
  ASSUME TypeOK, NEW name \in Argument, NEW f,
         f = [w \in Window |-> Looked(f, w, name)]
  PROVE  \A w \in Window :
           w[2] < nb_debugged_files =>
             (f[w] <=> \E k \in w[1] .. w[2] : Name(k) = name)
<1> DEFINE nb == nb_debugged_files
           Finds(w) == f[w] <=> \E k \in w[1] .. w[2] : Name(k) = name
           T == {n \in Nat : \E w \in Window :
                   w[2] < nb /\ w[2] - w[1] = n /\ ~Finds(w)}
<1>1. \A w \in Window : w[1] \in Nat /\ w[2] \in Int
  BY ArgumentAssumption, SMT DEF Window
<1>2. \A w \in Window : f[w] = Looked(f, w, name)
  OBVIOUS
<1>3. ASSUME NEW w \in Window, w[2] < nb, ~(w[1] < w[2]) PROVE Finds(w)
  <2>1. f[w] <=> w[1] = w[2] /\ Name(w[1]) = name
    BY <1>2, <1>3 DEF Looked
  <2>2. CASE w[1] = w[2]
    <3>1. \A k : k \in w[1] .. w[2] <=> k = w[1]
      BY <1>1, <2>2, SMT
    <3> QED BY <2>1, <2>2, <3>1
  <2>3. CASE w[1] # w[2]
    <3>1. \A k : k \notin w[1] .. w[2]
      BY <1>1, <1>3, <2>3, SMT
    <3> QED BY <2>1, <2>3, <3>1
  <2> QED BY <2>2, <2>3
<1>4. ASSUME T # {} PROVE FALSE
  <2>1. PICK m \in T : \A n \in T : m <= n
    BY <1>4, LeastNatural
  <2>2. PICK w \in Window : w[2] < nb /\ w[2] - w[1] = m /\ ~Finds(w)
    BY <2>1
  <2>3. w[1] < w[2]
    BY <1>3, <2>2
  <2>4. /\ w[1] \in Nat /\ w[2] \in Nat /\ w[2] < MaxFiles
        /\ Middle(w) \in w[1] .. w[2] - 1
        /\ <<Middle(w) + 1, w[2]>> \in Upto(w[2] - w[1] - 1)
        /\ <<w[1], Middle(w) - 1>> \in Upto(w[2] - w[1] - 1)
    BY <2>3, Halves
  <2>5. ASSUME NEW x \in Upto(m - 1), x[2] < nb PROVE Finds(x)
    <3>1. x \in Window /\ x[2] - x[1] <= m - 1
      BY <2>5 DEF Upto
    <3>2. x[1] \in Nat /\ x[2] \in Int /\ m \in Nat
      BY <1>1, <2>1, <3>1
    <3>3. CASE x[1] < x[2]
      <4>1. x[2] - x[1] \in Nat /\ ~(m <= x[2] - x[1])
        BY <3>1, <3>2, <3>3, SMT
      <4>2. x[2] - x[1] \notin T
        BY <2>1, <4>1
      <4> QED BY <2>5, <3>1, <4>1, <4>2
    <3> QED BY <1>3, <2>5, <3>1, <3>3
  <2> DEFINE from == w[1]
             to == w[2]
             middle == Middle(w)
             left == <<from, middle - 1>>
             right == <<middle + 1, to>>
  <2>6. left \in Upto(m - 1) /\ right \in Upto(m - 1)
    BY <2>2, <2>4
  <2>7. /\ from \in Nat /\ to \in Nat /\ middle \in Nat /\ nb \in Nat
        /\ from <= middle /\ middle < to /\ to < nb
        /\ middle - 1 < nb
    BY <2>2, <2>4, Bounds, SMT
  <2>8. /\ f[left] <=> \E k \in from .. middle - 1 : Name(k) = name
        /\ f[right] <=> \E k \in middle + 1 .. to : Name(k) = name
    BY <2>2, <2>5, <2>6, <2>7
  <2>9. f[w] = IF Name(middle) < name THEN f[right]
               ELSE IF Name(middle) > name THEN f[left] ELSE TRUE
    BY <1>2, <2>3 DEF Looked
  <2>10. ~(f[w] <=> \E k \in from .. to : Name(k) = name)
    BY <2>2
  <2>11. \A k \in 0 .. nb - 1 : Name(k) \in Nat
    <3>1. /\ \A k \in 0 .. nb - 1 : k \in Slot
          /\ debugged_files \in [Slot -> Argument \union {0}]
          /\ Argument \subseteq Nat /\ 0 \in Nat
      BY Bounds, ArgumentAssumption DEF TypeOK
    <3> QED BY <3>1, Zenon DEF Name
  <2>12. \A i, j \in 0 .. nb - 1 : i < j => Name(i) <= Name(j)
    BY DEF TypeOK, Name
  <2>13. name \in Nat
    BY ArgumentAssumption
  <2> HIDE DEF from, to, middle, left, right, nb, Name
  <2>14. /\ \A k \in from .. to : k \in 0 .. nb - 1
         /\ middle \in 0 .. nb - 1 /\ middle \in from .. to
         /\ \A k \in from .. middle - 1 : k \in from .. to /\ k < middle
         /\ \A k \in middle + 1 .. to : k \in from .. to /\ k > middle
         /\ \A k \in from .. to : \/ k \in from .. middle - 1
                                  \/ k = middle \/ k \in middle + 1 .. to
    BY <2>7, SMT
  <2>15. CASE Name(middle) < name
    <3>1. \A k \in from .. middle - 1 : Name(k) <= Name(middle)
      BY <2>12, <2>14
    <3>2. \A k \in from .. middle - 1 : Name(k) # name
      BY <2>11, <2>13, <2>14, <2>15, <3>1, SMT
    <3>3. Name(middle) # name
      BY <2>11, <2>13, <2>14, <2>15, SMT
    <3> QED BY <2>8, <2>9, <2>10, <2>14, <2>15, <3>2, <3>3
  <2>16. CASE Name(middle) > name
    <3>1. \A k \in middle + 1 .. to : Name(middle) <= Name(k)
      BY <2>12, <2>14, SMT
    <3>2. \A k \in middle + 1 .. to : Name(k) # name
      BY <2>11, <2>13, <2>14, <2>16, <3>1, SMT
    <3>3. Name(middle) # name /\ ~(Name(middle) < name)
      BY <2>11, <2>13, <2>14, <2>16, SMT
    <3> QED BY <2>8, <2>9, <2>10, <2>14, <2>16, <3>2, <3>3
  <2>17. CASE ~(Name(middle) < name) /\ ~(Name(middle) > name)
    <3>1. Name(middle) = name
      BY <2>11, <2>13, <2>14, <2>17, SMT
    <3> QED BY <2>9, <2>10, <2>14, <2>17, <3>1
  <2> QED BY <2>15, <2>16, <2>17
<1>5. ASSUME NEW w \in Window, w[2] < nb PROVE Finds(w)
  <2>1. CASE w[1] < w[2]
    <3>1. w[2] - w[1] \in Nat
      BY <1>1, <2>1, SMT
    <3> QED BY <1>4, <1>5, <3>1
  <2> QED BY <1>3, <1>5, <2>1
<1> QED BY <1>5

\* The names that are found are those of the table.
LEMMA IsDebuggedCorrect ==
  ASSUME TypeOK, NEW name \in Argument
  PROVE  IsDebugged(name) <=>
           \E k \in 0 .. nb_debugged_files - 1 : Name(k) = name
<1> DEFINE whole == <<0, nb_debugged_files - 1>>
<1>1. PICK f : /\ f = [w \in Window |-> Looked(f, w, name)]
               /\ IsDebugged(name) = f[whole]
  BY SearchUnfolds
<1>2. whole \in Window /\ whole[1] = 0 /\ whole[2] = nb_debugged_files - 1
      /\ whole[2] < nb_debugged_files
  BY Bounds, SMT DEF Window
<1>3. f[whole] <=> \E k \in whole[1] .. whole[2] : Name(k) = name
  BY <1>1, <1>2, SearchFinds
<1> QED BY <1>1, <1>2, <1>3
-----------------------------------------------------------------------------
LEMMA InitIndInv == Init => IndInv
<1> SUFFICES ASSUME Init PROVE IndInv
  OBVIOUS
<1>1. TypeOK
  BY ArgumentAssumption, SMT DEF Init, TypeOK, Slot
<1>2. TableInv
  BY ArgumentAssumption, SMT DEF Init, TableInv
<1> QED
  BY <1>1, <1>2, SMT
     DEF Init, IndInv, OverrunOnlyFull, TracesAsked, MEMORY, REGISTERS,
         POSITION, STATES

\* An option that does not touch the table, and does not end in an overrun.
LEMMA OtherStep ==
  ASSUME IndInv, TypeOK', TracesAsked', UNCHANGED <<files, given>>,
         process = "parsing", process' # "overrun"
  PROVE  IndInv'
<1>1. TableInv'
  <2>1. /\ given' = given /\ debugged_files' = debugged_files
        /\ nb_debugged_files' = nb_debugged_files /\ process # "overrun"
    BY DEF files
  <2> QED BY <2>1 DEF IndInv, TableInv, Name
<1>2. OverrunOnlyFull'
  BY DEF OverrunOnlyFull
<1> QED BY <1>1, <1>2 DEF IndInv

\* What a step does to the trace is what it is asked to (trace.c:154-163).
LEMMA TraceStep ==
  ASSUME IndInv, NEW flags \in -1 .. 31 \union {MEMORY, REGISTERS, POSITION},
         TraceAdd(flags), asked' = asked \union {flags}
  PROVE  /\ TracesAsked' /\ states' \subseteq 0 .. 31
         /\ trace_flags' \subseteq {MEMORY, REGISTERS, STATES, POSITION}
<1> DEFINE flagged == {MEMORY, REGISTERS, POSITION}
           modes == 0 .. 31
<1>1. /\ trace_flags \ {STATES} = asked \intersect flagged
      /\ states = asked \intersect modes
      /\ STATES \in trace_flags <=> states # {}
      /\ trace_flags \subseteq flagged \union {STATES}
  BY DEF IndInv, TypeOK, TracesAsked
<1>2. STATES \notin flagged /\ \A f \in flagged : f \notin modes
  BY SMT DEF MEMORY, REGISTERS, POSITION, STATES
<1>3. /\ flags < 32 <=> flags \notin flagged
      /\ flags \in modes <=> flags < 32 /\ flags >= 0
  BY SMT DEF MEMORY, REGISTERS, POSITION
<1>4. CASE flags \in modes
  <2>1. /\ trace_flags' = trace_flags \union {STATES}
        /\ states' = states \union {flags}
    BY <1>3, <1>4 DEF TraceAdd
  <2>2. flags \notin flagged
    BY <1>3, <1>4
  <2> HIDE DEF flagged, modes
  <2>3. /\ trace_flags' \ {STATES} = asked' \intersect flagged
        /\ states' = asked' \intersect modes
        /\ STATES \in trace_flags' <=> states' # {}
        /\ trace_flags' \subseteq flagged \union {STATES}
    BY <1>1, <1>2, <1>4, <2>1, <2>2, Zenon
  <2> QED BY <2>3 DEF TracesAsked, flagged, modes
<1>5. CASE flags \notin modes /\ flags \notin flagged
  <2>1. trace_flags' = trace_flags /\ states' = states
    BY <1>3, <1>5 DEF TraceAdd, traces
  <2> HIDE DEF flagged, modes
  <2>3. /\ trace_flags' \ {STATES} = asked' \intersect flagged
        /\ states' = asked' \intersect modes
        /\ STATES \in trace_flags' <=> states' # {}
        /\ trace_flags' \subseteq flagged \union {STATES}
    BY <1>1, <1>5, <2>1
  <2> QED BY <2>3 DEF TracesAsked, flagged, modes
<1>6. CASE flags \in flagged
  <2>1. trace_flags' = trace_flags \union {flags} /\ states' = states
    BY <1>3, <1>6 DEF TraceAdd
  <2> HIDE DEF flagged, modes
  <2>3. /\ trace_flags' \ {STATES} = asked' \intersect flagged
        /\ states' = asked' \intersect modes
        /\ STATES \in trace_flags' <=> states' # {}
        /\ trace_flags' \subseteq flagged \union {STATES}
    BY <1>1, <1>2, <1>6, <2>1
  <2> QED BY <2>3 DEF TracesAsked, flagged, modes
<1> QED BY <1>4, <1>5, <1>6
\* A name is put into the table, passed over, or one too many.
LEMMA DebugStep == ASSUME IndInv, NEW name \in Files, Debug(name) PROVE IndInv'
<1> DEFINE nb == nb_debugged_files
           p == Place(name)
           n == Len(given)
<1>1. /\ process = "parsing" /\ AddDebugTo(name) /\ given' = Append(given, name)
      /\ UNCHANGED <<ports, trace_file, traces, asked>>
  BY DEF Debug, Parsing
<1>2. /\ MaxFiles \in Nat /\ MaxFiles > 0 /\ nb \in Nat /\ nb <= MaxFiles
      /\ \A k \in 0 .. nb - 1 : k \in Slot
  BY Bounds DEF IndInv
<1>3. name \in Argument /\ Argument \subseteq Nat /\ 0 \notin Argument
  BY ArgumentAssumption
<1>4. /\ p \in 0 .. nb /\ (p = nb \/ Name(p) >= name)
      /\ \A j \in 0 .. p - 1 : Name(j) < name
  BY <1>3, PlaceFound DEF IndInv
<1>5. /\ given \in Seq(Files) /\ n \in Nat
      /\ nb = IF n <= MaxFiles THEN n ELSE MaxFiles
      /\ \A k \in 0 .. nb - 1 :
           \E i \in 1 .. n : i <= MaxFiles /\ given[i] = Name(k)
      /\ \A i \in 1 .. n :
           i <= MaxFiles => \E k \in 0 .. nb - 1 : given[i] = Name(k)
  BY <1>1 DEF IndInv, TableInv
<1>6. /\ given' \in Seq(Files) /\ Len(given') = n + 1 /\ given'[n + 1] = name
      /\ \A i \in 1 .. n : given'[i] = given[i]
  BY <1>1, <1>5
<1>7. /\ gdb_port' = gdb_port /\ irq_port' = irq_port
      /\ trace_file' = trace_file /\ trace_flags' = trace_flags
      /\ states' = states /\ asked' = asked
  BY <1>1 DEF ports, traces
<1>8. TracesAsked'
  BY <1>7 DEF IndInv, TracesAsked
<1>9. \A k \in Slot : debugged_files[k] \in Nat
  <2>1. 0 \in Nat /\ debugged_files \in [Slot -> Argument \union {0}]
    BY DEF IndInv, TypeOK
  <2> QED BY <1>3, <2>1, Zenon
<1> HIDE DEF p, n
<1>10. CASE p >= MaxFiles
  <2>1. /\ process' = process /\ debugged_files' = debugged_files /\ nb' = nb
    BY <1>1, <1>10 DEF AddDebugTo, files, p
  <2>2. TypeOK'
    BY <1>7, <2>1 DEF IndInv, TypeOK
  <2>3. nb = MaxFiles /\ n >= MaxFiles
    BY <1>2, <1>4, <1>5, <1>10, SMT
  <2>4. nb' = IF n + 1 <= MaxFiles THEN n + 1 ELSE MaxFiles
    BY <1>2, <1>5, <2>1, <2>3, SMT
  <2>5. ASSUME NEW k \in 0 .. nb - 1
        PROVE  \E i \in 1 .. n + 1 : i <= MaxFiles /\ given'[i] = Name(k)
    <3>1. PICK i \in 1 .. n : i <= MaxFiles /\ given[i] = Name(k)
      BY <1>5
    <3>2. i \in 1 .. n + 1
      BY <1>5, SMT
    <3> QED BY <1>6, <3>1, <3>2
  <2>6. ASSUME NEW i \in 1 .. n + 1, i <= MaxFiles
        PROVE  \E k \in 0 .. nb - 1 : given'[i] = Name(k)
    <3>1. i \in 1 .. n
      BY <1>5, <2>3, <2>6, <1>2, SMT
    <3> QED BY <1>5, <1>6, <2>6, <3>1
  <2>7. TableInv'
    BY <1>6, <2>1, <2>4, <2>5, <2>6 DEF TableInv, Name
  <2> QED BY <1>1, <1>8, <2>1, <2>2, <2>7 DEF IndInv, OverrunOnlyFull
<1>11. CASE ~(p >= MaxFiles) /\ ~Fits
  <2>1. /\ process' = "overrun" /\ debugged_files' = debugged_files /\ nb' = nb
    BY <1>1, <1>11 DEF AddDebugTo, files, p
  <2>2. TypeOK'
    BY <1>7, <2>1 DEF IndInv, TypeOK
  <2>3. nb = MaxFiles /\ n >= MaxFiles /\ p \in 0 .. nb - 1 /\ p # nb
    BY <1>2, <1>4, <1>5, <1>11, SMT DEF Fits
  <2>4. PICK i \in 1 .. n : i <= MaxFiles /\ given[i] = Name(p)
    BY <1>5, <2>3
  <2>5. i \in 1 .. MaxFiles /\ given'[i] >= name /\ n + 1 > MaxFiles
    BY <1>2, <1>4, <1>5, <1>6, <2>3, <2>4, SMT
  <2>6. OverrunOnlyFull'
    BY <1>6, <2>5 DEF OverrunOnlyFull
  <2>7. TableInv'
    BY <1>6, <2>1 DEF TableInv
  <2> QED BY <1>8, <2>2, <2>6, <2>7 DEF IndInv
<1>12. CASE ~(p >= MaxFiles) /\ Fits
  <2>1. /\ process' = process /\ nb' = nb + 1
        /\ debugged_files' =
             [k \in Slot |-> CASE k < p \/ k > nb -> debugged_files[k]
                               [] k = p -> name
                               [] OTHER -> debugged_files[k - 1]]
    BY <1>1, <1>12 DEF AddDebugTo, p
  <2>2. nb < MaxFiles /\ n = nb /\ p \in Nat /\ p <= nb /\ nb \in Slot
    BY <1>2, <1>4, <1>5, <1>12, SMT DEF Fits, Slot
  <2>3. /\ \A k \in Slot : k \in Nat /\ k < MaxFiles
        /\ \A k \in 0 .. nb : k \in Slot
        /\ \A k \in Slot : k > 0 => k - 1 \in Slot
    BY <1>2, <2>2, SMT DEF Slot
  <2>4. /\ \A k \in Slot : k < p => debugged_files'[k] = debugged_files[k]
        /\ \A k \in Slot : k > nb => debugged_files'[k] = debugged_files[k]
        /\ debugged_files'[p] = name
        /\ \A k \in Slot :
             k > p /\ k <= nb => debugged_files'[k] = debugged_files[k - 1]
    BY <2>1, <2>2, <2>3, SMT
  <2>5. debugged_files' \in [Slot -> Argument \union {0}]
    <3>1. debugged_files \in [Slot -> Argument \union {0}]
      BY DEF IndInv, TypeOK
    <3>2. ASSUME NEW k \in Slot
          PROVE  debugged_files'[k] \in Argument \union {0}
      <4>1. CASE k < p \/ k > nb
        BY <2>4, <3>1, <4>1
      <4>2. CASE k = p
        BY <1>3, <2>4, <4>2
      <4>3. CASE k > p /\ k <= nb
        <5>1. k - 1 \in Slot
          BY <2>2, <2>3, <4>3, SMT
        <5> QED BY <2>4, <3>1, <4>3, <5>1
      <4> QED BY <1>2, <2>2, <2>3, <4>1, <4>2, <4>3, SMT
    <3> QED BY <2>1, <3>2
  <2>6. ASSUME NEW i \in 0 .. nb, NEW j \in 0 .. nb, i < j
        PROVE  debugged_files'[i] <= debugged_files'[j]
    <3>1. \A a, b \in 0 .. nb - 1 : a < b => Name(a) <= Name(b)
      BY DEF IndInv, TypeOK, Name
    <3>2. /\ i \in Slot /\ j \in Slot /\ i \in Nat /\ j \in Nat /\ name \in Nat
          /\ \A k \in Slot : Name(k) \in Nat
      BY <1>3, <1>9, <2>3 DEF Name
    <3>3. CASE j < p
      <4>1. i \in 0 .. nb - 1 /\ j \in 0 .. nb - 1 /\ i < p
        BY <1>2, <2>2, <2>6, <3>2, <3>3, SMT
      <4> QED BY <2>4, <2>6, <3>1, <3>2, <3>3, <4>1 DEF Name
    <3>4. CASE j = p
      <4>1. i \in 0 .. p - 1 /\ i < p
        BY <2>2, <2>6, <3>2, <3>4, SMT
      <4>2. debugged_files'[i] = Name(i) /\ Name(i) < name
        BY <1>4, <2>4, <3>2, <4>1 DEF Name
      <4> QED BY <2>4, <3>2, <3>4, <4>2, SMT
    <3>5. CASE j > p
      <4>1. debugged_files'[j] = Name(j - 1) /\ j - 1 \in 0 .. nb - 1
            /\ j - 1 \in Slot
        BY <1>2, <2>2, <2>3, <2>4, <2>6, <3>2, <3>5, SMT DEF Name
      <4>2. CASE i < p
        <5>1. (i \in 0 .. nb - 1 /\ i < j - 1) \/ i = j - 1
          BY <1>2, <2>2, <2>6, <3>2, <3>5, <4>2, SMT
        <5>2. debugged_files'[i] = Name(i)
          BY <2>4, <3>2, <4>2 DEF Name
        <5>3. Name(i) <= Name(j - 1)
          <6>1. CASE i = j - 1
            BY <3>2, <6>1, SMT
          <6>2. CASE i < j - 1
            BY <3>1, <4>1, <5>1, <6>2
          <6> QED BY <5>1, <6>1, <6>2
        <5> QED BY <4>1, <5>2, <5>3
      <4>3. CASE i = p
        <5>1. p # nb /\ p \in 0 .. nb - 1 /\ (p < j - 1 \/ p = j - 1)
              /\ p \in Slot
          BY <1>2, <2>2, <2>6, <3>2, <3>5, <4>1, SMT DEF Slot
        <5>2. Name(p) >= name /\ (p < j - 1 => Name(p) <= Name(j - 1))
          BY <1>4, <3>1, <4>1, <5>1
        <5>3. Name(j - 1) >= name
          BY <3>2, <4>1, <5>1, <5>2, SMT
        <5> QED BY <2>4, <3>2, <4>1, <4>3, <5>3, SMT
      <4>4. CASE i > p
        <5>1. i - 1 \in 0 .. nb - 1 /\ i - 1 < j - 1 /\ i <= nb
          BY <1>2, <2>2, <2>6, <3>2, <4>4, SMT
        <5>2. debugged_files'[i] = Name(i - 1)
          BY <2>4, <3>2, <4>4, <5>1 DEF Name
        <5> QED BY <3>1, <4>1, <5>1, <5>2
      <4> QED BY <2>2, <3>2, <4>2, <4>3, <4>4, SMT
    <3> QED BY <2>2, <3>2, <3>3, <3>4, <3>5, SMT
  <2>7. TypeOK'
    <3>1. nb' \in 0 .. MaxFiles /\ nb' - 1 = nb
      BY <1>2, <2>1, <2>2, SMT
    <3> QED BY <1>1, <1>7, <2>1, <2>5, <2>6, <3>1 DEF IndInv, TypeOK
  <2>8. ASSUME NEW k \in 0 .. nb
        PROVE  \E i \in 1 .. n + 1 : i <= MaxFiles /\ given'[i] = Name(k)'
    <3>0. k \in Slot /\ k \in Nat
      BY <2>3
    <3>1. CASE k = p
      <4>1. n + 1 \in 1 .. n + 1 /\ n + 1 <= MaxFiles
        BY <1>2, <1>5, <2>2, SMT
      <4> QED BY <1>6, <2>4, <3>1, <4>1 DEF Name
    <3>2. CASE k # p
      <4> DEFINE l == IF k < p THEN k ELSE k - 1
      <4>1. l \in 0 .. nb - 1 /\ debugged_files'[k] = Name(l)
        <5>1. CASE k < p
          BY <1>2, <2>2, <2>4, <3>0, <5>1, SMT DEF Name
        <5>2. CASE k > p /\ k <= nb
          BY <1>2, <2>2, <2>4, <3>0, <5>2, SMT DEF Name
        <5> QED BY <1>2, <2>2, <3>0, <3>2, <5>1, <5>2, SMT
      <4> HIDE DEF l
      <4>2. PICK i \in 1 .. n : i <= MaxFiles /\ given[i] = Name(l)
        BY <1>5, <4>1
      <4>3. i \in 1 .. n + 1
        BY <1>5, SMT
      <4> QED BY <1>6, <4>1, <4>2, <4>3 DEF Name
    <3> QED BY <3>1, <3>2
  <2>9. ASSUME NEW i \in 1 .. n + 1
        PROVE  \E k \in 0 .. nb : given'[i] = Name(k)'
    <3>1. CASE i = n + 1
      <4>1. p \in 0 .. nb
        BY <1>4
      <4> QED BY <1>6, <2>4, <3>1, <4>1 DEF Name
    <3>2. CASE i \in 1 .. n
      <4>1. i <= MaxFiles
        BY <1>2, <1>5, <2>2, <3>2, SMT
      <4>2. PICK l \in 0 .. nb - 1 : given[i] = Name(l)
        BY <1>5, <3>2, <4>1
      <4>3. CASE l < p
        <5>1. l \in 0 .. nb /\ debugged_files'[l] = Name(l)
          BY <1>2, <2>4, <4>3, SMT DEF Name
        <5> QED BY <1>6, <3>2, <4>2, <5>1 DEF Name
      <4>4. CASE ~(l < p)
        <5>1. l + 1 \in 0 .. nb /\ l + 1 > p /\ l + 1 <= nb /\ (l + 1) - 1 = l
          BY <1>2, <2>2, <4>4, SMT
        <5>2. debugged_files'[l + 1] = Name(l)
          BY <2>3, <2>4, <5>1 DEF Name
        <5> QED BY <1>6, <3>2, <4>2, <5>1, <5>2 DEF Name
      <4> QED BY <4>3, <4>4
    <3> QED BY <1>5, <3>1, <3>2, SMT
  <2>10. TableInv'
    <3>1. nb' - 1 = nb /\ nb' = IF n + 1 <= MaxFiles THEN n + 1 ELSE MaxFiles
      BY <1>2, <1>5, <2>1, <2>2, SMT
    <3> QED BY <1>6, <2>8, <2>9, <3>1 DEF TableInv
  <2> QED BY <1>1, <1>8, <2>1, <2>7, <2>10 DEF IndInv, OverrunOnlyFull
<1> QED BY <1>10, <1>11, <1>12
\* The port and the trace file of an option.
LEMMA SettingsStep ==
  ASSUME IndInv, NEW value \in Argument,
         GdbPort(value) \/ IrqPort(value) \/ TraceFile(value)
  PROVE  IndInv'
<1>1. Atoi[value] % Ports \in 0 .. Ports - 1
  <2>1. Atoi[value] \in Nat /\ Ports \in Nat /\ Ports > 0
    BY ArgumentAssumption, SMT
  <2>2. \A x \in Nat, y \in Nat : y > 0 => x % y \in 0 .. y - 1
    BY SMT
  <2> QED BY <2>1, <2>2
<1>2. /\ process = "parsing" /\ UNCHANGED <<traces, files, given>>
      /\ asked' = asked /\ process' \in {"parsing", "failed"}
  BY DEF GdbPort, IrqPort, TraceFile, Parsing
<1>3. /\ gdb_port' \in 0 .. Ports - 1 /\ irq_port' \in 0 .. Ports - 1
      /\ trace_file' \in (Argument \ Unwritable) \union {0}
  <2>1. /\ gdb_port \in 0 .. Ports - 1 /\ irq_port \in 0 .. Ports - 1
        /\ trace_file \in (Argument \ Unwritable) \union {0}
    BY DEF IndInv, TypeOK
  <2>2. CASE GdbPort(value)
    BY <1>1, <2>1, <2>2 DEF GdbPort
  <2>3. CASE IrqPort(value)
    BY <1>1, <2>1, <2>3 DEF IrqPort
  <2>4. CASE TraceFile(value)
    <3>1. /\ gdb_port' = gdb_port /\ irq_port' = irq_port
          /\ trace_file' \in {trace_file} \union ({value} \ Unwritable)
      BY <2>4 DEF TraceFile, ports
    <3> QED BY <2>1, <3>1
  <2> QED BY <2>2, <2>3, <2>4
<1>4. /\ trace_flags' = trace_flags /\ states' = states
      /\ debugged_files' = debugged_files
      /\ nb_debugged_files' = nb_debugged_files
  BY <1>2 DEF traces, files
<1>5. TypeOK'
  BY <1>2, <1>3, <1>4 DEF IndInv, TypeOK
<1>6. TracesAsked'
  BY <1>2, <1>4 DEF IndInv, TracesAsked
<1> QED BY <1>2, <1>5, <1>6, OtherStep

\* An option of the trace.
LEMMA TraceOptionStep ==
  ASSUME IndInv,
         \/ \E value \in Argument : TraceState(value)
         \/ \E flags \in {REGISTERS, MEMORY, POSITION} : Trace(flags)
  PROVE  IndInv'
<1>1. PICK flags \in -1 .. 31 \union {MEMORY, REGISTERS, POSITION} :
        TraceAdd(flags) /\ asked' = asked \union {flags}
  BY ArgumentAssumption DEF TraceState, Trace
<1>2. /\ process = "parsing" /\ process' = process
      /\ UNCHANGED <<ports, trace_file, files, given>>
  BY DEF TraceState, Trace, Parsing
<1>3. /\ gdb_port' = gdb_port /\ irq_port' = irq_port
      /\ trace_file' = trace_file /\ debugged_files' = debugged_files
      /\ nb_debugged_files' = nb_debugged_files
  BY <1>2 DEF ports, files
<1>4. /\ TracesAsked' /\ states' \subseteq 0 .. 31
      /\ trace_flags' \subseteq {MEMORY, REGISTERS, STATES, POSITION}
  BY <1>1, TraceStep
<1>5. TypeOK'
  BY <1>2, <1>3, <1>4 DEF IndInv, TypeOK
<1> QED BY <1>2, <1>4, <1>5, OtherStep

\* The options that end the reading.
LEMMA EndStep ==
  ASSUME IndInv, TraceStateShort \/ Help \/ Unrecognized \/ Started
  PROVE  IndInv'
<1>1. /\ process = "parsing"
      /\ process' \in {"started", "usage", "failed", "null name"}
      /\ UNCHANGED <<ports, trace_file, traces, files, asked, given>>
  BY DEF TraceStateShort, Help, Unrecognized, Started, Parsing
<1>2. TypeOK' /\ TracesAsked'
  BY <1>1 DEF ports, traces, files, IndInv, TypeOK, TracesAsked
<1> QED BY <1>1, <1>2, OtherStep

LEMMA NextIndInv == IndInv /\ [Next]_vars => IndInv'
<1> SUFFICES ASSUME IndInv, [Next]_vars PROVE IndInv'
  OBVIOUS
<1>1. ASSUME NEW value \in Argument,
             GdbPort(value) \/ IrqPort(value) \/ TraceFile(value)
      PROVE  IndInv'
  BY <1>1, SettingsStep
<1>2. ASSUME \/ \E value \in Argument : TraceState(value)
             \/ \E flags \in {REGISTERS, MEMORY, POSITION} : Trace(flags)
      PROVE  IndInv'
  BY <1>2, TraceOptionStep
<1>3. ASSUME NEW name \in Files, Debug(name) PROVE IndInv'
  BY <1>3, DebugStep
<1>4. CASE TraceStateShort \/ Help \/ Unrecognized \/ Started
  BY <1>4, EndStep
<1>5. CASE Ended \/ UNCHANGED vars
  <2>1. UNCHANGED vars
    BY <1>5 DEF Ended
  <2> QED BY <2>1 DEF vars, ports, traces, files, IndInv, TypeOK,
                      OverrunOnlyFull, TracesAsked, TableInv, Name
<1> QED BY <1>1, <1>2, <1>3, <1>4, <1>5 DEF Next
-----------------------------------------------------------------------------
(***************************************************************************)
(* Theorems.                                                               *)
(***************************************************************************)

LEMMA Inductive == Spec => []IndInv
BY InitIndInv, NextIndInv, PTL DEF Spec

\* Whatever the order of the names, the table of debugged files stays sorted
\* and within its bounds (debug.c:35-44).
THEOREM TypeCorrect == Spec => []TypeOK
<1>1. IndInv => TypeOK
  BY DEF IndInv
<1> QED BY <1>1, Inductive, PTL

\* The table is overrun only by one file more than it holds that does not
\* come after all of the others (debug.c:39-44).
THEOREM OverrunCorrect == Spec => []OverrunOnlyFull
<1>1. IndInv => OverrunOnlyFull
  BY DEF IndInv
<1> QED BY <1>1, Inductive, PTL

\* As long as the table is not overrun, the dichotomy finds exactly the first
\* MaxFiles names that were given (debug.c:32-65).
THEOREM FilesFoundCorrect == Spec => []FilesFound
<1>1. ASSUME IndInv PROVE FilesFound
  <2>1. ASSUME process # "overrun", NEW name \in Argument
        PROVE  IsDebugged(name) <=>
                 \E i \in 1 .. Len(given) : i <= MaxFiles /\ given[i] = name
    <3>1. IsDebugged(name) <=>
            \E k \in 0 .. nb_debugged_files - 1 : Name(k) = name
      BY <1>1, IsDebuggedCorrect DEF IndInv
    <3> QED BY <1>1, <2>1, <3>1 DEF IndInv, TableInv
  <2> QED BY <2>1 DEF FilesFound
<1> QED BY <1>1, Inductive, PTL

\* What is traced is what was asked for (trace.c:154-163).
THEOREM TracesCorrect == Spec => []TracesAsked
<1>1. IndInv => TracesAsked
  BY DEF IndInv
<1> QED BY <1>1, Inductive, PTL
=============================================================================
