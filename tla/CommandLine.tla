---------------------------- MODULE CommandLine ----------------------------
(***************************************************************************)
(* The command line of arm_simulator: the options main reads before it     *)
(* starts its threads, with the settings they leave for the others, the    *)
(* trace flags (trace.c) and the sorted table of the files whose debug     *)
(* messages are printed (debug.c).                                         *)
(*                                                                         *)
(* An argument is a number, and the order of the numbers is that of        *)
(* strcmp.  getopt_long takes the argument that follows for the value of   *)
(* an option that needs one, whatever it looks like.                       *)
(***************************************************************************)
EXTENDS Integers, Sequences

CONSTANTS
  Argument,      \* the values of options, 0 is none of them
  Atoi,          \* an argument as a decimal number
  ModeOf,        \* the number of the processor mode it names, -1 for none
  Unwritable,    \* the names of files that cannot be opened
  Ports,         \* the number of ports, 2^16
  MaxFiles,      \* MAX_FILES_NUMBER
  Files,         \* bound: the arguments that follow --debug
  MaxGiven       \* bound: the number of options --debug

ASSUME ArgumentAssumption ==
  /\ Argument \subseteq Nat \ {0} /\ Files \subseteq Argument
  /\ Unwritable \subseteq Argument
  /\ Atoi \in [Argument -> Nat] /\ ModeOf \in [Argument -> -1 .. 31]
  /\ Ports \in Nat \ {0} /\ MaxFiles \in Nat \ {0} /\ MaxGiven \in Nat

\* The flags of trace.h (STATE is a word of the language).
MEMORY == 32
REGISTERS == 64
STATES == 128
POSITION == 256

VARIABLES
  process,            \* "parsing", "started", or how it ends
  gdb_port, irq_port,
  trace_file,         \* 0 is the standard output
  trace_flags,        \* the flags that are set
  states,             \* the modes whose entry is 1
  debugged_files,     \* the table, 0 is a null pointer
  nb_debugged_files,
  asked,              \* history: the flags and the modes to trace
  given               \* history: the values of --debug

ports == <<gdb_port, irq_port>>
traces == <<trace_flags, states>>
files == <<debugged_files, nb_debugged_files>>
vars == <<process, ports, trace_file, traces, files, asked, given>>

Slot == 0 .. MaxFiles - 1

Init ==
  /\ process = "parsing" /\ gdb_port = 0 /\ irq_port = 0 /\ trace_file = 0
  /\ trace_flags = {} /\ states = {}
  /\ debugged_files = [i \in Slot |-> 0] /\ nb_debugged_files = 0
  /\ asked = {} /\ given = <<>>
-----------------------------------------------------------------------------
(***************************************************************************)
(* The table of debugged files.                                            *)
(***************************************************************************)

\* Where add_debug_to stops looking.
Place(name) ==
  CHOOSE i \in 0 .. nb_debugged_files :
    /\ i = nb_debugged_files \/ debugged_files[i] >= name
    /\ \A j \in 0 .. i - 1 : debugged_files[j] < name

\* A slip of Fits: the last slot is kept free.
FitsBelowLast == nb_debugged_files < MaxFiles - 1

\* The table has a slot for the last of the names to move to.
Fits == nb_debugged_files < MaxFiles

\* The limit is asked of the place alone: a full table takes no name at its
\* end, and one before it moves the last out of the table, which
\* AddressSanitizer notices.
AddDebugTo(name) ==
  LET i == Place(name)
  IN IF i >= MaxFiles THEN UNCHANGED <<process, files>>
     ELSE IF Fits
       THEN /\ debugged_files' =
                 [k \in Slot |->
                    CASE k < i \/ k > nb_debugged_files -> debugged_files[k]
                      [] k = i -> name
                      [] OTHER -> debugged_files[k - 1]]
            /\ nb_debugged_files' = nb_debugged_files + 1
            /\ UNCHANGED process
       ELSE process' = "overrun" /\ UNCHANGED files

\* The slots from one to another, none when the other is before.
Window == (0 .. MaxFiles) \X (-1 .. MaxFiles - 1)

\* A slip of IsDebugged: the last slot that remains is not looked at.
IsDebuggedOpen(name) ==
  LET Search[window \in Window] ==
        LET from == window[1]
            to == window[2]
            middle == (from + to) \div 2
            file == debugged_files[middle]
        IN IF from < to
             THEN IF file < name THEN Search[<<middle + 1, to>>]
                  ELSE IF file > name THEN Search[<<from, middle - 1>>]
                  ELSE TRUE
             ELSE FALSE
  IN Search[<<0, nb_debugged_files - 1>>]

\* __is_debugged, by dichotomy between two slots that may be those looked for.
IsDebugged(name) ==
  LET Search[window \in Window] ==
        LET from == window[1]
            to == window[2]
            middle == (from + to) \div 2
            file == debugged_files[middle]
        IN IF from < to
             THEN IF file < name THEN Search[<<middle + 1, to>>]
                  ELSE IF file > name THEN Search[<<from, middle - 1>>]
                  ELSE TRUE
             ELSE from = to /\ debugged_files[from] = name
  IN Search[<<0, nb_debugged_files - 1>>]
-----------------------------------------------------------------------------
(***************************************************************************)
(* The options.                                                            *)
(***************************************************************************)

TraceAdd(flags) ==
  IF flags < 32
    THEN IF flags >= 0
           THEN trace_flags' = trace_flags \union {STATES}
                /\ states' = states \union {flags}
           ELSE UNCHANGED traces
    ELSE trace_flags' = trace_flags \union {flags} /\ UNCHANGED states

Parsing == process = "parsing"

GdbPort(value) ==
  /\ Parsing /\ gdb_port' = Atoi[value] % Ports
  /\ UNCHANGED <<process, irq_port, trace_file, traces, files, asked, given>>

IrqPort(value) ==
  /\ Parsing /\ irq_port' = Atoi[value] % Ports
  /\ UNCHANGED <<process, gdb_port, trace_file, traces, files, asked, given>>

Help ==
  /\ Parsing /\ process' = "usage"
  /\ UNCHANGED <<ports, trace_file, traces, files, asked, given>>

TraceFile(value) ==
  /\ Parsing
  /\ IF value \in Unwritable
       THEN process' = "failed" /\ UNCHANGED trace_file
       ELSE trace_file' = value /\ UNCHANGED process
  /\ UNCHANGED <<ports, traces, files, asked, given>>

\* --trace-registers, --trace-memory and --trace-position.
Trace(flags) ==
  /\ Parsing /\ TraceAdd(flags) /\ asked' = asked \union {flags}
  /\ UNCHANGED <<process, ports, trace_file, files, given>>

\* The long option has a value, a name that is none of a mode is -1.
TraceState(value) ==
  /\ Parsing /\ TraceAdd(ModeOf[value])
  /\ asked' = asked \union {ModeOf[value]}
  /\ UNCHANGED <<process, ports, trace_file, files, given>>

\* The short one has none, and its null pointer is compared with the names.
TraceStateShort ==
  /\ Parsing /\ process' = "null name"
  /\ UNCHANGED <<ports, trace_file, traces, files, asked, given>>

Debug(value) ==
  /\ Parsing /\ Len(given) < MaxGiven
  /\ AddDebugTo(value) /\ given' = Append(given, value)
  /\ UNCHANGED <<ports, trace_file, traces, asked>>

\* An option that does not exist, or one whose value is missing at the end.
Unrecognized ==
  /\ Parsing /\ process' = "failed"
  /\ UNCHANGED <<ports, trace_file, traces, files, asked, given>>

\* No more options: the threads are started.
Started ==
  /\ Parsing /\ process' = "started"
  /\ UNCHANGED <<ports, trace_file, traces, files, asked, given>>

Ended == ~Parsing /\ UNCHANGED vars

Next ==
  \/ \E value \in Argument :
       \/ GdbPort(value) \/ IrqPort(value) \/ TraceFile(value)
       \/ TraceState(value)
  \/ Trace(REGISTERS) \/ Trace(MEMORY) \/ Trace(POSITION)
  \/ TraceStateShort \/ Help \/ Unrecognized \/ Started \/ Ended
  \/ \E value \in Files : Debug(value)

Spec == Init /\ [][Next]_vars
-----------------------------------------------------------------------------
(***************************************************************************)
(* Properties.                                                             *)
(***************************************************************************)

\* The settings have their types, and the table is sorted as far as it is
\* used.
TypeOK ==
  /\ process \in {"parsing", "started", "usage", "failed", "null name",
                 "overrun"}
  /\ gdb_port \in 0 .. Ports - 1 /\ irq_port \in 0 .. Ports - 1
  /\ trace_file \in (Argument \ Unwritable) \union {0}
  /\ trace_flags \subseteq {MEMORY, REGISTERS, STATES, POSITION}
  /\ states \subseteq 0 .. 31
  /\ debugged_files \in [Slot -> Argument \union {0}]
  /\ nb_debugged_files \in 0 .. MaxFiles
  /\ \A i, j \in 0 .. nb_debugged_files - 1 :
       i < j => debugged_files[i] <= debugged_files[j]

\* As long as the table is not overrun, the files that the dichotomy finds
\* are exactly the first MaxFiles that were given, in whatever order and
\* however often they were (debug.c:32-65).
FilesFound ==
  process # "overrun" =>
    \A name \in Argument :
      IsDebugged(name) <=>
        \E i \in 1 .. Len(given) : i <= MaxFiles /\ given[i] = name

\* The table is overrun only by one file more than it holds that does not
\* come after all of the others (debug.c:39-44).
OverrunOnlyFull ==
  process = "overrun" =>
    /\ Len(given) > MaxFiles
    /\ \E i \in 1 .. MaxFiles : given[i] >= given[Len(given)]

\* What is traced is what was asked for: neither is a flag taken for a mode
\* nor a name that is none for a mode (trace.c:154-163).
TracesAsked ==
  /\ trace_flags \ {STATES} = asked \intersect {MEMORY, REGISTERS, POSITION}
  /\ states = asked \intersect (0 .. 31)
  /\ STATES \in trace_flags <=> states # {}
=============================================================================
