----------------------------- MODULE LogRotation -----------------------------
(***************************************************************************)
(* StdLogFileRotating of stdLogFile.h: a log file that starts with the     *)
(* number of its day and moves to .0001, .0002, ... when a line of another *)
(* day is to be written.  Threads take the time of a line when they begin  *)
(* it and write it later, under the factory's mutex.  The program may stop *)
(* at any step and be started again.                                       *)
(***************************************************************************)
EXTENDS Naturals, FiniteSets

CONSTANTS
  Writers,        \* threads that log
  rotate_count,   \* how many old files are kept
  MaxDay          \* bound: the last day

\* The log itself is moved at least; for 0 the code has another class.
ASSUME RotateAssumption == rotate_count \in Nat \ {0}

Numbers == 0..rotate_count
Missing == [header |-> 0, days |-> {}, there |-> FALSE]

VARIABLES
  today,      \* the day by the clock
  files,      \* file 0 is the log, file i is .000i: its first line, its lines' days
  day_num,
  line,       \* per writer: the day of the line it is writing, 0 for none
  writer,     \* who has the mutex
  pc,         \* its next step: "check", "rename", "open", "header", "line",
              \* or "idle" if nobody has the mutex
  at,         \* the number of the file to be overwritten next
  late        \* a line is written, or was, after one of a later day

vars == <<today, files, day_num, line, writer, pc, at, late>>

Init ==
  /\ today = 1 /\ files = [i \in Numbers |-> Missing] /\ day_num = 0
  /\ line = [w \in Writers |-> 0]
  /\ writer = "none" /\ pc = "idle" /\ at = 0 /\ late = FALSE

Midnight ==
  /\ today < MaxDay /\ today' = today + 1
  /\ UNCHANGED <<files, day_num, line, writer, pc, at, late>>

\* StdLogProvider::start() takes the time.
Start(w) ==
  /\ line[w] = 0 /\ line' = [line EXCEPT ![w] = today]
  /\ UNCHANGED <<today, files, day_num, writer, pc, at, late>>

\* commit() -> sendToLog(), with the mutex; the first lines of writeToLog().
Write(w) ==
  /\ pc = "idle" /\ line[w] # 0
  /\ writer' = w
  /\ pc' = IF line[w] = day_num THEN "line" ELSE "check"
  /\ late' = (late \/ \E i \in Numbers : files[i].header > line[w])
  /\ UNCHANGED <<today, files, day_num, line, at>>

d == line[writer]
Step(p, q) == pc = p /\ pc' = q

\* readLastDayNumber(): the number in the first line of the file, 0 without one.
LastDayNumber == files[0].header

\* Fault: a file that has a day is taken for today's.
RotateUnknown ==
  /\ Step("check", IF LastDayNumber = 0 THEN "rename" ELSE "open")
  /\ day_num' = LastDayNumber /\ at' = rotate_count
  /\ UNCHANGED <<today, files, line, writer, late>>

\* The file is closed, the day number read again; another one means rotation.
Check ==
  /\ Step("check", IF LastDayNumber # d THEN "rename" ELSE "open")
  /\ day_num' = LastDayNumber /\ at' = rotate_count
  /\ UNCHANGED <<today, files, line, writer, late>>

\* doRotate(): one rename after the other from the oldest, the log itself last.
\* A file that is not there is not moved.
Rename ==
  /\ pc = "rename"
  /\ files' = IF files[at - 1].there
                THEN [files EXCEPT ![at] = files[at - 1], ![at - 1] = Missing] ELSE files
  /\ at' = at - 1 /\ pc' = IF at = 1 THEN "open" ELSE "rename"
  /\ UNCHANGED <<today, day_num, line, writer, late>>

\* The log is opened for appending, and made if need be ...
Open ==
  /\ Step("open", "header")
  /\ files' = [files EXCEPT ![0].there = TRUE]
  /\ UNCHANGED <<today, day_num, line, writer, at, late>>

\* ... the day is written, which is what readLastDayNumber() will find if the
\* file is new ...
Header ==
  /\ Step("header", "line")
  /\ files' = [files EXCEPT ![0].header = IF @ = 0 THEN d ELSE @]
  /\ UNCHANGED <<today, day_num, line, writer, at, late>>

\* ... and the line.
Line ==
  /\ Step("line", "idle")
  /\ files' = [files EXCEPT ![0].days = @ \cup {d}]
  /\ line' = [line EXCEPT ![writer] = 0] /\ writer' = "none"
  /\ UNCHANGED <<today, day_num, at, late>>

\* The program stops, and starts again: the constructor reads the day number.
Restart ==
  /\ writer' = "none" /\ pc' = "idle" /\ line' = [w \in Writers |-> 0]
  /\ day_num' = LastDayNumber
  /\ UNCHANGED <<today, files, at, late>>

Next ==
  \/ Midnight \/ Check \/ Rename \/ Open \/ Header \/ Line \/ Restart
  \/ \E w \in Writers : Start(w) \/ Write(w)

Spec == Init /\ [][Next]_vars

-----------------------------------------------------------------------------
\* A file that is not there has no lines; a step is a writer's, of its line.
TypeOK ==
  /\ today \in Nat /\ day_num \in Nat /\ at \in Nat /\ late \in BOOLEAN
  /\ files \in [Numbers -> [header : Nat, days : SUBSET Nat, there : BOOLEAN]]
  /\ line \in [Writers -> Nat]
  /\ pc \in {"idle", "check", "rename", "open", "header", "line"}
  /\ pc # "idle" => writer \in Writers /\ line[writer] # 0
  /\ pc = "rename" => at \in 1..rotate_count

\* As long as lines are written in the order of their days, a line is only in
\* a file that names its day, wherever the program was stopped before, an older
\* file has a higher number and a day is not split (stdLogFile.h:120, 151).
DaysApart == ~late =>
  /\ \A i \in Numbers : files[i].days \subseteq {files[i].header}
  /\ \A i, j \in Numbers :
       i < j /\ files[i].days # {} /\ files[j].days # {} => files[i].header > files[j].header

\* The same with a line of yesterday among those of today.  Not so: after it,
\* day_num is today while the log is yesterday's again, and the next line goes
\* there unchecked.
DaysApartAlways == \A i \in Numbers : files[i].days \subseteq {files[i].header}

\* The last rotate_count days stay.  Not so when the program stops between two
\* renames: the next rotation starts again and drops a file too many.
Kept == ~late => \A i \in 2..rotate_count :
  files[i].days # {} => \A j \in 1..(i - 1) : files[j].there
=============================================================================
