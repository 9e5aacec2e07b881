---------------------------- MODULE Shared_proofs ----------------------------
(***************************************************************************)
(* For any number of threads: that a log file holds the lines of its day,  *)
(* that no exit of a child is missed, and that what threads share by       *)
(* counting references lives as long as anybody refers to it.              *)
(***************************************************************************)
EXTENDS Shared, FiniteSetTheorems, SequenceTheorems, TLAPS

-----------------------------------------------------------------------------
(* The rotating log files. *)

\* Every file is older than `day`.
Older(day) == \A i \in Numbers : files[i].header < day

\* Files without a day have no lines, the others only lines of their day, and
\* are ordered by it.
FilesOrdered ==
  /\ \A i \in Numbers : ~files[i].there => files[i] = Missing
  /\ \A i \in Numbers : files[i].header = 0 => files[i].days = {}
  /\ \A i \in Numbers : files[i].days \subseteq {files[i].header}
  /\ \A i, j \in Numbers :
       i < j /\ files[i].header # 0 /\ files[j].header # 0 => files[i].header > files[j].header

\* No line is of tomorrow.  Between two lines day_num may be behind the log but
\* never before it; a log without a day, left by a program that was stopped,
\* comes after every old file.
BetweenLines ==
  /\ \A w \in Writers : line[w] <= today
  /\ pc = "idle" =>
       /\ day_num <= files[0].header
       /\ files[0].header = 0 =>
            Older(today) /\ \A w \in Writers : line[w] # 0 => Older(line[w])

\* What each step of writeToLog() can rely on.
WithinLine ==
  /\ pc # "idle" => Older(d + 1)
  /\ pc = "check" => (files[0].header = 0 => Older(d))
  /\ pc = "rename" => Older(d)
  /\ pc \in {"open", "header"} => files[0].header = d \/ (files[0].header = 0 /\ Older(d))
  /\ pc \in {"header", "line"} => files[0].there
  /\ pc = "line" => files[0].header = d
  /\ pc \in {"rename", "open", "header", "line"} => day_num <= d

IInv == TypeOK /\ (~late => FilesOrdered /\ BetweenLines /\ WithinLine)

\* Initially no file is there.
LEMMA TypeInit == Init => TypeOK
<1>1. Missing \in [header : Nat, days : SUBSET Nat, there : BOOLEAN]
  BY DEF Missing
<1>2. ASSUME Init
      PROVE  files \in [Numbers -> [header : Nat, days : SUBSET Nat, there : BOOLEAN]]
  BY <1>1, <1>2 DEF Init
<1>3. ASSUME Init
      PROVE  line \in [Writers -> Nat]
  BY <1>3 DEF Init
<1>4. ASSUME Init
      PROVE  /\ today \in Nat /\ day_num \in Nat /\ at \in Nat /\ late \in BOOLEAN
             /\ pc = "idle"
  BY <1>4 DEF Init
<1>5. QED
  BY <1>2, <1>3, <1>4 DEF TypeOK

\* Each step keeps the types.
LEMMA TypeStep == TypeOK /\ [Next]_vars => TypeOK'
<1> SUFFICES ASSUME TypeOK, [Next]_vars
             PROVE  TypeOK'
  OBVIOUS
<1> USE RotateAssumption DEF TypeOK, Numbers
<1>1. CASE Midnight
  BY <1>1 DEF Midnight
<1>2. CASE Check
  BY <1>2 DEF Check, Step, LastDayNumber
<1>3. CASE Rename
  <2>1. /\ UNCHANGED <<today, day_num, line, writer, late>>
        /\ at \in 1..rotate_count /\ at' = at - 1
        /\ pc = "rename" /\ pc' \in {"open", "rename"} /\ (pc' = "rename" => at # 1)
    BY <1>3 DEF Rename
  <2>2. files' \in [Numbers -> [header : Nat, days : SUBSET Nat, there : BOOLEAN]]
    <3>1. Missing \in [header : Nat, days : SUBSET Nat, there : BOOLEAN]
      BY DEF Missing
    <3>2. QED
      BY <1>3, <2>1, <3>1 DEF Rename
  <2>3. QED
    <3>1. at' \in Nat /\ (pc' = "rename" => at' \in 1..rotate_count)
      BY <2>1
    <3>2. /\ pc' \in {"idle", "check", "rename", "open", "header", "line"}
          /\ writer' \in Writers /\ line'[writer'] # 0
      BY <2>1
    <3>3. today' \in Nat /\ day_num' \in Nat /\ late' \in BOOLEAN /\ line' \in [Writers -> Nat]
      BY <2>1, Zenon
    <3>4. QED
      BY <2>2, <3>1, <3>2, <3>3, Zenon
<1>4. CASE Open
  BY <1>4 DEF Open, Step
<1>5. CASE Header
  BY <1>5 DEF Header, Step, d
<1>6. CASE Line
  BY <1>6, ZenonT(60) DEF Line, Step, d
<1>7. CASE Restart
  BY <1>7 DEF Restart, LastDayNumber
<1>8. ASSUME NEW w \in Writers, Start(w)
      PROVE  TypeOK'
  BY <1>8 DEF Start
<1>9. ASSUME NEW w \in Writers, Write(w)
      PROVE  TypeOK'
  BY <1>9 DEF Write
<1>10. CASE UNCHANGED vars
  BY <1>10 DEF vars
<1>11. QED
  BY <1>1, <1>2, <1>3, <1>4, <1>5, <1>6, <1>7, <1>8, <1>9, <1>10 DEF Next

\* Days, files and program counters keep their types, and whoever is in the
\* middle of writeToLog() has a line to write.
THEOREM TypeCorrect == Spec => []TypeOK
<1>1. QED
  BY TypeInit, TypeStep, PTL DEF Spec

-----------------------------------------------------------------------------
\* The steps that write no line and move no file keep the order of the files.
LEMMA SameFiles == ASSUME FilesOrdered, UNCHANGED files
                   PROVE  FilesOrdered'
  BY DEF FilesOrdered, Numbers, Missing

\* One renaming moves a file to a free or overwritten number and leaves a gap.
LEMMA RenameKeepsOrder ==
  ASSUME TypeOK, FilesOrdered, Rename, NEW day \in Nat, Older(day)
  PROVE  /\ FilesOrdered' /\ \A i \in Numbers : files'[i].header < day
         /\ at = 1 => files'[0].header = 0
<1> USE RotateAssumption
<1>1. /\ at \in 1..rotate_count /\ at \in Numbers /\ at - 1 \in Numbers /\ at # at - 1
  BY DEF TypeOK, Rename, Numbers
<1>2. CASE ~files[at - 1].there
  <2>1. UNCHANGED files
    BY <1>2 DEF Rename
  <2>2. files[at - 1] = Missing
    BY <1>1, <1>2 DEF FilesOrdered
  <2>3. files[at - 1].header = 0
    BY <2>2 DEF Missing
  <2>4. QED
    BY <1>1, <2>1, <2>3, SameFiles DEF Older, Numbers
<1>3. CASE files[at - 1].there
  <2>1. files' = [files EXCEPT ![at] = files[at - 1], ![at - 1] = Missing]
    BY <1>3 DEF Rename
  <2>2. /\ files'[at - 1] = Missing /\ files'[at] = files[at - 1]
        /\ \A i \in Numbers \ {at, at - 1} : files'[i] = files[i]
    BY <1>1, <2>1 DEF TypeOK
  <2>3. /\ Missing.header = 0 /\ Missing.days = {} /\ ~Missing.there
    BY DEF Missing
  <2>4. \A i \in Numbers : ~files'[i].there => files'[i] = Missing
    BY <1>1, <1>3, <2>2 DEF FilesOrdered
  <2>5. \A i \in Numbers : /\ files'[i].header = 0 => files'[i].days = {}
                           /\ files'[i].days \subseteq {files'[i].header}
    BY <1>1, <2>2, <2>3 DEF FilesOrdered
  <2>6. ASSUME NEW i \in Numbers, NEW j \in Numbers,
               i < j, files'[i].header # 0, files'[j].header # 0
        PROVE  files'[i].header > files'[j].header
    <3>1. i # at - 1 /\ j # at - 1
      BY <2>2, <2>3, <2>6
    <3>2. CASE i = at
      <4>1. j # at /\ j # at - 1 /\ at - 1 < j
        BY <2>6, <3>1, <3>2, <1>1 DEF Numbers
      <4>2. QED
        BY <1>1, <2>2, <2>6, <3>2, <4>1 DEF FilesOrdered
    <3>3. CASE j = at
      <4>1. i # at /\ i # at - 1 /\ i < at - 1
        BY <2>6, <3>1, <3>3, <1>1 DEF Numbers
      <4>2. QED
        BY <1>1, <2>2, <2>6, <3>3, <4>1 DEF FilesOrdered
    <3>4. CASE i # at /\ j # at
      BY <2>2, <2>6, <3>1, <3>4 DEF FilesOrdered
    <3>5. QED
      BY <3>2, <3>3, <3>4
  <2>7. FilesOrdered'
    BY <2>4, <2>5, <2>6 DEF FilesOrdered, Numbers, Missing
  <2>8. \A i \in Numbers : files'[i].header < day
    <3>1. ASSUME NEW i \in Numbers PROVE files'[i].header < day
      <4>1. files[at].header \in Nat /\ files[at].header < day
        BY <1>1 DEF Older, TypeOK
      <4>2. QED
        BY <1>1, <2>2, <2>3, <4>1 DEF Older, TypeOK
    <3>2. QED
      BY <3>1
  <2>9. at = 1 => files'[0].header = 0
    BY <2>2, <2>3
  <2>10. QED
    BY <2>7, <2>8, <2>9
<1>4. QED
  BY <1>2, <1>3

\* The first line is written to a log without one.
LEMMA HeaderKeepsOrder ==
  ASSUME TypeOK, FilesOrdered, Header, files[0].there,
         files[0].header = d \/ (files[0].header = 0 /\ Older(d)), Older(d + 1)
  PROVE  /\ FilesOrdered' /\ Older(d + 1)'
         /\ files'[0].header = d /\ files'[0].there /\ d' = d
<1> USE RotateAssumption
<1>1. 0 \in Numbers /\ d \in Nat /\ d # 0
  BY DEF Numbers, TypeOK, Header, Step, d
<1>2. files' = [files EXCEPT ![0].header = IF @ = 0 THEN d ELSE @] /\ d' = d
  BY DEF Header, d
<1>3. CASE files[0].header = d
  <2>1. files' = files
    BY <1>1, <1>2, <1>3 DEF TypeOK
  <2>2. QED
    BY <1>1, <1>2, <1>3, <2>1, SameFiles DEF Older, Numbers
<1>4. CASE files[0].header = 0 /\ Older(d)
  <2>1. /\ files'[0].header = d /\ files'[0].days = files[0].days /\ files'[0].there
        /\ \A i \in Numbers \ {0} : files'[i] = files[i]
    BY <1>1, <1>2, <1>4 DEF TypeOK
  <2>2. files'[0].days = {}
    BY <1>1, <1>4, <2>1 DEF FilesOrdered
  <2>3. \A i \in Numbers : ~files'[i].there => files'[i] = Missing
    BY <2>1 DEF FilesOrdered
  <2>4. \A i \in Numbers : /\ files'[i].header = 0 => files'[i].days = {}
                           /\ files'[i].days \subseteq {files'[i].header}
    BY <1>1, <2>1, <2>2 DEF FilesOrdered
  <2>5. ASSUME NEW i \in Numbers, NEW j \in Numbers,
               i < j, files'[i].header # 0, files'[j].header # 0
        PROVE  files'[i].header > files'[j].header
    <3>1. j # 0 /\ files'[j] = files[j] /\ files[j].header < d
      BY <1>4, <2>1, <2>5 DEF Older, Numbers
    <3>2. CASE i = 0
      BY <2>1, <3>1, <3>2, <1>1 DEF TypeOK
    <3>3. CASE i # 0
      BY <2>1, <2>5, <3>1, <3>3 DEF FilesOrdered
    <3>4. QED
      BY <3>2, <3>3
  <2>6. FilesOrdered'
    BY <2>3, <2>4, <2>5 DEF FilesOrdered, Numbers, Missing
  <2>7. \A i \in Numbers : files'[i].header < d + 1
    BY <1>1, <1>4, <2>1 DEF Older, TypeOK
  <2>8. QED
    BY <1>2, <2>1, <2>6, <2>7 DEF Older, Numbers
<1>5. QED
  BY <1>3, <1>4

\* The line goes to the end of a log of its day.
LEMMA LineKeepsOrder ==
  ASSUME TypeOK, FilesOrdered, Line, files[0].there, files[0].header = d
  PROVE  /\ FilesOrdered'
         /\ \A i \in Numbers : files'[i].header = files[i].header
<1> USE RotateAssumption
<1>1. 0 \in Numbers /\ d \in Nat /\ d # 0
  BY DEF Numbers, TypeOK, Line, Step, d
<1>2. files' = [files EXCEPT ![0].days = @ \cup {d}]
  BY DEF Line
<1>3. /\ files'[0].header = d /\ files'[0].days = files[0].days \cup {d} /\ files'[0].there
      /\ \A i \in Numbers \ {0} : files'[i] = files[i]
  BY <1>1, <1>2 DEF TypeOK
<1>4. \A i \in Numbers : files'[i].header = files[i].header
  BY <1>3
<1>5. \A i \in Numbers : ~files'[i].there => files'[i] = Missing
  BY <1>3 DEF FilesOrdered
<1>6. \A i \in Numbers : /\ files'[i].header = 0 => files'[i].days = {}
                         /\ files'[i].days \subseteq {files'[i].header}
  BY <1>1, <1>3 DEF FilesOrdered
<1>7. \A i, j \in Numbers : i < j /\ files'[i].header # 0 /\ files'[j].header # 0
                               => files'[i].header > files'[j].header
  BY <1>4 DEF FilesOrdered
<1>8. QED
  BY <1>4, <1>5, <1>6, <1>7 DEF FilesOrdered, Numbers, Missing

-----------------------------------------------------------------------------
\* As long as lines come in the order of their days, the files are ordered, and
\* what a thread in the middle of writeToLog() relies on stays true: nobody but
\* the holder of the mutex changes files, and a restart finds a log that is
\* older than the next line or none.
THEOREM Inductive == Spec => []IInv
<1> USE RotateAssumption
<1>1. Init => IInv
  <2> SUFFICES ASSUME Init PROVE IInv
    OBVIOUS
  <2>1. TypeOK
    BY TypeInit
  <2>2. \A i \in Numbers : files[i].header = 0 /\ files[i].days = {} /\ files[i] = Missing
    BY DEF Init, Missing
  <2>3. FilesOrdered
    BY <2>2 DEF FilesOrdered
  <2>4. BetweenLines /\ WithinLine
    BY <2>2 DEF Init, BetweenLines, WithinLine, Older, Numbers
  <2>5. QED
    BY <2>1, <2>3, <2>4 DEF IInv
<1>2. IInv /\ TypeOK' /\ [Next]_vars => IInv'
  <2> SUFFICES ASSUME IInv, TypeOK', [Next]_vars, ~late'
               PROVE  FilesOrdered' /\ BetweenLines' /\ WithinLine'
    BY DEF IInv
  <2>1. ~late
    BY DEF Next, Midnight, Start, Write, Check, Rename, Open, Header, Line, Restart, vars, Step, IInv, TypeOK
  <2>2. TypeOK /\ FilesOrdered /\ BetweenLines /\ WithinLine
    BY <2>1 DEF IInv
  <2>3. 0 \in Numbers /\ \A i \in Numbers : files[i].header \in Nat
    BY <2>2 DEF Numbers, TypeOK
  <2>4. CASE Midnight
    BY <2>2, <2>3, <2>4, SameFiles DEF Midnight, TypeOK, BetweenLines, WithinLine, Older, d, Numbers
  <2>5. CASE Check
    <3>1. FilesOrdered'
      BY <2>2, <2>5, SameFiles DEF Check
    <3>2. d' = d /\ d \in Nat /\ pc' \in {"rename", "open"}
      BY <2>2, <2>5 DEF Check, Step, d, TypeOK
    <3>3. Older(d + 1) /\ (files[0].header = 0 => Older(d))
      BY <2>2, <2>5 DEF Check, Step, WithinLine
    <3>4. BetweenLines'
      BY <2>2, <2>5, <3>2 DEF Check, BetweenLines
    <3>5. CASE files[0].header = d
      <4>1. pc' = "open" /\ day_num' = d' /\ files'[0].header = d' /\ day_num' <= d'
        BY <2>5, <3>2, <3>5 DEF Check, Step, LastDayNumber
      <4>2. Older(d + 1)'
        BY <2>5, <3>2, <3>3 DEF Check, Older, Numbers
      <4>3. QED
        BY <3>1, <3>4, <4>1, <4>2 DEF WithinLine
    <3>6. CASE files[0].header # d
      <4>1. Older(d)
        BY <2>2, <2>3, <3>2, <3>3, <3>6 DEF FilesOrdered, Older, Numbers
      <4>2. QED
        BY <2>3, <2>5, <3>1, <3>2, <3>3, <3>4, <3>6, <4>1
           DEF Check, Step, LastDayNumber, WithinLine, Older, Numbers
    <3>7. QED
      BY <3>1, <3>4, <3>5, <3>6
  <2>6. CASE Rename
    <3>1. d' = d /\ d \in Nat /\ pc = "rename" /\ pc' \in {"rename", "open"}
      BY <2>2, <2>6 DEF Rename, d, TypeOK
    <3>2. Older(d) /\ day_num <= d
      BY <2>2, <3>1 DEF WithinLine
    <3>3. /\ FilesOrdered' /\ \A i \in Numbers : files'[i].header < d
          /\ at = 1 => files'[0].header = 0
      BY <2>2, <2>6, <3>1, <3>2, RenameKeepsOrder
    <3>4. BetweenLines'
      BY <2>2, <2>6, <3>1 DEF Rename, BetweenLines
    <3>5. Older(d)' /\ Older(d + 1)'
      BY <3>1, <3>3, TypeOK' DEF Older, Numbers, TypeOK
    <3>6. WithinLine'
      BY <2>6, <3>1, <3>2, <3>3, <3>5 DEF Rename, WithinLine
    <3>7. QED
      BY <3>3, <3>4, <3>6
  <2>7. CASE Open
    <3>1. files' = [files EXCEPT ![0].there = TRUE] /\ pc = "open" /\ pc' = "header" /\ d' = d /\ d \in Nat
      BY <2>2, <2>7 DEF Open, Step, d, TypeOK
    <3>2. /\ files'[0].there
          /\ \A i \in Numbers : files'[i].header = files[i].header /\ files'[i].days = files[i].days
          /\ \A i \in Numbers \ {0} : files'[i] = files[i]
      BY <2>2, <2>3, <3>1 DEF TypeOK
    <3>3. \A i \in Numbers : ~files'[i].there => files'[i] = Missing
      BY <2>2, <3>2 DEF FilesOrdered
    <3>4. FilesOrdered'
      BY <2>2, <3>2, <3>3 DEF FilesOrdered, Numbers, Missing
    <3>5. BetweenLines'
      BY <2>2, <2>7, <3>1 DEF Open, BetweenLines
    <3>6. WithinLine'
      BY <2>2, <2>3, <2>7, <3>1, <3>2 DEF Open, WithinLine, Older, Numbers
    <3>7. QED
      BY <3>4, <3>5, <3>6
  <2>8. CASE Header
    <3>1. pc = "header" /\ pc' = "line" /\ d \in Nat
      BY <2>2, <2>8 DEF Header, Step, d, TypeOK
    <3>2. /\ FilesOrdered' /\ Older(d + 1)'
          /\ files'[0].header = d /\ files'[0].there /\ d' = d
      BY <2>2, <2>8, <3>1, HeaderKeepsOrder DEF WithinLine
    <3>3. BetweenLines'
      BY <2>2, <2>8, <3>1 DEF Header, BetweenLines
    <3>4. WithinLine'
      BY <2>2, <2>8, <3>1, <3>2 DEF Header, WithinLine
    <3>5. QED
      BY <3>2, <3>3, <3>4
  <2>9. CASE Line
    <3>1. pc = "line" /\ pc' = "idle" /\ d \in Nat /\ d # 0
      BY <2>2, <2>9 DEF Line, Step, d, TypeOK
    <3>2. files[0].header = d /\ files[0].there /\ day_num <= d
      BY <2>2, <3>1 DEF WithinLine
    <3>3. FilesOrdered' /\ \A i \in Numbers : files'[i].header = files[i].header
      BY <2>2, <2>9, <3>2, LineKeepsOrder
    <3>4. /\ line' = [line EXCEPT ![writer] = 0] /\ UNCHANGED <<today, day_num>>
      BY <2>9 DEF Line
    <3>5. \A w \in Writers : line'[w] <= today'
      BY <2>2, <3>4 DEF BetweenLines, TypeOK
    <3>6. BetweenLines'
      BY <2>3, <3>1, <3>2, <3>3, <3>4, <3>5 DEF BetweenLines
    <3>7. WithinLine'
      BY <3>1 DEF WithinLine
    <3>8. QED
      BY <3>3, <3>6, <3>7
  <2>10. CASE Restart
    <3>1. /\ UNCHANGED <<today, files, late>> /\ pc' = "idle" /\ day_num' = files[0].header
          /\ \A w \in Writers : line'[w] = 0
      BY <2>10 DEF Restart, LastDayNumber
    <3>2. files[0].header = 0 => Older(today)
      <4> SUFFICES ASSUME files[0].header = 0
                   PROVE  Older(today)
        OBVIOUS
      <4>1. CASE pc = "idle"
        BY <2>2, <4>1 DEF BetweenLines
      <4>2. CASE pc # "idle"
        <5>1. d \in Nat /\ d # 0 /\ d <= today
          BY <2>2, <4>2 DEF BetweenLines, TypeOK, d
        <5>2. Older(d)
          BY <2>2, <4>2, <5>1 DEF WithinLine, TypeOK
        <5>3. QED
          BY <2>2, <2>3, <5>1, <5>2 DEF Older, TypeOK
      <4>3. QED
        BY <4>1, <4>2
    <3>3. FilesOrdered'
      BY <2>2, <3>1, SameFiles
    <3>4. WithinLine'
      BY <3>1 DEF WithinLine
    <3>5. BetweenLines'
      <4>1. day_num' <= files'[0].header /\ \A w \in Writers : line'[w] <= today'
        BY <2>2, <2>3, <3>1 DEF TypeOK
      <4>2. files'[0].header = 0 => Older(today)'
        BY <3>1, <3>2 DEF Older, Numbers
      <4>3. QED
        BY <3>1, <4>1, <4>2 DEF BetweenLines
    <3>6. QED
      BY <3>3, <3>4, <3>5
  <2>11. ASSUME NEW w \in Writers, Start(w)
         PROVE  FilesOrdered' /\ BetweenLines' /\ WithinLine'
    <3>1. /\ UNCHANGED <<today, files, day_num, writer, pc, at, late>>
          /\ line[w] = 0 /\ line' = [line EXCEPT ![w] = today]
      BY <2>11 DEF Start
    <3>2. FilesOrdered'
      BY <2>2, <3>1, SameFiles
    <3>3. \A v \in Writers : line'[v] = IF v = w THEN today ELSE line[v]
      BY <2>2, <3>1 DEF TypeOK
    <3>4. BetweenLines'
      <4>1. \A v \in Writers : line'[v] <= today'
        BY <2>2, <3>1, <3>3 DEF BetweenLines, TypeOK
      <4>2. ASSUME pc = "idle", files[0].header = 0
            PROVE  Older(today)' /\ \A v \in Writers : line'[v] # 0 => Older(line[v])'
        <5>1. Older(today) /\ \A v \in Writers : line[v] # 0 => Older(line[v])
          BY <2>2, <4>2 DEF BetweenLines
        <5>2. QED
          BY <3>1, <3>3, <5>1 DEF Older, Numbers
      <4>3. QED
        BY <2>2, <3>1, <4>1, <4>2 DEF BetweenLines
    <3>5. pc # "idle" => d' = d
      BY <2>2, <3>1, <3>3 DEF TypeOK, d
    <3>6. WithinLine'
      BY <2>2, <3>1, <3>5 DEF WithinLine, Older, Numbers
    <3>7. QED
      BY <3>2, <3>4, <3>6
  <2>12. ASSUME NEW w \in Writers, Write(w)
         PROVE  FilesOrdered' /\ BetweenLines' /\ WithinLine'
    <3>1. /\ UNCHANGED <<today, files, day_num, line, at>> /\ pc = "idle" /\ line[w] # 0
          /\ writer' = w /\ pc' = IF line[w] = day_num THEN "line" ELSE "check"
          /\ \A i \in Numbers : files[i].header <= line[w]
      <4>1. /\ UNCHANGED <<today, files, day_num, line, at>> /\ pc = "idle" /\ line[w] # 0
            /\ writer' = w /\ pc' = IF line[w] = day_num THEN "line" ELSE "check"
            /\ late' = (late \/ \E i \in Numbers : files[i].header > line[w])
        BY <2>12 DEF Write
      <4>2. \A i \in Numbers : ~(files[i].header > line[w])
        BY <4>1, Zenon
      <4>3. QED
        BY <2>2, <2>3, <4>1, <4>2 DEF TypeOK
    <3>2. FilesOrdered'
      BY <2>2, <3>1, SameFiles
    <3>3. BetweenLines'
      BY <2>2, <3>1 DEF BetweenLines
    <3>4. d' = line[w] /\ line[w] \in Nat /\ Older(d + 1)'
      BY <2>2, <2>3, <3>1 DEF TypeOK, d, Older, Numbers
    <3>5. files[0].header = 0 => Older(line[w])
      BY <2>2, <3>1 DEF BetweenLines
    <3>6. CASE line[w] = day_num
      <4>1. files[0].header = line[w]
        BY <2>2, <2>3, <3>1, <3>6 DEF BetweenLines, TypeOK
      <4>2. files[0].there
        BY <2>2, <2>3, <3>1, <4>1 DEF FilesOrdered, Missing
      <4>3. QED
        BY <3>1, <3>2, <3>3, <3>4, <3>6, <4>1, <4>2 DEF WithinLine
    <3>7. CASE line[w] # day_num
      BY <3>1, <3>2, <3>3, <3>4, <3>5, <3>7 DEF WithinLine, Older, Numbers
    <3>8. QED
      BY <3>6, <3>7
  <2>13. CASE UNCHANGED vars
    BY <2>2, <2>13, SameFiles DEF vars, BetweenLines, WithinLine, Older, Numbers, d
  <2>14. QED
    BY <2>4, <2>5, <2>6, <2>7, <2>8, <2>9, <2>10, <2>11, <2>12, <2>13 DEF Next
<1>3. QED
  BY <1>1, <1>2, TypeCorrect, PTL DEF Spec

-----------------------------------------------------------------------------
\* For any number of threads and old files, and wherever the program is
\* stopped: while lines come in the order of their days, a file has lines of the
\* day it names only, older files have higher numbers, and no day is split
\* (stdLogFile.h:120, 151).
THEOREM DaysStayApart == Spec => []DaysApart
<1>1. IInv => DaysApart
  <2> SUFFICES ASSUME TypeOK, FilesOrdered
               PROVE  /\ \A i \in Numbers : files[i].days \subseteq {files[i].header}
                      /\ \A i, j \in Numbers :
                           i < j /\ files[i].days # {} /\ files[j].days # {}
                             => files[i].header > files[j].header
    BY DEF IInv, DaysApart
  <2>1. QED
    BY DEF FilesOrdered
<1>2. QED
  BY <1>1, Inductive, PTL

-----------------------------------------------------------------------------
(* The registrations of child processes. *)

\* Registrations, semaphores and program counters keep their types in every
\* step, and an object has a registration from beginWait() to endWait().
THEOREM WaitTypes == WaitSpec => []Wait!TypeOK
<1>1. Wait!Init => Wait!TypeOK
  <2> SUFFICES ASSUME Wait!Init PROVE Wait!TypeOK
    OBVIOUS
  <2> USE DEF Wait!Init, Wait!Registered
  <2>1. /\ child \in [Children -> {"running", "zombie", "reaped"}]
        /\ pending \in BOOLEAN /\ pid \in [Objects -> Children]
    OBVIOUS
  <2>2. status \in [Objects -> {"none", "unset", "exit_code", "ECHILD"}]
    OBVIOUS
  <2>3. /\ sem \in [Objects -> Nat]
        /\ wpc \in [Objects -> {"absent", "idle", "wait", "wait_for", "woken"}]
    OBVIOUS
  <2>4. \A o \in Objects : (Wait!Registered(o) <=> wpc[o] # "absent") /\ (wpc[o] = "absent" => sem[o] = 0)
    OBVIOUS
  <2>5. QED
    BY <2>1, <2>2, <2>3, <2>4 DEF Wait!TypeOK
<1>2. Wait!TypeOK /\ [Wait!Next]_waits => Wait!TypeOK'
  <2> SUFFICES ASSUME Wait!TypeOK, [Wait!Next]_waits
               PROVE  Wait!TypeOK'
    OBVIOUS
  <2> USE DEF Wait!TypeOK, Wait!Registered
  <2>1. ASSUME NEW c \in Children, Wait!Exit(c)
        PROVE  Wait!TypeOK'
    BY <2>1 DEF Wait!Exit
  <2>2. CASE Wait!SignalEnter
    <3> DEFINE hit == {o \in Objects : Wait!Registered(o) /\ child[pid[o]] # "running"}
    <3>1. /\ UNCHANGED <<pid, wpc>> /\ pending' \in BOOLEAN
          /\ child' \in [Children -> {"running", "zombie", "reaped"}]
      BY <2>2 DEF Wait!SignalEnter
    <3>2. status' = [o \in Objects |-> IF o \in hit THEN Wait!Answer(pid[o]) ELSE status[o]]
      BY <2>2 DEF Wait!SignalEnter
    <3>3. \A o \in Objects : Wait!Answer(pid[o]) \in {"exit_code", "ECHILD"}
      BY DEF Wait!Answer
    <3>4. status' \in [Objects -> {"none", "unset", "exit_code", "ECHILD"}]
      BY <3>2, <3>3
    <3>5. /\ sem' \in [Objects -> Nat]
          /\ \A o \in Objects : ~Wait!Registered(o) => sem'[o] = sem[o]
      BY <2>2 DEF Wait!SignalEnter
    <3>6. \A o \in Objects : (status'[o] # "none") <=> Wait!Registered(o)
      BY <3>2, <3>3
    <3>7. QED
      BY <3>1, <3>4, <3>5, <3>6
  <2>3. ASSUME NEW o \in Objects, Wait!BeginWait(o)
        PROVE  Wait!TypeOK'
    <3>1. child' = [child EXCEPT ![pid[o]] = Wait!Reaped(pid[o])] /\ Wait!Reaped(pid[o]) \in {"running", "reaped"}
      BY <2>3 DEF Wait!BeginWait, Wait!Reaped
    <3>2. /\ UNCHANGED <<pending, pid>>
          /\ wpc[o] = "absent" /\ wpc' = [wpc EXCEPT ![o] = "idle"]
          /\ sem' = sem \/ sem' = [sem EXCEPT ![o] = @ + 1]
      BY <2>3 DEF Wait!BeginWait, Wait!Goto
    <3>3. \E s \in {"unset", "exit_code", "ECHILD"} : status' = [status EXCEPT ![o] = s]
      <4>1. ASSUME NEW p \in Objects, Wait!Registered(p), status' = [status EXCEPT ![o] = status[p]]
            PROVE  \E s \in {"unset", "exit_code", "ECHILD"} : status' = [status EXCEPT ![o] = s]
        BY <4>1
      <4>2. QED
        BY <2>3, <4>1 DEF Wait!BeginWait
    <3>4. QED
      BY <3>1, <3>2, <3>3
  <2>4. ASSUME NEW o \in Objects, Wait!EndWait(o)
        PROVE  Wait!TypeOK'
    BY <2>4 DEF Wait!EndWait, Wait!Goto
  <2>5. ASSUME NEW o \in Objects, Wait!Wait(o)
        PROVE  Wait!TypeOK'
    BY <2>5 DEF Wait!Wait, Wait!Goto
  <2>6. ASSUME NEW o \in Objects, Wait!Wake(o) \/ Wait!TryWait(o)
        PROVE  Wait!TypeOK'
    BY <2>6 DEF Wait!Wake, Wait!TryWait, Wait!Goto
  <2>7. ASSUME NEW o \in Objects, Wait!PostBack(o)
        PROVE  Wait!TypeOK'
    BY <2>7 DEF Wait!PostBack, Wait!Goto
  <2>8. ASSUME NEW o \in Objects, Wait!TimeOut(o)
        PROVE  Wait!TypeOK'
    BY <2>8 DEF Wait!TimeOut, Wait!Goto
  <2>9. CASE UNCHANGED waits
    BY <2>9 DEF waits
  <2>10. QED
    BY <2>1, <2>2, <2>3, <2>4, <2>5, <2>6, <2>7, <2>8, <2>9 DEF Wait!Next
<1>3. QED
  BY <1>1, <1>2, PTL DEF WaitSpec

-----------------------------------------------------------------------------
\* An object is signaled exactly when its child is gone and the signal was
\* handled: the look in beginWait() and the registration are one step, and the
\* handler visits every registration.
THEOREM NoExitMissed == WaitSpec => []ExitsAreSeen
<1>1. Wait!Init => ExitsAreSeen
  BY DEF Wait!Init, ExitsAreSeen, Wait!ExitsAreSeen, Wait!Registered
<1>2. Wait!TypeOK /\ ExitsAreSeen /\ [Wait!Next]_waits => ExitsAreSeen'
  <2> SUFFICES ASSUME Wait!TypeOK, ExitsAreSeen, [Wait!Next]_waits
               PROVE  ExitsAreSeen'
    OBVIOUS
  <2> USE DEF Wait!TypeOK, ExitsAreSeen, Wait!ExitsAreSeen, Wait!Registered, Wait!Signaled
  \* A child that exits was running: nobody who waits for it is signaled.
  <2>1. ASSUME NEW c \in Children, Wait!Exit(c)
        PROVE  ExitsAreSeen'
    BY <2>1 DEF Wait!Exit
  \* Every object of a child that is gone is hit, the others' children run.
  <2>2. CASE Wait!SignalEnter
    <3> SUFFICES ASSUME NEW o \in Objects, Wait!Registered(o)'
                 PROVE  Wait!Signaled(o)' <=> child'[pid[o]] = "reaped"
      BY <2>2 DEF Wait!SignalEnter
    <3>1. Wait!Registered(o)
      BY <2>2 DEF Wait!SignalEnter, Wait!Answer
    <3>2. CASE child[pid[o]] = "running"
      BY <2>2, <3>1, <3>2 DEF Wait!SignalEnter
    <3>3. CASE child[pid[o]] # "running"
      BY <2>2, <3>1, <3>3 DEF Wait!SignalEnter
    <3>4. QED
      BY <3>2, <3>3
  <2>3. ASSUME NEW o \in Objects, Wait!BeginWait(o)
        PROVE  ExitsAreSeen'
    <3>1. \A p \in Objects \ {o} : UNCHANGED <<sem[p], status[p], wpc[p]>>
      <4>1. ASSUME NEW s, status' = [status EXCEPT ![o] = s]
            PROVE  \A p \in Objects \ {o} : status'[p] = status[p]
        BY <4>1
      <4>2. \A p \in Objects \ {o} : status'[p] = status[p]
        BY <2>3, <4>1 DEF Wait!BeginWait
      <4>3. \A p \in Objects \ {o} : sem'[p] = sem[p] /\ wpc'[p] = wpc[p]
        BY <2>3 DEF Wait!BeginWait, Wait!Goto
      <4>4. QED
        BY <4>2, <4>3
    <3>2. /\ UNCHANGED <<pid, pending>>
          /\ \A c \in Children : child'[c] = IF c = pid[o] THEN Wait!Reaped(c) ELSE child[c]
      BY <2>3 DEF Wait!BeginWait
    <3>3. /\ wpc'[o] = "idle" /\ sem[o] = 0
          /\ \/ child[pid[o]] = "running" /\ sem'[o] = 0
             \/ child[pid[o]] # "running" /\ sem'[o] = 1
      BY <2>3 DEF Wait!BeginWait, Wait!Goto
    <3>4. ASSUME NEW p \in Objects \ {o}, Wait!Registered(p)'
          PROVE  /\ Wait!Signaled(p)' => child'[pid'[p]] = "reaped"
                 /\ child'[pid'[p]] # "running" /\ ~pending' => Wait!Signaled(p)'
      <4>1. child'[pid[p]] = child[pid[p]] \/ (child[pid[p]] = "zombie" /\ child'[pid[p]] = "reaped")
        BY <3>2 DEF Wait!Reaped
      <4>2. QED
        BY <3>1, <3>2, <3>4, <4>1
    <3>5. /\ Wait!Signaled(o)' => child'[pid'[o]] = "reaped"
          /\ child'[pid'[o]] # "running" /\ ~pending' => Wait!Signaled(o)'
      <4>1. CASE child[pid[o]] = "running"
        BY <3>2, <3>3, <4>1 DEF Wait!Reaped
      <4>2. CASE child[pid[o]] # "running"
        <5>1. child'[pid[o]] = "reaped"
          BY <3>2, <4>2 DEF Wait!Reaped
        <5>2. QED
          BY <3>2, <3>3, <4>2, <5>1
      <4>3. QED
        BY <4>1, <4>2
    <3>6. QED
      BY <3>4, <3>5
  <2>4. ASSUME NEW o \in Objects, Wait!EndWait(o)
        PROVE  ExitsAreSeen'
    BY <2>4 DEF Wait!EndWait, Wait!Goto
  <2>5. ASSUME NEW o \in Objects, Wait!Wait(o)
        PROVE  ExitsAreSeen'
    BY <2>5 DEF Wait!Wait, Wait!Goto
  <2>6. ASSUME NEW o \in Objects, Wait!Wake(o) \/ Wait!TryWait(o)
        PROVE  ExitsAreSeen'
    <3>1. UNCHANGED <<child, pending, pid, status>>
      BY <2>6 DEF Wait!Wake, Wait!TryWait, Wait!Goto
    <3>2. \A p \in Objects : Wait!Signaled(p)' <=> Wait!Signaled(p)
      <4>1. \A p \in Objects \ {o} : sem'[p] = sem[p] /\ wpc'[p] = wpc[p]
        BY <2>6 DEF Wait!Wake, Wait!TryWait, Wait!Goto
      <4>2. Wait!Signaled(o)' <=> Wait!Signaled(o)
        BY <2>6 DEF Wait!Wake, Wait!TryWait, Wait!Goto
      <4>3. QED
        BY <4>1, <4>2
    <3>3. QED
      BY <3>1, <3>2
  <2>7. ASSUME NEW o \in Objects, Wait!PostBack(o)
        PROVE  ExitsAreSeen'
    <3>1. UNCHANGED <<child, pending, pid, status>>
      BY <2>7 DEF Wait!PostBack, Wait!Goto
    <3>2. \A p \in Objects : Wait!Signaled(p)' <=> Wait!Signaled(p)
      <4>1. \A p \in Objects \ {o} : sem'[p] = sem[p] /\ wpc'[p] = wpc[p]
        BY <2>7 DEF Wait!PostBack, Wait!Goto
      <4>2. Wait!Signaled(o)' <=> Wait!Signaled(o)
        BY <2>7 DEF Wait!PostBack, Wait!Goto
      <4>3. QED
        BY <4>1, <4>2
    <3>3. QED
      BY <3>1, <3>2
  <2>8. ASSUME NEW o \in Objects, Wait!TimeOut(o)
        PROVE  ExitsAreSeen'
    BY <2>8 DEF Wait!TimeOut, Wait!Goto
  <2>9. CASE UNCHANGED waits
    BY <2>9 DEF waits
  <2>10. QED
    BY <2>1, <2>2, <2>3, <2>4, <2>5, <2>6, <2>7, <2>8, <2>9 DEF Wait!Next
<1>3. QED
  BY <1>1, <1>2, WaitTypes, PTL DEF WaitSpec

-----------------------------------------------------------------------------
(* Counting: who refers to something, and how that changes with one of them. *)

In(t, X) == IF t \in X THEN 1 ELSE 0

LEMMA OneChange ==
  ASSUME NEW X, IsFiniteSet(X), NEW t, NEW Y, \A u : u # t => (u \in X <=> u \in Y)
  PROVE  /\ IsFiniteSet(Y) /\ Cardinality(X) \in Nat /\ Cardinality(Y) \in Nat
         /\ Cardinality(Y) = Cardinality(X) + In(t, Y) - In(t, X)
         /\ Cardinality(X) >= In(t, X)
<1> DEFINE Z == X \ {t}
<1>1. IsFiniteSet(Z) /\ Cardinality(Z) \in Nat
  BY FS_RemoveElement, FS_CardinalityType
<1>2. Cardinality(X) \in Nat /\ Cardinality(X) = Cardinality(Z) + In(t, X)
  <2>1. Cardinality(X) \in Nat
    BY FS_CardinalityType
  <2>2. Cardinality(Z) = IF t \in X THEN Cardinality(X) - 1 ELSE Cardinality(X)
    BY FS_RemoveElement
  <2>3. In(t, X) = IF t \in X THEN 1 ELSE 0
    BY DEF In
  <2> HIDE DEF Z
  <2>4. QED
    BY <2>1, <2>2, <2>3
<1>3. IsFiniteSet(Y) /\ Cardinality(Y) \in Nat /\ Cardinality(Y) = Cardinality(Z) + In(t, Y)
  <2>1. CASE t \in Y
    <3>1. Y = Z \cup {t} /\ t \notin Z
      BY <2>1
    <3>2. QED
      BY <1>1, <2>1, <3>1, FS_AddElement, FS_CardinalityType DEF In
  <2>2. CASE t \notin Y
    <3>1. Y = Z
      BY <2>2
    <3>2. QED
      BY <1>1, <2>2, <3>1 DEF In
  <2>3. QED
    BY <2>1, <2>2
<1>4. In(t, X) \in {0, 1} /\ In(t, Y) \in {0, 1}
  BY DEF In
<1> HIDE DEF Z
<1>5. QED
  BY <1>1, <1>2, <1>3, <1>4

\* Each instance has a Cardinality of its own, with the same definition.
LEMMA SameCardinality ==
  ASSUME NEW X
  PROVE  /\ L!Cardinality(X) = Cardinality(X) /\ O!Cardinality(X) = Cardinality(X)
         /\ K!Cardinality(X) = Cardinality(X) /\ S!Cardinality(X) = Cardinality(X)
         /\ A!Cardinality(X) = Cardinality(X)
  BY Zenon DEF L!Cardinality, O!Cardinality, K!Cardinality, S!Cardinality, A!Cardinality, Cardinality

-----------------------------------------------------------------------------
(* shared_object.h *)

ObjectTypes ==
  /\ handle \in [Threads -> {"none", "direct", "cast"}]
  /\ lock \in [Threads -> {"none", "shared", "exclusive"}]
  /\ want \in [Threads -> {"none", "shared", "exclusive"}]
  /\ \A t \in Threads : lock[t] = "none" \/ want[t] = "none"
  /\ opc \in [Threads -> {"idle", "release"}]
  /\ ocounter \in Nat /\ wrappers \in Nat /\ alive \in BOOLEAN

\* The Storage counts its users and the wrappers, and exists while it counts any.
ObjectCounted ==
  /\ ocounter = O!Users + wrappers
  /\ alive <=> ocounter > 0

LocksExclude ==
  \A t, u \in Threads : lock[t] = "exclusive" /\ t # u => lock[u] = "none"

ObjectInv == ObjectTypes /\ ObjectCounted /\ LocksExclude

WithHandle == {t \in Threads : handle[t] # "none"}
WithLock == {t \in Threads : lock[t] # "none" \/ want[t] # "none"}
GivingBack == {t \in Threads : opc[t] = "release"}
Uses(t) == In(t, WithHandle) + In(t, WithLock) + In(t, GivingBack)

\* Only thread t changes what it has.
LEMMA UsersChange ==
  ASSUME NEW t \in Threads,
         \A u \in Threads \ {t} : UNCHANGED <<handle[u], lock[u], want[u], opc[u]>>
  PROVE  /\ O!Users \in Nat /\ O!Users' \in Nat /\ O!Users >= Uses(t)
         /\ Uses(t) \in 0..3 /\ Uses(t)' \in 0..3
         /\ O!Users' = O!Users + Uses(t)' - Uses(t)
<1>1. IsFiniteSet(WithHandle) /\ IsFiniteSet(WithLock) /\ IsFiniteSet(GivingBack)
  BY SharedAssumption, FS_Subset DEF WithHandle, WithLock, GivingBack
<1>2. /\ \A u : u # t => (u \in WithHandle <=> u \in WithHandle')
      /\ \A u : u # t => (u \in WithLock <=> u \in WithLock')
      /\ \A u : u # t => (u \in GivingBack <=> u \in GivingBack')
  BY DEF WithHandle, WithLock, GivingBack
<1>3. /\ Cardinality(WithHandle) \in Nat /\ Cardinality(WithHandle') \in Nat
      /\ Cardinality(WithHandle') = Cardinality(WithHandle) + In(t, WithHandle') - In(t, WithHandle)
      /\ Cardinality(WithHandle) >= In(t, WithHandle)
  BY <1>1, <1>2, OneChange
<1>4. /\ Cardinality(WithLock) \in Nat /\ Cardinality(WithLock') \in Nat
      /\ Cardinality(WithLock') = Cardinality(WithLock) + In(t, WithLock') - In(t, WithLock)
      /\ Cardinality(WithLock) >= In(t, WithLock)
  BY <1>1, <1>2, OneChange
<1>5. /\ Cardinality(GivingBack) \in Nat /\ Cardinality(GivingBack') \in Nat
      /\ Cardinality(GivingBack') = Cardinality(GivingBack) + In(t, GivingBack') - In(t, GivingBack)
      /\ Cardinality(GivingBack) >= In(t, GivingBack)
  BY <1>1, <1>2, OneChange
<1>6. /\ O!Users = Cardinality(WithHandle) + Cardinality(WithLock) + Cardinality(GivingBack)
      /\ O!Users' = Cardinality(WithHandle') + Cardinality(WithLock') + Cardinality(GivingBack')
  BY SameCardinality DEF O!Users, WithHandle, WithLock, GivingBack
<1>7. /\ \A X : In(t, X) \in {0, 1}
      /\ Uses(t) = In(t, WithHandle) + In(t, WithLock) + In(t, GivingBack)
      /\ Uses(t)' = In(t, WithHandle') + In(t, WithLock') + In(t, GivingBack')
  BY DEF In, Uses
<1>8. QED
  BY <1>3, <1>4, <1>5, <1>6, <1>7

LEMMA UsesOf ==
  ASSUME NEW t \in Threads
  PROVE  /\ Uses(t) = (IF handle[t] # "none" THEN 1 ELSE 0)
                      + (IF lock[t] # "none" \/ want[t] # "none" THEN 1 ELSE 0)
                      + (IF opc[t] = "release" THEN 1 ELSE 0)
         /\ Uses(t)' = (IF handle'[t] # "none" THEN 1 ELSE 0)
                      + (IF lock'[t] # "none" \/ want'[t] # "none" THEN 1 ELSE 0)
                      + (IF opc'[t] = "release" THEN 1 ELSE 0)
  BY DEF Uses, In, WithHandle, WithLock, GivingBack

\* The Storage is there while anybody uses it and a writer is alone
\* (shared_object.h).
THEOREM ObjectCorrect == ObjectSpec => []ObjectSafe
<1>1. O!Init => ObjectInv
  <2> SUFFICES ASSUME O!Init
               PROVE  ObjectInv
    OBVIOUS
  <2>1. PICK t0 \in Threads : handle = [t \in Threads |-> IF t = t0 THEN "direct" ELSE "none"]
    BY DEF O!Init
  <2>2. /\ lock = [t \in Threads |-> "none"] /\ want = [t \in Threads |-> "none"]
        /\ ocounter = 1 /\ wrappers = 0 /\ opc = [t \in Threads |-> "idle"] /\ alive = TRUE
    BY DEF O!Init
  <2>3. WithHandle = {t0} /\ WithLock = {} /\ GivingBack = {}
    BY <2>1, <2>2 DEF WithHandle, WithLock, GivingBack
  <2>4. Cardinality(WithHandle) = 1 /\ Cardinality(WithLock) = 0 /\ Cardinality(GivingBack) = 0
    BY <2>3, FS_Singleton, FS_EmptySet
  <2>5. O!Users = Cardinality(WithHandle) + Cardinality(WithLock) + Cardinality(GivingBack)
    BY SameCardinality DEF O!Users, WithHandle, WithLock, GivingBack
  <2>6. O!Users = 1
    BY <2>4, <2>5
  <2>7. ObjectCounted
    BY <2>2, <2>6 DEF ObjectCounted
  <2>8. ObjectTypes
    BY <2>1, <2>2 DEF ObjectTypes
  <2>9. QED
    BY <2>2, <2>7, <2>8 DEF ObjectInv, LocksExclude
<1>2. ObjectInv /\ [O!Next]_ovars => ObjectInv'
  <2> SUFFICES ASSUME ObjectInv, [O!Next]_ovars
               PROVE  ObjectInv'
    OBVIOUS
  <2>0. ObjectTypes /\ ObjectCounted /\ LocksExclude
    BY DEF ObjectInv
  <2> USE DEF ObjectTypes
  <2>1. ASSUME NEW t \in Threads,
               \A u \in Threads \ {t} : UNCHANGED <<handle[u], lock[u], want[u], opc[u]>>
        PROVE  /\ O!Users \in Nat /\ O!Users' \in Nat /\ O!Users >= Uses(t)
               /\ Uses(t) \in 0..3 /\ Uses(t)' \in 0..3
               /\ O!Users' = O!Users + Uses(t)' - Uses(t)
    BY <2>1, UsersChange
  <2>2. ASSUME NEW t \in Threads, NEW u \in Threads, O!Copy(t, u)
        PROVE  ObjectInv'
    <3>1. ObjectTypes' /\ handle[t] # "none" /\ UNCHANGED <<lock, wrappers, alive>> /\ ocounter' = ocounter + 1
          /\ \A v \in Threads \ {u} : UNCHANGED <<handle[v], lock[v], want[v], opc[v]>>
      BY <2>0, <2>2 DEF O!Copy
    <3>2. Uses(u)' = Uses(u) + 1
      BY <2>0, <2>2, UsesOf DEF O!Copy
    <3>3. O!Users \in Nat /\ O!Users' \in Nat /\ O!Users >= 1 /\ O!Users' = O!Users + 1
      <4>1. Uses(u) \in 0..3 /\ O!Users \in Nat /\ O!Users' \in Nat /\ O!Users' = O!Users + Uses(u)' - Uses(u)
        BY <2>1, <3>1
      <4>2. O!Users >= 1
        <5>1. IsFiniteSet(WithHandle) /\ IsFiniteSet(WithLock) /\ IsFiniteSet(GivingBack) /\ t \in WithHandle
          BY <3>1, SharedAssumption, FS_Subset DEF WithHandle, WithLock, GivingBack
        <5>2. Cardinality(WithHandle) \in Nat /\ Cardinality(WithHandle) # 0
              /\ Cardinality(WithLock) \in Nat /\ Cardinality(GivingBack) \in Nat
          BY <5>1, FS_CardinalityType, FS_EmptySet
        <5>3. O!Users = Cardinality(WithHandle) + Cardinality(WithLock) + Cardinality(GivingBack)
          BY SameCardinality DEF O!Users, WithHandle, WithLock, GivingBack
        <5>4. QED
          BY <5>2, <5>3
      <4>3. QED
        BY <3>2, <4>1, <4>2
    <3>4. ObjectCounted'
      BY <2>0, <3>1, <3>3 DEF ObjectCounted
    <3>5. LocksExclude'
      BY <2>0, <3>1 DEF LocksExclude
    <3>6. QED
      BY <3>1, <3>4, <3>5 DEF ObjectInv
  <2>3. ASSUME NEW t \in Threads, O!Cast(t)
        PROVE  ObjectInv'
    <3>1. ObjectTypes' /\ UNCHANGED <<lock, alive>> /\ ocounter' = ocounter + 2 /\ wrappers' = wrappers + 1
          /\ \A v \in Threads \ {t} : UNCHANGED <<handle[v], lock[v], want[v], opc[v]>>
      BY <2>0, <2>3 DEF O!Cast
    <3>2. Uses(t) >= 1 /\ Uses(t)' = Uses(t) + 1
      BY <2>0, <2>3, UsesOf DEF O!Cast
    <3>3. QED
      BY <2>0, <2>1, <3>1, <3>2 DEF ObjectInv, ObjectCounted, LocksExclude
  <2>4. ASSUME NEW t \in Threads, O!Drop(t)
        PROVE  ObjectInv'
    <3>1. ObjectTypes' /\ UNCHANGED <<lock, alive, ocounter, wrappers>>
          /\ \A v \in Threads \ {t} : UNCHANGED <<handle[v], lock[v], want[v], opc[v]>>
      BY <2>0, <2>4 DEF O!Drop
    <3>2. Uses(t)' = Uses(t)
      BY <2>0, <2>4, UsesOf DEF O!Drop
    <3>3. QED
      BY <2>0, <2>1, <3>1, <3>2 DEF ObjectInv, ObjectCounted, LocksExclude
  <2>5. ASSUME NEW t \in Threads, O!StartLock(t)
        PROVE  ObjectInv'
    <3>1. ObjectTypes' /\ UNCHANGED <<lock, alive, wrappers>> /\ ocounter' = ocounter + 1
          /\ \A v \in Threads \ {t} : UNCHANGED <<handle[v], lock[v], want[v], opc[v]>>
      BY <2>0, <2>5 DEF O!StartLock
    <3>2. Uses(t) >= 1 /\ Uses(t)' = Uses(t) + 1
      BY <2>0, <2>5, UsesOf DEF O!StartLock
    <3>3. QED
      BY <2>0, <2>1, <3>1, <3>2 DEF ObjectInv, ObjectCounted, LocksExclude
  <2>6. ASSUME NEW t \in Threads, O!Acquire(t)
        PROVE  ObjectInv'
    <3>1. ObjectTypes' /\ UNCHANGED <<alive, ocounter, wrappers>>
          /\ \A v \in Threads \ {t} : UNCHANGED <<handle[v], lock[v], want[v], opc[v]>>
      BY <2>0, <2>6 DEF O!Acquire
    <3>2. Uses(t)' = Uses(t)
      BY <2>0, <2>6, UsesOf DEF O!Acquire
    <3>3. LocksExclude'
      BY <2>0, <2>6 DEF O!Acquire, LocksExclude
    <3>4. QED
      BY <2>0, <2>1, <3>1, <3>2, <3>3 DEF ObjectInv, ObjectCounted
  <2>7. ASSUME NEW t \in Threads, O!Unlock(t)
        PROVE  ObjectInv'
    <3>1. ObjectTypes' /\ UNCHANGED <<alive, ocounter, wrappers>>
          /\ \A v \in Threads \ {t} : UNCHANGED <<handle[v], lock[v], want[v], opc[v]>>
      BY <2>0, <2>7 DEF O!Unlock
    <3>2. Uses(t)' = Uses(t)
      BY <2>0, <2>7, UsesOf DEF O!Unlock
    <3>3. LocksExclude'
      BY <2>0, <2>7 DEF O!Unlock, LocksExclude
    <3>4. QED
      BY <2>0, <2>1, <3>1, <3>2, <3>3 DEF ObjectInv, ObjectCounted
  <2>8. ASSUME NEW t \in Threads, O!Release(t)
        PROVE  ObjectInv'
    <3>1. Uses(t) >= 1 /\ Uses(t)' = Uses(t) - 1
      BY <2>0, <2>8, UsesOf DEF O!Release
    <3>2. \A v \in Threads \ {t} : UNCHANGED <<handle[v], lock[v], want[v], opc[v]>>
      BY <2>0, <2>8 DEF O!Release
    <3>3. ocounter' = ocounter - 1 /\ alive' = (ocounter > 1) /\ UNCHANGED <<lock, wrappers>>
      BY <2>8 DEF O!Release
    <3>4. ocounter > 0
      BY <2>0, <2>1, <3>1, <3>2 DEF ObjectCounted
    <3>5. ObjectTypes'
      BY <2>0, <2>8, <3>3, <3>4 DEF O!Release
    <3>6. O!Users \in Nat /\ O!Users' \in Nat /\ O!Users' = O!Users - 1
      <4>1. Uses(t) \in 0..3 /\ O!Users \in Nat /\ O!Users' \in Nat /\ O!Users' = O!Users + Uses(t)' - Uses(t)
        BY <2>1, <3>2
      <4>2. QED
        BY <3>1, <4>1
    <3>7. ObjectCounted'
      <4>1. ocounter \in Nat /\ wrappers \in Nat /\ ocounter = O!Users + wrappers
        BY <2>0 DEF ObjectCounted
      <4>2. ocounter' = O!Users' + wrappers'
        BY <3>3, <3>6, <4>1
      <4>3. ocounter > 1 <=> ocounter' > 0
        BY <3>3, <4>1
      <4>4. alive' <=> ocounter' > 0
        BY <3>3, <4>3, Zenon
      <4>5. QED
        BY <4>2, <4>4 DEF ObjectCounted
    <3>8. LocksExclude'
      BY <2>0, <3>3 DEF LocksExclude
    <3>9. QED
      BY <3>5, <3>7, <3>8 DEF ObjectInv
  <2>9. CASE UNCHANGED ovars
    BY <2>0, <2>9 DEF ovars, ObjectInv, ObjectCounted, LocksExclude, O!Users
  <2>10. QED
    BY <2>2, <2>3, <2>4, <2>5, <2>6, <2>7, <2>8, <2>9 DEF O!Next
<1>3. ObjectInv => ObjectSafe
  <2> SUFFICES ASSUME ObjectInv
               PROVE  O!ObjectSafe
    BY DEF ObjectSafe
  <2>1. O!Users \in Nat /\ wrappers \in Nat
    <3>1. IsFiniteSet(WithHandle) /\ IsFiniteSet(WithLock) /\ IsFiniteSet(GivingBack)
      BY SharedAssumption, FS_Subset DEF WithHandle, WithLock, GivingBack
    <3>2. Cardinality(WithHandle) \in Nat /\ Cardinality(WithLock) \in Nat /\ Cardinality(GivingBack) \in Nat
      BY <3>1, FS_CardinalityType
    <3>3. QED
      BY <3>2, SameCardinality DEF O!Users, WithHandle, WithLock, GivingBack, ObjectInv, ObjectTypes
  <2>2. QED
    BY <2>1 DEF ObjectInv, ObjectCounted, LocksExclude, O!ObjectSafe
<1>4. QED
  BY <1>1, <1>2, <1>3, PTL DEF ObjectSpec

-----------------------------------------------------------------------------
(* async_state.h *)

StateTypes ==
  /\ handles \in [Threads -> 0..MaxHandles + 1]
  /\ shareCount \in Nat /\ owner \in Threads \cup {Null}
  /\ spc \in [Threads -> {"idle", "release", "callback", "delete"}]
  /\ callback \in BOOLEAN /\ finished \in Nat /\ deleted \in BOOLEAN

\* A handle is a pair of its thread and a number.
Pairs(h) == {p \in Threads \X (1..MaxHandles + 1) : p[2] <= h[p[1]]}
LettingGo == {t \in Threads : spc[t] = "release"}
Ending(t) == spc[t] \in {"callback", "delete"}

\* _shareCount counts the handles and the references about to be let go; the
\* one who took it to zero is alone and calls the callback, then deletes.
StateCounted == shareCount = Cardinality(Pairs(handles)) + Cardinality(LettingGo)
OneEnds ==
  /\ \A t, u \in Threads : Ending(t) /\ Ending(u) => t = u
  /\ shareCount = 0 <=> deleted \/ \E t \in Threads : Ending(t)
  /\ deleted => \A t \in Threads : ~Ending(t)
LockedWithHandle == owner # Null => handles[owner] > 0
CalledBefore ==
  /\ \A t \in Threads : spc[t] = "callback" => callback
  /\ finished = IF callback /\ (deleted \/ \E t \in Threads : spc[t] = "delete") THEN 1 ELSE 0

StateInv == StateTypes /\ StateCounted /\ OneEnds /\ LockedWithHandle /\ CalledBefore

LEMMA PairsFinite ==
  ASSUME NEW h
  PROVE  IsFiniteSet(Pairs(h)) /\ Cardinality(Pairs(h)) \in Nat
<1>1. MaxHandles + 1 \in Int
  BY SharedAssumption
<1>2. IsFiniteSet(1..MaxHandles + 1)
  BY <1>1, FS_Interval
<1>3. IsFiniteSet(Threads \X (1..MaxHandles + 1))
  BY <1>2, SharedAssumption, FS_Product
<1>4. IsFiniteSet(Pairs(h))
  BY <1>3, FS_Subset DEF Pairs
<1>5. QED
  BY <1>4, FS_CardinalityType

\* One handle more, and one less.
LEMMA PairsUp ==
  ASSUME NEW h \in [Threads -> 0..MaxHandles + 1], NEW t \in Threads, h[t] <= MaxHandles,
         NEW g, g = [h EXCEPT ![t] = h[t] + 1]
  PROVE  Cardinality(Pairs(g)) = Cardinality(Pairs(h)) + 1
<1>1. PICK p \in Threads \X (1..MaxHandles + 1) : p = <<t, h[t] + 1>>
  <2>1. h[t] + 1 \in 1..MaxHandles + 1
    BY SharedAssumption
  <2>2. QED
    BY <2>1
<1>2. p \notin Pairs(h) /\ p \in Pairs(g)
  BY <1>1, SharedAssumption DEF Pairs
<1>3. ASSUME NEW q \in Threads \X (1..MaxHandles + 1), q # p
      PROVE  q[2] <= h[q[1]] <=> q[2] <= g[q[1]]
  BY <1>1, <1>3, SharedAssumption
<1>4. \A q : q # p => (q \in Pairs(h) <=> q \in Pairs(g))
  BY <1>3 DEF Pairs
<1>5. Cardinality(Pairs(g)) = Cardinality(Pairs(h)) + In(p, Pairs(g)) - In(p, Pairs(h))
  BY <1>4, PairsFinite, OneChange
<1>6. QED
  BY <1>2, <1>5, PairsFinite DEF In

LEMMA PairsDown ==
  ASSUME NEW h \in [Threads -> 0..MaxHandles + 1], NEW t \in Threads, h[t] > 0,
         NEW g, g = [h EXCEPT ![t] = h[t] - 1]
  PROVE  Cardinality(Pairs(h)) = Cardinality(Pairs(g)) + 1
<1>1. h[t] - 1 \in 0..MaxHandles /\ h[t] - 1 \in 0..MaxHandles + 1
  BY SharedAssumption
<1>2. g \in [Threads -> 0..MaxHandles + 1] /\ g[t] = h[t] - 1
  BY <1>1
<1>3. g[t] <= MaxHandles /\ g[t] + 1 = h[t]
  BY <1>1, <1>2
<1>4. h = [g EXCEPT ![t] = g[t] + 1]
  BY <1>2, <1>3
<1>5. QED
  BY <1>2, <1>3, <1>4, PairsUp

LEMMA NoPairs ==
  ASSUME NEW h \in [Threads -> 0..MaxHandles + 1]
  PROVE  Cardinality(Pairs(h)) = 0 <=> \A t \in Threads : h[t] = 0
<1>1. Cardinality(Pairs(h)) = 0 <=> Pairs(h) = {}
  BY PairsFinite, FS_EmptySet
<1>2. ASSUME NEW t \in Threads, h[t] # 0
      PROVE  Pairs(h) # {}
  <2>1. <<t, h[t]>> \in Pairs(h)
    BY <1>2, SharedAssumption DEF Pairs
  <2>2. QED
    BY <2>1
<1>3. ASSUME \A t \in Threads : h[t] = 0
      PROVE  Pairs(h) = {}
  BY <1>3 DEF Pairs
<1>4. QED
  BY <1>1, <1>2, <1>3

\* One thread's step changes whether it is letting a reference go.
LEMMA LettingGoChange ==
  ASSUME NEW t \in Threads, \A u \in Threads \ {t} : spc'[u] = spc[u]
  PROVE  /\ Cardinality(LettingGo) \in Nat /\ Cardinality(LettingGo') \in Nat
         /\ Cardinality(LettingGo') = Cardinality(LettingGo)
              + (IF spc'[t] = "release" THEN 1 ELSE 0) - (IF spc[t] = "release" THEN 1 ELSE 0)
         /\ spc[t] = "release" => Cardinality(LettingGo) > 0
<1>1. IsFiniteSet(LettingGo) /\ \A u : u # t => (u \in LettingGo <=> u \in LettingGo')
  BY SharedAssumption, FS_Subset DEF LettingGo
<1>2. /\ Cardinality(LettingGo) \in Nat /\ Cardinality(LettingGo') \in Nat
      /\ Cardinality(LettingGo') = Cardinality(LettingGo) + In(t, LettingGo') - In(t, LettingGo)
      /\ Cardinality(LettingGo) >= In(t, LettingGo)
  BY <1>1, OneChange
<1>3. /\ In(t, LettingGo) = IF spc[t] = "release" THEN 1 ELSE 0
      /\ In(t, LettingGo') = IF spc'[t] = "release" THEN 1 ELSE 0
  BY DEF In, LettingGo
<1>4. QED
  BY <1>2, <1>3

-----------------------------------------------------------------------------
\* The callback runs once, after the last handle and before the state is deleted
\* (async_state.h).
THEOREM StateFinishesLast == StateSpec => []FinishedLast
<1>1. S!Init => StateInv
  <2> SUFFICES ASSUME S!Init
               PROVE  StateInv
    OBVIOUS
  <2>1. PICK t0 \in Threads : handles = [t \in Threads |-> IF t = t0 THEN 1 ELSE 0]
    BY DEF S!Init
  <2>2. /\ shareCount = 1 /\ owner = Null /\ spc = [t \in Threads |-> "idle"]
        /\ callback = FALSE /\ finished = 0 /\ deleted = FALSE
    BY DEF S!Init
  <2>3. StateTypes
    <3>1. 0 \in 0..MaxHandles + 1 /\ 1 \in 0..MaxHandles + 1
      BY SharedAssumption
    <3>2. handles \in [Threads -> 0..MaxHandles + 1]
      BY <2>1, <3>1
    <3>3. QED
      BY <2>2, <3>2 DEF StateTypes
  <2>4. Cardinality(Pairs(handles)) = 1
    <3> DEFINE none == [t \in Threads |-> 0]
    <3>1. none \in [Threads -> 0..MaxHandles + 1] /\ none[t0] = 0 /\ 0 <= MaxHandles
      BY SharedAssumption
    <3>2. handles = [none EXCEPT ![t0] = none[t0] + 1]
      BY <2>1
    <3>3. Cardinality(Pairs(none)) = 0
      BY <3>1, NoPairs
    <3> HIDE DEF none
    <3>4. Cardinality(Pairs(handles)) = Cardinality(Pairs(none)) + 1
      BY <3>1, <3>2, PairsUp
    <3>5. QED
      BY <3>3, <3>4
  <2>5. Cardinality(LettingGo) = 0
    BY <2>2, FS_EmptySet DEF LettingGo
  <2>6. StateCounted
    BY <2>2, <2>4, <2>5 DEF StateCounted
  <2>7. QED
    BY <2>2, <2>3, <2>6 DEF StateInv, OneEnds, LockedWithHandle, CalledBefore, Ending
<1>2. StateInv /\ [S!Next]_svars => StateInv'
  <2> SUFFICES ASSUME StateInv, [S!Next]_svars
               PROVE  StateInv'
    OBVIOUS
  <2>0. StateTypes /\ StateCounted /\ OneEnds /\ LockedWithHandle /\ CalledBefore
    BY DEF StateInv
  <2>0a. /\ Cardinality(Pairs(handles)) \in Nat /\ Cardinality(Pairs(handles')) \in Nat
         /\ Cardinality(LettingGo) \in Nat
    BY PairsFinite, SharedAssumption, FS_Subset, FS_CardinalityType DEF LettingGo
  <2>0b. MaxHandles \in Nat /\ Null \notin Threads
    BY SharedAssumption
  \* Whoever has a handle keeps the count above zero.
  <2>1. ASSUME NEW t \in Threads, handles[t] > 0
        PROVE  shareCount > 0
    <3>1. Cardinality(Pairs(handles)) # 0
      BY <2>0, <2>1, NoPairs DEF StateTypes
    <3>2. QED
      BY <2>0, <2>0a, <3>1 DEF StateCounted
  <2>2. ASSUME NEW t \in Threads, NEW u \in Threads, S!Copy(t, u)
        PROVE  StateInv'
    <3>1. /\ handles' = [handles EXCEPT ![u] = handles[u] + 1] /\ shareCount' = shareCount + 1
          /\ handles[t] > 0 /\ handles[u] < MaxHandles
          /\ UNCHANGED <<owner, spc, callback, finished, deleted>>
      BY <2>2 DEF S!Copy, S!Has
    <3>2. handles[u] \in Nat /\ handles \in [Threads -> 0..MaxHandles + 1] /\ handles[u] <= MaxHandles
      BY <2>0, <2>0b, <3>1 DEF StateTypes
    <3>3. StateTypes'
      BY <2>0, <2>0b, <3>1, <3>2 DEF StateTypes
    <3>4. Cardinality(Pairs(handles')) = Cardinality(Pairs(handles)) + 1
      BY <3>1, <3>2, PairsUp
    <3>5. StateCounted'
      BY <2>0, <2>0a, <3>1, <3>4 DEF StateCounted, LettingGo
    <3>6. LockedWithHandle'
      BY <2>0, <3>1, <3>2 DEF LockedWithHandle, StateTypes
    <3>7. shareCount > 0 /\ shareCount \in Nat
      BY <2>0, <2>1, <3>1 DEF StateTypes
    <3>8. OneEnds'
      BY <2>0, <3>1, <3>7 DEF OneEnds, Ending
    <3>9. QED
      BY <2>0, <3>1, <3>3, <3>5, <3>6, <3>8 DEF StateInv, CalledBefore
  <2>3. ASSUME NEW t \in Threads, NEW u \in Threads, S!Move(t, u)
        PROVE  StateInv'
    <3> DEFINE less == [handles EXCEPT ![t] = handles[t] - 1]
    <3>1. /\ handles' = [less EXCEPT ![u] = less[u] + 1]
          /\ handles[t] > 0 /\ t # u /\ handles[u] < MaxHandles /\ (owner = t => handles[t] > 1)
          /\ UNCHANGED <<shareCount, owner, spc, callback, finished, deleted>>
      BY <2>0, <2>3 DEF S!Move, S!Has, StateTypes
    <3>2. handles \in [Threads -> 0..MaxHandles + 1] /\ handles[t] \in Nat /\ handles[u] \in Nat
      BY <2>0, <2>0b DEF StateTypes
    <3>3. less \in [Threads -> 0..MaxHandles + 1] /\ less[u] = handles[u] /\ less[t] = handles[t] - 1
      <4>1. handles[t] - 1 \in 0..MaxHandles + 1
        BY <2>0b, <3>1, <3>2
      <4>2. QED
        BY <3>1, <3>2, <4>1
    <3>4. Cardinality(Pairs(handles)) = Cardinality(Pairs(less)) + 1
      BY <3>1, <3>2, PairsDown
    <3> HIDE DEF less
    <3>5. Cardinality(Pairs(handles')) = Cardinality(Pairs(less)) + 1
      <4>1. less[u] <= MaxHandles
        BY <2>0b, <3>1, <3>2, <3>3
      <4>2. QED
        BY <3>1, <3>3, <4>1, PairsUp
    <3>6. StateTypes'
      <4>1. less[u] + 1 \in 0..MaxHandles + 1
        BY <2>0b, <3>1, <3>2, <3>3
      <4>2. QED
        BY <2>0, <3>1, <3>3, <4>1 DEF StateTypes
    <3>7. StateCounted'
      BY <2>0, <3>1, <3>4, <3>5 DEF StateCounted, LettingGo
    <3>8. LockedWithHandle'
      <4>1. handles'[t] = handles[t] - 1 /\ handles'[u] = handles[u] + 1
        BY <3>1, <3>3
      <4>2. \A v \in Threads : v # t /\ v # u => handles'[v] = handles[v]
        BY <3>1, <3>2 DEF less
      <4>3. QED
        BY <2>0, <3>1, <3>2, <4>1, <4>2 DEF LockedWithHandle, StateTypes
    <3>9. QED
      BY <2>0, <3>1, <3>6, <3>7, <3>8 DEF StateInv, CalledBefore, OneEnds, Ending
  <2>4. ASSUME NEW t \in Threads, S!OnFinish(t)
        PROVE  StateInv'
    <3>1. /\ callback' = TRUE /\ handles[t] > 0 /\ shareCount = 1
          /\ UNCHANGED <<handles, shareCount, owner, spc, finished, deleted>>
      BY <2>4 DEF S!OnFinish, S!Has
    <3>2. ~deleted /\ \A u \in Threads : ~Ending(u)
      BY <2>0, <3>1 DEF OneEnds
    <3>3. finished = 0
      BY <2>0, <3>2 DEF CalledBefore, Ending
    <3>4. CalledBefore'
      BY <3>1, <3>2, <3>3 DEF CalledBefore, Ending
    <3>5. QED
      BY <2>0, <3>1, <3>4 DEF StateInv, StateTypes, StateCounted, LettingGo, OneEnds, LockedWithHandle, Ending
  <2>5. ASSUME NEW t \in Threads, S!Lock(t) \/ S!Unlock(t)
        PROVE  StateInv'
    <3>1. /\ owner' \in Threads \cup {Null} /\ (owner' # Null => handles[owner'] > 0)
          /\ UNCHANGED <<handles, shareCount, spc, callback, finished, deleted>>
      BY <2>5 DEF S!Lock, S!Unlock, S!Has
    <3>2. QED
      BY <2>0, <3>1 DEF StateInv, StateTypes, StateCounted, LettingGo, OneEnds, LockedWithHandle, CalledBefore, Ending
  <2>6. ASSUME NEW t \in Threads, S!Release(t)
        PROVE  StateInv'
    <3>1. /\ handles' = [handles EXCEPT ![t] = handles[t] - 1] /\ spc' = [spc EXCEPT ![t] = "release"]
          /\ handles[t] > 0 /\ spc[t] = "idle" /\ (owner = t => handles[t] > 1)
          /\ UNCHANGED <<shareCount, owner, callback, finished, deleted>>
      BY <2>6 DEF S!Release, S!Has
    <3>2. handles \in [Threads -> 0..MaxHandles + 1] /\ handles[t] \in 1..MaxHandles + 1
          /\ spc \in [Threads -> {"idle", "release", "callback", "delete"}]
      BY <2>0, <2>0b, <3>1 DEF StateTypes
    <3>3. StateTypes'
      <4>1. handles[t] - 1 \in 0..MaxHandles + 1
        BY <2>0b, <3>2
      <4>2. QED
        BY <2>0, <3>1, <3>2, <4>1 DEF StateTypes
    <3>4. Cardinality(Pairs(handles)) = Cardinality(Pairs(handles')) + 1
      BY <3>1, <3>2, PairsDown
    <3>5. Cardinality(LettingGo') = Cardinality(LettingGo) + 1 /\ Cardinality(LettingGo') \in Nat
      BY <3>1, <3>2, LettingGoChange
    <3>6. StateCounted'
      BY <2>0, <2>0a, <3>1, <3>4, <3>5 DEF StateCounted
    <3>7. LockedWithHandle'
      <4>1. handles'[t] = handles[t] - 1 /\ \A v \in Threads : v # t => handles'[v] = handles[v]
        BY <3>1, <3>2
      <4>2. owner = t => handles'[t] > 0
        BY <3>1, <3>2, <4>1
      <4>3. QED
        BY <2>0, <3>1, <4>1, <4>2 DEF LockedWithHandle, StateTypes
    <3>8. \A u \in Threads : Ending(u)' <=> Ending(u)
      BY <3>1, <3>2 DEF Ending
    <3>9. \A u \in Threads : spc'[u] \in {"callback", "delete"} \/ spc[u] \in {"callback", "delete"} => spc'[u] = spc[u]
      BY <3>1, <3>2
    <3>10. OneEnds'
      BY <2>0, <3>1, <3>8 DEF OneEnds
    <3>11. CalledBefore'
      BY <2>0, <3>1, <3>9 DEF CalledBefore
    <3>12. QED
      BY <3>3, <3>6, <3>7, <3>10, <3>11 DEF StateInv
  <2>7. ASSUME NEW t \in Threads, S!Decrement(t)
        PROVE  StateInv'
    <3>1. /\ spc[t] = "release" /\ shareCount' = shareCount - 1
          /\ spc' = [spc EXCEPT ![t] = IF shareCount # 1 THEN "idle" ELSE IF callback THEN "callback" ELSE "delete"]
          /\ UNCHANGED <<handles, owner, callback, finished, deleted>>
      BY <2>7 DEF S!Decrement
    <3>2. spc \in [Threads -> {"idle", "release", "callback", "delete"}]
      BY <2>0 DEF StateTypes
    <3>3. \A u \in Threads : u # t => spc'[u] = spc[u]
      BY <3>1, <3>2
    <3>4. spc'[t] = IF shareCount # 1 THEN "idle" ELSE IF callback THEN "callback" ELSE "delete"
      BY <3>1, <3>2
    <3>5. spc'[t] # "release"
      BY <3>4
    <3>6. /\ Cardinality(LettingGo') \in Nat /\ Cardinality(LettingGo') = Cardinality(LettingGo) - 1
          /\ Cardinality(LettingGo) > 0
      BY <3>1, <3>3, <3>5, LettingGoChange
    <3>7. shareCount \in Nat /\ shareCount > 0
      BY <2>0, <2>0a, <3>6 DEF StateCounted, StateTypes
    <3>8. StateCounted'
      BY <2>0, <2>0a, <3>1, <3>6 DEF StateCounted
    <3>9. StateTypes'
      BY <2>0, <3>1, <3>2, <3>7 DEF StateTypes
    <3>10. ~deleted /\ \A u \in Threads : ~Ending(u)
      BY <2>0, <3>7 DEF OneEnds
    <3>11. \A u \in Threads : Ending(u)' <=> u = t /\ shareCount = 1
      BY <3>3, <3>4, <3>10 DEF Ending
    <3>12. shareCount' = 0 <=> shareCount = 1
      BY <3>1, <3>7
    <3>13. OneEnds'
      BY <3>1, <3>10, <3>11, <3>12 DEF OneEnds
    <3>14. CalledBefore'
      <4>1. finished = 0
        BY <2>0, <3>10 DEF CalledBefore, Ending
      <4>2. \A u \in Threads : spc'[u] = "callback" => callback
        BY <3>3, <3>4, <3>10 DEF Ending
      <4>3. \A u \in Threads : spc'[u] = "delete" => ~callback
        BY <3>3, <3>4, <3>10 DEF Ending
      <4>4. QED
        BY <3>1, <3>10, <4>1, <4>2, <4>3 DEF CalledBefore
    <3>15. QED
      BY <2>0, <3>1, <3>8, <3>9, <3>13, <3>14 DEF StateInv, LockedWithHandle
  <2>8. ASSUME NEW t \in Threads, S!RunCallback(t)
        PROVE  StateInv'
    <3>1. /\ spc[t] = "callback" /\ finished' = finished + 1 /\ spc' = [spc EXCEPT ![t] = "delete"]
          /\ UNCHANGED <<handles, shareCount, owner, callback, deleted>>
      BY <2>8 DEF S!RunCallback
    <3>2. spc \in [Threads -> {"idle", "release", "callback", "delete"}] /\ finished \in Nat
      BY <2>0 DEF StateTypes
    <3>3. spc'[t] = "delete" /\ \A u \in Threads : u # t => spc'[u] = spc[u]
      BY <3>1, <3>2
    <3>4. \A u \in Threads : Ending(u)' <=> Ending(u)
      BY <3>1, <3>3 DEF Ending
    <3>5. LettingGo' = LettingGo
      BY <3>1, <3>3 DEF LettingGo
    <3>6. callback /\ ~deleted /\ (\A u \in Threads : Ending(u) => u = t)
      BY <2>0, <3>1 DEF CalledBefore, OneEnds, Ending
    <3>7. finished = 0
      BY <2>0, <3>1, <3>6 DEF CalledBefore, Ending
    <3>8. CalledBefore'
      <4>1. \A u \in Threads : spc'[u] # "callback"
        BY <3>3, <3>6 DEF Ending
      <4>2. finished' = 1
        BY <3>1, <3>7
      <4>3. QED
        BY <3>1, <3>3, <3>6, <4>1, <4>2 DEF CalledBefore
    <3>9. StateTypes'
      BY <2>0, <3>1, <3>2 DEF StateTypes
    <3>10. OneEnds'
      BY <2>0, <3>1, <3>4 DEF OneEnds
    <3>11. QED
      BY <2>0, <3>1, <3>5, <3>8, <3>9, <3>10 DEF StateInv, StateCounted, LockedWithHandle
  <2>9. ASSUME NEW t \in Threads, S!Delete(t)
        PROVE  StateInv'
    <3>1. /\ spc[t] = "delete" /\ deleted' = TRUE /\ spc' = [spc EXCEPT ![t] = "idle"]
          /\ UNCHANGED <<handles, shareCount, owner, callback, finished>>
      BY <2>9 DEF S!Delete
    <3>2. spc \in [Threads -> {"idle", "release", "callback", "delete"}]
      BY <2>0 DEF StateTypes
    <3>3. spc'[t] = "idle" /\ \A u \in Threads : u # t => spc'[u] = spc[u]
      BY <3>1, <3>2
    <3>4. shareCount = 0 /\ \A u \in Threads : Ending(u) => u = t
      BY <2>0, <3>1 DEF OneEnds, Ending
    <3>5. \A u \in Threads : ~Ending(u)'
      BY <3>3, <3>4 DEF Ending
    <3>6. LettingGo' = LettingGo
      BY <3>1, <3>3 DEF LettingGo
    <3>7. OneEnds'
      BY <3>1, <3>4, <3>5 DEF OneEnds
    <3>8. CalledBefore'
      BY <2>0, <3>1, <3>5 DEF CalledBefore, Ending
    <3>9. StateTypes'
      BY <2>0, <3>1, <3>2 DEF StateTypes
    <3>10. QED
      BY <2>0, <3>1, <3>6, <3>7, <3>8, <3>9 DEF StateInv, StateCounted, LockedWithHandle
  <2>10. CASE UNCHANGED svars
    BY <2>0, <2>10 DEF svars, StateInv, StateTypes, StateCounted, LettingGo, OneEnds, LockedWithHandle, CalledBefore, Ending
  <2>11. QED
    BY <2>2, <2>3, <2>4, <2>5, <2>6, <2>7, <2>8, <2>9, <2>10 DEF S!Next, S!Step
<1>3. StateInv => FinishedLast
  <2> SUFFICES ASSUME StateInv
               PROVE  S!FinishedLast
    BY DEF FinishedLast
  <2>0. StateTypes /\ StateCounted /\ OneEnds /\ LockedWithHandle /\ CalledBefore
    BY DEF StateInv
  <2>1. Cardinality(LettingGo) \in Nat /\ (Cardinality(LettingGo) = 0 <=> LettingGo = {})
    BY SharedAssumption, FS_Subset, FS_CardinalityType, FS_EmptySet DEF LettingGo
  <2>2. shareCount = 0 <=> \A t \in Threads : handles[t] = 0 /\ spc[t] # "release"
    <3>1. shareCount = 0 <=> Cardinality(Pairs(handles)) = 0 /\ Cardinality(LettingGo) = 0
      BY <2>0, <2>1, PairsFinite DEF StateCounted
    <3>2. Cardinality(Pairs(handles)) = 0 <=> \A t \in Threads : handles[t] = 0
      BY <2>0, NoPairs DEF StateTypes
    <3>3. LettingGo = {} <=> \A t \in Threads : spc[t] # "release"
      BY DEF LettingGo
    <3>4. QED
      BY <2>1, <3>1, <3>2, <3>3
  <2>3. shareCount = 0 => owner = Null
    BY <2>0, <2>2 DEF LockedWithHandle, StateTypes
  <2>4. \A t \in Threads : Ending(t) <=> spc[t] \notin {"idle", "release"}
    BY <2>0 DEF Ending, StateTypes
  <2>5. deleted <=> \A t \in Threads : handles[t] = 0 /\ spc[t] = "idle"
    BY <2>0, <2>2, <2>4 DEF OneEnds
  <2>6. finished <= 1 /\ (deleted /\ callback => finished = 1)
    BY <2>0 DEF CalledBefore
  <2>7. Cardinality({t \in Threads : spc[t] \in {"callback", "delete"}}) <= 1
    <3> DEFINE E == {t \in Threads : spc[t] \in {"callback", "delete"}}
    <3>1. CASE E = {}
      BY <3>1, FS_EmptySet
    <3>2. ASSUME NEW t \in E
          PROVE  Cardinality(E) = 1
      <4>1. E = {t}
        BY <2>0, <3>2 DEF OneEnds, Ending
      <4>2. QED
        BY <4>1, FS_Singleton
    <3>3. QED
      BY <3>1, <3>2
  <2>8. deleted \/ (\E t \in Threads : Ending(t)) =>
          owner = Null /\ \A t \in Threads : handles[t] = 0 /\ spc[t] # "release"
    BY <2>0, <2>2, <2>3 DEF OneEnds
  <2>9. QED
    BY <2>5, <2>6, <2>7, <2>8, SameCardinality DEF S!FinishedLast, Ending
<1>4. QED
  BY <1>1, <1>2, <1>3, PTL DEF StateSpec

-----------------------------------------------------------------------------
(* stack.h and refcnt.h *)

StackTypes ==
  /\ head \in [StackThreads -> Nodes \cup {Null}] /\ due \in [StackThreads -> Nodes \cup {Null}]
  /\ parent \in [Nodes -> Nodes \cup {Null}] /\ counter \in [Nodes -> Nat]
  /\ live \subseteq Nodes

\* What refers to node n: heads, nodes above it, and threads that release it.
HeadsAt(n) == {t \in StackThreads : head[t] = n}
Above(n) == {m \in live : parent[m] = n}
DueAt(n) == {t \in StackThreads : due[t] = n}
NodeRefs(n) == Cardinality(HeadsAt(n)) + Cardinality(Above(n)) + Cardinality(DueAt(n))

NodesCounted == \A n \in Nodes : counter[n] = NodeRefs(n)
LiveCounted == \A n \in Nodes : n \in live <=> counter[n] > 0

StackInv == StackTypes /\ NodesCounted /\ LiveCounted

Is(a, b) == IF a = b THEN 1 ELSE 0
IsAbove(m, n) == IF m \in live /\ parent[m] = n THEN 1 ELSE 0

\* Thread t changes its variables, node m is made, deleted or stays.
LEMMA NodeRefsChange ==
  ASSUME StackTypes, live' \subseteq Nodes, NEW t \in StackThreads, NEW m \in Nodes, NEW n,
         \A u \in StackThreads \ {t} : head'[u] = head[u] /\ due'[u] = due[u],
         \A k \in Nodes \ {m} : parent'[k] = parent[k] /\ (k \in live' <=> k \in live)
  PROVE  /\ NodeRefs(n) \in Nat /\ NodeRefs(n)' \in Nat
         /\ NodeRefs(n) >= Is(head[t], n) + Is(due[t], n) + IsAbove(m, n)
         /\ NodeRefs(n)' = NodeRefs(n) + (Is(head'[t], n) - Is(head[t], n))
              + (Is(due'[t], n) - Is(due[t], n)) + (IsAbove(m, n)' - IsAbove(m, n))
<1>1. IsFiniteSet(HeadsAt(n)) /\ IsFiniteSet(Above(n)) /\ IsFiniteSet(DueAt(n))
  <2>1. HeadsAt(n) \subseteq StackThreads /\ DueAt(n) \subseteq StackThreads /\ Above(n) \subseteq Nodes
    BY DEF HeadsAt, Above, DueAt, StackTypes
  <2>2. QED
    BY <2>1, SharedAssumption, FS_Subset
<1>2. /\ \A u : u # t => (u \in HeadsAt(n) <=> u \in HeadsAt(n)')
      /\ \A u : u # t => (u \in DueAt(n) <=> u \in DueAt(n)')
  BY DEF HeadsAt, DueAt
<1>3. \A u : u # m => (u \in Above(n) <=> u \in Above(n)')
  BY DEF Above, StackTypes
<1>4. /\ Cardinality(HeadsAt(n)) \in Nat /\ Cardinality(HeadsAt(n)') \in Nat
      /\ Cardinality(HeadsAt(n)') = Cardinality(HeadsAt(n)) + In(t, HeadsAt(n)') - In(t, HeadsAt(n))
      /\ Cardinality(HeadsAt(n)) >= In(t, HeadsAt(n))
  BY <1>1, <1>2, OneChange
<1>5. /\ Cardinality(DueAt(n)) \in Nat /\ Cardinality(DueAt(n)') \in Nat
      /\ Cardinality(DueAt(n)') = Cardinality(DueAt(n)) + In(t, DueAt(n)') - In(t, DueAt(n))
      /\ Cardinality(DueAt(n)) >= In(t, DueAt(n))
  BY <1>1, <1>2, OneChange
<1>6. /\ Cardinality(Above(n)) \in Nat /\ Cardinality(Above(n)') \in Nat
      /\ Cardinality(Above(n)') = Cardinality(Above(n)) + In(m, Above(n)') - In(m, Above(n))
      /\ Cardinality(Above(n)) >= In(m, Above(n))
  BY <1>1, <1>3, OneChange
<1>7. /\ NodeRefs(n) = Cardinality(HeadsAt(n)) + Cardinality(Above(n)) + Cardinality(DueAt(n))
      /\ NodeRefs(n)' = Cardinality(HeadsAt(n)') + Cardinality(Above(n)') + Cardinality(DueAt(n)')
  BY DEF NodeRefs
<1>8. /\ In(t, HeadsAt(n)) = Is(head[t], n) /\ In(t, HeadsAt(n)') = Is(head'[t], n)
      /\ In(t, DueAt(n)) = Is(due[t], n) /\ In(t, DueAt(n)') = Is(due'[t], n)
      /\ In(m, Above(n)) = IsAbove(m, n) /\ In(m, Above(n)') = IsAbove(m, n)'
  BY DEF In, Is, IsAbove, HeadsAt, DueAt, Above
<1>9. \A X, u : In(u, X) \in {0, 1}
  BY DEF In
<1>10. QED
  BY <1>4, <1>5, <1>6, <1>7, <1>8, <1>9

\* Every node counts what refers to it and is there while it counts any
\* (stack.h, refcnt.h).
THEOREM StackCounted == StackSpec => []StackCounts
<1>1. K!Init => StackInv
  <2> SUFFICES ASSUME K!Init
               PROVE  StackInv
    OBVIOUS
  <2>1. StackTypes
    BY DEF K!Init, StackTypes
  <2>2. \A n \in Nodes : HeadsAt(n) = {} /\ Above(n) = {} /\ DueAt(n) = {} /\ counter[n] = 0
    BY SharedAssumption DEF K!Init, HeadsAt, Above, DueAt
  <2>3. \A n \in Nodes : NodeRefs(n) = 0
    BY <2>2, FS_EmptySet DEF NodeRefs
  <2>4. QED
    BY <2>1, <2>2, <2>3 DEF StackInv, NodesCounted, LiveCounted, K!Init
<1>2. StackInv /\ [K!Next]_kvars => StackInv'
  <2> SUFFICES ASSUME StackInv, [K!Next]_kvars
               PROVE  StackInv'
    OBVIOUS
  <2>0. StackTypes /\ NodesCounted /\ LiveCounted
    BY DEF StackInv
  <2>0a. Null \notin Nodes
    BY SharedAssumption
  <2>0b. /\ head \in [StackThreads -> Nodes \cup {Null}] /\ due \in [StackThreads -> Nodes \cup {Null}]
         /\ parent \in [Nodes -> Nodes \cup {Null}] /\ counter \in [Nodes -> Nat] /\ live \subseteq Nodes
    BY <2>0 DEF StackTypes
  <2>1. ASSUME NEW t \in StackThreads, NEW m \in Nodes, live' \subseteq Nodes,
               \A u \in StackThreads \ {t} : head'[u] = head[u] /\ due'[u] = due[u],
               \A k \in Nodes \ {m} : parent'[k] = parent[k] /\ (k \in live' <=> k \in live)
        PROVE  \A n \in Nodes :
                 /\ NodeRefs(n) \in Nat /\ NodeRefs(n)' \in Nat
                 /\ NodeRefs(n) >= Is(head[t], n) + Is(due[t], n) + IsAbove(m, n)
                 /\ NodeRefs(n)' = NodeRefs(n) + (Is(head'[t], n) - Is(head[t], n))
                      + (Is(due'[t], n) - Is(due[t], n)) + (IsAbove(m, n)' - IsAbove(m, n))
    BY <2>0, <2>1, NodeRefsChange
  \* Whatever is referred to is allocated.
  <2>2. /\ \A t \in StackThreads : head[t] # Null => head[t] \in live
        /\ \A t \in StackThreads : due[t] # Null => due[t] \in live
        /\ \A m \in live : parent[m] # Null => parent[m] \in live
    <3>1. ASSUME NEW t \in StackThreads, NEW m \in Nodes, NEW n \in Nodes,
                 head[t] = n \/ due[t] = n \/ (m \in live /\ parent[m] = n)
          PROVE  n \in live
      <4>1. /\ IsFiniteSet(HeadsAt(n)) /\ IsFiniteSet(Above(n)) /\ IsFiniteSet(DueAt(n))
        <5>1. HeadsAt(n) \subseteq StackThreads /\ DueAt(n) \subseteq StackThreads /\ Above(n) \subseteq Nodes
          BY <2>0b DEF HeadsAt, Above, DueAt
        <5>2. QED
          BY <5>1, SharedAssumption, FS_Subset
      <4>2. HeadsAt(n) # {} \/ Above(n) # {} \/ DueAt(n) # {}
        BY <3>1 DEF HeadsAt, Above, DueAt
      <4>3. /\ Cardinality(HeadsAt(n)) \in Nat /\ Cardinality(Above(n)) \in Nat /\ Cardinality(DueAt(n)) \in Nat
            /\ Cardinality(HeadsAt(n)) # 0 \/ Cardinality(Above(n)) # 0 \/ Cardinality(DueAt(n)) # 0
        BY <4>1, <4>2, FS_CardinalityType, FS_EmptySet
      <4>4. NodeRefs(n) > 0
        BY <4>3 DEF NodeRefs
      <4>5. QED
        BY <2>0, <4>4 DEF NodesCounted, LiveCounted
    <3>2. ASSUME NEW t \in StackThreads
          PROVE  /\ head[t] # Null => head[t] \in live
                 /\ due[t] # Null => due[t] \in live
      BY <2>0b, <3>1, <3>2
    <3>3. ASSUME NEW m \in live, parent[m] # Null
          PROVE  parent[m] \in live
      <4>1. /\ IsFiniteSet(Above(parent[m])) /\ IsFiniteSet(HeadsAt(parent[m])) /\ IsFiniteSet(DueAt(parent[m]))
        <5>1. /\ HeadsAt(parent[m]) \subseteq StackThreads /\ DueAt(parent[m]) \subseteq StackThreads
              /\ Above(parent[m]) \subseteq Nodes
          BY <2>0b DEF HeadsAt, Above, DueAt
        <5>2. QED
          BY <5>1, SharedAssumption, FS_Subset
      <4>2. m \in Above(parent[m])
        BY DEF Above
      <4>3. /\ Cardinality(HeadsAt(parent[m])) \in Nat /\ Cardinality(Above(parent[m])) \in Nat
            /\ Cardinality(DueAt(parent[m])) \in Nat /\ Cardinality(Above(parent[m])) # 0
        BY <4>1, <4>2, FS_CardinalityType, FS_EmptySet
      <4>4. NodeRefs(parent[m]) > 0
        BY <4>3 DEF NodeRefs
      <4>5. parent[m] \in Nodes
        BY <2>0b, <3>3
      <4>6. QED
        BY <2>0, <4>4, <4>5 DEF NodesCounted, LiveCounted
    <3>4. QED
      BY <3>2, <3>3
  \* The three parts, for a step that never changes them but at t and m.
  <2>3. ASSUME NEW t \in StackThreads, K!Push(t)
        PROVE  StackInv'
    <3>1. PICK n \in Nodes \ live :
             /\ live' = live \cup {n} /\ parent' = [parent EXCEPT ![n] = head[t]]
             /\ counter' = [m \in Nodes |-> [counter EXCEPT ![n] = 1][m] + IF m = head[t] THEN 1 ELSE 0]
             /\ head' = [head EXCEPT ![t] = n] /\ due' = [due EXCEPT ![t] = head[t]] /\ due[t] = Null
      BY <2>3 DEF K!Push, K!Plus
    <3>2. /\ \A u \in StackThreads \ {t} : head'[u] = head[u] /\ due'[u] = due[u]
          /\ \A k \in Nodes \ {n} : parent'[k] = parent[k] /\ (k \in live' <=> k \in live)
          /\ head'[t] = n /\ due'[t] = head[t] /\ parent'[n] = head[t] /\ n \in live' /\ live' \subseteq Nodes
      BY <2>0b, <3>1
    <3>3. head[t] # n
      BY <2>0a, <2>2, <3>1
    <3>4. counter[n] = 0
      BY <2>0, <2>0b DEF LiveCounted
    <3>5. StackTypes'
      BY <2>0b, <3>1 DEF StackTypes
    <3>6. ASSUME NEW k \in Nodes
          PROVE  counter'[k] = NodeRefs(k)'
      <4>1. counter[k] = NodeRefs(k) /\ counter[k] \in Nat
        BY <2>0, <2>0b DEF NodesCounted
      <4>2. counter'[k] = (IF k = n THEN 1 ELSE counter[k]) + Is(head[t], k)
        BY <2>0b, <3>1 DEF Is
      <4>3. NodeRefs(k)' = NodeRefs(k) + (Is(head'[t], k) - Is(head[t], k))
              + (Is(due'[t], k) - Is(due[t], k)) + (IsAbove(n, k)' - IsAbove(n, k))
        BY <2>1, <3>2
      <4>4. Is(head'[t], k) = Is(n, k) /\ Is(due'[t], k) = Is(head[t], k) /\ Is(due[t], k) = 0
            /\ IsAbove(n, k)' = Is(head[t], k) /\ IsAbove(n, k) = 0
        BY <2>0a, <3>1, <3>2 DEF Is, IsAbove
      <4>5. Is(head[t], k) \in {0, 1} /\ Is(n, k) = (IF k = n THEN 1 ELSE 0)
        BY DEF Is
      <4>6. QED
        BY <3>4, <4>1, <4>2, <4>3, <4>4, <4>5
    <3>7. LiveCounted'
      <4>1. ASSUME NEW k \in Nodes
            PROVE  k \in live' <=> counter'[k] > 0
        BY <2>0, <2>0a, <2>0b, <2>2, <3>1, <4>1 DEF LiveCounted
      <4>2. QED
        BY <4>1 DEF LiveCounted
    <3>8. QED
      BY <3>5, <3>6, <3>7 DEF StackInv, NodesCounted
  \* Pop and Assign: the head becomes x, which is counted first.
  <2>4. ASSUME NEW t \in StackThreads, NEW x \in live \cup {Null}, due[t] = Null,
               counter' = [m \in Nodes |-> counter[m] + IF m = x THEN 1 ELSE 0],
               head' = [head EXCEPT ![t] = x], due' = [due EXCEPT ![t] = head[t]],
               UNCHANGED <<parent, live>>
        PROVE  StackInv'
    <3>1. StackTypes'
      BY <2>0b, <2>4 DEF StackTypes
    <3>2. head'[t] = x /\ due'[t] = head[t]
          /\ \A u \in StackThreads \ {t} : head'[u] = head[u] /\ due'[u] = due[u]
      BY <2>0b, <2>4
    <3>3. ASSUME NEW k \in Nodes
          PROVE  counter'[k] = NodeRefs(k)'
      <4>1. counter[k] = NodeRefs(k) /\ counter[k] \in Nat
        BY <2>0, <2>0b DEF NodesCounted
      <4>2. counter'[k] = counter[k] + Is(x, k)
        BY <2>0b, <2>4 DEF Is
      <4>3. NodeRefs(k)' = NodeRefs(k) + (Is(head'[t], k) - Is(head[t], k))
              + (Is(due'[t], k) - Is(due[t], k)) + (IsAbove(k, k)' - IsAbove(k, k))
        BY <2>0b, <2>1, <2>4, <3>2
      <4>4. /\ Is(head'[t], k) = Is(x, k) /\ Is(due'[t], k) = Is(head[t], k) /\ Is(due[t], k) = 0
            /\ IsAbove(k, k)' = IsAbove(k, k)
        BY <2>0a, <2>4, <3>2 DEF Is, IsAbove
      <4>5. Is(head[t], k) \in {0, 1} /\ Is(x, k) \in {0, 1} /\ IsAbove(k, k) \in {0, 1}
        BY DEF Is, IsAbove
      <4>6. QED
        BY <4>1, <4>2, <4>3, <4>4, <4>5
    <3>4. ASSUME NEW k \in Nodes
          PROVE  k \in live' <=> counter'[k] > 0
      BY <2>0, <2>0a, <2>0b, <2>4 DEF LiveCounted
    <3>5. QED
      BY <3>1, <3>3, <3>4 DEF StackInv, NodesCounted, LiveCounted
  <2>5. ASSUME NEW t \in StackThreads, K!Pop(t)
        PROVE  StackInv'
    <3>1. /\ due[t] = Null /\ head[t] # Null /\ head[t] \in live
          /\ counter' = [m \in Nodes |-> counter[m] + IF m = parent[head[t]] THEN 1 ELSE 0]
          /\ head' = [head EXCEPT ![t] = parent[head[t]]] /\ due' = [due EXCEPT ![t] = head[t]]
          /\ UNCHANGED <<parent, live>>
      BY <2>2, <2>5 DEF K!Pop, K!Plus
    <3>2. parent[head[t]] \in live \cup {Null}
      BY <2>2, <3>1
    <3>3. QED
      BY <2>4, <3>1, <3>2
  <2>6. ASSUME NEW t \in StackThreads, NEW u \in StackThreads, K!Assign(t, u)
        PROVE  StackInv'
    <3>1. /\ due[t] = Null
          /\ counter' = [m \in Nodes |-> counter[m] + IF m = head[u] THEN 1 ELSE 0]
          /\ head' = [head EXCEPT ![t] = head[u]] /\ due' = [due EXCEPT ![t] = head[t]]
          /\ UNCHANGED <<parent, live>>
      BY <2>6 DEF K!Assign, K!Plus
    <3>2. head[u] \in live \cup {Null}
      BY <2>2
    <3>3. QED
      BY <2>4, <3>1, <3>2
  <2>7. ASSUME NEW t \in StackThreads, K!Release(t)
        PROVE  StackInv'
    <3>1. PICK n \in live : n = due[t]
      BY <2>2, <2>7 DEF K!Release
    <3>2. /\ counter' = [counter EXCEPT ![n] = counter[n] - 1]
          /\ live' = IF counter'[n] = 0 THEN live \ {n} ELSE live
          /\ due' = [due EXCEPT ![t] = IF counter'[n] = 0 THEN parent[n] ELSE Null]
          /\ UNCHANGED <<head, parent>>
      BY <2>7, <3>1 DEF K!Release
    <3>3. n \in Nodes /\ counter[n] \in Nat /\ counter[n] > 0 /\ counter'[n] = counter[n] - 1
          /\ \A k \in Nodes \ {n} : counter'[k] = counter[k]
      BY <2>0, <2>0b, <3>1, <3>2 DEF LiveCounted
    <3>4. StackTypes'
      BY <2>0b, <3>2, <3>3 DEF StackTypes
    <3>5. /\ \A u \in StackThreads \ {t} : head'[u] = head[u] /\ due'[u] = due[u]
          /\ \A k \in Nodes \ {n} : parent'[k] = parent[k] /\ (k \in live' <=> k \in live)
          /\ head'[t] = head[t] /\ due'[t] = (IF counter'[n] = 0 THEN parent[n] ELSE Null)
          /\ live' \subseteq Nodes /\ (n \in live' <=> counter'[n] # 0)
      BY <2>0b, <3>1, <3>2
    <3>6. \A k \in Nodes :
            /\ NodeRefs(k) \in Nat /\ NodeRefs(k) = counter[k]
            /\ NodeRefs(k) >= Is(head[t], k) + Is(due[t], k) + IsAbove(n, k)
            /\ NodeRefs(k)' = NodeRefs(k) + (Is(head'[t], k) - Is(head[t], k))
                 + (Is(due'[t], k) - Is(due[t], k)) + (IsAbove(n, k)' - IsAbove(n, k))
      BY <2>0, <2>1, <3>3, <3>5 DEF NodesCounted
    \* The last reference is not the node's own.
    <3>7. counter'[n] = 0 => parent[n] # n
      <4>1. counter[n] >= Is(head[t], n) + Is(due[t], n) + IsAbove(n, n)
        BY <3>3, <3>6
      <4>2. Is(head[t], n) \in {0, 1} /\ Is(due[t], n) = 1
        BY <3>1 DEF Is
      <4>3. parent[n] = n => IsAbove(n, n) = 1
        BY DEF IsAbove
      <4>4. QED
        BY <3>3, <4>1, <4>2, <4>3
    <3>8. ASSUME NEW k \in Nodes
          PROVE  counter'[k] = NodeRefs(k)'
      <4>1. /\ NodeRefs(k) \in Nat /\ NodeRefs(k) = counter[k] /\ Is(head[t], k) \in {0, 1}
            /\ NodeRefs(k)' = NodeRefs(k) + (Is(due'[t], k) - Is(due[t], k)) + (IsAbove(n, k)' - IsAbove(n, k))
        <5>1. Is(head'[t], k) = Is(head[t], k) /\ Is(head[t], k) \in {0, 1} /\ Is(due'[t], k) \in {0, 1}
              /\ Is(due[t], k) \in {0, 1} /\ IsAbove(n, k)' \in {0, 1} /\ IsAbove(n, k) \in {0, 1}
          BY <3>5 DEF Is, IsAbove
        <5>2. QED
          BY <3>6, <5>1
      <4>2. Is(due[t], k) = (IF k = n THEN 1 ELSE 0) /\ IsAbove(n, k) = Is(parent[n], k)
        BY <3>1 DEF Is, IsAbove
      <4>3. CASE counter'[n] = 0
        <5>1. Is(due'[t], k) = Is(parent[n], k) /\ IsAbove(n, k)' = 0
          BY <3>5, <4>3 DEF IsAbove
        <5>2. Is(parent[n], k) \in {0, 1}
          BY DEF Is
        <5>3. QED
          BY <3>3, <4>1, <4>2, <5>1, <5>2
      <4>4. CASE counter'[n] # 0
        <5>1. Is(due'[t], k) = 0 /\ IsAbove(n, k)' = Is(parent[n], k)
          BY <2>0a, <3>2, <3>5, <4>4 DEF Is, IsAbove
        <5>2. Is(parent[n], k) \in {0, 1}
          BY DEF Is
        <5>3. QED
          BY <3>3, <4>1, <4>2, <5>1, <5>2
      <4>5. QED
        BY <4>3, <4>4
    <3>9. ASSUME NEW k \in Nodes
          PROVE  k \in live' <=> counter'[k] > 0
      BY <2>0, <3>3, <3>5 DEF LiveCounted
    <3>10. QED
      BY <3>4, <3>8, <3>9 DEF StackInv, NodesCounted, LiveCounted
  <2>8. CASE UNCHANGED kvars
    BY <2>0, <2>8 DEF kvars, StackInv, StackTypes, NodesCounted, LiveCounted, NodeRefs, HeadsAt, Above, DueAt
  <2>9. QED
    BY <2>3, <2>5, <2>6, <2>7, <2>8 DEF K!Next
<1>3. StackInv => StackCounts
  <2> SUFFICES ASSUME StackInv
               PROVE  K!StackCounts
    BY DEF StackCounts
  <2>1. \A n \in Nodes : counter[n] = NodeRefs(n)
    BY DEF StackInv, NodesCounted
  <2>2. live = {n \in Nodes : counter[n] > 0}
    BY DEF StackInv, LiveCounted, StackTypes
  <2>3. QED
    BY <2>1, <2>2, SameCardinality DEF K!StackCounts, NodeRefs, HeadsAt, Above, DueAt
<1>4. QED
  BY <1>1, <1>2, <1>3, PTL DEF StackSpec

-----------------------------------------------------------------------------
(* fastsharedalloc.h *)

Distinct(s) == \A i, j \in DOMAIN s : s[i] = s[j] => i = j

AllocTypes ==
  /\ blk_stack \in {"list", "busy", "shutdown"} /\ list \in Seq(Blocks) /\ heap \subseteq Blocks
  /\ user \in [Threads -> SUBSET Blocks] /\ hand \in [Threads -> Seq(Blocks)]
  /\ apc \in [Threads -> {"idle", "spin", "putback", "take"}]
  /\ found \in [Threads -> {"list", "shutdown"}]

\* Where block b is: it counts one for each place.
UsersOf(b) == {t \in Threads : b \in user[t]}
HandsWith(b) == {t \in Threads : b \in A!Elements(hand[t])}
Where(b) == In(b, heap) + Cardinality(UsersOf(b)) + Cardinality(HandsWith(b)) + In(b, A!Elements(list))

\* Under a flag there is no list; a thread that has a list has taken it out to
\* take its first block.
ListOrFlag == blk_stack # "list" => list = <<>>
TakesWhatItHas == \A t \in Threads : apc[t] = "take" <=> hand[t] # <<>>
NothingTwice == Distinct(list) /\ \A t \in Threads : Distinct(hand[t])
OnePlace == \A b \in Blocks : Where(b) = 1

AllocInv == AllocTypes /\ ListOrFlag /\ TakesWhatItHas /\ NothingTwice /\ OnePlace

LEMMA ElementsPush ==
  ASSUME NEW s \in Seq(Blocks), NEW b \in Blocks
  PROVE  /\ <<b>> \o s \in Seq(Blocks)
         /\ A!Elements(<<b>> \o s) = {b} \cup A!Elements(s)
         /\ Distinct(s) /\ b \notin A!Elements(s) => Distinct(<<b>> \o s)
<1> DEFINE r == <<b>> \o s
<1>1. Len(s) \in Nat /\ DOMAIN s = 1..Len(s)
  OBVIOUS
<1>2. r \in Seq(Blocks) /\ DOMAIN r = 1..Len(s) + 1 /\ r[1] = b
      /\ \A i \in 1..Len(s) : r[i + 1] = s[i]
  BY <1>1
<1>3. \A i \in 2..Len(s) + 1 : i - 1 \in 1..Len(s) /\ r[i] = s[i - 1]
  <2>1. ASSUME NEW i \in 2..Len(s) + 1
        PROVE  i - 1 \in 1..Len(s) /\ (i - 1) + 1 = i
    BY <1>1
  <2> HIDE DEF r
  <2>2. QED
    BY <1>2, <2>1
<1>4. 1 \in DOMAIN r /\ \A i \in 1..Len(s) : i + 1 \in DOMAIN r
  BY <1>1, <1>2
<1>5. \A i \in DOMAIN r : i = 1 \/ i \in 2..Len(s) + 1
  BY <1>1, <1>2
<1> HIDE DEF r
<1>6. A!Elements(r) = {b} \cup A!Elements(s)
  <2>1. ASSUME NEW i \in DOMAIN r
        PROVE  r[i] \in {b} \cup A!Elements(s)
    BY <1>1, <1>2, <1>3, <1>5 DEF A!Elements
  <2>2. ASSUME NEW i \in DOMAIN s
        PROVE  s[i] \in A!Elements(r)
    BY <1>1, <1>2, <1>4 DEF A!Elements
  <2>3. b \in A!Elements(r)
    BY <1>2, <1>4 DEF A!Elements
  <2>4. QED
    BY <2>1, <2>2, <2>3 DEF A!Elements
<1>7. ASSUME Distinct(s), b \notin A!Elements(s)
      PROVE  Distinct(r)
  <2> SUFFICES ASSUME NEW i \in DOMAIN r, NEW j \in DOMAIN r, r[i] = r[j]
               PROVE  i = j
    BY DEF Distinct
  <2>1. \A k \in 2..Len(s) + 1 : r[k] # b
    BY <1>1, <1>3, <1>7 DEF A!Elements
  <2>2. CASE i = 1 \/ j = 1
    BY <1>2, <1>5, <2>1, <2>2
  <2>3. CASE i # 1 /\ j # 1
    <3>1. i - 1 \in DOMAIN s /\ j - 1 \in DOMAIN s /\ s[i - 1] = s[j - 1]
      BY <1>1, <1>3, <1>5, <2>3
    <3>2. i - 1 = j - 1
      BY <1>7, <3>1 DEF Distinct
    <3>3. QED
      BY <1>1, <1>5, <2>3, <3>2
  <2>4. QED
    BY <2>2, <2>3
<1>8. QED
  BY <1>2, <1>6, <1>7 DEF r

LEMMA ElementsTail ==
  ASSUME NEW s \in Seq(Blocks), s # <<>>, Distinct(s)
  PROVE  /\ Tail(s) \in Seq(Blocks) /\ Distinct(Tail(s))
         /\ Head(s) \in A!Elements(s) /\ Head(s) \in Blocks
         /\ A!Elements(Tail(s)) = A!Elements(s) \ {Head(s)}
<1> DEFINE r == Tail(s)
<1>1. Len(s) \in Nat /\ DOMAIN s = 1..Len(s) /\ Len(s) > 0 /\ Head(s) = s[1]
  BY EmptySeq
<1>2. r \in Seq(Blocks) /\ Len(r) = Len(s) - 1 /\ DOMAIN r = 1..Len(s) - 1
      /\ \A i \in 1..Len(s) - 1 : r[i] = s[i + 1]
  BY <1>1, HeadTailProperties
<1> HIDE DEF r
<1>3. 1 \in DOMAIN s /\ \A i \in 1..Len(s) - 1 : i + 1 \in DOMAIN s
  BY <1>1
<1>4. ASSUME NEW i \in DOMAIN s, i # 1
      PROVE  i - 1 \in DOMAIN r /\ r[i - 1] = s[i]
  <2>1. i - 1 \in 1..Len(s) - 1 /\ (i - 1) + 1 = i
    BY <1>1, <1>4
  <2>2. QED
    BY <1>2, <2>1
<1>5. Distinct(r)
  <2> SUFFICES ASSUME NEW i \in DOMAIN r, NEW j \in DOMAIN r, r[i] = r[j]
               PROVE  i = j
    BY DEF Distinct
  <2>1. i + 1 \in DOMAIN s /\ j + 1 \in DOMAIN s /\ s[i + 1] = s[j + 1]
    BY <1>2, <1>3
  <2>2. i + 1 = j + 1
    BY <2>1 DEF Distinct
  <2>3. QED
    BY <1>1, <1>2, <2>2
<1>6. ASSUME NEW i \in DOMAIN r
      PROVE  r[i] \in A!Elements(s) \ {Head(s)}
  <2>1. i + 1 \in DOMAIN s /\ r[i] = s[i + 1] /\ i + 1 # 1
    BY <1>1, <1>2, <1>3
  <2>2. s[i + 1] # s[1]
    BY <1>3, <2>1 DEF Distinct
  <2>3. QED
    BY <1>1, <2>1, <2>2 DEF A!Elements
<1>7. ASSUME NEW i \in DOMAIN s, s[i] # Head(s)
      PROVE  s[i] \in A!Elements(r)
  BY <1>1, <1>4, <1>7 DEF A!Elements
<1>8. A!Elements(r) = A!Elements(s) \ {Head(s)}
  BY <1>6, <1>7 DEF A!Elements
<1>9. Head(s) \in A!Elements(s) /\ Head(s) \in Blocks
  BY <1>1, <1>3 DEF A!Elements
<1>10. QED
  BY <1>2, <1>5, <1>8, <1>9 DEF r

\* Thread t's step.
LEMMA WhereChange ==
  ASSUME NEW t \in Threads, NEW b,
         \A u \in Threads \ {t} : user'[u] = user[u] /\ hand'[u] = hand[u]
  PROVE  /\ Where(b) \in Nat /\ Where(b)' \in Nat
         /\ Where(b) >= In(b, heap) + In(b, user[t]) + In(b, A!Elements(hand[t])) + In(b, A!Elements(list))
         /\ Where(b)' = Where(b) + (In(b, heap') - In(b, heap)) + (In(b, user'[t]) - In(b, user[t]))
              + (In(b, A!Elements(hand'[t])) - In(b, A!Elements(hand[t])))
              + (In(b, A!Elements(list')) - In(b, A!Elements(list)))
<1>1. IsFiniteSet(UsersOf(b)) /\ IsFiniteSet(HandsWith(b))
  BY SharedAssumption, FS_Subset DEF UsersOf, HandsWith
<1>2. /\ \A u : u # t => (u \in UsersOf(b) <=> u \in UsersOf(b)')
      /\ \A u : u # t => (u \in HandsWith(b) <=> u \in HandsWith(b)')
  BY DEF UsersOf, HandsWith
<1>3. /\ Cardinality(UsersOf(b)) \in Nat /\ Cardinality(UsersOf(b)') \in Nat
      /\ Cardinality(UsersOf(b)') = Cardinality(UsersOf(b)) + In(t, UsersOf(b)') - In(t, UsersOf(b))
      /\ Cardinality(UsersOf(b)) >= In(t, UsersOf(b))
  BY <1>1, <1>2, OneChange
<1>4. /\ Cardinality(HandsWith(b)) \in Nat /\ Cardinality(HandsWith(b)') \in Nat
      /\ Cardinality(HandsWith(b)') = Cardinality(HandsWith(b)) + In(t, HandsWith(b)') - In(t, HandsWith(b))
      /\ Cardinality(HandsWith(b)) >= In(t, HandsWith(b))
  BY <1>1, <1>2, OneChange
<1>5. /\ In(t, UsersOf(b)) = In(b, user[t]) /\ In(t, UsersOf(b)') = In(b, user'[t])
      /\ In(t, HandsWith(b)) = In(b, A!Elements(hand[t])) /\ In(t, HandsWith(b)') = In(b, A!Elements(hand'[t]))
  BY DEF In, UsersOf, HandsWith
<1>6. /\ Where(b) = In(b, heap) + Cardinality(UsersOf(b)) + Cardinality(HandsWith(b)) + In(b, A!Elements(list))
      /\ Where(b)' = In(b, heap') + Cardinality(UsersOf(b)') + Cardinality(HandsWith(b)') + In(b, A!Elements(list'))
  BY DEF Where, A!Elements
<1>7. \A X, u : In(u, X) \in {0, 1}
  BY DEF In
<1>8. QED
  BY <1>3, <1>4, <1>5, <1>6, <1>7

LEMMA EmptyElements == A!Elements(<<>>) = {} /\ Distinct(<<>>)
  BY DEF A!Elements, Distinct

-----------------------------------------------------------------------------
\* No block is lost, and none is in two places (fastsharedalloc.h).
THEOREM BlocksStay == AllocSpec => []BlocksConserved
<1>1. A!Init => AllocInv
  <2> SUFFICES ASSUME A!Init
               PROVE  AllocInv
    OBVIOUS
  <2>1. /\ blk_stack = "list" /\ list = <<>> /\ heap = Blocks
        /\ user = [t \in Threads |-> {}] /\ hand = [t \in Threads |-> <<>>]
        /\ apc = [t \in Threads |-> "idle"] /\ found = [t \in Threads |-> "list"]
    BY DEF A!Init
  <2>2. AllocTypes
    BY <2>1 DEF AllocTypes
  <2>3. ASSUME NEW b \in Blocks
        PROVE  Where(b) = 1
    <3>1. UsersOf(b) = {} /\ HandsWith(b) = {}
      BY <2>1, EmptyElements DEF UsersOf, HandsWith
    <3>2. Cardinality(UsersOf(b)) = 0 /\ Cardinality(HandsWith(b)) = 0
      BY <3>1, FS_EmptySet
    <3>3. In(b, heap) = 1 /\ In(b, A!Elements(list)) = 0
      BY <2>1, EmptyElements DEF In
    <3>4. QED
      BY <3>2, <3>3 DEF Where
  <2>4. QED
    BY <2>1, <2>2, <2>3, EmptyElements DEF AllocInv, ListOrFlag, TakesWhatItHas, NothingTwice, OnePlace
<1>2. AllocInv /\ [A!Next]_avars => AllocInv'
  <2> SUFFICES ASSUME AllocInv, [A!Next]_avars
               PROVE  AllocInv'
    OBVIOUS
  <2>0. AllocTypes /\ ListOrFlag /\ TakesWhatItHas /\ NothingTwice /\ OnePlace
    BY DEF AllocInv
  <2>0a. /\ blk_stack \in {"list", "busy", "shutdown"} /\ list \in Seq(Blocks) /\ heap \subseteq Blocks
         /\ user \in [Threads -> SUBSET Blocks] /\ hand \in [Threads -> Seq(Blocks)]
         /\ apc \in [Threads -> {"idle", "spin", "putback", "take"}]
         /\ found \in [Threads -> {"list", "shutdown"}]
    BY <2>0 DEF AllocTypes
  <2>1. ASSUME NEW t \in Threads, NEW b \in Blocks,
               \A u \in Threads \ {t} : user'[u] = user[u] /\ hand'[u] = hand[u]
        PROVE  /\ Where(b) = 1 /\ Where(b)' \in Nat
               /\ In(b, heap) + In(b, user[t]) + In(b, A!Elements(hand[t])) + In(b, A!Elements(list)) <= 1
               /\ Where(b)' = 1 + (In(b, heap') - In(b, heap)) + (In(b, user'[t]) - In(b, user[t]))
                    + (In(b, A!Elements(hand'[t])) - In(b, A!Elements(hand[t])))
                    + (In(b, A!Elements(list')) - In(b, A!Elements(list)))
    <3>1. Where(b) = 1
      BY <2>0 DEF OnePlace
    <3>2. \A X : In(b, X) \in {0, 1}
      BY DEF In
    <3>3. QED
      BY <2>1, <3>1, <3>2, WhereChange
  \* A block is nowhere else.
  <2>2. ASSUME NEW t \in Threads, NEW b \in Blocks
        PROVE  /\ b \in heap => b \notin user[t]
               /\ b \in A!Elements(hand[t]) => b \notin heap /\ b \notin user[t]
               /\ b \in user[t] => b \notin heap /\ b \notin A!Elements(list)
               /\ b \in A!Elements(list) => b \notin heap
    <3>1. Where(b) = 1
      BY <2>0 DEF OnePlace
    <3>2. IsFiniteSet(UsersOf(b)) /\ IsFiniteSet(HandsWith(b))
      BY SharedAssumption, FS_Subset DEF UsersOf, HandsWith
    <3>3. /\ Cardinality(UsersOf(b)) \in Nat /\ (t \in UsersOf(b) => Cardinality(UsersOf(b)) # 0)
          /\ Cardinality(HandsWith(b)) \in Nat /\ (t \in HandsWith(b) => Cardinality(HandsWith(b)) # 0)
      BY <3>2, FS_CardinalityType, FS_EmptySet
    <3>4. Cardinality(UsersOf(b)) >= In(b, user[t]) /\ Cardinality(HandsWith(b)) >= In(b, A!Elements(hand[t]))
      BY <3>3 DEF In, UsersOf, HandsWith
    <3>5. 1 = In(b, heap) + Cardinality(UsersOf(b)) + Cardinality(HandsWith(b)) + In(b, A!Elements(list))
      BY <3>1 DEF Where
    <3>6. \A X : In(b, X) = IF b \in X THEN 1 ELSE 0
      BY DEF In
    <3>7. In(b, heap) + In(b, user[t]) + In(b, A!Elements(hand[t])) + In(b, A!Elements(list)) <= 1
      <4>1. \A X : In(b, X) \in {0, 1}
        BY DEF In
      <4>2. QED
        BY <3>3, <3>4, <3>5, <4>1
    <3>8. QED
      BY <3>6, <3>7
  <2>3. ASSUME NEW t \in Threads, A!Grab(t)
        PROVE  AllocInv'
    <3>1. /\ apc[t] \in {"idle", "spin"} /\ blk_stack' = "busy" /\ list' = <<>>
          /\ hand' = [hand EXCEPT ![t] = list]
          /\ found' = [found EXCEPT ![t] = IF blk_stack = "busy" THEN found[t] ELSE blk_stack]
          /\ apc' = [apc EXCEPT ![t] = IF blk_stack = "busy" THEN "spin" ELSE IF list # <<>> THEN "take" ELSE "putback"]
          /\ UNCHANGED <<heap, user>>
      BY <2>3 DEF A!Grab, A!Goto
    <3>2. hand[t] = <<>>
      BY <2>0, <3>1 DEF TakesWhatItHas
    <3>3. hand'[t] = list /\ \A u \in Threads \ {t} : hand'[u] = hand[u] /\ user'[u] = user[u] /\ apc'[u] = apc[u]
      BY <2>0a, <3>1
    <3>4. AllocTypes'
      <4>1. <<>> \in Seq(Blocks)
        OBVIOUS
      <4>2. QED
        BY <2>0a, <3>1, <4>1 DEF AllocTypes
    <3>5. TakesWhatItHas'
      <4>1. apc'[t] = "take" <=> hand'[t] # <<>>
        BY <2>0, <2>0a, <3>1, <3>3 DEF ListOrFlag
      <4>2. QED
        BY <2>0, <3>3, <4>1 DEF TakesWhatItHas
    <3>6. NothingTwice'
      BY <2>0, <3>1, <3>3, EmptyElements DEF NothingTwice
    <3>7. ASSUME NEW b \in Blocks
          PROVE  Where(b)' = 1
      <4>1. /\ In(b, heap') = In(b, heap) /\ In(b, user'[t]) = In(b, user[t])
            /\ In(b, A!Elements(hand'[t])) = In(b, A!Elements(list)) /\ In(b, A!Elements(hand[t])) = 0
            /\ In(b, A!Elements(list')) = 0
        BY <3>1, <3>2, <3>3, EmptyElements DEF In
      <4>2. /\ In(b, heap) \in {0, 1} /\ In(b, user[t]) \in {0, 1} /\ In(b, A!Elements(list)) \in {0, 1}
        BY DEF In
      <4>3. Where(b)' = 1 + (In(b, heap') - In(b, heap)) + (In(b, user'[t]) - In(b, user[t]))
              + (In(b, A!Elements(hand'[t])) - In(b, A!Elements(hand[t])))
              + (In(b, A!Elements(list')) - In(b, A!Elements(list)))
        BY <2>1, <3>3
      <4>4. QED
        BY <4>1, <4>2, <4>3
    <3>8. ListOrFlag'
      BY <3>1 DEF ListOrFlag
    <3>9. QED
      BY <3>4, <3>5, <3>6, <3>7, <3>8 DEF AllocInv, OnePlace
  <2>4. ASSUME NEW t \in Threads, A!PutBack(t)
        PROVE  AllocInv'
    <3>1. PICK c \in heap : heap' = heap \ {c} /\ user' = [user EXCEPT ![t] = user[t] \cup {c}]
      BY <2>0a, <2>4 DEF A!PutBack
    <3>2. /\ apc[t] = "putback" /\ blk_stack' = (IF blk_stack = "busy" THEN found[t] ELSE blk_stack)
          /\ apc' = [apc EXCEPT ![t] = "idle"] /\ UNCHANGED <<list, hand, found>>
      BY <2>4 DEF A!PutBack, A!Goto
    <3>3. user'[t] = user[t] \cup {c} /\ apc'[t] = "idle" /\ c \in Blocks
          /\ \A u \in Threads \ {t} : hand'[u] = hand[u] /\ user'[u] = user[u] /\ apc'[u] = apc[u]
      BY <2>0a, <3>1, <3>2
    <3>4. AllocTypes'
      BY <2>0a, <3>1, <3>2 DEF AllocTypes
    <3>5. ListOrFlag' /\ TakesWhatItHas' /\ NothingTwice'
      BY <2>0, <2>0a, <3>2, <3>3 DEF ListOrFlag, TakesWhatItHas, NothingTwice
    <3>6. ASSUME NEW b \in Blocks
          PROVE  Where(b)' = 1
      <4>1. /\ In(b, A!Elements(hand'[t])) = In(b, A!Elements(hand[t])) /\ In(b, A!Elements(list')) = In(b, A!Elements(list))
        BY <3>2
      <4>2. In(b, heap') + In(b, user'[t]) = In(b, heap) + In(b, user[t])
        BY <2>2, <3>1, <3>3 DEF In
      <4>3. /\ \A X : In(b, X) \in {0, 1}
        BY DEF In
      <4>4. Where(b)' = 1 + (In(b, heap') - In(b, heap)) + (In(b, user'[t]) - In(b, user[t]))
              + (In(b, A!Elements(hand'[t])) - In(b, A!Elements(hand[t])))
              + (In(b, A!Elements(list')) - In(b, A!Elements(list)))
        BY <2>1, <3>3
      <4>5. QED
        BY <4>1, <4>2, <4>3, <4>4
    <3>7. QED
      BY <3>4, <3>5, <3>6 DEF AllocInv, OnePlace
  <2>5. ASSUME NEW t \in Threads, A!Take(t)
        PROVE  AllocInv'
    <3>1. PICK s \in Seq(Blocks) : s = hand[t]
      BY <2>0a
    <3>2. /\ apc[t] = "take"
          /\ \/ blk_stack = "busy" /\ blk_stack' = "list" /\ list' = Tail(s) /\ heap' = heap
             \/ blk_stack # "busy" /\ heap' = heap \cup A!Elements(Tail(s)) /\ UNCHANGED <<blk_stack, list>>
          /\ user' = [user EXCEPT ![t] = user[t] \cup {Head(s)}]
          /\ hand' = [hand EXCEPT ![t] = <<>>] /\ apc' = [apc EXCEPT ![t] = "idle"] /\ UNCHANGED found
      BY <2>0a, <2>5, <3>1 DEF A!Take, A!Goto
    <3>3. s # <<>> /\ Distinct(s)
      BY <2>0, <3>1, <3>2 DEF TakesWhatItHas, NothingTwice
    <3>4. /\ Tail(s) \in Seq(Blocks) /\ Distinct(Tail(s))
          /\ Head(s) \in A!Elements(s) /\ Head(s) \in Blocks
          /\ A!Elements(Tail(s)) = A!Elements(s) \ {Head(s)}
      BY <3>3, ElementsTail
    <3>5. /\ user'[t] = user[t] \cup {Head(s)} /\ hand'[t] = <<>> /\ apc'[t] = "idle"
          /\ \A u \in Threads \ {t} : hand'[u] = hand[u] /\ user'[u] = user[u] /\ apc'[u] = apc[u]
      BY <2>0a, <3>2
    <3>6. A!Elements(Tail(s)) \subseteq Blocks
      BY <3>4 DEF A!Elements
    <3>7. AllocTypes'
      <4>1. <<>> \in Seq(Blocks)
        OBVIOUS
      <4>2. blk_stack' \in {"list", "busy", "shutdown"} /\ list' \in Seq(Blocks) /\ heap' \subseteq Blocks
        BY <2>0a, <3>2, <3>4, <3>6
      <4>3. user' \in [Threads -> SUBSET Blocks]
        BY <2>0a, <3>2, <3>4
      <4>4. hand' \in [Threads -> Seq(Blocks)]
        BY <2>0a, <3>2, <4>1
      <4>5. QED
        BY <2>0a, <3>2, <4>2, <4>3, <4>4 DEF AllocTypes
    <3>8. ListOrFlag' /\ TakesWhatItHas'
      BY <2>0, <2>0a, <3>2, <3>5 DEF ListOrFlag, TakesWhatItHas
    <3>9. NothingTwice'
      BY <2>0, <3>2, <3>4, <3>5, EmptyElements DEF NothingTwice
    <3>10. ASSUME NEW b \in Blocks
           PROVE  Where(b)' = 1
      <4>1. \A X : In(b, X) = IF b \in X THEN 1 ELSE 0
        BY DEF In
      <4>2. In(b, A!Elements(hand'[t])) = 0
        BY <3>5, <4>1, EmptyElements
      <4>3. In(b, user'[t]) + In(b, A!Elements(Tail(s))) = In(b, user[t]) + In(b, A!Elements(hand[t]))
        BY <2>2, <3>1, <3>4, <3>5, <4>1
      <4>4. \A X : In(b, X) \in {0, 1}
        BY <4>1
      <4>5. In(b, heap') + In(b, A!Elements(list')) = In(b, heap) + In(b, A!Elements(list)) + In(b, A!Elements(Tail(s)))
        <5>1. CASE blk_stack = "busy"
          <6>1. In(b, A!Elements(list)) = 0
            BY <2>0, <4>1, <5>1, EmptyElements DEF ListOrFlag
          <6>2. In(b, heap') = In(b, heap) /\ In(b, A!Elements(list')) = In(b, A!Elements(Tail(s)))
            BY <3>2, <5>1
          <6>3. QED
            BY <4>4, <6>1, <6>2
        <5>2. CASE blk_stack # "busy"
          <6>1. In(b, A!Elements(list')) = In(b, A!Elements(list)) /\ heap' = heap \cup A!Elements(Tail(s))
            BY <3>2, <5>2
          <6>2. b \in heap => b \notin A!Elements(Tail(s))
            BY <2>2, <3>1, <3>4
          <6>3. In(b, heap') = In(b, heap) + In(b, A!Elements(Tail(s)))
            BY <4>1, <6>1, <6>2
          <6>4. QED
            BY <4>4, <6>1, <6>3
        <5>3. QED
          BY <5>1, <5>2
      <4>6. Where(b)' = 1 + (In(b, heap') - In(b, heap)) + (In(b, user'[t]) - In(b, user[t]))
              + (In(b, A!Elements(hand'[t])) - In(b, A!Elements(hand[t])))
              + (In(b, A!Elements(list')) - In(b, A!Elements(list)))
        BY <2>1, <3>5
      <4>7. QED
        BY <4>2, <4>3, <4>4, <4>5, <4>6
    <3>11. QED
      BY <3>7, <3>8, <3>9, <3>10 DEF AllocInv, OnePlace
  <2>6. ASSUME NEW t \in Threads, A!Free(t)
        PROVE  AllocInv'
    <3>1. PICK c \in user[t] :
            /\ user' = [user EXCEPT ![t] = user[t] \ {c}]
            /\ \/ blk_stack = "list" /\ list' = <<c>> \o list /\ heap' = heap
               \/ blk_stack # "list" /\ heap' = heap \cup {c} /\ list' = list
      BY <2>0a, <2>6 DEF A!Free
    <3>2. UNCHANGED <<blk_stack, hand, apc, found>>
      BY <2>6 DEF A!Free
    <3>3. user'[t] = user[t] \ {c} /\ c \in Blocks
          /\ \A u \in Threads \ {t} : hand'[u] = hand[u] /\ user'[u] = user[u]
      BY <2>0a, <3>1, <3>2
    <3>4. c \notin heap /\ c \notin A!Elements(list)
      BY <2>2, <3>1, <3>3
    <3>5. <<c>> \o list \in Seq(Blocks) /\ A!Elements(<<c>> \o list) = {c} \cup A!Elements(list)
          /\ Distinct(<<c>> \o list)
      BY <2>0, <2>0a, <3>3, <3>4, ElementsPush DEF NothingTwice
    <3>6. AllocTypes'
      BY <2>0a, <3>1, <3>2, <3>3, <3>5 DEF AllocTypes
    <3>7. ListOrFlag' /\ TakesWhatItHas' /\ NothingTwice'
      BY <2>0, <3>1, <3>2, <3>5 DEF ListOrFlag, TakesWhatItHas, NothingTwice
    <3>8. ASSUME NEW b \in Blocks
          PROVE  Where(b)' = 1
      <4>1. \A X : In(b, X) = IF b \in X THEN 1 ELSE 0
        BY DEF In
      <4>2. In(b, user'[t]) = In(b, user[t]) - In(b, {c})
        BY <3>1, <3>3, <4>1
      <4>3. In(b, heap') + In(b, A!Elements(list')) = In(b, heap) + In(b, A!Elements(list)) + In(b, {c})
        <5>1. CASE blk_stack = "list"
          <6>1. heap' = heap /\ A!Elements(list') = {c} \cup A!Elements(list)
            BY <3>1, <3>5, <5>1
          <6>2. QED
            BY <3>4, <4>1, <6>1
        <5>2. CASE blk_stack # "list"
          <6>1. heap' = heap \cup {c} /\ A!Elements(list') = A!Elements(list)
            BY <3>1, <5>2
          <6>2. QED
            BY <3>4, <4>1, <6>1
        <5>3. QED
          BY <5>1, <5>2
      <4>4. \A X : In(b, X) \in {0, 1}
        BY <4>1
      <4>5. In(b, A!Elements(hand'[t])) = In(b, A!Elements(hand[t]))
        BY <3>2
      <4>6. Where(b)' = 1 + (In(b, heap') - In(b, heap)) + (In(b, user'[t]) - In(b, user[t]))
              + (In(b, A!Elements(hand'[t])) - In(b, A!Elements(hand[t])))
              + (In(b, A!Elements(list')) - In(b, A!Elements(list)))
        BY <2>1, <3>3
      <4>7. QED
        BY <4>2, <4>3, <4>4, <4>5, <4>6
    <3>9. QED
      BY <3>6, <3>7, <3>8 DEF AllocInv, OnePlace
  \* The block changes its one user.
  <2>7. ASSUME NEW t \in Threads, NEW u \in Threads, A!Give(t, u)
        PROVE  AllocInv'
    <3>1. PICK c \in user[t] : user' = [user EXCEPT ![t] = @ \ {c}, ![u] = @ \cup {c}]
      BY <2>7 DEF A!Give
    <3>2. t # u /\ UNCHANGED <<blk_stack, list, heap, hand, apc, found>>
      BY <2>7 DEF A!Give
    <3>3. c \in Blocks /\ user'[t] = user[t] \ {c} /\ user'[u] = user[u] \cup {c}
          /\ \A v \in Threads : v # t /\ v # u => user'[v] = user[v]
      BY <2>0a, <3>1, <3>2
    <3>4. AllocTypes'
      BY <2>0a, <3>1, <3>2, <3>3 DEF AllocTypes
    <3>5. ASSUME NEW b \in Blocks
          PROVE  Where(b)' = 1
      <4>1. Cardinality(UsersOf(b)') = Cardinality(UsersOf(b))
        <5>1. CASE b # c
          <6>1. UsersOf(b)' = UsersOf(b)
            BY <3>3, <5>1 DEF UsersOf
          <6>2. QED
            BY <6>1
        <5>2. CASE b = c
          <6>1. IsFiniteSet(UsersOf(b)) /\ IsFiniteSet(HandsWith(b)) /\ t \in UsersOf(b)
            BY <3>1, <5>2, SharedAssumption, FS_Subset DEF UsersOf, HandsWith
          <6>2. Cardinality(UsersOf(b)) \in Nat /\ Cardinality(HandsWith(b)) \in Nat /\ Cardinality(UsersOf(b)) # 0
            BY <6>1, FS_CardinalityType, FS_EmptySet
          <6>3. Cardinality(UsersOf(b)) = 1
            <7>1. 1 = In(b, heap) + Cardinality(UsersOf(b)) + Cardinality(HandsWith(b)) + In(b, A!Elements(list))
              BY <2>0 DEF OnePlace, Where
            <7>2. In(b, heap) \in {0, 1} /\ In(b, A!Elements(list)) \in {0, 1}
              BY DEF In
            <7>3. QED
              BY <6>2, <7>1, <7>2
          <6>4. UsersOf(b) = {t}
            <7>1. PICK x : UsersOf(b) = {x}
              BY <6>1, <6>3, FS_Singleton
            <7>2. QED
              BY <6>1, <7>1
          <6>5. UsersOf(b)' = {u}
            BY <3>2, <3>3, <5>2, <6>4 DEF UsersOf
          <6>6. QED
            BY <6>3, <6>5, FS_Singleton
        <5>3. QED
          BY <5>1, <5>2
      <4>2. Where(b)' = Where(b)
        BY <3>2, <4>1 DEF Where, HandsWith
      <4>3. QED
        BY <2>0, <4>2 DEF OnePlace
    <3>6. QED
      BY <2>0, <3>2, <3>4, <3>5 DEF AllocInv, ListOrFlag, TakesWhatItHas, NothingTwice, OnePlace
  <2>8. CASE A!Shutdown \/ A!Restart
    <3>1. /\ UNCHANGED <<user, hand, apc, found>>
          /\ \/ blk_stack' = "shutdown" /\ list' = <<>> /\ heap' = heap \cup A!Elements(list)
             \/ UNCHANGED <<list, heap>> /\ blk_stack' = IF blk_stack = "shutdown" THEN "list" ELSE blk_stack
      BY <2>8 DEF A!Shutdown, A!Restart
    <3>2. A!Elements(list) \subseteq Blocks
      BY <2>0a DEF A!Elements
    <3>3. AllocTypes'
      <4>1. <<>> \in Seq(Blocks)
        OBVIOUS
      <4>2. QED
        BY <2>0a, <3>1, <3>2, <4>1 DEF AllocTypes
    <3>4. ListOrFlag' /\ TakesWhatItHas' /\ NothingTwice'
      BY <2>0, <3>1, EmptyElements DEF ListOrFlag, TakesWhatItHas, NothingTwice
    <3>5. ASSUME NEW b \in Blocks
          PROVE  Where(b)' = 1
      <4>1. In(b, heap') + In(b, A!Elements(list')) = In(b, heap) + In(b, A!Elements(list))
        <5>1. CASE list' = <<>> /\ heap' = heap \cup A!Elements(list)
          <6>1. b \in A!Elements(list) => b \notin heap
            <7>1. Where(b) = 1
              BY <2>0 DEF OnePlace
            <7>2. Cardinality(UsersOf(b)) \in Nat /\ Cardinality(HandsWith(b)) \in Nat
              BY SharedAssumption, FS_Subset, FS_CardinalityType DEF UsersOf, HandsWith
            <7>3. QED
              BY <7>1, <7>2 DEF Where, In
          <6>2. A!Elements(list') = {}
            BY <5>1, EmptyElements
          <6>3. QED
            BY <5>1, <6>1, <6>2 DEF In
        <5>2. CASE UNCHANGED <<list, heap>>
          BY <5>2
        <5>3. QED
          BY <3>1, <5>1, <5>2
      <4>2. /\ Cardinality(UsersOf(b)) \in Nat /\ Cardinality(HandsWith(b)) \in Nat
            /\ UsersOf(b)' = UsersOf(b) /\ HandsWith(b)' = HandsWith(b)
        BY <3>1, SharedAssumption, FS_Subset, FS_CardinalityType DEF UsersOf, HandsWith
      <4>3. /\ Where(b) = In(b, heap) + Cardinality(UsersOf(b)) + Cardinality(HandsWith(b)) + In(b, A!Elements(list))
            /\ Where(b)' = In(b, heap') + Cardinality(UsersOf(b)) + Cardinality(HandsWith(b)) + In(b, A!Elements(list'))
        BY <4>2 DEF Where, A!Elements
      <4>4. \A X : In(b, X) \in {0, 1}
        BY DEF In
      <4>5. Where(b) = 1
        BY <2>0 DEF OnePlace
      <4>6. QED
        BY <4>1, <4>2, <4>3, <4>4, <4>5
    <3>6. QED
      BY <3>3, <3>4, <3>5 DEF AllocInv, OnePlace
  <2>9. CASE UNCHANGED avars
    BY <2>0, <2>9 DEF avars, AllocInv, AllocTypes, ListOrFlag, TakesWhatItHas, NothingTwice, OnePlace, Where,
                      UsersOf, HandsWith
  <2>10. QED
    BY <2>3, <2>4, <2>5, <2>6, <2>7, <2>8, <2>9 DEF A!Next
<1>3. AllocInv => BlocksConserved
  <2> SUFFICES ASSUME AllocInv, NEW b \in Blocks
               PROVE  A!Places(b) = 1
    BY DEF BlocksConserved, A!BlocksConserved
  <2>1. Where(b) = 1 /\ Distinct(list) /\ list \in Seq(Blocks)
    BY DEF AllocInv, OnePlace, NothingTwice, AllocTypes
  <2>2. Cardinality({i \in DOMAIN list : list[i] = b}) = In(b, A!Elements(list))
    <3> DEFINE At == {i \in DOMAIN list : list[i] = b}
    <3>1. CASE At = {}
      <4>1. b \notin A!Elements(list)
        BY <3>1 DEF A!Elements
      <4>2. QED
        BY <3>1, <4>1, FS_EmptySet DEF In
    <3>2. ASSUME NEW i \in At
          PROVE  Cardinality(At) = In(b, A!Elements(list))
      <4>1. At = {i}
        BY <2>1 DEF Distinct
      <4>2. b \in A!Elements(list)
        BY DEF A!Elements
      <4>3. QED
        BY <4>1, <4>2, FS_Singleton DEF In
    <3>3. QED
      BY <3>1, <3>2
  <2>3. A!Places(b) = In(b, heap) + Cardinality(UsersOf(b)) + Cardinality(HandsWith(b))
                      + Cardinality({i \in DOMAIN list : list[i] = b})
    BY SameCardinality DEF A!Places, In, UsersOf, HandsWith
  <2>4. QED
    BY <2>1, <2>2, <2>3 DEF Where
<1>4. QED
  BY <1>1, <1>2, <1>3, PTL DEF AllocSpec

\* What the run of the library checks of both.
THEOREM NothingIsLost == StackSpec /\ AllocSpec => []NodesConserved
<1>1. StackCounts /\ BlocksConserved => NodesConserved
  BY DEF NodesConserved
<1>2. QED
  BY <1>1, StackCounted, BlocksStay, PTL

-----------------------------------------------------------------------------
(* shared_lockable_ptr.h *)

LockableTypes ==
  /\ kind \in {"made", "static"} /\ _cntr \in Ctrls \cup {Null}
  /\ lrefs \in [Ctrls -> Nat] /\ ctl \in [Ctrls -> {"unborn", "live", "destroying", "deleted"}]
  /\ ptr \in [Threads -> Ctrls \cup {Null}] /\ locked \in [Threads -> Ctrls \cup {Null}]
  /\ releasing \in [Threads -> Ctrls \cup {Null}]
  /\ mode \in [Threads -> {"none", "shared", "exclusive"}]
  /\ lpc \in [Threads -> {"idle", "release", "destroy", "reshared", "delete", "new", "make",
                          "lock", "lock_shared", "lock_const"}]
  /\ destroyed \in Nat /\ broken = FALSE

\* Who refers to control block c.
Letting(t, c) == releasing[t] = c /\ lpc[t] \in {"release", "destroy", "delete", "reshared"}
Twice(t, c) == releasing[t] = c /\ lpc[t] = "reshared"
PointersTo(c) == {t \in Threads : ptr[t] = c}
LocksOf(c) == {t \in Threads : locked[t] = c}
LettingOf(c) == {t \in Threads : Letting(t, c)}
TwiceOf(c) == {t \in Threads : Twice(t, c)}
CtrlRefs(c) == Cardinality(PointersTo(c)) + Cardinality(LocksOf(c)) + Cardinality(LettingOf(c)) + Cardinality(TwiceOf(c))
\* What thread t has of them.
Part(t, c) == In(t, PointersTo(c)) + In(t, LocksOf(c)) + In(t, LettingOf(c)) + In(t, TwiceOf(c))

RefsCounted == \A c \in Ctrls : lrefs[c] = CtrlRefs(c)

\* There is one control block at a time, and it lives while it is referred to.
Live == _cntr # Null /\ ctl[_cntr] = "live"
Current == \A t \in Threads :
  /\ ptr[t] # Null => ptr[t] = _cntr /\ Live
  /\ locked[t] # Null => locked[t] = _cntr /\ Live
  /\ lpc[t] = "release" => releasing[t] = _cntr /\ Live
  /\ lpc[t] \in {"destroy", "reshared"} => releasing[t] = _cntr /\ _cntr # Null /\ ctl[_cntr] = "destroying"
  /\ lpc[t] = "delete" => /\ releasing[t] # Null /\ ctl[releasing[t]] = "destroying"
                          /\ IF kind = "made" THEN destroyed = 1 ELSE _cntr = Null
  /\ lpc[t] = "make" => ptr[t] = Null /\ Live

\* Who destroys the object, or makes its control block, is the only one who is
\* doing anything with it.
Sole(t) == lpc[t] \in {"destroy", "reshared", "delete", "new"} \/ (lpc[t] = "make" /\ locked[t] = Null)
Alone == \A t, u \in Threads :
  Sole(t) => ptr[u] = Null /\ locked[u] = Null /\ (u # t => lpc[u] = "idle")

DestroyedOnce ==
  /\ destroyed \in {0, 1}
  /\ destroyed = 1 => \A u \in Threads : ptr[u] = Null /\ locked[u] = Null /\ lpc[u] \in {"idle", "delete"}

\* An object that has a control block is in use.
InUse == _cntr # Null /\ destroyed = 0 =>
  \E u \in Threads : ptr[u] # Null \/ locked[u] # Null \/ lpc[u] # "idle"

LockedWhat == \A t \in Threads :
  mode[t] # "none" \/ lpc[t] \in {"lock", "lock_shared", "lock_const"} => locked[t] # Null
OneWriter == \A t, u \in Threads :
  mode[t] = "exclusive" /\ t # u /\ locked[u] = locked[t] => mode[u] = "none"

LockableInv ==
  LockableTypes /\ RefsCounted /\ Current /\ Alone /\ DestroyedOnce /\ InUse /\ LockedWhat /\ OneWriter

LEMMA RefSetsFinite ==
  ASSUME NEW c
  PROVE  /\ IsFiniteSet(PointersTo(c)) /\ IsFiniteSet(LocksOf(c)) /\ IsFiniteSet(LettingOf(c)) /\ IsFiniteSet(TwiceOf(c))
         /\ Cardinality(PointersTo(c)) \in Nat /\ Cardinality(LocksOf(c)) \in Nat
         /\ Cardinality(LettingOf(c)) \in Nat /\ Cardinality(TwiceOf(c)) \in Nat
  BY SharedAssumption, FS_Subset, FS_CardinalityType DEF PointersTo, LocksOf, LettingOf, TwiceOf

\* Nothing refers to c exactly when nobody has it.
LEMMA Unreferred ==
  ASSUME NEW c
  PROVE  CtrlRefs(c) = 0 <=> \A t \in Threads : ptr[t] # c /\ locked[t] # c /\ ~Letting(t, c)
<1>1. /\ Cardinality(PointersTo(c)) = 0 <=> PointersTo(c) = {}
      /\ Cardinality(LocksOf(c)) = 0 <=> LocksOf(c) = {}
      /\ Cardinality(LettingOf(c)) = 0 <=> LettingOf(c) = {}
      /\ Cardinality(TwiceOf(c)) = 0 <=> TwiceOf(c) = {}
  BY RefSetsFinite, FS_EmptySet
<1>2. CtrlRefs(c) = 0 <=> PointersTo(c) = {} /\ LocksOf(c) = {} /\ LettingOf(c) = {} /\ TwiceOf(c) = {}
  <2>1. /\ Cardinality(PointersTo(c)) \in Nat /\ Cardinality(LocksOf(c)) \in Nat
        /\ Cardinality(LettingOf(c)) \in Nat /\ Cardinality(TwiceOf(c)) \in Nat
    BY RefSetsFinite
  <2>2. CtrlRefs(c) = 0 <=>
          /\ Cardinality(PointersTo(c)) = 0 /\ Cardinality(LocksOf(c)) = 0
          /\ Cardinality(LettingOf(c)) = 0 /\ Cardinality(TwiceOf(c)) = 0
    BY <2>1 DEF CtrlRefs
  <2>3. QED
    BY <1>1, <2>2
<1>3. TwiceOf(c) \subseteq LettingOf(c)
  BY DEF TwiceOf, LettingOf, Twice, Letting
<1>4. QED
  BY <1>2, <1>3 DEF PointersTo, LocksOf, LettingOf

\* Who lets the only reference go is the only one who has one.
LEMMA OnlyReference ==
  ASSUME NEW c, NEW t \in Threads, Letting(t, c), CtrlRefs(c) = 1, NEW u \in Threads
  PROVE  ptr[u] # c /\ locked[u] # c /\ (u # t => ~Letting(u, c))
<1>1. t \in LettingOf(c)
  BY DEF LettingOf
<1>2. Cardinality(LettingOf(c)) # 0
  BY <1>1, RefSetsFinite, FS_EmptySet
<1>3. Cardinality(LettingOf(c)) = 1 /\ Cardinality(PointersTo(c)) = 0 /\ Cardinality(LocksOf(c)) = 0
  <2>1. /\ Cardinality(PointersTo(c)) \in Nat /\ Cardinality(LocksOf(c)) \in Nat
        /\ Cardinality(LettingOf(c)) \in Nat /\ Cardinality(TwiceOf(c)) \in Nat
    BY RefSetsFinite
  <2>2. 1 = Cardinality(PointersTo(c)) + Cardinality(LocksOf(c)) + Cardinality(LettingOf(c)) + Cardinality(TwiceOf(c))
    BY DEF CtrlRefs
  <2>3. \A p, q, r, s \in Nat : 1 = p + q + r + s /\ r # 0 => r = 1 /\ p = 0 /\ q = 0
    OBVIOUS
  <2>4. QED
    BY <1>2, <2>1, <2>2, <2>3
<1>4. PointersTo(c) = {} /\ LocksOf(c) = {}
  BY <1>3, RefSetsFinite, FS_EmptySet
<1>5. PICK x : LettingOf(c) = {x}
  BY <1>3, RefSetsFinite, FS_Singleton
<1>6. QED
  BY <1>1, <1>4, <1>5 DEF PointersTo, LocksOf, LettingOf

LEMMA CtrlRefsChange ==
  ASSUME NEW t \in Threads, NEW c,
         \A u \in Threads \ {t} : UNCHANGED <<ptr[u], locked[u], releasing[u], lpc[u]>>
  PROVE  /\ CtrlRefs(c) \in Nat /\ CtrlRefs(c) >= Part(t, c)
         /\ Part(t, c) \in 0..4 /\ Part(t, c)' \in 0..4
         /\ CtrlRefs(c)' = CtrlRefs(c) + Part(t, c)' - Part(t, c)
<1>1. /\ \A u : u # t => (u \in PointersTo(c) <=> u \in PointersTo(c)')
      /\ \A u : u # t => (u \in LocksOf(c) <=> u \in LocksOf(c)')
      /\ \A u : u # t => (u \in LettingOf(c) <=> u \in LettingOf(c)')
      /\ \A u : u # t => (u \in TwiceOf(c) <=> u \in TwiceOf(c)')
  BY DEF PointersTo, LocksOf, LettingOf, TwiceOf, Letting, Twice
<1>2. /\ Cardinality(PointersTo(c)') = Cardinality(PointersTo(c)) + In(t, PointersTo(c)') - In(t, PointersTo(c))
      /\ Cardinality(PointersTo(c)) >= In(t, PointersTo(c))
  BY <1>1, RefSetsFinite, OneChange
<1>3. /\ Cardinality(LocksOf(c)') = Cardinality(LocksOf(c)) + In(t, LocksOf(c)') - In(t, LocksOf(c))
      /\ Cardinality(LocksOf(c)) >= In(t, LocksOf(c))
  BY <1>1, RefSetsFinite, OneChange
<1>4. /\ Cardinality(LettingOf(c)') = Cardinality(LettingOf(c)) + In(t, LettingOf(c)') - In(t, LettingOf(c))
      /\ Cardinality(LettingOf(c)) >= In(t, LettingOf(c))
  BY <1>1, RefSetsFinite, OneChange
<1>5. /\ Cardinality(TwiceOf(c)') = Cardinality(TwiceOf(c)) + In(t, TwiceOf(c)') - In(t, TwiceOf(c))
      /\ Cardinality(TwiceOf(c)) >= In(t, TwiceOf(c))
  BY <1>1, RefSetsFinite, OneChange
<1>6. /\ CtrlRefs(c) = Cardinality(PointersTo(c)) + Cardinality(LocksOf(c)) + Cardinality(LettingOf(c)) + Cardinality(TwiceOf(c))
      /\ CtrlRefs(c)' = Cardinality(PointersTo(c)') + Cardinality(LocksOf(c)')
                        + Cardinality(LettingOf(c)') + Cardinality(TwiceOf(c)')
  BY DEF CtrlRefs
<1>7. /\ Part(t, c) = In(t, PointersTo(c)) + In(t, LocksOf(c)) + In(t, LettingOf(c)) + In(t, TwiceOf(c))
      /\ Part(t, c)' = In(t, PointersTo(c)') + In(t, LocksOf(c)') + In(t, LettingOf(c)') + In(t, TwiceOf(c)')
  BY DEF Part, In
<1>8. \A X : In(t, X) \in {0, 1}
  BY DEF In
<1>9. /\ Cardinality(PointersTo(c)) \in Nat /\ Cardinality(LocksOf(c)) \in Nat
      /\ Cardinality(LettingOf(c)) \in Nat /\ Cardinality(TwiceOf(c)) \in Nat
  BY RefSetsFinite
<1>10. QED
  BY <1>2, <1>3, <1>4, <1>5, <1>6, <1>7, <1>8, <1>9

LEMMA PartOf ==
  ASSUME NEW t \in Threads, NEW c
  PROVE  /\ Part(t, c) = Is(ptr[t], c) + Is(locked[t], c)
                  + (IF Letting(t, c) THEN 1 ELSE 0) + (IF Twice(t, c) THEN 1 ELSE 0)
         /\ Part(t, c)' = Is(ptr'[t], c) + Is(locked'[t], c)
                  + (IF Letting(t, c)' THEN 1 ELSE 0) + (IF Twice(t, c)' THEN 1 ELSE 0)
  BY DEF Part, Is, In, PointersTo, LocksOf, LettingOf, TwiceOf

\* A pointer moves from u to t: as many as before.
LEMMA PointerMoves ==
  ASSUME NEW t \in Threads, NEW u \in Threads, t # u, NEW c,
         ptr \in [Threads -> Ctrls \cup {Null}], ptr[t] = Null, c # Null,
         ptr' = [ptr EXCEPT ![t] = ptr[u], ![u] = Null]
  PROVE  Cardinality(PointersTo(c)') = Cardinality(PointersTo(c))
<1> DEFINE Z == PointersTo(c) \ {u}
<1>1. t \notin PointersTo(c) /\ u \notin PointersTo(c)'
  BY DEF PointersTo
<1>2. t \in PointersTo(c)' <=> u \in PointersTo(c)
  BY DEF PointersTo
<1>3. \A v : v # u /\ v # t => (v \in PointersTo(c) <=> v \in PointersTo(c)')
  BY DEF PointersTo
<1>4. (\A v : v # u => (v \in PointersTo(c) <=> v \in Z)) /\ (\A v : v # t => (v \in Z <=> v \in PointersTo(c)'))
  BY <1>1, <1>3
<1>5. u \notin Z /\ t \notin Z
  BY <1>1
<1> HIDE DEF Z
<1>6. IsFiniteSet(Z) /\ Cardinality(Z) \in Nat /\ Cardinality(Z) = Cardinality(PointersTo(c)) + In(u, Z) - In(u, PointersTo(c))
  BY <1>4, RefSetsFinite, OneChange
<1>7. Cardinality(PointersTo(c)') = Cardinality(Z) + In(t, PointersTo(c)') - In(t, Z)
  BY <1>4, <1>6, OneChange
<1>8. In(u, Z) = 0 /\ In(t, Z) = 0 /\ In(t, PointersTo(c)') = In(u, PointersTo(c)) /\ In(u, PointersTo(c)) \in {0, 1}
  BY <1>2, <1>5 DEF In
<1>9. QED
  BY <1>6, <1>7, <1>8, RefSetsFinite

\* The same after a step.
LEMMA ReferredNext ==
  ASSUME NEW c, CtrlRefs(c)' # 0
  PROVE  \E t \in Threads : ptr'[t] = c \/ locked'[t] = c \/ Letting(t, c)'
<1> SUFFICES ASSUME \A t \in Threads : ptr'[t] # c /\ locked'[t] # c /\ ~Letting(t, c)'
             PROVE  CtrlRefs(c)' = 0
  OBVIOUS
<1>1. PointersTo(c)' = {} /\ LocksOf(c)' = {} /\ LettingOf(c)' = {} /\ TwiceOf(c)' = {}
  BY DEF PointersTo, LocksOf, LettingOf, TwiceOf, Letting, Twice
<1>2. /\ Cardinality(PointersTo(c)') = 0 /\ Cardinality(LocksOf(c)') = 0
      /\ Cardinality(LettingOf(c)') = 0 /\ Cardinality(TwiceOf(c)') = 0
  BY <1>1, FS_EmptySet
<1>3. QED
  BY <1>2 DEF CtrlRefs

-----------------------------------------------------------------------------
\* The control block counts its references, the object is destroyed once and a
\* writer is alone (shared_lockable_ptr.h).
LEMMA LockableStarts == L!Init => LockableInv
<1> SUFFICES ASSUME L!Init
             PROVE  LockableInv
  OBVIOUS
<1>1. PICK first \in Ctrls, t0 \in Threads :
        /\ kind \in {"made", "static"} /\ _cntr = (IF kind = "made" THEN first ELSE Null)
        /\ lrefs = [c \in Ctrls |-> IF c = _cntr THEN 1 ELSE 0]
        /\ ctl = [c \in Ctrls |-> IF c = _cntr THEN "live" ELSE "unborn"]
        /\ ptr = [t \in Threads |-> IF t = t0 THEN _cntr ELSE Null]
        /\ locked = [t \in Threads |-> Null] /\ mode = [t \in Threads |-> "none"]
        /\ lpc = [t \in Threads |-> "idle"] /\ releasing = [t \in Threads |-> Null]
        /\ destroyed = 0 /\ broken = FALSE
  BY DEF L!Init
<1>2. Null \notin Ctrls
  BY SharedAssumption
<1>3. LockableTypes
  BY <1>1 DEF LockableTypes
<1>4. ASSUME NEW c \in Ctrls
      PROVE  lrefs[c] = CtrlRefs(c)
  <2>1. LocksOf(c) = {} /\ LettingOf(c) = {} /\ TwiceOf(c) = {}
    BY <1>1, <1>2 DEF LocksOf, LettingOf, TwiceOf, Letting, Twice
  <2>2. PointersTo(c) = IF c = _cntr THEN {t0} ELSE {}
    BY <1>1, <1>2 DEF PointersTo
  <2>3. Cardinality(PointersTo(c)) = lrefs[c] /\ lrefs[c] \in Nat
    BY <1>1, <2>2, FS_Singleton, FS_EmptySet
  <2>4. Cardinality(LocksOf(c)) = 0 /\ Cardinality(LettingOf(c)) = 0 /\ Cardinality(TwiceOf(c)) = 0
    BY <2>1, FS_EmptySet
  <2>5. QED
    BY <2>3, <2>4 DEF CtrlRefs
<1>5. Current /\ Alone /\ DestroyedOnce /\ LockedWhat /\ OneWriter
  BY <1>1, <1>2 DEF Current, Live, Alone, Sole, DestroyedOnce, LockedWhat, OneWriter
<1>6. InUse
  BY <1>1, <1>2 DEF InUse
<1>7. QED
  BY <1>3, <1>4, <1>5, <1>6 DEF LockableInv, RefsCounted

LEMMA LockableSteps == LockableInv /\ [L!Next]_lvars => LockableInv'
<1> SUFFICES ASSUME LockableInv, [L!Next]_lvars
             PROVE  LockableInv'
  OBVIOUS
<1>0. /\ RefsCounted /\ Current /\ Alone /\ DestroyedOnce /\ InUse /\ LockedWhat /\ OneWriter
      /\ Null \notin Ctrls
  BY SharedAssumption DEF LockableInv
<1>0a. /\ kind \in {"made", "static"} /\ _cntr \in Ctrls \cup {Null}
       /\ lrefs \in [Ctrls -> Nat] /\ ctl \in [Ctrls -> {"unborn", "live", "destroying", "deleted"}]
       /\ ptr \in [Threads -> Ctrls \cup {Null}] /\ locked \in [Threads -> Ctrls \cup {Null}]
       /\ releasing \in [Threads -> Ctrls \cup {Null}]
       /\ mode \in [Threads -> {"none", "shared", "exclusive"}]
       /\ lpc \in [Threads -> {"idle", "release", "destroy", "reshared", "delete", "new", "make",
                               "lock", "lock_shared", "lock_const"}]
       /\ destroyed \in Nat /\ broken = FALSE
  BY DEF LockableInv, LockableTypes
\* It is enough to count what one thread has.
<1>1. ASSUME NEW t \in Threads,
             \A u \in Threads \ {t} : UNCHANGED <<ptr[u], locked[u], releasing[u], lpc[u]>>,
             \A c \in Ctrls : lrefs'[c] = lrefs[c] + Part(t, c)' - Part(t, c)
      PROVE  RefsCounted'
  <2>1. ASSUME NEW c \in Ctrls
        PROVE  lrefs'[c] = CtrlRefs(c)'
    <3>1. lrefs[c] = CtrlRefs(c)
      BY <1>0 DEF RefsCounted
    <3>2. CtrlRefs(c)' = CtrlRefs(c) + Part(t, c)' - Part(t, c)
      BY <1>1, CtrlRefsChange
    <3>3. QED
      BY <1>1, <3>1, <3>2
  <2>2. QED
    BY <2>1 DEF RefsCounted
\* A step of a thread that holds something is not one of the sole actor's.
<1>2. ASSUME NEW t \in Threads, ptr[t] # Null \/ locked[t] # Null \/ lpc[t] # "idle", ~Sole(t)
      PROVE  \A u \in Threads : ~Sole(u)
  BY <1>0, <1>2 DEF Alone
<1>3. ASSUME NEW t \in Threads, NEW u \in Threads, L!Copy(t, u)
      PROVE  LockableInv'
  <2>1. PICK c \in Ctrls : c = ptr[u]
    BY <1>0a, <1>3 DEF L!Copy
  <2>2. /\ t # u /\ lpc[t] = "idle" /\ lpc[u] = "idle" /\ ptr[t] = Null /\ ptr[u] = c
        /\ ptr' = [ptr EXCEPT ![t] = c] /\ lrefs' = [lrefs EXCEPT ![c] = lrefs[c] + 1]
        /\ UNCHANGED <<kind, _cntr, ctl, locked, mode, lpc, releasing, destroyed, broken>>
    BY <1>3, <2>1 DEF L!Copy, L!AddRef
  <2>3. ptr'[t] = c /\ \A v \in Threads \ {t} : ptr'[v] = ptr[v]
    BY <1>0a, <2>2
  <2>4. LockableTypes'
    BY <1>0a, <2>2 DEF LockableTypes
  <2>5. \A k \in Ctrls : lrefs'[k] = lrefs[k] + Part(t, k)' - Part(t, k)
    <3>1. ASSUME NEW k \in Ctrls
          PROVE  lrefs'[k] = lrefs[k] + Part(t, k)' - Part(t, k)
      <4>1. Letting(t, k)' = Letting(t, k) /\ Twice(t, k)' = Twice(t, k)
        BY <2>2 DEF Letting, Twice
      <4>2. Part(t, k)' = Part(t, k) + Is(c, k)
        BY <1>0, <2>2, <2>3, <4>1, PartOf DEF Is
      <4>3. Part(t, k) \in Int /\ Is(c, k) \in Int /\ lrefs[k] \in Int
        BY <1>0a, PartOf DEF Is
      <4>4. lrefs'[k] = lrefs[k] + Is(c, k)
        BY <1>0a, <2>2 DEF Is
      <4>5. QED
        BY <4>2, <4>3, <4>4
    <3>2. QED
      BY <3>1
  <2>6. RefsCounted'
    BY <1>1, <2>2, <2>3, <2>5
  <2>7. c = _cntr /\ Live /\ c # Null
    BY <1>0, <2>2 DEF Current
  <2>8. Current'
    BY <1>0, <2>2, <2>3, <2>7 DEF Current, Live
  <2>9. Alone'
    BY <1>0, <2>2, <2>3, <2>7 DEF Alone, Sole
  <2>10. DestroyedOnce' /\ InUse'
    BY <1>0, <2>2, <2>3, <2>7 DEF DestroyedOnce, InUse
  <2>11. LockedWhat' /\ OneWriter'
    BY <1>0, <2>2 DEF LockedWhat, OneWriter
  <2>12. QED
    BY <2>4, <2>6, <2>8, <2>9, <2>10, <2>11 DEF LockableInv
<1>4. ASSUME NEW t \in Threads, NEW u \in Threads, L!Move(t, u)
      PROVE  LockableInv'
  <2>1. /\ t # u /\ lpc[t] = "idle" /\ lpc[u] = "idle" /\ ptr[t] = Null /\ ptr[u] # Null
        /\ ptr' = [ptr EXCEPT ![t] = ptr[u], ![u] = Null]
        /\ UNCHANGED <<kind, _cntr, lrefs, ctl, locked, mode, lpc, releasing, destroyed, broken>>
    BY <1>4 DEF L!Move
  <2>2. ptr'[t] = ptr[u] /\ ptr'[u] = Null /\ \A v \in Threads : v # t /\ v # u => ptr'[v] = ptr[v]
    BY <1>0a, <2>1
  <2>3. LockableTypes'
    BY <1>0a, <2>1 DEF LockableTypes
  <2>4. RefsCounted'
    <3>1. ASSUME NEW c \in Ctrls
          PROVE  lrefs'[c] = CtrlRefs(c)'
      <4>1. Cardinality(PointersTo(c)') = Cardinality(PointersTo(c))
        BY <1>0, <1>0a, <2>1, PointerMoves
      <4>2. LocksOf(c)' = LocksOf(c) /\ LettingOf(c)' = LettingOf(c) /\ TwiceOf(c)' = TwiceOf(c)
        BY <2>1 DEF LocksOf, LettingOf, TwiceOf, Letting, Twice
      <4>3. CtrlRefs(c)' = CtrlRefs(c)
        BY <4>1, <4>2 DEF CtrlRefs
      <4>4. QED
        BY <1>0, <2>1, <4>3 DEF RefsCounted
    <3>2. QED
      BY <3>1 DEF RefsCounted
  <2>5. ptr[u] = _cntr /\ Live
    BY <1>0, <2>1 DEF Current
  <2>6. Current'
    BY <1>0, <2>1, <2>2, <2>5 DEF Current, Live
  <2>7. Alone'
    BY <1>0, <2>1, <2>2 DEF Alone, Sole
  <2>8. DestroyedOnce' /\ InUse'
    BY <1>0, <2>1, <2>2 DEF DestroyedOnce, InUse
  <2>9. LockedWhat' /\ OneWriter'
    BY <1>0, <2>1 DEF LockedWhat, OneWriter
  <2>10. QED
    BY <2>3, <2>4, <2>6, <2>7, <2>8, <2>9 DEF LockableInv
<1>5. ASSUME NEW t \in Threads, L!Drop(t)
      PROVE  LockableInv'
  <2>1. PICK c \in Ctrls : c = ptr[t]
    BY <1>0a, <1>5 DEF L!Drop
  <2>2. /\ lpc[t] = "idle" /\ ptr[t] = c /\ ptr' = [ptr EXCEPT ![t] = Null]
        /\ releasing' = [releasing EXCEPT ![t] = c] /\ lpc' = [lpc EXCEPT ![t] = "release"]
        /\ UNCHANGED <<kind, _cntr, lrefs, ctl, locked, mode, destroyed, broken>>
    BY <1>5, <2>1 DEF L!Drop, L!Goto
  <2>3. /\ ptr'[t] = Null /\ releasing'[t] = c /\ lpc'[t] = "release"
        /\ \A v \in Threads \ {t} : ptr'[v] = ptr[v] /\ releasing'[v] = releasing[v] /\ lpc'[v] = lpc[v]
    BY <1>0a, <2>2
  <2>4. LockableTypes'
    BY <1>0a, <2>2 DEF LockableTypes
  <2>5. ASSUME NEW k \in Ctrls
        PROVE  Part(t, k)' = Part(t, k) /\ Part(t, k) \in Int
    <3>1. ~Letting(t, k) /\ ~Twice(t, k) /\ ~Twice(t, k)' /\ (Letting(t, k)' <=> c = k)
      BY <2>2, <2>3 DEF Letting, Twice
    <3>2. Is(ptr[t], k) = Is(c, k) /\ Is(ptr'[t], k) = 0 /\ locked'[t] = locked[t]
      BY <1>0, <2>2, <2>3 DEF Is
    <3>3. QED
      BY <3>1, <3>2, PartOf DEF Is
  <2>6. RefsCounted'
    <3>1. \A k \in Ctrls : lrefs'[k] = lrefs[k] + Part(t, k)' - Part(t, k)
      BY <1>0a, <2>2, <2>5
    <3>2. QED
      BY <1>1, <2>2, <2>3, <3>1
  <2>7. c = _cntr /\ Live /\ c # Null /\ ~Sole(t)
    BY <1>0, <2>2 DEF Current, Sole
  <2>8. Current'
    BY <1>0, <2>2, <2>3, <2>7 DEF Current, Live
  <2>9. Alone'
    <3>1. \A v \in Threads : ~Sole(v)
      BY <1>2, <2>2, <2>7
    <3>2. \A v \in Threads : ~Sole(v)'
      BY <2>2, <2>3, <3>1 DEF Sole
    <3>3. QED
      BY <3>2 DEF Alone
  <2>10. DestroyedOnce' /\ InUse'
    BY <1>0, <2>2, <2>3, <2>7 DEF DestroyedOnce, InUse
  <2>11. LockedWhat' /\ OneWriter'
    BY <1>0, <2>2, <2>3 DEF LockedWhat, OneWriter
  <2>12. QED
    BY <2>4, <2>6, <2>8, <2>9, <2>10, <2>11 DEF LockableInv
<1>6. ASSUME NEW t \in Threads, L!Release(t)
      PROVE  LockableInv'
  <2>1. releasing[t] = _cntr /\ _cntr # Null /\ ctl[_cntr] = "live" /\ lpc[t] = "release"
    BY <1>0, <1>6 DEF L!Release, Current, Live
  <2>2. PICK c \in Ctrls : c = _cntr
    BY <1>0a, <2>1
  <2>3. /\ lrefs' = [lrefs EXCEPT ![c] = IF lrefs[c] = 1 THEN 1 ELSE lrefs[c] - 1]
        /\ ctl' = IF lrefs[c] = 1 THEN [ctl EXCEPT ![c] = "destroying"] ELSE ctl
        /\ lpc' = [lpc EXCEPT ![t] = IF lrefs[c] = 1 THEN "destroy" ELSE "idle"]
        /\ UNCHANGED <<kind, _cntr, ptr, locked, mode, releasing, destroyed, broken>>
    BY <1>6, <2>1, <2>2 DEF L!Release, L!Goto, L!access
  <2>4. lpc'[t] = (IF lrefs[c] = 1 THEN "destroy" ELSE "idle") /\ \A v \in Threads \ {t} : lpc'[v] = lpc[v]
    BY <1>0a, <2>3
  <2>5. lrefs[c] = CtrlRefs(c) /\ lrefs[c] \in Nat /\ lrefs[c] # 0
    <3>1. Letting(t, c)
      BY <2>1, <2>2 DEF Letting
    <3>2. QED
      BY <1>0, <1>0a, <3>1, Unreferred DEF RefsCounted
  <2>6. LockableTypes'
    <3>1. (IF lrefs[c] = 1 THEN 1 ELSE lrefs[c] - 1) \in Nat
      BY <2>5
    <3>2. lrefs' \in [Ctrls -> Nat] /\ ctl' \in [Ctrls -> {"unborn", "live", "destroying", "deleted"}]
      BY <1>0a, <2>3, <3>1
    <3>3. QED
      BY <1>0a, <2>3, <3>2 DEF LockableTypes
  <2>7. RefsCounted'
    <3>1. ASSUME NEW k \in Ctrls
          PROVE  lrefs'[k] = lrefs[k] + Part(t, k)' - Part(t, k)
      <4>1. /\ ~Twice(t, k) /\ ~Twice(t, k)' /\ (Letting(t, k) <=> c = k) /\ (Letting(t, k)' <=> c = k /\ lrefs[c] = 1)
        BY <2>1, <2>2, <2>3, <2>4 DEF Letting, Twice
      <4>2. Part(t, k)' = Part(t, k) + (IF c = k /\ lrefs[c] # 1 THEN 0 - 1 ELSE 0) /\ Part(t, k) \in Int
        BY <2>3, <4>1, PartOf DEF Is
      <4>3. lrefs'[k] = lrefs[k] + (IF c = k /\ lrefs[c] # 1 THEN 0 - 1 ELSE 0) /\ lrefs[k] \in Int
        BY <1>0a, <2>3, <2>5
      <4>4. QED
        BY <4>2, <4>3
    <3>2. QED
      BY <1>1, <2>3, <2>4, <3>1
  <2>8. ~Sole(t) /\ (\A v \in Threads : ~Sole(v))
    BY <1>2, <2>1 DEF Sole
  <2>9. destroyed = 0
    BY <1>0, <2>1 DEF DestroyedOnce
  <2>10. CASE lrefs[c] = 1
    <3>1. ASSUME NEW v \in Threads
          PROVE  /\ ptr[v] = Null /\ locked[v] = Null /\ (v # t => lpc[v] = "idle")
      <4>1. ptr[v] # c /\ locked[v] # c /\ (v # t => ~Letting(v, c))
        BY <2>1, <2>2, <2>5, <2>10, OnlyReference DEF Letting
      <4>2. ptr[v] = Null /\ locked[v] = Null
        BY <1>0, <2>2, <4>1 DEF Current
      <4>3. lpc[v] \notin {"destroy", "reshared", "delete", "new", "make"}
        BY <2>8, <4>2 DEF Sole
      <4>4. lpc[v] \notin {"lock", "lock_shared", "lock_const"}
        BY <1>0, <4>2 DEF LockedWhat
      <4>5. v # t => lpc[v] # "release"
        BY <1>0, <2>2, <4>1 DEF Current, Letting
      <4>6. QED
        BY <1>0a, <4>2, <4>3, <4>4, <4>5
    <3>2. ctl'[c] = "destroying" /\ lpc'[t] = "destroy"
      BY <1>0a, <2>3, <2>4, <2>10
    <3>3. Current'
      BY <2>1, <2>2, <2>3, <2>4, <3>1, <3>2 DEF Current, Live
    <3>4. Alone'
      BY <2>3, <2>4, <3>1, <3>2 DEF Alone, Sole
    <3>5. DestroyedOnce' /\ InUse'
      BY <2>3, <2>9, <3>2 DEF DestroyedOnce, InUse
    <3>6. LockedWhat' /\ OneWriter'
      BY <1>0, <2>3, <2>4, <3>2 DEF LockedWhat, OneWriter
    <3>7. QED
      BY <2>6, <2>7, <3>3, <3>4, <3>5, <3>6 DEF LockableInv
  <2>11. CASE lrefs[c] # 1
    <3>1. ctl' = ctl /\ lpc'[t] = "idle"
      BY <2>3, <2>4, <2>11
    <3>2. Current'
      BY <1>0, <2>1, <2>2, <2>3, <2>4, <3>1 DEF Current, Live
    <3>3. Alone'
      <4>1. \A v \in Threads : ~Sole(v)'
        BY <2>3, <2>4, <2>8, <3>1 DEF Sole
      <4>2. QED
        BY <4>1 DEF Alone
    <3>4. DestroyedOnce'
      BY <2>3, <2>9 DEF DestroyedOnce
    \* Somebody else has the reference that remains.
    <3>5. InUse'
      <4>1. lrefs'[c] = lrefs[c] - 1 /\ lrefs'[c] = CtrlRefs(c)'
        BY <1>0a, <2>3, <2>7, <2>11 DEF RefsCounted
      <4>2. CtrlRefs(c)' # 0
        BY <2>5, <2>11, <4>1
      <4>3. PICK v \in Threads : ptr'[v] = c \/ locked'[v] = c \/ Letting(v, c)'
        BY <4>2, ReferredNext
      <4>4. QED
        BY <2>1, <2>2, <4>3 DEF InUse, Letting
    <3>6. LockedWhat' /\ OneWriter'
      BY <1>0, <2>3, <2>4, <3>1 DEF LockedWhat, OneWriter
    <3>7. QED
      BY <2>6, <2>7, <3>2, <3>3, <3>4, <3>5, <3>6 DEF LockableInv
  <2>12. QED
    BY <2>10, <2>11
<1>7. ASSUME NEW t \in Threads, L!ShareInDestructor(t)
      PROVE  LockableInv'
  <2>1. releasing[t] = _cntr /\ _cntr # Null /\ ctl[_cntr] = "destroying" /\ lpc[t] = "destroy"
    BY <1>0, <1>7 DEF L!ShareInDestructor, Current
  <2>2. PICK c \in Ctrls : c = _cntr
    BY <1>0a, <2>1
  <2>3. /\ lrefs' = [lrefs EXCEPT ![c] = lrefs[c] + 1] /\ lpc' = [lpc EXCEPT ![t] = "reshared"]
        /\ UNCHANGED <<kind, _cntr, ctl, ptr, locked, mode, releasing, destroyed, broken>>
    BY <1>7, <2>1, <2>2 DEF L!ShareInDestructor, L!Goto, L!AddRef, L!access
  <2>4. lpc'[t] = "reshared" /\ \A v \in Threads \ {t} : lpc'[v] = lpc[v]
    BY <1>0a, <2>3
  <2>5. LockableTypes'
    BY <1>0a, <2>3 DEF LockableTypes
  <2>6. RefsCounted'
    <3>1. ASSUME NEW k \in Ctrls
          PROVE  lrefs'[k] = lrefs[k] + Part(t, k)' - Part(t, k)
      <4>1. ~Twice(t, k) /\ (Twice(t, k)' <=> c = k) /\ (Letting(t, k) <=> c = k) /\ (Letting(t, k)' <=> c = k)
        BY <2>1, <2>2, <2>3, <2>4 DEF Letting, Twice
      <4>2. Part(t, k)' = Part(t, k) + (IF c = k THEN 1 ELSE 0) /\ Part(t, k) \in Int
        BY <2>3, <4>1, PartOf DEF Is
      <4>3. lrefs'[k] = lrefs[k] + (IF c = k THEN 1 ELSE 0) /\ lrefs[k] \in Int
        BY <1>0a, <2>3
      <4>4. QED
        BY <4>2, <4>3
    <3>2. QED
      BY <1>1, <2>3, <2>4, <3>1
  <2>7. Current'
    BY <1>0, <2>1, <2>2, <2>3, <2>4 DEF Current, Live
  <2>8. Alone'
    BY <1>0, <2>1, <2>3, <2>4 DEF Alone, Sole
  <2>9. DestroyedOnce' /\ InUse'
    BY <1>0, <2>1, <2>3, <2>4 DEF DestroyedOnce, InUse
  <2>10. LockedWhat' /\ OneWriter'
    BY <1>0, <2>3, <2>4 DEF LockedWhat, OneWriter
  <2>11. QED
    BY <2>5, <2>6, <2>7, <2>8, <2>9, <2>10 DEF LockableInv
<1>8. ASSUME NEW t \in Threads, L!EndReshare(t)
      PROVE  LockableInv'
  <2>1. releasing[t] = _cntr /\ _cntr # Null /\ ctl[_cntr] = "destroying" /\ lpc[t] = "reshared"
    BY <1>0, <1>8 DEF L!EndReshare, Current
  <2>2. PICK c \in Ctrls : c = _cntr
    BY <1>0a, <2>1
  \* Its own reference is still there.
  <2>3. lrefs[c] \in Nat /\ lrefs[c] >= 2
    <3>1. Letting(t, c) /\ Twice(t, c)
      BY <2>1, <2>2 DEF Letting, Twice
    <3>2. t \in LettingOf(c) /\ t \in TwiceOf(c)
      BY <3>1 DEF LettingOf, TwiceOf
    <3>3. Cardinality(LettingOf(c)) # 0 /\ Cardinality(TwiceOf(c)) # 0
      BY <3>2, RefSetsFinite, FS_EmptySet
    <3>4. \A p, q, r, s \in Nat : r # 0 /\ s # 0 => p + q + r + s >= 2
      OBVIOUS
    <3>5. CtrlRefs(c) >= 2
      BY <3>3, <3>4, RefSetsFinite DEF CtrlRefs
    <3>6. QED
      BY <1>0, <1>0a, <3>5 DEF RefsCounted
  <2>4. /\ lrefs' = [lrefs EXCEPT ![c] = lrefs[c] - 1] /\ lpc' = [lpc EXCEPT ![t] = "destroy"]
        /\ destroyed' = destroyed + (IF lrefs[c] = 1 THEN 1 ELSE 0)
        /\ UNCHANGED <<kind, _cntr, ctl, ptr, locked, mode, releasing, broken>>
    BY <1>8, <2>1, <2>2 DEF L!EndReshare, L!Goto, L!access
  <2>5. lpc'[t] = "destroy" /\ (\A v \in Threads \ {t} : lpc'[v] = lpc[v]) /\ destroyed' = destroyed
        /\ lrefs[c] - 1 \in Nat
    BY <1>0a, <2>3, <2>4
  <2>6. LockableTypes'
    BY <1>0a, <2>4, <2>5 DEF LockableTypes
  <2>7. RefsCounted'
    <3>1. ASSUME NEW k \in Ctrls
          PROVE  lrefs'[k] = lrefs[k] + Part(t, k)' - Part(t, k)
      <4>1. ~Twice(t, k)' /\ (Twice(t, k) <=> c = k) /\ (Letting(t, k) <=> c = k) /\ (Letting(t, k)' <=> c = k)
        BY <2>1, <2>2, <2>4, <2>5 DEF Letting, Twice
      <4>2. Part(t, k)' = Part(t, k) - (IF c = k THEN 1 ELSE 0) /\ Part(t, k) \in Int
        BY <2>4, <4>1, PartOf DEF Is
      <4>3. lrefs'[k] = lrefs[k] - (IF c = k THEN 1 ELSE 0) /\ lrefs[k] \in Int
        BY <1>0a, <2>4
      <4>4. QED
        BY <4>2, <4>3
    <3>2. QED
      BY <1>1, <2>4, <2>5, <3>1
  <2>8. Current'
    BY <1>0, <2>1, <2>2, <2>4, <2>5 DEF Current, Live
  <2>9. Alone'
    BY <1>0, <2>1, <2>4, <2>5 DEF Alone, Sole
  <2>10. DestroyedOnce' /\ InUse'
    BY <1>0, <2>1, <2>4, <2>5 DEF DestroyedOnce, InUse
  <2>11. LockedWhat' /\ OneWriter'
    BY <1>0, <2>4, <2>5 DEF LockedWhat, OneWriter
  <2>12. QED
    BY <2>6, <2>7, <2>8, <2>9, <2>10, <2>11 DEF LockableInv
<1>9. ASSUME NEW t \in Threads, L!Destroy(t)
      PROVE  LockableInv'
  <2>1. releasing[t] = _cntr /\ _cntr # Null /\ ctl[_cntr] = "destroying" /\ lpc[t] = "destroy"
    BY <1>0, <1>9 DEF L!Destroy, Current
  <2>2. /\ \/ kind = "made" /\ destroyed' = destroyed + 1 /\ _cntr' = _cntr
           \/ kind # "made" /\ _cntr' = Null /\ destroyed' = destroyed
        /\ lpc' = [lpc EXCEPT ![t] = "delete"]
        /\ UNCHANGED <<kind, lrefs, ctl, ptr, locked, mode, releasing, broken>>
    BY <1>9 DEF L!Destroy, L!Goto, L!access
  <2>3. lpc'[t] = "delete" /\ \A v \in Threads \ {t} : lpc'[v] = lpc[v]
    BY <1>0a, <2>2
  <2>4. destroyed = 0
    BY <1>0, <2>1 DEF DestroyedOnce
  <2>5. \A u \in Threads : ptr[u] = Null /\ locked[u] = Null /\ (u # t => lpc[u] = "idle")
    BY <1>0, <2>1 DEF Alone, Sole
  <2>6. LockableTypes'
    BY <1>0a, <2>2 DEF LockableTypes
  <2>7. RefsCounted'
    <3>1. ASSUME NEW k \in Ctrls
          PROVE  lrefs'[k] = lrefs[k] + Part(t, k)' - Part(t, k)
      <4>1. ~Twice(t, k)' /\ ~Twice(t, k) /\ (Letting(t, k)' <=> Letting(t, k))
        BY <2>1, <2>2, <2>3 DEF Letting, Twice
      <4>2. Part(t, k)' = Part(t, k) /\ Part(t, k) \in Int
        BY <2>2, <4>1, PartOf DEF Is
      <4>3. lrefs'[k] = lrefs[k] /\ lrefs[k] \in Int
        BY <1>0a, <2>2
      <4>4. QED
        BY <4>2, <4>3
    <3>2. QED
      BY <1>1, <2>2, <2>3, <3>1
  <2>8. Current'
    BY <2>1, <2>2, <2>3, <2>4, <2>5 DEF Current, Live
  <2>9. Alone'
    BY <2>2, <2>3, <2>5 DEF Alone, Sole
  <2>10. DestroyedOnce' /\ InUse'
    BY <2>2, <2>3, <2>4, <2>5 DEF DestroyedOnce, InUse
  <2>11. LockedWhat' /\ OneWriter'
    BY <1>0, <2>2, <2>3 DEF LockedWhat, OneWriter
  <2>12. QED
    BY <2>6, <2>7, <2>8, <2>9, <2>10, <2>11 DEF LockableInv
<1>10. ASSUME NEW t \in Threads, L!Delete(t)
       PROVE  LockableInv'
  <2>1. releasing[t] # Null /\ lpc[t] = "delete" /\ (IF kind = "made" THEN destroyed = 1 ELSE _cntr = Null)
    BY <1>0, <1>10 DEF L!Delete, Current
  <2>2. PICK c \in Ctrls : c = releasing[t]
    BY <1>0a, <2>1
  <2>3. /\ ctl' = [ctl EXCEPT ![c] = "deleted"] /\ lrefs' = [lrefs EXCEPT ![c] = 0]
        /\ releasing' = [releasing EXCEPT ![t] = Null] /\ lpc' = [lpc EXCEPT ![t] = "idle"]
        /\ UNCHANGED <<kind, _cntr, ptr, locked, mode, destroyed, broken>>
    BY <1>10, <2>2 DEF L!Delete, L!Goto, L!access
  <2>4. lpc'[t] = "idle" /\ \A v \in Threads \ {t} : lpc'[v] = lpc[v]
    BY <1>0a, <2>3
  <2>5. \A u \in Threads : ptr[u] = Null /\ locked[u] = Null /\ (u # t => lpc[u] = "idle")
    BY <1>0, <2>1 DEF Alone, Sole
  <2>6. LockableTypes'
    BY <1>0a, <2>3 DEF LockableTypes
  \* Nobody refers to anything any more.
  <2>7. RefsCounted'
    <3>1. ASSUME NEW k \in Ctrls
          PROVE  lrefs'[k] = CtrlRefs(k)'
      <4>1. CtrlRefs(k)' = 0
        BY <1>0, <2>3, <2>4, <2>5, ReferredNext DEF Letting
      <4>2. k # c => lrefs[k] = 0
        <5>1. k # c => \A v \in Threads : ptr[v] # k /\ locked[v] # k /\ ~Letting(v, k)
          BY <1>0, <2>2, <2>5 DEF Letting
        <5>2. QED
          BY <1>0, <5>1, Unreferred DEF RefsCounted
      <4>3. QED
        BY <1>0a, <2>3, <4>1, <4>2
    <3>2. QED
      BY <3>1 DEF RefsCounted
  <2>8. \A v \in Threads : lpc'[v] = "idle" /\ ptr'[v] = Null /\ locked'[v] = Null
    BY <2>3, <2>4, <2>5
  <2>9. Current' /\ Alone'
    BY <2>8 DEF Current, Alone, Sole
  <2>10. DestroyedOnce' /\ InUse'
    BY <1>0, <1>0a, <2>1, <2>3, <2>8 DEF DestroyedOnce, InUse
  <2>11. LockedWhat' /\ OneWriter'
    BY <1>0, <2>3, <2>4 DEF LockedWhat, OneWriter
  <2>12. QED
    BY <2>6, <2>7, <2>9, <2>10, <2>11 DEF LockableInv
<1>11. ASSUME NEW t \in Threads, L!ShareFromThis(t)
       PROVE  LockableInv'
  <2>1. /\ lpc[t] = "idle" /\ ptr[t] = Null /\ destroyed = 0
        /\ locked[t] # Null \/ \A u \in Threads : ptr[u] = Null /\ locked[u] = Null /\ lpc[u] = "idle"
        /\ lpc' = [lpc EXCEPT ![t] = IF _cntr = Null THEN "new" ELSE "make"]
        /\ UNCHANGED <<kind, _cntr, lrefs, ctl, ptr, locked, mode, releasing, destroyed, broken>>
    BY <1>11 DEF L!ShareFromThis, L!MayShare, L!Goto, L!access
  <2>2. lpc'[t] = (IF _cntr = Null THEN "new" ELSE "make") /\ \A v \in Threads \ {t} : lpc'[v] = lpc[v]
    BY <1>0a, <2>1
  \* A locked object has its control block; one that nobody uses has none.
  <2>3. \/ locked[t] # Null /\ locked[t] = _cntr /\ Live /\ lpc'[t] = "make"
        \/ /\ _cntr = Null /\ lpc'[t] = "new"
           /\ \A u \in Threads : ptr[u] = Null /\ locked[u] = Null /\ lpc[u] = "idle"
    <3>1. CASE locked[t] # Null
      BY <1>0, <2>2, <3>1 DEF Current, Live
    <3>2. CASE \A u \in Threads : ptr[u] = Null /\ locked[u] = Null /\ lpc[u] = "idle"
      <4>1. _cntr = Null
        BY <1>0, <2>1, <3>2 DEF InUse
      <4>2. QED
        BY <2>2, <3>2, <4>1
    <3>3. QED
      BY <2>1, <3>1, <3>2
  <2>4. LockableTypes'
    BY <1>0a, <2>1 DEF LockableTypes
  <2>5. RefsCounted'
    <3>1. ASSUME NEW k \in Ctrls
          PROVE  lrefs'[k] = lrefs[k] + Part(t, k)' - Part(t, k)
      <4>1. ~Twice(t, k)' /\ ~Twice(t, k) /\ ~Letting(t, k)' /\ ~Letting(t, k)
        BY <2>1, <2>2 DEF Letting, Twice
      <4>2. Part(t, k)' = Part(t, k) /\ Part(t, k) \in Int
        BY <2>1, <4>1, PartOf DEF Is
      <4>3. lrefs'[k] = lrefs[k] /\ lrefs[k] \in Int
        BY <1>0a, <2>1
      <4>4. QED
        BY <4>2, <4>3
    <3>2. QED
      BY <1>1, <2>1, <2>2, <3>1
  <2>6. Current'
    BY <1>0, <2>1, <2>2, <2>3 DEF Current, Live
  <2>7. Alone'
    <3>1. CASE locked[t] # Null
      <4>1. \A v \in Threads : ~Sole(v)
        BY <1>2, <2>1, <3>1 DEF Sole
      <4>2. \A v \in Threads : ~Sole(v)'
        BY <2>1, <2>2, <2>3, <3>1, <4>1 DEF Sole
      <4>3. QED
        BY <4>2 DEF Alone
    <3>2. CASE \A u \in Threads : ptr[u] = Null /\ locked[u] = Null /\ lpc[u] = "idle"
      BY <2>1, <2>2, <3>2 DEF Alone, Sole
    <3>3. QED
      BY <2>1, <3>1, <3>2
  <2>8. DestroyedOnce' /\ InUse'
    BY <1>0, <2>1, <2>2, <2>3 DEF DestroyedOnce, InUse
  <2>9. LockedWhat' /\ OneWriter'
    BY <1>0, <2>1, <2>2 DEF LockedWhat, OneWriter
  <2>10. QED
    BY <2>4, <2>5, <2>6, <2>7, <2>8, <2>9 DEF LockableInv
<1>12. ASSUME NEW t \in Threads, L!NewControl(t)
       PROVE  LockableInv'
  <2>1. PICK c \in Ctrls : _cntr' = c /\ ctl' = [ctl EXCEPT ![c] = "live"] /\ lrefs' = [lrefs EXCEPT ![c] = 0]
    BY <1>12 DEF L!NewControl
  <2>2. /\ lpc[t] = "new" /\ lpc' = [lpc EXCEPT ![t] = "make"]
        /\ UNCHANGED <<kind, ptr, locked, mode, releasing, destroyed, broken>>
    BY <1>12 DEF L!NewControl, L!Goto, L!access
  <2>3. lpc'[t] = "make" /\ \A v \in Threads \ {t} : lpc'[v] = lpc[v]
    BY <1>0a, <2>2
  <2>4. \A u \in Threads : ptr[u] = Null /\ locked[u] = Null /\ (u # t => lpc[u] = "idle")
    BY <1>0, <2>2 DEF Alone, Sole
  <2>5. LockableTypes'
    BY <1>0a, <2>1, <2>2 DEF LockableTypes
  <2>6. RefsCounted'
    <3>1. ASSUME NEW k \in Ctrls
          PROVE  lrefs'[k] = CtrlRefs(k)'
      <4>1. CtrlRefs(k)' = 0
        BY <1>0, <2>2, <2>3, <2>4, ReferredNext DEF Letting
      <4>2. lrefs[k] = 0
        <5>1. \A v \in Threads : ptr[v] # k /\ locked[v] # k /\ ~Letting(v, k)
          BY <1>0, <2>2, <2>4 DEF Letting
        <5>2. QED
          BY <1>0, <5>1, Unreferred DEF RefsCounted
      <4>3. QED
        BY <1>0a, <2>1, <4>1, <4>2
    <3>2. QED
      BY <3>1 DEF RefsCounted
  <2>7. Live'
    BY <1>0, <1>0a, <2>1 DEF Live
  <2>8. Current'
    BY <2>2, <2>3, <2>4, <2>7 DEF Current
  <2>9. Alone'
    BY <2>2, <2>3, <2>4 DEF Alone, Sole
  <2>10. DestroyedOnce' /\ InUse'
    BY <1>0, <2>2, <2>3 DEF DestroyedOnce, InUse
  <2>11. LockedWhat' /\ OneWriter'
    BY <1>0, <2>2, <2>3 DEF LockedWhat, OneWriter
  <2>12. QED
    BY <2>5, <2>6, <2>8, <2>9, <2>10, <2>11 DEF LockableInv
<1>13. ASSUME NEW t \in Threads, L!MakePointer(t)
       PROVE  LockableInv'
  <2>1. lpc[t] = "make" /\ ptr[t] = Null /\ _cntr # Null /\ ctl[_cntr] = "live"
    BY <1>0, <1>13 DEF L!MakePointer, Current, Live
  <2>2. PICK c \in Ctrls : c = _cntr
    BY <1>0a, <2>1
  <2>3. /\ ptr' = [ptr EXCEPT ![t] = c] /\ lrefs' = [lrefs EXCEPT ![c] = lrefs[c] + 1]
        /\ lpc' = [lpc EXCEPT ![t] = "idle"]
        /\ UNCHANGED <<kind, _cntr, ctl, locked, mode, releasing, destroyed, broken>>
    BY <1>13, <2>1, <2>2 DEF L!MakePointer, L!Gone, L!Goto, L!AddRef
  <2>4. /\ lpc'[t] = "idle" /\ ptr'[t] = c
        /\ \A v \in Threads \ {t} : lpc'[v] = lpc[v] /\ ptr'[v] = ptr[v]
    BY <1>0a, <2>3
  <2>5. LockableTypes'
    BY <1>0a, <2>3 DEF LockableTypes
  <2>6. RefsCounted'
    <3>1. ASSUME NEW k \in Ctrls
          PROVE  lrefs'[k] = lrefs[k] + Part(t, k)' - Part(t, k)
      <4>1. ~Twice(t, k)' /\ ~Twice(t, k) /\ ~Letting(t, k)' /\ ~Letting(t, k)
        BY <2>1, <2>4 DEF Letting, Twice
      <4>2. Part(t, k)' = Part(t, k) + Is(c, k) /\ Part(t, k) \in Int /\ Is(c, k) \in Int
        BY <1>0, <2>1, <2>3, <2>4, <4>1, PartOf DEF Is
      <4>3. lrefs'[k] = lrefs[k] + Is(c, k) /\ lrefs[k] \in Int
        BY <1>0a, <2>3 DEF Is
      <4>4. QED
        BY <4>2, <4>3
    <3>2. QED
      BY <1>1, <2>3, <2>4, <3>1
  <2>7. Current'
    BY <1>0, <2>1, <2>2, <2>3, <2>4 DEF Current, Live
  <2>8. Alone'
    <3>1. \A v \in Threads : v # t => ~Sole(v)
      BY <1>0, <2>1 DEF Alone
    <3>2. \A v \in Threads : ~Sole(v)'
      BY <2>3, <2>4, <3>1 DEF Sole
    <3>3. QED
      BY <3>2 DEF Alone
  <2>9. DestroyedOnce' /\ InUse'
    BY <1>0, <2>1, <2>2, <2>3, <2>4 DEF DestroyedOnce, InUse
  <2>10. LockedWhat' /\ OneWriter'
    BY <1>0, <2>3, <2>4 DEF LockedWhat, OneWriter
  <2>11. QED
    BY <2>5, <2>6, <2>7, <2>8, <2>9, <2>10 DEF LockableInv
<1>14. ASSUME NEW t \in Threads, L!Lock(t)
       PROVE  LockableInv'
  <2>1. PICK c \in Ctrls : c = ptr[t]
    BY <1>0a, <1>14 DEF L!Lock
  <2>2. /\ lpc[t] = "idle" /\ ptr[t] = c /\ locked[t] = Null
        /\ locked' = [locked EXCEPT ![t] = c] /\ lrefs' = [lrefs EXCEPT ![c] = lrefs[c] + 1]
        /\ UNCHANGED <<kind, _cntr, ctl, ptr, mode, releasing, destroyed, broken>>
    BY <1>14, <2>1 DEF L!Lock, L!AddRef
  <2>3. PICK p \in {"lock", "lock_shared", "lock_const"} : lpc' = [lpc EXCEPT ![t] = p]
    BY <1>14 DEF L!Lock, L!Goto
  <2>4. /\ lpc'[t] = p /\ locked'[t] = c
        /\ \A v \in Threads \ {t} : lpc'[v] = lpc[v] /\ locked'[v] = locked[v]
    BY <1>0a, <2>2, <2>3
  <2>5. LockableTypes'
    BY <1>0a, <2>2, <2>3 DEF LockableTypes
  <2>6. RefsCounted'
    <3>1. ASSUME NEW k \in Ctrls
          PROVE  lrefs'[k] = lrefs[k] + Part(t, k)' - Part(t, k)
      <4>1. ~Twice(t, k)' /\ ~Twice(t, k) /\ ~Letting(t, k)' /\ ~Letting(t, k)
        BY <2>2, <2>4 DEF Letting, Twice
      <4>2. Part(t, k)' = Part(t, k) + Is(c, k) /\ Part(t, k) \in Int /\ Is(c, k) \in Int
        BY <1>0, <2>2, <2>4, <4>1, PartOf DEF Is
      <4>3. lrefs'[k] = lrefs[k] + Is(c, k) /\ lrefs[k] \in Int
        BY <1>0a, <2>2 DEF Is
      <4>4. QED
        BY <4>2, <4>3
    <3>2. QED
      BY <1>1, <2>2, <2>4, <3>1
  <2>7. c = _cntr /\ Live /\ c # Null /\ ~Sole(t)
    BY <1>0, <2>2 DEF Current, Sole
  <2>8. Current'
    BY <1>0, <2>2, <2>4, <2>7 DEF Current, Live
  <2>9. Alone'
    <3>1. \A v \in Threads : ~Sole(v)
      BY <1>2, <2>2, <2>7
    <3>2. \A v \in Threads : ~Sole(v)'
      BY <2>2, <2>4, <3>1 DEF Sole
    <3>3. QED
      BY <3>2 DEF Alone
  <2>10. DestroyedOnce' /\ InUse'
    BY <1>0, <2>2, <2>4, <2>7 DEF DestroyedOnce, InUse
  <2>11. mode[t] = "none"
    BY <1>0, <1>0a, <2>2 DEF LockedWhat
  <2>12. LockedWhat'
    BY <1>0, <2>2, <2>4, <2>7 DEF LockedWhat
  <2>13. OneWriter'
    BY <1>0, <2>2, <2>4, <2>11 DEF OneWriter
  <2>14. QED
    BY <2>5, <2>6, <2>8, <2>9, <2>10, <2>12, <2>13 DEF LockableInv
<1>15. ASSUME NEW t \in Threads, L!Acquire(t)
       PROVE  LockableInv'
  <2>1. PICK m \in {"shared", "exclusive"} :
          /\ m = (IF lpc[t] = "lock_const" THEN "shared" ELSE "exclusive")
          /\ mode' = [mode EXCEPT ![t] = m]
    BY <1>15 DEF L!Acquire
  <2>2. /\ lpc[t] \in {"lock", "lock_shared", "lock_const"} /\ lpc' = [lpc EXCEPT ![t] = "idle"]
        /\ \A u \in Threads \ {t} : locked[u] = locked[t] =>
             mode[u] = "none" \/ (m = "shared" /\ mode[u] = "shared")
        /\ UNCHANGED <<kind, _cntr, lrefs, ctl, ptr, locked, releasing, destroyed, broken>>
    BY <1>15, <2>1 DEF L!Acquire, L!Goto
  <2>3. /\ lpc'[t] = "idle" /\ mode'[t] = m
        /\ \A v \in Threads \ {t} : lpc'[v] = lpc[v] /\ mode'[v] = mode[v]
    BY <1>0a, <2>1, <2>2
  <2>4. LockableTypes'
    BY <1>0a, <2>1, <2>2 DEF LockableTypes
  <2>5. RefsCounted'
    <3>1. ASSUME NEW k \in Ctrls
          PROVE  lrefs'[k] = lrefs[k] + Part(t, k)' - Part(t, k)
      <4>1. ~Twice(t, k)' /\ ~Twice(t, k) /\ ~Letting(t, k)' /\ ~Letting(t, k)
        BY <2>2, <2>3 DEF Letting, Twice
      <4>2. Part(t, k)' = Part(t, k) /\ Part(t, k) \in Int
        BY <2>2, <4>1, PartOf DEF Is
      <4>3. lrefs'[k] = lrefs[k] /\ lrefs[k] \in Int
        BY <1>0a, <2>2
      <4>4. QED
        BY <4>2, <4>3
    <3>2. QED
      BY <1>1, <2>2, <2>3, <3>1
  <2>6. locked[t] # Null /\ ~Sole(t)
    BY <1>0, <2>2 DEF LockedWhat, Sole
  <2>7. Current'
    BY <1>0, <2>2, <2>3 DEF Current, Live
  <2>8. Alone'
    <3>1. \A v \in Threads : ~Sole(v)
      BY <1>2, <2>6
    <3>2. \A v \in Threads : ~Sole(v)'
      BY <2>2, <2>3, <3>1 DEF Sole
    <3>3. QED
      BY <3>2 DEF Alone
  <2>9. DestroyedOnce' /\ InUse'
    BY <1>0, <2>2, <2>3, <2>6 DEF DestroyedOnce, InUse
  <2>10. LockedWhat'
    BY <1>0, <2>2, <2>3, <2>6 DEF LockedWhat
  <2>11. OneWriter'
    BY <1>0, <2>1, <2>2, <2>3 DEF OneWriter
  <2>12. QED
    BY <2>4, <2>5, <2>7, <2>8, <2>9, <2>10, <2>11 DEF LockableInv
<1>16. ASSUME NEW t \in Threads, L!Unlock(t)
       PROVE  LockableInv'
  <2>1. locked[t] # Null
    BY <1>0, <1>16 DEF L!Unlock, LockedWhat
  <2>2. PICK c \in Ctrls : c = locked[t]
    BY <1>0a, <2>1
  <2>3. /\ lpc[t] = "idle" /\ locked[t] = c /\ mode' = [mode EXCEPT ![t] = "none"]
        /\ locked' = [locked EXCEPT ![t] = Null] /\ releasing' = [releasing EXCEPT ![t] = c]
        /\ lpc' = [lpc EXCEPT ![t] = "release"]
        /\ UNCHANGED <<kind, _cntr, lrefs, ctl, ptr, destroyed, broken>>
    BY <1>16, <2>2 DEF L!Unlock, L!Goto
  <2>4. /\ locked'[t] = Null /\ releasing'[t] = c /\ lpc'[t] = "release" /\ mode'[t] = "none"
        /\ \A v \in Threads \ {t} : /\ locked'[v] = locked[v] /\ releasing'[v] = releasing[v]
                                    /\ lpc'[v] = lpc[v] /\ mode'[v] = mode[v]
    BY <1>0a, <2>3
  <2>5. LockableTypes'
    BY <1>0a, <2>3 DEF LockableTypes
  <2>6. RefsCounted'
    <3>1. ASSUME NEW k \in Ctrls
          PROVE  lrefs'[k] = lrefs[k] + Part(t, k)' - Part(t, k)
      <4>1. ~Letting(t, k) /\ ~Twice(t, k) /\ ~Twice(t, k)' /\ (Letting(t, k)' <=> c = k)
        BY <2>3, <2>4 DEF Letting, Twice
      <4>2. Is(locked[t], k) = Is(c, k) /\ Is(locked'[t], k) = 0 /\ ptr'[t] = ptr[t]
        BY <1>0, <2>3, <2>4 DEF Is
      <4>3. Part(t, k)' = Part(t, k) /\ Part(t, k) \in Int
        BY <4>1, <4>2, PartOf DEF Is
      <4>4. lrefs'[k] = lrefs[k] /\ lrefs[k] \in Int
        BY <1>0a, <2>3
      <4>5. QED
        BY <4>3, <4>4
    <3>2. QED
      BY <1>1, <2>3, <2>4, <3>1
  <2>7. c = _cntr /\ Live /\ c # Null /\ ~Sole(t)
    BY <1>0, <2>3 DEF Current, Sole
  <2>8. Current'
    BY <1>0, <2>3, <2>4, <2>7 DEF Current, Live
  <2>9. Alone'
    <3>1. \A v \in Threads : ~Sole(v)
      BY <1>2, <2>3, <2>7
    <3>2. \A v \in Threads : ~Sole(v)'
      BY <2>3, <2>4, <3>1 DEF Sole
    <3>3. QED
      BY <3>2 DEF Alone
  <2>10. DestroyedOnce' /\ InUse'
    BY <1>0, <2>3, <2>4, <2>7 DEF DestroyedOnce, InUse
  <2>11. LockedWhat' /\ OneWriter'
    BY <1>0, <2>3, <2>4 DEF LockedWhat, OneWriter
  <2>12. QED
    BY <2>5, <2>6, <2>8, <2>9, <2>10, <2>11 DEF LockableInv
<1>17. CASE UNCHANGED lvars
  <2>1. /\ UNCHANGED <<kind, _cntr, lrefs, ctl, ptr, locked, mode, lpc, releasing, destroyed, broken>>
    BY <1>17 DEF lvars
  <2>2. \A c \in Ctrls : /\ PointersTo(c)' = PointersTo(c) /\ LocksOf(c)' = LocksOf(c)
                         /\ LettingOf(c)' = LettingOf(c) /\ TwiceOf(c)' = TwiceOf(c)
    BY <2>1 DEF PointersTo, LocksOf, LettingOf, TwiceOf, Letting, Twice
  <2>3. RefsCounted'
    BY <1>0, <2>1, <2>2 DEF RefsCounted, CtrlRefs
  <2>4. LockableTypes' /\ Current' /\ Alone'
    BY <1>0, <1>0a, <2>1 DEF LockableTypes, Current, Live, Alone, Sole
  <2>5. DestroyedOnce' /\ InUse' /\ LockedWhat' /\ OneWriter'
    BY <1>0, <2>1 DEF DestroyedOnce, InUse, LockedWhat, OneWriter
  <2>6. QED
    BY <2>3, <2>4, <2>5 DEF LockableInv
<1>18. QED
  BY <1>3, <1>4, <1>5, <1>6, <1>7, <1>8, <1>9, <1>10, <1>11, <1>12, <1>13, <1>14, <1>15, <1>16, <1>17
     DEF L!Next, L!Step

THEOREM LockableCorrect == LockableSpec => []LockableSafe
<1>1. LockableInv => LockableSafe
  <2> SUFFICES ASSUME LockableInv
               PROVE  L!LockableSafe
    BY DEF LockableSafe
  <2>0. /\ LockableTypes /\ RefsCounted /\ Current /\ DestroyedOnce /\ LockedWhat /\ OneWriter
        /\ Null \notin Ctrls
    BY SharedAssumption DEF LockableInv
  <2>1. ASSUME NEW c \in Ctrls
        PROVE  lrefs[c] = L!References(c) /\ (lrefs[c] > 0 => ~L!Gone(c))
    <3>1. L!References(c) = CtrlRefs(c)
      BY SameCardinality DEF L!References, CtrlRefs, PointersTo, LocksOf, LettingOf, TwiceOf, Letting, Twice
    <3>2. lrefs[c] = CtrlRefs(c)
      BY <2>0 DEF RefsCounted
    <3>3. ASSUME lrefs[c] > 0
          PROVE  ctl[c] \in {"live", "destroying"}
      <4>1. CtrlRefs(c) # 0
        BY <3>2, <3>3
      <4>2. PICK t \in Threads : ptr[t] = c \/ locked[t] = c \/ Letting(t, c)
        BY <4>1, Unreferred
      <4>3. QED
        BY <2>0, <4>2 DEF Current, Live, Letting
    <3>4. QED
      BY <2>0, <3>1, <3>2, <3>3 DEF L!Gone
  <2>2. destroyed <= 1 /\ ~broken
    BY <2>0 DEF DestroyedOnce, LockableTypes
  <2>3. \A t \in Threads : mode[t] # "none" => ctl[locked[t]] = "live"
    BY <2>0 DEF LockedWhat, Current, Live
  <2>4. QED
    BY <2>0, <2>1, <2>2, <2>3 DEF L!LockableSafe, OneWriter
<1>2. QED
  BY <1>1, LockableStarts, LockableSteps, PTL DEF LockableSpec

-----------------------------------------------------------------------------
(* countdown.h *)

\* Counter, wait set and results keep their types in every step.
THEOREM CountdownTypes == CountdownSpec => []C!TypeOK
<1>1. C!Init => C!TypeOK
  BY SharedAssumption DEF C!Init, C!TypeOK
<1>2. C!TypeOK /\ [C!Next]_counts => C!TypeOK'
  <2> SUFFICES ASSUME C!TypeOK, [C!Next]_counts
               PROVE  C!TypeOK'
    OBVIOUS
  <2> USE SharedAssumption DEF C!TypeOK
  <2>1. CASE C!Inc
    BY <2>1 DEF C!Inc, C!StillSilent
  <2>2. CASE C!Dec
    BY <2>2 DEF C!Dec, C!ReleaseAt, C!StillSilent
  <2>3. ASSUME NEW v \in Settings, C!SetCounter(v)
        PROVE  C!TypeOK'
    BY <2>3 DEF C!SetCounter, C!ReleaseAt
  <2>4. ASSUME NEW e \in Settings, NEW v \in Settings, C!SetCounterWhen(e, v)
        PROVE  C!TypeOK'
    BY <2>4 DEF C!SetCounterWhen, C!ReleaseAt, C!StillSilent
  <2>5. ASSUME NEW t \in Threads, C!Wait(t)
        PROVE  C!TypeOK'
    <3>1. CASE C!Call(t)
      BY <3>1 DEF C!Call
    <3>2. CASE C!Block(t)
      BY <3>2 DEF C!Block
    <3>3. CASE C!Pass(t)
      BY <3>3 DEF C!Pass
    <3>4. CASE C!Expire(t)
      BY <3>4 DEF C!Expire, C!StillSilent
    <3>5. CASE C!GiveUp(t)
      BY <3>5 DEF C!GiveUp
    <3>6. CASE C!Spurious(t)
      BY <3>6 DEF C!Spurious, C!StillSilent
    <3>7. QED
      BY <2>5, <3>1, <3>2, <3>3, <3>4, <3>5, <3>6 DEF C!Wait
  <2>6. CASE UNCHANGED counts
    BY <2>6 DEF counts
  <2>7. QED
    BY <2>1, <2>2, <2>3, <2>4, <2>5, <2>6 DEF C!Next, C!Count
<1>3. QED
  BY <1>1, <1>2, PTL DEF CountdownSpec

\* However the counter is moved, nobody sleeps on an open Countdown but those
\* that setCounter() left asleep when it opened it below zero: dec() passes
\* through zero on its way down, so its test for exactly zero is enough.
THEOREM OpenNeverSleeps == CountdownSpec => []OpenMeansAwake
<1>1. C!Init => C!OpenMeansAwake
  BY DEF C!Init, C!OpenMeansAwake
<1>2. C!TypeOK /\ C!OpenMeansAwake /\ [C!Next]_counts => C!OpenMeansAwake'
  <2> SUFFICES ASSUME C!TypeOK, C!OpenMeansAwake, [C!Next]_counts,
                      tally' <= 0, sleeping' # {}
               PROVE  untold'
    BY DEF C!OpenMeansAwake
  <2>0. tally \in Int /\ (untold \in BOOLEAN)
    BY SharedAssumption DEF C!TypeOK
  <2>1. ASSUME C!StillSilent, tally <= 0, sleeping # {}
        PROVE  untold'
    <3>1. untold
      BY <2>1 DEF C!OpenMeansAwake
    <3>2. QED
      BY <2>1, <3>1, Zenon DEF C!StillSilent
  <2>2. CASE C!Inc
    <3>1. tally <= 0 /\ sleeping # {}
      BY <2>0, <2>2 DEF C!Inc
    <3>2. QED
      BY <2>1, <2>2, <3>1, Zenon DEF C!Inc
  <2>3. CASE C!Dec
    <3>1. tally <= 0 /\ sleeping # {}
      BY <2>0, <2>3 DEF C!Dec, C!ReleaseAt
    <3>2. QED
      BY <2>1, <2>3, <3>1, Zenon DEF C!Dec
  <2>4. ASSUME NEW v \in Settings, C!SetCounter(v)
        PROVE  untold'
    <3>1. v < 0 /\ sleeping # {}
      BY SharedAssumption, <2>4 DEF C!SetCounter, C!ReleaseAt
    <3>2. QED
      BY <2>4, <3>1, Zenon DEF C!SetCounter
  <2>5. ASSUME NEW e \in Settings, NEW v \in Settings, C!SetCounterWhen(e, v)
        PROVE  untold'
    <3>1. tally <= 0 /\ sleeping # {}
      BY <2>5 DEF C!SetCounterWhen, C!ReleaseAt
    <3>2. QED
      BY <2>1, <2>5, <3>1, Zenon DEF C!SetCounterWhen
  <2>6. ASSUME NEW t \in Threads, C!Wait(t)
        PROVE  untold'
    <3>1. CASE C!Block(t)
      <4>1. ~(tally <= 0)
        BY <2>0, <3>1 DEF C!Block
      <4>2. QED
        BY <3>1, <4>1 DEF C!Block
    <3>2. CASE C!Expire(t) \/ C!Spurious(t)
      <4>1. tally <= 0 /\ sleeping # {}
        BY <3>2 DEF C!Expire, C!Spurious
      <4>2. QED
        BY <2>1, <3>2, <4>1, Zenon DEF C!Expire, C!Spurious
    <3>3. CASE C!Call(t) \/ C!Pass(t) \/ C!GiveUp(t)
      BY <3>3 DEF C!Call, C!Pass, C!GiveUp, C!OpenMeansAwake
    <3>4. QED
      BY <2>6, <3>1, <3>2, <3>3 DEF C!Wait
  <2>7. CASE UNCHANGED counts
    BY <2>7 DEF counts, C!OpenMeansAwake
  <2>8. QED
    BY <2>2, <2>3, <2>4, <2>5, <2>6, <2>7 DEF C!Next, C!Count
<1>3. QED
  BY <1>1, <1>2, CountdownTypes, PTL DEF CountdownSpec, OpenMeansAwake
=============================================================================
