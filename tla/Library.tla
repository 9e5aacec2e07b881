------------------------------ MODULE Library -------------------------------
(***************************************************************************)
(* What no threads share, each part on its own: the line of a log and the  *)
(* pool of strings, two buffers that grow under what refers to them; what  *)
(* is read character by character, the patterns of a log, an ini file and  *)
(* the arguments of a program; the sorted vector behind a set or a map;    *)
(* and the start of a child process.                                       *)
(***************************************************************************)
EXTENDS Naturals, Sequences

CONSTANTS
  HeaderSize, MaxLine, ViewSizes,           \* the lines of a log
  Growth,                                   \* what their buffer grows by, beside its half
  Chars, MaxPool, MaxStrings,               \* the pool
  Args, Plain, Indexes, Wrap, MaxItems,     \* the patterns
  FileChars, MaxName, MaxText,              \* the ini files
  Words, MaxArgs,                           \* the arguments
  MaxKey, Values, Ranges, MaxOther,         \* the vector
  MaxFd, Inherited, ClosesStdin             \* the child processes

ASSUME LibraryAssumption ==
  /\ {HeaderSize, MaxPool} \subseteq Nat
  /\ Growth \in Nat \ {0} /\ ViewSizes \subseteq Nat
  /\ Plain \subseteq Nat \ {10} /\ Indexes \subseteq 0..99 /\ Wrap \in Nat /\ Wrap > 99
  /\ Words \subseteq Seq(STRING) /\ \A w \in Words : \A i \in DOMAIN w : w[i] # "NUL"
  /\ MaxKey \in Nat /\ Ranges \subseteq Seq((1..MaxKey) \X Values)
  /\ MaxFd \in Nat /\ Inherited \subseteq 0..MaxFd

VARIABLES
  level, buffer, offset, pos, view, calling, written, log,
  pool, strings, contents, mark, built,
  md, curIndex, out, chars, items, says, carried, read, done,
  parser, iniLine, iniSection, iniEscape, iniItems, odd,
  argv, arglist, curarg, end, opt, noopts, taken, value,
  vector, other, call, tmp, newvect, oldNext, newNext, map, again, result,
  pfd, cfd, ppc, cpc, made, control, program, spawned, zombie, interrupted

\* The permutations of the positions of a range, of which sorting takes one.
Orders ==
  UNION {{p \in [1..n -> 1..n] : (\A i, j \in 1..n : p[i] = p[j] => i = j) /\ \A i \in 1..n : \E j \in 1..n : p[j] = i} :
           n \in {Len(s) : s \in Ranges}}

writes == <<level, buffer, offset, pos, view, calling, written, log>>
pools == <<pool, strings, contents, mark, built>>
prints == <<md, curIndex, out, chars, items, says, carried, read, done>>
parses == <<parser, iniLine, iniSection, iniEscape, iniItems, odd>>
args == <<argv, arglist, curarg, end, opt, noopts, taken, value>>
sets == <<vector, other, call, tmp, newvect, oldNext, newNext, map, again, result>>
spawns == <<pfd, cfd, ppc, cpc, made, control, program, spawned, zombie, interrupted>>

Writer == INSTANCE LogWriter WITH Header <- HeaderSize, Room <- Growth, MaxLength <- MaxLine
Pool == INSTANCE StringPool WITH MaxLength <- MaxPool, Nested <- FALSE, data <- pool
Pattern == INSTANCE LogPattern WITH meant <- says
Parser == INSTANCE IniParser WITH
            Chars <- FileChars,
            line <- iniLine, section <- iniSection, escape <- iniEscape, meant <- iniItems
CmdLine == INSTANCE CmdArgIter
Set == INSTANCE LinearSet WITH data <- vector, l <- oldNext, r <- newNext
Process == INSTANCE ExternalProcess WITH pid <- spawned

WriterSpec == Writer!Init /\ [][Writer!Next]_writes
PoolSpec == Pool!Init /\ [][Pool!Next]_pools
PatternSpec == Pattern!Init /\ [][Pattern!Next]_prints
ParserSpec == Parser!Init /\ [][Parser!Next]_parses
CmdLineSpec == CmdLine!Init /\ [][CmdLine!Next]_args
SetSpec == Set!Init /\ [][Set!Next]_sets
ProcessSpec == Process!Init /\ [][Process!Next]_spawns

-----------------------------------------------------------------------------
\* What the modules say of them.
\* Buffers that grow, and move, under what refers to them: a log line is what was
\* written to it, and the strings of a pool keep their characters.
LinesAsWritten == Writer!LinesAsWritten
StringsKept == Pool!StringsKept
BuffersKept == LinesAsWritten /\ StringsKept
\* What is read character by character means what was written: patterns, ini
\* files, arguments.
PlaceholdersReplaced == Pattern!PlaceholdersReplaced
LinesUnderstood == Parser!LinesUnderstood
EachArgumentOnce == CmdLine!EachArgumentOnce
TextUnderstood == PlaceholdersReplaced /\ LinesUnderstood /\ EachArgumentOnce
\* What is documented of patterns and ini files without exception.
PlaceholdersAsDocumented == Pattern!PlaceholdersAsDocumented
BreaksAsDocumented == Parser!BreaksAsDocumented
SectionsAsDocumented == Parser!SectionsAsDocumented
\* The sorted vector agrees with a set or a map, and with std::set throughout.
SetAgrees == Set!SetAgrees
ImplementsSet == Set!ImplementsSet
\* Child processes: spawn() and its destructor tell and settle.
SpawnTells == Process!SpawnTells
=============================================================================
