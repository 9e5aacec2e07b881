----------------------------- MODULE LogPattern -----------------------------
(***************************************************************************)
(* logPrint() of logOutput.h: a pattern is read character by character,    *)
(* and $n and $(n) are replaced by the n-th argument.  The pattern is made *)
(* of items, whose characters are fed one at a time.                       *)
(***************************************************************************)
EXTENDS Naturals, Sequences

CONSTANTS
  Args,       \* how many arguments there are
  Plain,      \* the characters that stand for themselves
  Indexes,    \* the numbers after $
  Wrap,       \* what an unsigned int wraps at
  MaxItems    \* bound: the items of a pattern

VARIABLES
  md,         \* "readChar", "readStartArg", "readArgIndex", "readParIndex"
  curIndex,
  out,        \* what was written: characters and arguments
  chars,      \* what is left of the current item
  items,      \* the pattern so far
  meant,      \* ghost: what the documentation says of it
  carried,    \* ghost: the number of the last placeholder before the last item
  read,       \* ghost: what it says if $(n) is read behind that
  done

vars == <<md, curIndex, out, chars, items, meant, carried, read, done>>

\* Characters are numbers: the digits, and four more; above are the arguments, and
\* the numbers that are printed, each as one.
Digits == 0..9
Dollar == 10
Open == 11
Close == 12
Letter == 13
Arg(n) == 100 + n
Printed(n) == 1000 + n

Init ==
  /\ md = "readChar" /\ curIndex = 0 /\ out = <<>>
  /\ chars = <<>> /\ items = <<>> /\ done = FALSE
  /\ meant = <<>> /\ carried = 0 /\ read = <<>>

\* The decimal digits of an index, and an index with another digit behind it.
Decimal(n) == IF n < 10 THEN <<n>> ELSE <<n \div 10, n % 10>>
Shift(index, c) == (index * 10 + c) % Wrap
Spelled(item) ==
  CASE item[1] = "char" -> <<item[2]>>
    [] item[1] = "dollar" -> <<Dollar, Dollar>>
    [] item[1] = "arg" -> <<Dollar>> \o Decimal(item[2])
    [] item[1] = "paren" -> <<Dollar, Open>> \o Decimal(item[2]) \o <<Close>>
    [] item[1] = "unclosed" -> <<Dollar, Open>> \o Decimal(item[2]) \o <<Letter>>

Last == IF items = <<>> THEN <<"none", 0>> ELSE items[Len(items)]
\* The documented forms, and one that is not closed.  After $n comes a character that is not a digit, and
\* not another $, which would be taken for it.
Candidates ==
  {<<"char", c>> : c \in Plain} \cup {<<"dollar", 0>>}
  \cup {<<kind, n>> : kind \in {"arg", "paren", "unclosed"}, n \in Indexes}
Follows(item) == Last[1] = "arg" => item[1] = "char" /\ item[2] \notin Digits
InParens(item) == item[1] \in {"paren", "unclosed"}
HasIndex(item) == item[1] = "arg" \/ InParens(item)
\* No $(n) is behind another placeholder.
InOrder == \A i, j \in DOMAIN items : i < j /\ HasIndex(items[i]) => ~InParens(items[j])

\* renderNthArg(): counted from 1; nothing if there is no such argument.
NthArg(n) == IF n \in 1..Args THEN <<Arg(n)>> ELSE <<>>
\* What an item stands for, if its number is n.
Meaning(item, n) ==
  CASE item[1] = "char" -> <<item[2]>>
    [] item[1] = "dollar" -> <<Dollar>>
    [] item[1] = "unclosed" -> <<Dollar, Open, Printed(n), Letter>>
    [] OTHER -> NthArg(n)
\* The number of an item when that of $(n) goes on from another; an item without one leaves that.
Number(item, from) ==
  LET n == item[2]
  IN CASE item[1] = "arg" -> n
       [] InParens(item) /\ n < 10 -> Shift(from, n)
       [] InParens(item) /\ n >= 10 -> Shift(Shift(from, n \div 10), n % 10)
       [] OTHER -> from

NextItem ==
  /\ chars = <<>> /\ ~done /\ Len(items) < MaxItems
  /\ carried' = Number(Last, carried)
  /\ \E item \in Candidates :
       /\ Follows(item)
       /\ items' = Append(items, item) /\ chars' = Spelled(item)
       /\ meant' = meant \o Meaning(item, item[2]) /\ read' = read \o Meaning(item, Number(item, carried'))
  /\ UNCHANGED <<md, curIndex, out, done>>

Write(s) == out' = out \o s
Goto(m) == md' = m

ReadChar(c) ==
  /\ md = "readChar" /\ UNCHANGED curIndex
  /\ IF c = Dollar THEN Goto("readStartArg") /\ UNCHANGED out ELSE Write(<<c>>) /\ UNCHANGED md

\* Fault: any character after $ but a digit is a character.
ReadStartPlain(c) ==
  /\ md = "readStartArg"
  /\ \/ c \in Digits /\ curIndex' = c /\ Goto("readArgIndex") /\ UNCHANGED out
     \/ c \notin Digits /\ Write(<<c>>) /\ Goto("readChar") /\ UNCHANGED curIndex

\* The index of $(n) starts at what the last one left.
ReadStartArg(c) ==
  /\ md = "readStartArg"
  /\ \/ c \in Digits /\ curIndex' = c /\ Goto("readArgIndex") /\ UNCHANGED out
     \/ c = Open /\ Goto("readParIndex") /\ UNCHANGED <<curIndex, out>>
     \/ c \notin Digits \cup {Open} /\ Write(<<c>>) /\ Goto("readChar") /\ UNCHANGED curIndex

ReadArgIndex(c) ==
  /\ md = "readArgIndex"
  /\ \/ c \in Digits /\ curIndex' = Shift(curIndex, c) /\ UNCHANGED <<md, out>>
     \/ c \notin Digits /\ Write(NthArg(curIndex) \o <<c>>) /\ Goto("readChar") /\ UNCHANGED curIndex

ReadParIndex(c) ==
  /\ md = "readParIndex"
  /\ \/ c \in Digits /\ curIndex' = Shift(curIndex, c) /\ UNCHANGED <<md, out>>
     \/ c = Close /\ Write(NthArg(curIndex)) /\ Goto("readChar") /\ UNCHANGED curIndex
     \/ /\ c \notin Digits \cup {Close}
        /\ Write(<<Dollar, Open, Printed(curIndex), c>>) /\ Goto("readChar")
        /\ UNCHANGED curIndex

Feed ==
  /\ chars # <<>>
  /\ LET c == Head(chars) IN ReadChar(c) \/ ReadStartArg(c) \/ ReadArgIndex(c) \/ ReadParIndex(c)
  /\ chars' = Tail(chars)
  /\ UNCHANGED <<items, meant, carried, read, done>>

\* The end of the pattern.
Finish ==
  /\ chars = <<>> /\ ~done /\ done' = TRUE
  /\ IF md = "readArgIndex" THEN Write(NthArg(curIndex)) ELSE UNCHANGED out
  /\ UNCHANGED <<md, curIndex, chars, items, meant, carried, read>>

Next == NextItem \/ Feed \/ Finish

Spec == Init /\ [][Next]_vars

-----------------------------------------------------------------------------
\* Every placeholder is replaced by the argument of its number, and the rest stays
\* what it is: as documented (logOutput.h:382) where no $(n) is behind another
\* placeholder, and where one is, it takes its digits for more digits of that.
PlaceholdersReplaced == done => out = read /\ (InOrder => out = meant)

\* "use $1...$n or $(1)...$(n) as placeholders" (logOutput.h:382), wherever they are.
PlaceholdersAsDocumented == done => out = meant
=============================================================================
