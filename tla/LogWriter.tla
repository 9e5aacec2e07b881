------------------------------ MODULE LogWriter ------------------------------
(***************************************************************************)
(* LogWriterFn of logOutput.h on StdLogProvider of stdLogOutput.h: a line  *)
(* is written through a window into the provider's buffer, which the       *)
(* provider enlarges whenever the window is full.  The characters of a     *)
(* line are numbered; 0 is a character nobody wrote.                       *)
(***************************************************************************)
EXTENDS Naturals, Sequences

CONSTANTS
  Header,     \* length of date, level and thread
  Room,       \* what the buffer grows by, beside its half (400 in the code)
  MaxLength,  \* bound: the length of a line
  ViewSizes   \* lengths of the strings that are written at once

VARIABLES
  level,      \* "off", "enabled", "disabled": whether a line is being written
  buffer,     \* StdLogProvider::buffer
  offset,     \* where in it the window of the writer begins
  pos,        \* LogWriterFn::pos
  view,       \* how much of a string is still to be written
  calling,    \* operator()(StrView) is running
  written,    \* how many characters were written to this line
  log         \* the last committed line and how many characters it should have

vars == <<level, buffer, offset, pos, view, calling, written, log>>

Zeros(n) == [i \in 1..n |-> 0]
Resize(s, n) == IF n <= Len(s) THEN SubSeq(s, 1, n) ELSE s \o Zeros(n - Len(s))
Window == Len(buffer) - offset

Init ==
  /\ level = "off" /\ buffer = <<>> /\ offset = 0 /\ pos = 0
  /\ view = 0 /\ calling = FALSE /\ written = 0 /\ log = <<>>

\* Fault: what is in the buffer is not kept.
PrepareAnew(b) == offset' = 0 /\ buffer' = Resize(<<>>, (Len(b) * 3) \div 2 + Room)

\* prepareBuffer(): the text so far is b; the window is all that follows.
Prepare(b) == offset' = Len(b) /\ buffer' = Resize(b, (Len(b) * 3) \div 2 + Room)

\* The constructor, with start().
Start ==
  /\ level = "off"
  /\ \/ level' = "enabled" /\ Prepare(Zeros(Header))
     \/ level' = "disabled" /\ UNCHANGED <<buffer, offset>>
  /\ pos' = 0 /\ written' = 0
  /\ UNCHANGED <<view, calling, log>>

\* pos at the end of the window is 0, and sendBuffer() asks for another.
Advance(b, n) ==
  IF pos + n = Window
    THEN pos' = 0 /\ Prepare(b)
    ELSE pos' = pos + n /\ buffer' = b /\ UNCHANGED offset

\* The next n characters of the line in the window.
Put(n) == [i \in DOMAIN buffer |->
  IF i - offset \in (pos + 1)..(pos + n) THEN written + i - offset - pos ELSE buffer[i]]

\* operator()(char).
WriteChar ==
  /\ level = "enabled" /\ ~calling /\ written < MaxLength
  /\ Advance(Put(1), 1)
  /\ written' = written + 1
  /\ UNCHANGED <<level, view, calling, log>>

\* operator()(StrView): as much as the window holds, and again for the rest.
WriteView ==
  /\ level = "enabled" /\ ~calling
  /\ \E n \in ViewSizes : written + n <= MaxLength /\ view' = n
  /\ calling' = TRUE
  /\ UNCHANGED <<level, buffer, offset, pos, written, log>>

WritePart ==
  LET n == IF view < Window - pos THEN view ELSE Window - pos IN
  /\ calling
  /\ IF pos + n = 0 THEN Prepare(buffer) /\ UNCHANGED pos ELSE Advance(Put(n), n)
  /\ view' = view - n /\ calling' = (view > n) /\ written' = written + n
  /\ UNCHANGED <<level, log>>

\* ~LogWriterFn(): commit() of what is before pos.
Commit ==
  /\ level # "off" /\ ~calling /\ level' = "off"
  /\ IF level = "enabled"
       THEN log' = <<SubSeq(buffer, 1, offset + pos), written>> /\ buffer' = <<>> /\ offset' = 0
       ELSE UNCHANGED <<log, buffer, offset>>
  /\ pos' = 0 /\ written' = 0
  /\ UNCHANGED <<view, calling>>

Next == Start \/ WriteChar \/ WriteView \/ WritePart \/ Commit

Spec == Init /\ [][Next]_vars

-----------------------------------------------------------------------------
\* A committed line is the header and everything that was written, in order and
\* nothing else, however the pieces fell on the ends of the window.  It needs
\* that no empty string is written: one at the beginning of a window sends the
\* whole window, with what nobody wrote (logOutput.h:208, 214).
LinesAsWritten == log # <<>> =>
  log[1] = Zeros(Header) \o [i \in 1..log[2] |-> i]
=============================================================================
