----------------------------- MODULE IniParser ------------------------------
(***************************************************************************)
(* ini_parser.h: the parser is given an ini file character by character    *)
(* and calls a function for every item.  The file is written piece by      *)
(* piece from what its lines are meant to say, and each piece is fed at    *)
(* once, so that what the parser reports can be compared with the meaning. *)
(***************************************************************************)
EXTENDS Naturals, Sequences

CONSTANTS
  Chars,           \* what names, values and comments are written in
  MaxName,         \* bound: the name of a section
  MaxText          \* bound: the key and the value of a line

VARIABLES
  parser,          \* the object: its members, and the items it reported of the last line
  line,            \* ghost: the line that is being written
  section, escape, \* ghost: the section and the escape character it is in
  meant,           \* ghost: the items the last line means
  odd              \* ghost: what was written that the parser takes for something else

vars == <<parser, line, section, escape, meant, odd>>

\* The characters: one stands for both ends of line, one for every space.
NewLine == "\n"
Space == " "
Nul == "NUL"
isnl(c) == c = NewLine
isspace(c) == c \in {NewLine, Space}
Item(type, name, key, value) == [type |-> type, section |-> name, key |-> key, value |-> value]

\* keySize counts the key's NUL, sectionSize that of the section.
New == [buffer |-> <<Nul>>, sectionSize |-> 1, keySize |-> 0, escapeChar |-> "\\",
        curState |-> "beginLine", afterEscapeState |-> "beginLine", items |-> <<>>]
NoLine == [kind |-> "none", key |-> <<>>, value |-> <<>>, broken |-> FALSE]
Init ==
  parser = New /\ line = NoLine /\ section = <<>> /\ escape = "\\" /\ meant = <<>> /\ odd = {}

\* The positions that are not spaces, the last of them, or of the end, and what is between first and last.
Solid(s) == {i \in DOMAIN s : ~isspace(s[i])}
FirstAt(s) == CHOOSE i \in Solid(s) : \A j \in Solid(s) : i <= j
LastAt(s) == IF Solid(s) = {} THEN Len(s) ELSE CHOOSE i \in Solid(s) : \A j \in Solid(s) : j <= i
trim(s) == IF Solid(s) = {} THEN <<>> ELSE SubSeq(s, FirstAt(s), LastAt(s))

Keep(p, c) == [p EXCEPT !.buffer = Append(@, c)]
Goto(p, state) == [p EXCEPT !.curState = state]
Report(p, item) == [p EXCEPT !.items = Append(@, item)]
\* The buffer from the first position to the last, and a new line of it: what the section takes.
Cut(p, first, last) == SubSeq(p.buffer, first, last)
Fresh(p) == [p EXCEPT !.buffer = SubSeq(@, 1, p.sectionSize)]
KeyEnds(p) == [Keep(p, Nul) EXCEPT !.keySize = Len(p.buffer) + 1 - p.sectionSize]

-----------------------------------------------------------------------------
\* Fault: the value's place does not count the section.
EndOfLineShort(p, dataType) ==
  Goto(Report(Keep(p, Nul),
              Item(dataType, trim(Cut(p, 1, p.sectionSize - 1)),
                   trim(Cut(p, p.sectionSize + 1, p.sectionSize + p.keySize - 1)),
                   trim(Cut(p, p.keySize + 1, Len(p.buffer))))), "beginLine")

\* The end of a line that has a key: its three parts are cut out of the buffer and trimmed.  A NUL is
\* put behind each, in the buffer, of which the next line keeps what the section takes.
EndOfLine(p, dataType) ==
  LET sectionName == Cut(p, 1, p.sectionSize - 1)
      keyName == trim(Cut(p, p.sectionSize + 1, p.sectionSize + p.keySize - 1))
      valueName == trim(Cut(p, p.sectionSize + p.keySize + 1, Len(p.buffer)))
      cut == Goto([p EXCEPT !.buffer = [Append(@, Nul) EXCEPT ![LastAt(sectionName) + 1] = Nul]], "beginLine")
  IN IF dataType = "directive" /\ keyName = <<"\\">> /\ Len(valueName) = 1
     THEN [cut EXCEPT !.escapeChar = valueName[1]]
     ELSE Report(cut, Item(dataType, trim(sectionName), keyName, valueName))

readValueGen(p, c, escState, dataType) ==
  CASE isnl(c) -> EndOfLine(p, dataType)
    [] c = p.escapeChar /\ ~isnl(c) -> Goto([p EXCEPT !.afterEscapeState = escState], "valueEscaped")
    [] OTHER -> Keep(p, c)
readValue(p, c) == readValueGen(p, c, "value", "data")
readDirectiveData(p, c) == readValueGen(p, c, "directiveData", "directive")

\* A key ends with '=', or with its line, and then there is no value.
readKey(p, c) ==
  CASE c = "=" -> Goto(KeyEnds(p), "value")
    [] isnl(c) -> readValue(KeyEnds(p), c)
    [] OTHER -> Keep(p, c)

readBeginLine(p, c) ==
  CASE isspace(c) -> p
    [] c = "#" -> Goto(Fresh(p), "comment")
    [] c = "[" -> Goto([p EXCEPT !.buffer = <<>>], "section")
    [] c = "@" -> Goto(Fresh(p), "directiveKeyword")
    [] OTHER -> readKey(Goto(Fresh(p), "key"), c)

readComment(p, c) ==
  IF isnl(c) THEN Report(Goto(p, "beginLine"), Item("comment", <<>>, <<>>, Cut(p, p.sectionSize + 1, Len(p.buffer))))
  ELSE Keep(p, c)

readSection(p, c) ==
  IF c = "]" THEN Goto([Keep(p, Nul) EXCEPT !.sectionSize = Len(p.buffer) + 1], "waitForEoln")
  ELSE Keep(p, c)

\* A line may be broken after the escape character: the next one goes on behind its spaces.
readValueEscaped(p, c) ==
  IF isnl(c) THEN Goto(p, "valueEscapedNl")
  ELSE Goto(Keep(p, IF c \in {"n", "r"} THEN NewLine ELSE c), p.afterEscapeState)

\* It goes on as a value: an escape there forgets that the line is a directive.
readValueEscapedNl(p, c) == IF isspace(c) THEN p ELSE readValue(Goto(p, p.afterEscapeState), c)

waitTillEoln(p, c) == IF isnl(c) THEN Goto(p, "beginLine") ELSE p

readDirectiveKeyword(p, c) ==
  CASE isnl(c) -> readDirectiveData(Goto(KeyEnds(p), "directiveData"), c)
    [] isspace(c) /\ ~isnl(c) -> Goto(KeyEnds(p), "directiveData")
    [] OTHER -> Keep(p, c)

\* operator()(c)
Feed(p, c) ==
  CASE p.curState = "beginLine" -> readBeginLine(p, c)
    [] p.curState = "comment" -> readComment(p, c)
    [] p.curState = "section" -> readSection(p, c)
    [] p.curState = "key" -> readKey(p, c)
    [] p.curState = "value" -> readValue(p, c)
    [] p.curState = "valueEscaped" -> readValueEscaped(p, c)
    [] p.curState = "valueEscapedNl" -> readValueEscapedNl(p, c)
    [] p.curState = "waitForEoln" -> waitTillEoln(p, c)
    [] p.curState = "directiveKeyword" -> readDirectiveKeyword(p, c)
    [] p.curState = "directiveData" -> readDirectiveData(p, c)

-----------------------------------------------------------------------------
\* The file.  The caller took the items of the last line before the next begins.
\* The bound of a file that was misread by the end of a line is that line, but for the
\* header of a section.
Taken == [parser EXCEPT !.items = <<>>]
Begins(new, c) ==
  /\ line.kind = "none" /\ odd \subseteq {"header"}
  /\ line' = new /\ parser' = Feed(Taken, c) /\ meant' = <<>> /\ UNCHANGED <<section, escape, odd>>
BeginLine ==
  \/ Begins([NoLine EXCEPT !.kind = "comment"], "#")
  \/ Begins([NoLine EXCEPT !.kind = "section"], "[")
  \/ Begins([NoLine EXCEPT !.kind = "keyword"], "@")
  \/ Begins([NoLine EXCEPT !.kind = "value"], "=")
  \/ \E c \in {NewLine, Space} : Begins(NoLine, c)
BeginKey(c) ==
  /\ c \in Chars \ {NewLine, Space, "#", "[", "@", "="}
  /\ Begins([NoLine EXCEPT !.kind = "key", !.key = <<c>>], c)

\* Goes on in the same line.
Goes(new, fed) == line' = new /\ parser' = fed /\ UNCHANGED <<section, escape, meant>>

\* What ends the names.
Stops == [comment |-> {}, section |-> {"]"}, keyword |-> {Space}, key |-> {"="}]
WriteName(c) ==
  /\ line.kind \in DOMAIN Stops /\ c \in Chars \ ({NewLine} \cup Stops[line.kind])
  /\ Len(line.key) < IF line.kind = "section" THEN MaxName ELSE MaxText
  /\ Goes([line EXCEPT !.key = Append(@, c)], Feed(parser, c)) /\ UNCHANGED odd

KeyDone ==
  /\ \/ line.kind = "key" /\ Goes([line EXCEPT !.kind = "value"], Feed(parser, "="))
     \/ line.kind = "keyword" /\ Goes([line EXCEPT !.kind = "directive"], Feed(parser, Space))
  /\ UNCHANGED odd

\* A character of a value as it is, behind the escape character, and a line broken at it.
InValue == line.kind \in {"value", "directive"} /\ Len(line.key) + Len(line.value) < MaxText
Add(c) == [line EXCEPT !.value = Append(@, c), !.broken = FALSE]
WritePlain(c) ==
  /\ InValue /\ c \in Chars \ {NewLine, escape} /\ (line.broken => c # Space)
  /\ Goes(Add(c), Feed(parser, c)) /\ UNCHANGED odd
\* An escape where a directive was just broken: the rest is read as a value.
Escapes == odd' = IF line.kind = "directive" /\ line.broken THEN odd \cup {"directive"} ELSE odd
WriteEscaped(c) ==
  /\ InValue /\ c \in Chars \ {"n", "r"} /\ Escapes
  /\ Goes(Add(c), Feed(Feed(parser, escape), IF c = NewLine THEN "n" ELSE c))
BreakLine ==
  /\ InValue /\ Escapes
  /\ Goes([line EXCEPT !.broken = TRUE], Feed(Feed(Feed(parser, escape), NewLine), Space))

\* The end of a line; what is behind the name of a section is passed over.  A name with a
\* space behind it has a NUL put there, and a line just broken does not end.
EndsSpaced(s) == Solid(s) # {} /\ s[Len(s)] = Space
EndSection ==
  /\ line.kind = "section" /\ odd' = IF EndsSpaced(line.key) THEN odd \cup {"header"} ELSE odd
  /\ parser' = Feed(Feed(Feed(parser, "]"), "="), NewLine)
  /\ section' = line.key /\ line' = NoLine /\ UNCHANGED <<escape, meant>>
Ends(items) ==
  /\ odd' = IF line.broken THEN odd \cup {"break"} ELSE odd
  /\ parser' = Feed(parser, NewLine) /\ meant' = items /\ line' = NoLine /\ UNCHANGED section
NewEscape == trim(line.key) = <<"\\">> /\ Len(trim(line.value)) = 1
EndLine ==
  \/ EndSection
  \/ line.kind = "comment" /\ Ends(<<Item("comment", <<>>, <<>>, line.key)>>) /\ UNCHANGED escape
  \/ /\ line.kind \in {"key", "value"} /\ UNCHANGED escape
     /\ Ends(<<Item("data", trim(section), trim(line.key), trim(line.value))>>)
  \/ /\ line.kind \in {"keyword", "directive"}
     /\ IF NewEscape
        THEN Ends(<<>>) /\ escape' = trim(line.value)[1]
        ELSE /\ Ends(<<Item("directive", trim(section), trim(line.key), trim(line.value))>>)
             /\ UNCHANGED escape

Next ==
  \/ BeginLine
  \/ \E c \in Chars :
       \/ BeginKey(c)
       \/ WriteName(c)
       \/ WritePlain(c)
       \/ WriteEscaped(c)
  \/ KeyDone
  \/ BreakLine
  \/ EndLine

Spec == Init /\ [][Next]_vars

-----------------------------------------------------------------------------
\* A file says what its lines say (ini_parser.h:33): what is reported of a line is
\* what it means and at its end, with the section of the last header, its key
\* and its value trimmed and the escapes resolved, whatever was broken over
\* lines and whatever the escape character was by then.  Three things are read
\* otherwise, and odd tells of each from when it was written: a header whose name
\* ends with a space, which the NUL put behind the trimmed name lengthens for
\* every item but the first; a directive broken before an escape, which becomes
\* data; and a line broken before an empty one, which takes in the line after that.
LinesUnderstood == odd = {} => parser.items = meant

\* "Putting \ at the end of line causes that new line character is skipped, so
\* reading continues on next line" (ini_parser.h:53), an empty one as any other.
BreaksAsDocumented == odd \subseteq {"break"} => parser.items = meant

\* "The section can contain any characters excluding new line characters and
\* character ]" (ini_parser.h:50), a space at its end among them.
SectionsAsDocumented == odd \subseteq {"header"} => parser.items = meant
=============================================================================
