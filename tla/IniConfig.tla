----------------------------- MODULE IniConfig ------------------------------
(***************************************************************************)
(* ini_config.h: configuration files loaded into sections of keys.  A file *)
(* may include others, which include more: each is loaded by a call of     *)
(* load() within the one before, which keeps its path and its section.     *)
(* The lines of a file are the items IniParser makes of it.                *)
(***************************************************************************)
EXTENDS Naturals, Sequences, FiniteSets, Functions, SequencesExt

CONSTANTS MainLines, IncludedLines   \* bounds: the lines of the two files

VARIABLES
  files,     \* path -> its lines
  strict,    \* does the caller's handler of directives throw?
  smap,      \* section -> key -> <<value, path>>
  curPath,
  stack,     \* the calls of load(), the innermost last
  outcome    \* of the call of the program: "running", "ok", "throwing", "error"

vars == <<files, strict, smap, curPath, stack, outcome>>

\* A path is the sequence of its parts; a rooted one begins with "/".
NoSection == "none"
EmptyMap == [k \in {} |-> 0]
Main == <<"main">>
Inc == <<"sub", "inc">>
Leaf == <<"sub", "leaf">>
isRooted(path) == path # <<>> /\ path[1] = "/"
DirOf(path) == Front(path)

MainItems ==
  {<<"section", "a">>, <<"data", "k", 1>>, <<"include", <<"sub", "inc">>>>,
   <<"include", <<"missing">>>>, <<"template", "a">>, <<"template", "b">>}
IncItems == {<<"section", "b">>, <<"data", "k", 3>>, <<"data", "m", 3>>, <<"include", <<"leaf">>>>,
             <<"include", <<"/", "sub", "leaf">>>>, <<"include", <<"missing">>>>}
BoundedSeqs(S, n) == UNION {[1..m -> S] : m \in 0..n}

Init ==
  /\ \E main \in BoundedSeqs(MainItems, MainLines), inc \in BoundedSeqs(IncItems, IncludedLines) :
       files = (Main :> main @@ Inc :> inc @@ Leaf :> <<<<"data", "m", 4>>>>
                @@ <<"/", "sub", "leaf">> :> <<<<"section", "a">>, <<"data", "k", 5>>>>)
  /\ strict \in BOOLEAN
  /\ smap = EmptyMap /\ curPath = <<>> /\ stack = <<>> /\ outcome = "none"

\* getPath(): relative to the file the value stands in.
getPath(value) == IF isRooted(value) THEN value ELSE curPath \o value

\* load(): the caller's path is kept for the end, and changes if the new one has a directory.
Enter(calls, path, section) ==
  /\ stack' = Append(calls, [path |-> path, next |-> 1, section |-> NoSection, curSection |-> section,
                             prevPath |-> curPath])
  /\ curPath' = IF DirOf(path) # <<>> THEN DirOf(path) ELSE curPath

Top == stack[Len(stack)]
Item == files[Top.path][Top.next]
Reading == outcome = "running" /\ stack # <<>> /\ Top.next <= Len(files[Top.path])
\* The section of an item: without one of its own, that of the include.
ItemSection == IF Top.section = NoSection THEN Top.curSection ELSE Top.section
Advance == stack' = [stack EXCEPT ![Len(stack)].next = @ + 1]

\* The sections are found or made.
loadSection(m, s) == IF s \in DOMAIN m THEN m ELSE m @@ (s :> EmptyMap)
SectionOf(m, s) == IF s \in DOMAIN m THEN m[s] ELSE EmptyMap
Set(m, s, k, v) == [loadSection(m, s) EXCEPT ![s] = (k :> v) @@ @]
\* What the section has itself comes before the template.
Template(m, s, from) == [loadSection(m, s) EXCEPT ![s] = @ @@ SectionOf(m, from)]

\* load(pathname) of the program.
Load ==
  /\ outcome = "none"
  /\ outcome' = "running" /\ Enter(stack, Main, NoSection) /\ UNCHANGED <<files, strict, smap>>

ReadSection ==
  /\ Reading /\ Item[1] = "section"
  /\ stack' = [stack EXCEPT ![Len(stack)].next = @ + 1, ![Len(stack)].section = Item[2]]
  /\ UNCHANGED <<files, strict, smap, curPath, outcome>>

ReadData ==
  /\ Reading /\ Item[1] = "data"
  /\ smap' = Set(smap, ItemSection, Item[2], <<Item[3], curPath>>)
  /\ Advance /\ UNCHANGED <<files, strict, curPath, outcome>>

\* A file that is not there: the caller's handler is asked, and may throw.
Include ==
  /\ Reading /\ Item[1] = "include"
  /\ LET path == getPath(Item[2])
         behind == [stack EXCEPT ![Len(stack)].next = @ + 1]
     IN IF path \in DOMAIN files
        THEN Enter(behind, path, ItemSection) /\ UNCHANGED outcome
        ELSE /\ stack' = behind /\ UNCHANGED curPath
             /\ outcome' = IF strict THEN "throwing" ELSE outcome
  /\ UNCHANGED <<files, strict, smap>>

ReadTemplate ==
  /\ Reading /\ Item[1] = "template"
  /\ smap' = Template(smap, ItemSection, Item[2])
  /\ Advance /\ UNCHANGED <<files, strict, curPath, outcome>>

\* Fault: the path is not put back, by either of them.
LeaveHere(p) == UNCHANGED curPath
\* The end of a file, and an exception passing through load(), put the path back.
Leave(p) == curPath' = p
Catch(p) == curPath' = p
Ended(verdict) ==
  /\ stack # <<>> /\ stack' = Front(stack)
  /\ outcome' = IF Len(stack) > 1 THEN outcome ELSE verdict
  /\ UNCHANGED <<files, strict, smap>>
Return == outcome = "running" /\ ~Reading /\ Leave(Top.prevPath) /\ Ended("ok")
Unwind == outcome = "throwing" /\ Catch(Top.prevPath) /\ Ended("error")

Next == Load \/ ReadSection \/ ReadData \/ Include \/ ReadTemplate \/ Return \/ Unwind

Spec == Init /\ [][Next]_vars

-----------------------------------------------------------------------------
\* What a file means with its includes in place: the map after it, line by line
\* from its n-th, in section s (own: is it one the file has named?).
RECURSIVE Meaning(_, _, _, _)
Meaning(m, path, n, s) ==
  IF n > Len(files[path]) THEN m
  ELSE LET item == files[path][n]
           inner == IF item[1] # "include" \/ isRooted(item[2]) THEN item[2] ELSE DirOf(path) \o item[2]
           after == CASE item[1] = "data" -> Set(m, s, item[2], <<item[3], DirOf(path)>>)
                      [] item[1] = "template" -> Template(m, s, item[2])
                      [] item[1] = "include" /\ inner \in DOMAIN files -> Meaning(m, inner, 1, s)
                      [] OTHER -> m
       IN Meaning(after, path, n + 1, IF item[1] = "section" THEN item[2] ELSE s)

\* After load() the sections are what the file says with every @include replaced
\* by its file: the lines of that file belong to the section of the include until
\* it names one of its own, which ends with it; the last value of a key counts, a
\* template adds what is missing, and each value keeps the directory of the file
\* it stands in for getPath().  The path is then what it was, also if a directive
\* threw in the middle of an included file.
LoadedAsWritten ==
  /\ outcome \in {"ok", "error"} => curPath = <<>> /\ stack = <<>>
  /\ outcome = "ok" => smap = Meaning(EmptyMap, Main, 1, NoSection)
=============================================================================
