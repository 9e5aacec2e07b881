----------------------------- MODULE MCLibrary ------------------------------
(***************************************************************************)
(* The parts that stand on their own, and the loading of ini files, with a *)
(* small instance each: `part` says which one a behaviour is about, the    *)
(* others stay in their initial states.                                    *)
(***************************************************************************)
EXTENDS Library, TLC

VARIABLES part, inis, strict, smap, curPath, stack, outcome
loads == <<inis, strict, smap, curPath, stack, outcome>>

\* A letter, the escape character, and all that ends, trims or divides a line.
SomeChars == {"a", "\\", " ", "\n", "=", "#"}
\* Arguments: every kind of group, option and text, and what is neither.
SomeWords ==
  {<<>>, <<"a">>, <<"-">>, <<"-", "-">>, <<"-", "a">>, <<"-", "a", "b">>, <<"-", "a", "=">>, <<"-", "-", "a">>}
\* Ranges: one that is inserted one by one and one that is merged, none with a key twice.
SomeRanges ==
  {[i \in 1..Len(keys) |-> <<keys[i], 2>>] : keys \in {<<3, 2>>, <<5, 3, 1, 4, 2>>}}
Config == INSTANCE IniConfig WITH MainLines <- 3, IncludedLines <- 2, files <- inis

MCInit ==
  /\ part \in {"writer", "pattern", "set", "pool", "parser", "config", "cmdline", "spawn"}
  /\ Writer!Init /\ Pool!Init /\ Pattern!Init /\ Parser!Init /\ Set!Init
  /\ Process!Init /\ (part # "spawn" => program = "exits")
  /\ (part = "cmdline" \/ argv = <<>>) /\ CmdLine!Init
  /\ IF part = "config" THEN Config!Init
     ELSE /\ inis = <<>> /\ strict = FALSE /\ smap = <<>> /\ curPath = <<>> /\ stack = <<>>
          /\ outcome = "none"

MCNext ==
  \/ part = "writer" /\ Writer!Next
     /\ UNCHANGED <<part, prints, sets, pools, parses, loads, args, spawns>>
  \/ part = "pattern" /\ Pattern!Next
     /\ UNCHANGED <<part, writes, sets, pools, parses, loads, args, spawns>>
  \/ part = "set" /\ Set!Next
     /\ UNCHANGED <<part, writes, prints, pools, parses, loads, args, spawns>>
  \/ part = "pool" /\ Pool!Next
     /\ UNCHANGED <<part, writes, prints, sets, parses, loads, args, spawns>>
  \/ part = "parser" /\ Parser!Next
     /\ UNCHANGED <<part, writes, prints, sets, pools, loads, args, spawns>>
  \/ part = "config" /\ Config!Next
     /\ UNCHANGED <<part, writes, prints, sets, pools, parses, args, spawns>>
  \/ part = "cmdline" /\ CmdLine!Next
     /\ UNCHANGED <<part, writes, prints, sets, pools, parses, loads, spawns>>
  \/ part = "spawn" /\ Process!Next
     /\ UNCHANGED <<part, writes, prints, sets, pools, parses, loads, args>>

MCSpec == MCInit /\ [][MCNext]_<<part, writes, prints, sets, pools, parses, loads, args, spawns>>

\* Configuration: a file with its includes in place.
LoadedAsWritten == part = "config" => Config!LoadedAsWritten
=============================================================================
