----------------------------- MODULE StringPool -----------------------------
(***************************************************************************)
(* stringpool.h: strings are appended to one growing vector, and a String  *)
(* is its offset and length there, so that the vector may move.  A string  *)
(* can also be put together between begin_add() and end_add().             *)
(***************************************************************************)
EXTENDS Naturals, Sequences

CONSTANTS
  Chars,
  MaxLength,   \* bound: the characters in the vector
  MaxStrings,  \* bound: the strings handed out
  Nested       \* may add() be called between begin_add() and end_add()?

VARIABLES
  data,        \* the vector
  strings,     \* those handed out: <<offset, length>>
  contents,    \* ghost: what each was when it was made
  mark,        \* of the string being put together; Idle if there is none
  built        \* ghost: its characters

vars == <<data, strings, contents, mark, built>>

Idle == MaxLength + 1
Nul == "NUL"
Word == UNION {[1..n -> Chars] : n \in 0..2}
Room(n) == Len(data) + n <= MaxLength
putEnd(s) == Append(s, Nul)
Made(offset, length, s) ==
  /\ strings' = Append(strings, <<offset, length>>)
  /\ contents' = Append(contents, s)

Init == data = <<>> /\ strings = <<>> /\ contents = <<>> /\ mark = Idle /\ built = <<>>

\* An empty string takes no place.
add(s) ==
  /\ mark = Idle \/ Nested
  /\ Len(strings) < MaxStrings
  /\ Room(Len(s) + 1)
  /\ IF s = <<>>
     THEN UNCHANGED data /\ Made(0, 0, s)
     ELSE data' = putEnd(data \o s) /\ Made(Len(data), Len(s), s)
  /\ UNCHANGED <<mark, built>>

begin_add ==
  /\ mark = Idle /\ Room(1) /\ Len(strings) < MaxStrings
  /\ mark' = Len(data) /\ built' = <<>> /\ UNCHANGED <<data, strings, contents>>

\* push_back() of one character and append() of several.
append(s) ==
  /\ mark # Idle /\ Room(Len(s) + 1)
  /\ data' = data \o s /\ built' = built \o s
  /\ UNCHANGED <<strings, contents, mark>>

\* Fault: the terminator is counted.
end_add_terminated ==
  /\ mark # Idle /\ Len(strings) < MaxStrings
  /\ data' = putEnd(data) /\ Made(mark, Len(data) + 1 - mark, built)
  /\ mark' = Idle /\ UNCHANGED built

end_add ==
  /\ mark # Idle /\ Len(strings) < MaxStrings
  /\ data' = putEnd(data) /\ Made(mark, Len(data) - mark, built)
  /\ mark' = Idle /\ UNCHANGED built

discard_add ==
  /\ mark # Idle /\ data' = SubSeq(data, 1, mark)
  /\ mark' = Idle /\ UNCHANGED <<strings, contents, built>>

\* clear() makes the strings handed out invalid.
clear ==
  /\ data # <<>> /\ data' = <<>> /\ strings' = <<>> /\ contents' = <<>>
  /\ mark' = Idle /\ UNCHANGED built

Next ==
  \/ \E s \in Word : add(s) \/ append(s)
  \/ begin_add
  \/ end_add
  \/ discard_add
  \/ clear

Spec == Init /\ [][Next]_vars

-----------------------------------------------------------------------------
getView(s) == SubSeq(data, s[1] + 1, s[1] + s[2])

\* A string keeps its characters as long as the pool is not cleared: whatever is
\* added, put together or discarded later, each one handed out reads as what it
\* was made of, and a character behind it ends it.  A string added while another
\* is put together ends up inside that one, or is cut off with it.
StringsKept ==
  \A i \in DOMAIN strings :
    LET s == strings[i]
    IN /\ getView(s) = contents[i]
       /\ s[2] > 0 => s[1] + s[2] < Len(data) /\ data[s[1] + s[2] + 1] = Nul
=============================================================================
