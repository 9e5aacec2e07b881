--------------------------- MODULE Library_proofs ---------------------------
(***************************************************************************)
(* For every size and every choice of inputs: that a buffer that grows     *)
(* keeps a line, or the strings, that are in it; that patterns, ini files  *)
(* and arguments are read as they were meant; that the sorted vector       *)
(* agrees with a map; and what spawn() says of the child.                  *)
(***************************************************************************)
EXTENDS Library, FiniteSetTheorems, SequenceTheorems, WellFoundedInduction, NaturalsInduction, TLAPS

-----------------------------------------------------------------------------
(* logOutput.h on stdLogOutput.h: the line of a log *)

\* What the buffer holds while a line is written: the header, all that was
\* written, and room for one character more.
LineStarts ==
  /\ offset + pos = HeaderSize + written /\ offset + pos < Len(buffer)
  /\ \A i \in 1..HeaderSize : buffer[i] = 0
  /\ \A i \in 1..written : buffer[HeaderSize + i] = i

WriterTypes ==
  /\ level \in {"off", "enabled", "disabled"} /\ calling \in BOOLEAN
  /\ buffer \in Seq(Nat) /\ offset \in Nat /\ pos \in Nat /\ view \in Nat /\ written \in Nat

WriterInv ==
  /\ WriterTypes
  /\ level = "enabled" => LineStarts
  /\ calling => level = "enabled" /\ view > 0
  /\ LinesAsWritten

\* A larger buffer begins with what was in it.
LEMMA Prepared ==
  ASSUME NEW b \in Seq(Nat), Writer!Prepare(b)
  PROVE  /\ offset' = Len(b) /\ buffer' \in Seq(Nat) /\ Len(buffer') > Len(b)
         /\ \A i \in 1..Len(b) : buffer'[i] = b[i]
<1> DEFINE n == (Len(b) * 3) \div 2 + Growth
           more == Writer!Zeros(n - Len(b))
<1>1. Len(b) \in Nat /\ n \in Nat /\ n > Len(b)
  BY LibraryAssumption
<1>2. more \in Seq(Nat) /\ Len(more) = n - Len(b)
  BY <1>1 DEF Writer!Zeros
<1>3. offset' = Len(b) /\ buffer' = b \o more
  BY <1>1 DEF Writer!Prepare, Writer!Resize
<1> HIDE DEF n, more
<1>4. QED
  BY <1>1, <1>2, <1>3, ConcatProperties

\* The next n characters, as many as the window has room for.
LEMMA Advanced ==
  ASSUME WriterTypes, LineStarts, NEW n \in Nat \ {0}, pos + n <= Writer!Window,
         Writer!Advance(Writer!Put(n), n), written' = written + n
  PROVE  LineStarts' /\ buffer' \in Seq(Nat) /\ offset' \in Nat /\ pos' \in Nat
<1> DEFINE b == Writer!Put(n)
<1>0. /\ HeaderSize \in Nat /\ offset \in Nat /\ pos \in Nat /\ written \in Nat
      /\ buffer \in Seq(Nat) /\ Len(buffer) \in Nat
  BY LibraryAssumption DEF WriterTypes
<1>1. /\ offset + pos = HeaderSize + written /\ offset + pos < Len(buffer)
      /\ offset + pos + n <= Len(buffer) /\ n \in Nat /\ n > 0
  BY <1>0 DEF LineStarts, Writer!Window
<1>2. ASSUME NEW i \in 1..Len(buffer)
      PROVE  b[i] = IF offset + pos < i /\ i <= offset + pos + n
                      THEN written + i - offset - pos ELSE buffer[i]
  <2>1. b[i] = IF i - offset \in (pos + 1)..(pos + n) THEN written + i - offset - pos ELSE buffer[i]
    BY <1>0 DEF Writer!Put
  <2>2. i - offset \in (pos + 1)..(pos + n) <=> offset + pos < i /\ i <= offset + pos + n
    BY <1>0, <1>1
  <2> HIDE DEF b
  <2>3. QED
    BY <2>1, <2>2
<1>3. b \in Seq(Nat) /\ Len(b) = Len(buffer)
  <2>1. \A i \in 1..Len(buffer) : buffer[i] \in Nat
    BY <1>0
  <2>2. ASSUME NEW i \in 1..Len(buffer)
        PROVE  b[i] \in Nat
    <3> HIDE DEF b
    <3>1. b[i] = IF offset + pos < i /\ i <= offset + pos + n
                   THEN written + i - offset - pos ELSE buffer[i]
      BY <1>2
    <3>2. QED
      BY <1>0, <1>1, <2>1, <3>1
  <2>3. DOMAIN b = 1..Len(buffer) /\ b = [i \in DOMAIN b |-> b[i]]
    BY <1>0 DEF Writer!Put
  <2> HIDE DEF b
  <2>4. b \in [1..Len(buffer) -> Nat]
    BY <2>2, <2>3
  <2>5. QED
    BY <1>0, <2>4
<1> HIDE DEF b
<1>4. ASSUME NEW i \in 1..HeaderSize
      PROVE  b[i] = 0
  <2>1. i \in 1..Len(buffer) /\ i <= offset + pos
    BY <1>0, <1>1
  <2>2. b[i] = buffer[i]
    BY <1>0, <1>1, <1>2, <2>1
  <2>3. QED
    BY <2>2 DEF LineStarts
<1>5. \A i \in 1..(written + n) : b[HeaderSize + i] = i
  <2> SUFFICES ASSUME NEW i \in 1..(written + n)
               PROVE  b[HeaderSize + i] = i
    OBVIOUS
  <2>1. HeaderSize + i \in 1..Len(buffer) /\ i \in Nat
    BY <1>0, <1>1
  <2>2. CASE i <= written
    <3>1. b[HeaderSize + i] = buffer[HeaderSize + i]
      BY <1>0, <1>1, <1>2, <2>1, <2>2
    <3>2. QED
      BY <3>1, <1>0, <2>2 DEF LineStarts
  <2>3. CASE i > written
    <3>1. b[HeaderSize + i] = written + (HeaderSize + i) - offset - pos
      BY <1>0, <1>1, <1>2, <2>1, <2>3
    <3>2. QED
      BY <1>0, <1>1, <2>1, <3>1
  <2>4. QED
    BY <1>0, <2>1, <2>2, <2>3
<1>6. Writer!Window = Len(buffer) - offset
  BY DEF Writer!Window
<1>7. CASE pos + n = Writer!Window
  <2>1. pos' = 0 /\ Writer!Prepare(b)
    BY <1>7 DEF Writer!Advance, b
  <2>2. /\ offset' = Len(b) /\ buffer' \in Seq(Nat) /\ Len(buffer') > Len(b)
        /\ \A i \in 1..Len(b) : buffer'[i] = b[i]
    BY <1>3, <2>1, Prepared
  <2>3. Len(b) = HeaderSize + (written + n)
    <3>1. Len(b) = offset + (pos + n)
      BY <1>0, <1>3, <1>6, <1>7
    <3>2. QED
      BY <1>0, <1>1, <3>1
  <2>4. ASSUME NEW i \in 1..HeaderSize
        PROVE  buffer'[i] = 0
    <3>1. i \in 1..Len(b)
      BY <1>0, <1>1, <2>3
    <3>2. QED
      BY <1>4, <2>2, <3>1
  <2>5. ASSUME NEW i \in 1..(written + n)
        PROVE  buffer'[HeaderSize + i] = i
    <3>1. HeaderSize + i \in 1..Len(b)
      BY <1>0, <1>1, <2>3
    <3>2. QED
      BY <1>5, <2>2, <3>1
  <2>6. QED
    BY <1>0, <1>1, <2>1, <2>2, <2>3, <2>4, <2>5 DEF LineStarts
<1>8. CASE pos + n # Writer!Window
  <2>1. pos' = pos + n /\ buffer' = b /\ offset' = offset
    BY <1>8 DEF Writer!Advance, b
  <2>2. offset + (pos + n) < Len(b) /\ offset + (pos + n) = HeaderSize + (written + n)
    BY <1>0, <1>1, <1>3, <1>6, <1>8
  <2>3. QED
    BY <1>0, <1>1, <1>3, <1>4, <1>5, <2>1, <2>2 DEF LineStarts
<1>9. QED
  BY <1>7, <1>8

\* If no empty string is written, a line of any length, of pieces of any size, is
\* committed as it was written, wherever it meets the ends of the window.
THEOREM LinesComplete == 0 \notin ViewSizes => (WriterSpec => []LinesAsWritten)
<1> SUFFICES ASSUME 0 \notin ViewSizes
             PROVE  WriterSpec => []LinesAsWritten
  OBVIOUS
<1>1. Writer!Init => WriterInv
  <2> SUFFICES ASSUME Writer!Init
               PROVE  WriterInv
    OBVIOUS
  <2>1. WriterTypes
    <3>1. buffer = <<>> /\ offset = 0 /\ pos = 0 /\ view = 0 /\ written = 0
      BY DEF Writer!Init
    <3>2. buffer \in Seq(Nat) /\ offset \in Nat /\ pos \in Nat /\ view \in Nat /\ written \in Nat
      BY <3>1
    <3>3. level \in {"off", "enabled", "disabled"} /\ calling \in BOOLEAN
      BY DEF Writer!Init
    <3>4. QED
      BY <3>2, <3>3 DEF WriterTypes
  <2>2. LinesAsWritten
    BY DEF Writer!Init, LinesAsWritten, Writer!LinesAsWritten
  <2>3. QED
    BY <2>1, <2>2 DEF Writer!Init, WriterInv
<1>2. WriterInv /\ [Writer!Next]_writes => WriterInv'
  <2> SUFFICES ASSUME WriterInv, [Writer!Next]_writes
               PROVE  WriterInv'
    OBVIOUS
  <2>0. WriterTypes /\ (level = "enabled" => LineStarts) /\ (calling => level = "enabled" /\ view > 0)
    BY DEF WriterInv
  <2>1. CASE Writer!Start
    <3>1. UNCHANGED <<view, calling, log>> /\ pos' = 0 /\ written' = 0 /\ ~calling
      BY <2>0, <2>1 DEF Writer!Start
    <3>2. LinesAsWritten'
      BY <3>1 DEF WriterInv, LinesAsWritten, Writer!LinesAsWritten, Writer!Zeros
    <3>3. CASE level' = "disabled" /\ UNCHANGED <<buffer, offset>>
      BY <2>0, <3>1, <3>2, <3>3 DEF WriterInv, WriterTypes
    <3>4. CASE level' = "enabled" /\ Writer!Prepare(Writer!Zeros(HeaderSize))
      <4> DEFINE b == Writer!Zeros(HeaderSize)
      <4>1. b \in Seq(Nat) /\ Len(b) = HeaderSize /\ HeaderSize \in Nat /\ \A i \in 1..HeaderSize : b[i] = 0
        BY LibraryAssumption DEF Writer!Zeros
      <4> HIDE DEF b
      <4>2. /\ offset' = Len(b) /\ buffer' \in Seq(Nat) /\ Len(buffer') > Len(b)
            /\ \A i \in 1..Len(b) : buffer'[i] = b[i]
        BY <3>4, <4>1, Prepared DEF b
      <4>3. LineStarts'
        BY <3>1, <4>1, <4>2 DEF LineStarts
      <4>4. QED
        BY <2>0, <3>1, <3>2, <3>4, <4>1, <4>2, <4>3 DEF WriterInv, WriterTypes
    <3>5. QED
      BY <2>1, <3>3, <3>4 DEF Writer!Start
  <2>2. ASSUME NEW n \in Nat \ {0}, level = "enabled", pos + n <= Writer!Window,
               Writer!Advance(Writer!Put(n), n), written' = written + n,
               view' \in Nat, calling' \in BOOLEAN, calling' => view' > 0, UNCHANGED <<level, log>>
        PROVE  WriterInv'
    <3>1. LineStarts' /\ buffer' \in Seq(Nat) /\ offset' \in Nat /\ pos' \in Nat
      BY <2>0, <2>2, Advanced
    <3>2. LinesAsWritten'
      BY <2>2 DEF WriterInv, LinesAsWritten, Writer!LinesAsWritten, Writer!Zeros
    <3>3. QED
      BY <2>0, <2>2, <3>1, <3>2 DEF WriterInv, WriterTypes
  <2>3. CASE Writer!WriteChar
    BY <2>0, <2>2, <2>3 DEF Writer!WriteChar, WriterTypes, LineStarts, Writer!Window
  <2>4. CASE Writer!WriteView
    <3>1. /\ level = "enabled" /\ calling' = TRUE /\ UNCHANGED <<level, buffer, offset, pos, written, log>>
          /\ view' \in Nat /\ view' > 0
      BY <2>4, LibraryAssumption DEF Writer!WriteView
    <3>2. LinesAsWritten'
      BY <3>1 DEF WriterInv, LinesAsWritten, Writer!LinesAsWritten, Writer!Zeros
    <3>3. QED
      BY <2>0, <3>1, <3>2 DEF WriterInv, WriterTypes, LineStarts
  <2>5. CASE Writer!WritePart
    <3> DEFINE n == IF view < Writer!Window - pos THEN view ELSE Writer!Window - pos
    <3>1. calling /\ level = "enabled" /\ view \in Nat /\ view > 0
      BY <2>0, <2>5 DEF Writer!WritePart, WriterTypes
    <3>2. n \in Nat \ {0} /\ n <= view /\ pos + n <= Writer!Window /\ pos + n # 0
      BY <2>0, <3>1 DEF WriterTypes, LineStarts, Writer!Window
    <3>3. /\ Writer!Advance(Writer!Put(n), n) /\ written' = written + n
          /\ view' = view - n /\ calling' = (view > n) /\ UNCHANGED <<level, log>>
      BY <2>5, <3>2 DEF Writer!WritePart
    <3> HIDE DEF n
    <3>4. view' \in Nat /\ (view > n => view' > 0)
      BY <3>1, <3>2, <3>3
    <3>5. calling' \in BOOLEAN /\ (calling' => view' > 0)
      <4> DEFINE more == view > n
      <4>1. more \in BOOLEAN /\ calling' = more /\ (more => view' > 0)
        BY <3>3, <3>4
      <4> HIDE DEF more
      <4>2. QED
        BY <4>1, Zenon
    <3>6. QED
      BY <2>2, <3>1, <3>2, <3>3, <3>4, <3>5
  <2>6. CASE Writer!Commit
    <3>1. ~calling /\ level' = "off" /\ pos' = 0 /\ written' = 0 /\ UNCHANGED <<view, calling>>
      BY <2>6 DEF Writer!Commit
    <3>2. CASE level = "enabled"
      <4> DEFINE text == SubSeq(buffer, 1, offset + pos)
      <4>1. log' = <<text, written>> /\ buffer' = <<>> /\ offset' = 0
        BY <2>6, <3>2 DEF Writer!Commit
      <4>2. /\ HeaderSize \in Nat /\ written \in Nat /\ offset + pos = HeaderSize + written
            /\ offset + pos < Len(buffer) /\ buffer \in Seq(Nat) /\ Len(buffer) \in Nat
        BY <2>0, <3>2, LibraryAssumption DEF WriterTypes, LineStarts
      <4>3. text = Writer!Zeros(HeaderSize) \o [i \in 1..written |-> i]
        BY <2>0, <3>2, <4>2, SMTT(60) DEF LineStarts, Writer!Zeros
      <4> HIDE DEF text
      <4>4. LinesAsWritten'
        BY <4>1, <4>3 DEF LinesAsWritten, Writer!LinesAsWritten, Writer!Zeros
      <4>5. QED
        BY <2>0, <3>1, <4>1, <4>4 DEF WriterInv, WriterTypes
    <3>3. CASE level # "enabled"
      <4>1. UNCHANGED <<log, buffer, offset>>
        BY <2>6, <3>3 DEF Writer!Commit
      <4>2. LinesAsWritten'
        BY <4>1 DEF WriterInv, LinesAsWritten, Writer!LinesAsWritten, Writer!Zeros
      <4>3. QED
        BY <2>0, <3>1, <4>1, <4>2 DEF WriterInv, WriterTypes
    <3>4. QED
      BY <3>2, <3>3
  <2>7. CASE UNCHANGED writes
    BY <2>0, <2>7 DEF writes, WriterInv, WriterTypes, LineStarts, LinesAsWritten,
                      Writer!LinesAsWritten, Writer!Zeros
  <2>8. QED
    BY <2>1, <2>3, <2>4, <2>5, <2>6, <2>7 DEF Writer!Next
<1>3. WriterInv => LinesAsWritten
  BY DEF WriterInv
<1>4. QED
  BY <1>1, <1>2, <1>3, PTL DEF WriterSpec

-----------------------------------------------------------------------------
(* stringpool.h *)

PoolTypes ==
  /\ pool \in Seq(Chars \cup {Pool!Nul})
  /\ strings \in Seq(Nat \X Nat) /\ contents \in Seq(Seq(Chars)) /\ Len(strings) = Len(contents)
  /\ mark \in Nat /\ built \in Seq(Chars)

\* String s of the characters x reads as c, and an end follows it.
Reads(x, s, c) ==
  /\ Len(c) = s[2]
  /\ \A j \in 1..s[2] : x[s[1] + j] = c[j]
  /\ s[2] > 0 => s[1] + s[2] < Len(x) /\ x[s[1] + s[2] + 1] = Pool!Nul
AllRead(x) == \A i \in 1..Len(strings) : Reads(x, strings[i], contents[i])

\* What is put together is behind all strings handed out.
Behind == mark # Pool!Idle =>
  /\ mark <= Len(pool) /\ Len(built) = Len(pool) - mark
  /\ \A j \in 1..Len(built) : pool[mark + j] = built[j]
  /\ \A i \in 1..Len(strings) : strings[i][2] > 0 => strings[i][1] + strings[i][2] < mark

PoolInv == PoolTypes /\ AllRead(pool) /\ Behind

\* A string that ends before n reads the same wherever the first n characters are.
LEMMA ReadsSame ==
  ASSUME NEW x, NEW y, Len(y) \in Nat, NEW s \in Nat \X Nat, NEW c, NEW n \in Nat, n <= Len(y),
         \A i \in 1..n : y[i] = x[i], s[2] > 0 => s[1] + s[2] < n, Reads(x, s, c)
  PROVE  Reads(y, s, c)
<1>1. s[1] \in Nat /\ s[2] \in Nat
  OBVIOUS
<1>2. CASE s[2] = 0
  BY <1>1, <1>2 DEF Reads
<1>3. CASE s[2] > 0
  <2>1. \A j \in 1..s[2] : s[1] + j \in 1..n
    BY <1>1, <1>3
  <2>2. s[1] + s[2] + 1 \in 1..n /\ s[1] + s[2] < Len(y)
    BY <1>1, <1>3
  <2>3. QED
    BY <1>3, <2>1, <2>2 DEF Reads
<1>4. QED
  BY <1>1, <1>2, <1>3

\* So characters appended disturb none.
LEMMA ReadsOn ==
  ASSUME PoolTypes, AllRead(pool), NEW t \in Seq(Chars \cup {Pool!Nul}), pool' = pool \o t
  PROVE  /\ pool' \in Seq(Chars \cup {Pool!Nul}) /\ Len(pool') = Len(pool) + Len(t)
         /\ \A i \in 1..Len(pool) : pool'[i] = pool[i]
         /\ \A i \in 1..Len(t) : pool'[Len(pool) + i] = t[i]
         /\ AllRead(pool')
<1> DEFINE C == Chars \cup {Pool!Nul}
<1>1. pool \in Seq(C) /\ Len(pool) \in Nat /\ Len(t) \in Nat
  BY DEF PoolTypes
<1> HIDE DEF C
<1>2. /\ pool' \in Seq(C) /\ Len(pool') = Len(pool) + Len(t)
      /\ \A i \in 1..Len(pool) : pool'[i] = pool[i]
  BY <1>1, ConcatProperties DEF C
<1>3. \A i \in 1..Len(t) : pool'[Len(pool) + i] = t[i]
  BY <1>1, ConcatProperties DEF C
<1>4. ASSUME NEW i \in 1..Len(strings)
      PROVE  Reads(pool', strings[i], contents[i])
  <2>1. strings[i] \in Nat \X Nat
    BY DEF PoolTypes
  <2>2. Reads(pool, strings[i], contents[i])
    BY DEF AllRead
  <2>3. strings[i][2] > 0 => strings[i][1] + strings[i][2] < Len(pool)
    BY <2>2 DEF Reads
  <2>4. Len(pool') \in Nat /\ Len(pool) <= Len(pool')
    BY <1>1, <1>2
  <2>5. QED
    BY <1>1, <1>2, <2>1, <2>2, <2>3, <2>4, ReadsSame, ZenonT(60)
<1>5. QED
  BY <1>2, <1>3, <1>4 DEF AllRead, C

\* Handing out one more.
LEMMA ReadsMade ==
  ASSUME PoolTypes, AllRead(pool'), NEW o \in Nat, NEW l \in Nat, NEW w \in Seq(Chars),
         Pool!Made(o, l, w), Reads(pool', <<o, l>>, w)
  PROVE  /\ strings' \in Seq(Nat \X Nat) /\ contents' \in Seq(Seq(Chars)) /\ Len(strings') = Len(contents')
         /\ Len(strings') = Len(strings) + 1 /\ strings'[Len(strings) + 1] = <<o, l>>
         /\ \A i \in 1..Len(strings) : strings'[i] = strings[i]
         /\ AllRead(pool)'
<1>1. /\ strings' = Append(strings, <<o, l>>) /\ contents' = Append(contents, w)
      /\ <<o, l>> \in Nat \X Nat
  BY DEF Pool!Made
<1>2. /\ strings' \in Seq(Nat \X Nat) /\ Len(strings') = Len(strings) + 1
      /\ strings'[Len(strings) + 1] = <<o, l>> /\ Len(strings) \in Nat
      /\ \A i \in 1..Len(strings) : strings'[i] = strings[i]
  BY <1>1, AppendProperties DEF PoolTypes
<1>3. /\ contents' \in Seq(Seq(Chars)) /\ Len(contents') = Len(strings) + 1
      /\ contents'[Len(strings) + 1] = w
      /\ \A i \in 1..Len(strings) : contents'[i] = contents[i]
  BY <1>1, AppendProperties DEF PoolTypes
<1>4. ASSUME NEW i \in 1..Len(strings')
      PROVE  Reads(pool', strings'[i], contents'[i])
  <2>1. CASE i = Len(strings) + 1
    BY <1>2, <1>3, <2>1
  <2>2. CASE i # Len(strings) + 1
    <3>1. i \in 1..Len(strings)
      BY <1>2, <2>2
    <3>2. QED
      BY <1>2, <1>3, <3>1 DEF AllRead
  <2>3. QED
    BY <2>1, <2>2
<1>5. QED
  BY <1>2, <1>3, <1>4 DEF AllRead

\* A piece cut out of a sequence.
LEMMA CutOut ==
  ASSUME NEW E, NEW s \in Seq(E), NEW a \in Nat, NEW l \in Nat, a + l <= Len(s)
  PROVE  /\ SubSeq(s, a + 1, a + l) \in Seq(E) /\ Len(SubSeq(s, a + 1, a + l)) = l
         /\ \A j \in 1..l : SubSeq(s, a + 1, a + l)[j] = s[a + j]
  BY SMTT(30)

\* Whatever is added, put together or discarded later, a string handed out reads as
\* what it was made of until the pool is cleared, however far the pool has grown.
THEOREM StringsStay == PoolSpec => []StringsKept
<1> DEFINE C == Chars \cup {Pool!Nul}
<1>1. Pool!Init => PoolInv
  <2> SUFFICES ASSUME Pool!Init
               PROVE  PoolInv
    OBVIOUS
  <2>1. pool = <<>> /\ strings = <<>> /\ contents = <<>> /\ mark = Pool!Idle /\ built = <<>>
    BY DEF Pool!Init
  <2>2. mark \in Nat
    BY <2>1, LibraryAssumption DEF Pool!Idle
  <2>3. Len(strings) = 0
    BY <2>1
  <2>4. PoolTypes
    BY <2>1, <2>2, EmptySeq DEF PoolTypes
  <2>5. QED
    BY <2>1, <2>3, <2>4 DEF PoolInv, AllRead, Behind
<1>2. PoolInv /\ [Pool!Next]_pools => PoolInv'
  <2> SUFFICES ASSUME PoolInv, [Pool!Next]_pools
               PROVE  PoolInv'
    OBVIOUS
  <2>0. /\ PoolTypes /\ AllRead(pool) /\ Behind
        /\ MaxPool \in Nat /\ Len(pool) \in Nat /\ Len(strings) \in Nat
    BY LibraryAssumption DEF PoolInv, PoolTypes
  <2>1. ASSUME NEW w \in Pool!Word
        PROVE  w \in Seq(Chars)
    <3>1. PICK n \in 0..2 : w \in [1..n -> Chars]
      BY DEF Pool!Word
    <3>2. QED
      BY <3>1
  <2>2. ASSUME NEW w \in Pool!Word, Pool!add(w)
        PROVE  PoolInv'
    <3>1. w \in Seq(Chars) /\ mark = Pool!Idle /\ UNCHANGED <<mark, built>>
      BY <2>1, <2>2 DEF Pool!add
    <3>2. CASE w = <<>>
      <4>1. UNCHANGED pool /\ Pool!Made(0, 0, w)
        BY <2>2, <3>2 DEF Pool!add
      <4>2. Reads(pool', <<0, 0>>, w)
        BY <3>2 DEF Reads
      <4>3. QED
        BY <2>0, <3>1, <4>1, <4>2, ReadsMade DEF PoolInv, PoolTypes, Behind, Pool!Idle
    <3>3. CASE w # <<>>
      <4> DEFINE t == Append(w, Pool!Nul)
      <4>1. pool' = Append(pool \o w, Pool!Nul) /\ Pool!Made(Len(pool), Len(w), w)
        BY <2>2, <3>3 DEF Pool!add, Pool!putEnd
      <4>2. /\ t \in Seq(C) /\ Len(t) = Len(w) + 1 /\ Len(w) \in Nat
            /\ t[Len(w) + 1] = Pool!Nul /\ \A i \in 1..Len(w) : t[i] = w[i]
        BY <3>1, AppendProperties
      <4>3. pool' = pool \o t
        <5>1. pool \in Seq(C) /\ w \in Seq(C) /\ Pool!Nul \in C
          BY <2>0, <3>1 DEF PoolTypes
        <5>2. Append(pool \o w, Pool!Nul) = pool \o Append(w, Pool!Nul)
          <6> HIDE DEF C
          <6>1. QED
            BY <5>1
        <5>3. QED
          BY <4>1, <5>2
      <4> HIDE DEF t
      <4>4. /\ pool' \in Seq(C) /\ Len(pool') = Len(pool) + Len(t)
            /\ \A i \in 1..Len(t) : pool'[Len(pool) + i] = t[i]
            /\ AllRead(pool')
        BY <2>0, <4>2, <4>3, ReadsOn
      <4>5. Reads(pool', <<Len(pool), Len(w)>>, w)
        <5>1. /\ Len(w) + 1 \in 1..Len(t) /\ \A i \in 1..Len(w) : i \in 1..Len(t)
              /\ Len(pool) + (Len(w) + 1) = Len(pool) + Len(w) + 1
              /\ Len(pool) + Len(w) < Len(pool')
          BY <2>0, <4>2, <4>4
        <5>2. /\ pool'[Len(pool) + Len(w) + 1] = Pool!Nul
              /\ \A i \in 1..Len(w) : pool'[Len(pool) + i] = w[i]
          BY <4>2, <4>4, <5>1
        <5>3. QED
          BY <5>1, <5>2 DEF Reads
      <4>6. QED
        BY <2>0, <3>1, <4>1, <4>2, <4>4, <4>5, ReadsMade DEF PoolInv, PoolTypes, Behind, Pool!Idle
    <3>4. QED
      BY <3>2, <3>3
  <2>3. CASE Pool!begin_add
    <3>1. mark' = Len(pool) /\ built' = <<>> /\ UNCHANGED <<pool, strings, contents>>
      BY <2>3 DEF Pool!begin_add
    <3>2. ASSUME NEW i \in 1..Len(strings), strings[i][2] > 0
          PROVE  strings[i][1] + strings[i][2] < Len(pool)
      BY <2>0, <3>2 DEF AllRead, Reads
    <3>3. built' \in Seq(Chars) /\ Len(built') = 0
      BY <3>1
    <3>4. Behind'
      BY <2>0, <3>1, <3>2, <3>3 DEF Behind
    <3>5. QED
      BY <2>0, <3>1, <3>3, <3>4 DEF PoolInv, PoolTypes, AllRead
  <2>4. ASSUME NEW w \in Pool!Word, Pool!append(w)
        PROVE  PoolInv'
    <3>1. /\ w \in Seq(Chars) /\ w \in Seq(C) /\ mark # Pool!Idle /\ pool' = pool \o w /\ built' = built \o w
          /\ UNCHANGED <<strings, contents, mark>> /\ Len(w) \in Nat
      BY <2>1, <2>4 DEF Pool!append
    <3>2. /\ pool' \in Seq(C) /\ Len(pool') = Len(pool) + Len(w)
          /\ \A i \in 1..Len(pool) : pool'[i] = pool[i]
          /\ \A i \in 1..Len(w) : pool'[Len(pool) + i] = w[i]
          /\ AllRead(pool')
      BY <2>0, <3>1, ReadsOn
    <3>3. /\ built \in Seq(Chars) /\ Len(built) \in Nat /\ mark \in Nat
          /\ mark <= Len(pool) /\ Len(pool) = mark + Len(built)
          /\ \A j \in 1..Len(built) : pool[mark + j] = built[j]
      BY <2>0, <3>1 DEF PoolTypes, Behind
    <3>4. /\ built' \in Seq(Chars) /\ Len(built') = Len(built) + Len(w)
          /\ \A i \in 1..Len(built) : built'[i] = built[i]
          /\ \A i \in 1..Len(w) : built'[Len(built) + i] = w[i]
      BY <3>1, <3>3, ConcatProperties
    <3>5. ASSUME NEW j \in 1..Len(built')
          PROVE  pool'[mark + j] = built'[j]
      <4>1. CASE j <= Len(built)
        BY <3>2, <3>3, <3>4, <4>1
      <4>2. CASE j > Len(built)
        <5>1. PICK i \in 1..Len(w) : j = Len(built) + i
          <6>1. j - Len(built) \in 1..Len(w) /\ j = Len(built) + (j - Len(built))
            BY <3>1, <3>3, <3>4, <4>2
          <6>2. QED
            BY <6>1
        <5>2. mark + j = Len(pool) + i
          BY <3>1, <3>3, <5>1
        <5>3. QED
          BY <3>2, <3>4, <5>1, <5>2
      <4>3. QED
        BY <3>1, <3>3, <3>4, <4>1, <4>2
    <3>6. mark <= Len(pool') /\ Len(built') = Len(pool') - mark
      BY <2>0, <3>1, <3>2, <3>3, <3>4
    <3>7. Behind'
      BY <2>0, <3>1, <3>5, <3>6 DEF Behind, Pool!Idle
    <3>8. QED
      BY <2>0, <3>1, <3>2, <3>4, <3>7 DEF PoolInv, PoolTypes, AllRead
  <2>5. CASE Pool!end_add
    <3>1. /\ mark # Pool!Idle /\ pool' = Append(pool, Pool!Nul) /\ Pool!Made(mark, Len(pool) - mark, built)
          /\ mark' = Pool!Idle /\ UNCHANGED built
      BY <2>5 DEF Pool!end_add, Pool!putEnd
    <3> DEFINE t == <<Pool!Nul>>
    <3>2. t \in Seq(C) /\ Len(t) = 1 /\ t[1] = Pool!Nul /\ pool' = pool \o t
      BY <2>0, <3>1 DEF PoolTypes
    <3> HIDE DEF t
    <3>3. /\ pool' \in Seq(C) /\ Len(pool') = Len(pool) + 1
          /\ \A i \in 1..Len(pool) : pool'[i] = pool[i]
          /\ pool'[Len(pool) + 1] = Pool!Nul
          /\ AllRead(pool')
      <4>1. 1 \in 1..Len(t)
        BY <3>2
      <4>2. QED
        BY <2>0, <3>2, <4>1, ReadsOn
    <3>4. /\ built \in Seq(Chars) /\ Len(built) \in Nat /\ mark \in Nat
          /\ mark <= Len(pool) /\ Len(pool) = mark + Len(built) /\ Len(pool) - mark = Len(built)
          /\ \A j \in 1..Len(built) : pool[mark + j] = built[j]
      BY <2>0, <3>1 DEF PoolTypes, Behind
    <3>5. Reads(pool', <<mark, Len(built)>>, built)
      <4>1. ASSUME NEW j \in 1..Len(built)
            PROVE  pool'[mark + j] = built[j]
        BY <3>3, <3>4
      <4>2. mark + Len(built) + 1 = Len(pool) + 1 /\ mark + Len(built) < Len(pool')
        BY <2>0, <3>3, <3>4
      <4>3. QED
        BY <3>3, <4>1, <4>2 DEF Reads
    <3>6. /\ strings' \in Seq(Nat \X Nat) /\ contents' \in Seq(Seq(Chars)) /\ Len(strings') = Len(contents')
          /\ AllRead(pool)'
      BY <2>0, <3>1, <3>3, <3>4, <3>5, ReadsMade
    <3>7. mark' \in Nat
      BY <2>0, <3>1 DEF Pool!Idle
    <3>8. QED
      BY <2>0, <3>1, <3>3, <3>6, <3>7 DEF PoolInv, PoolTypes, Behind, Pool!Idle
  <2>6. CASE Pool!discard_add
    <3>1. /\ mark # Pool!Idle /\ pool' = SubSeq(pool, 1, mark) /\ mark' = Pool!Idle
          /\ UNCHANGED <<strings, contents, built>>
      BY <2>6 DEF Pool!discard_add
    <3>2. mark \in Nat /\ mark <= Len(pool) /\ mark' \in Nat
      BY <2>0, <3>1 DEF PoolTypes, Behind, Pool!Idle
    <3>3. pool' \in Seq(C) /\ Len(pool') = mark /\ \A i \in 1..mark : pool'[i] = pool[i]
      BY <2>0, <3>1, <3>2 DEF PoolTypes
    <3>4. ASSUME NEW i \in 1..Len(strings)
          PROVE  Reads(pool', strings[i], contents[i])
      <4>1. strings[i] \in Nat \X Nat /\ Reads(pool, strings[i], contents[i])
        BY <2>0 DEF PoolTypes, AllRead
      <4>2. strings[i][2] > 0 => strings[i][1] + strings[i][2] < mark
        BY <2>0, <3>1 DEF Behind
      <4>3. Len(pool') \in Nat /\ mark <= Len(pool')
        BY <3>2, <3>3
      <4>4. QED
        BY <3>2, <3>3, <4>1, <4>2, <4>3, ReadsSame
    <3>5. QED
      BY <2>0, <3>1, <3>2, <3>3, <3>4 DEF PoolInv, PoolTypes, AllRead, Behind, Pool!Idle
  <2>7. CASE Pool!clear
    <3>1. /\ pool' = <<>> /\ strings' = <<>> /\ contents' = <<>> /\ mark' = Pool!Idle /\ UNCHANGED built
      BY <2>7 DEF Pool!clear
    <3>2. mark' \in Nat /\ Len(strings') = 0
      BY <2>0, <3>1 DEF Pool!Idle
    <3>3. PoolTypes'
      BY <2>0, <3>1, <3>2, EmptySeq DEF PoolTypes
    <3>4. QED
      BY <3>1, <3>2, <3>3 DEF PoolInv, AllRead, Behind, Pool!Idle
  <2>8. CASE UNCHANGED pools
    BY <2>0, <2>8 DEF pools, PoolInv, PoolTypes, AllRead, Behind, Pool!Idle
  <2>9. QED
    BY <2>2, <2>3, <2>4, <2>5, <2>6, <2>7, <2>8 DEF Pool!Next
<1>3. PoolInv => StringsKept
  <2> SUFFICES ASSUME PoolInv, NEW i \in DOMAIN strings
               PROVE  /\ Pool!getView(strings[i]) = contents[i]
                      /\ strings[i][2] > 0 =>
                           /\ strings[i][1] + strings[i][2] < Len(pool)
                           /\ pool[strings[i][1] + strings[i][2] + 1] = Pool!Nul
    BY DEF StringsKept, Pool!StringsKept
  <2> DEFINE s == strings[i]
             c == contents[i]
  <2>1. /\ i \in 1..Len(strings) /\ s[1] \in Nat /\ s[2] \in Nat /\ c \in Seq(Chars)
        /\ pool \in Seq(C) /\ Reads(pool, s, c)
    BY DEF PoolInv, PoolTypes, AllRead
  <2> HIDE DEF s, c
  <2>2. Pool!getView(s) = c
    <3> DEFINE v == SubSeq(pool, s[1] + 1, s[1] + s[2])
    <3>1. CASE s[2] = 0
      <4>1. v = <<>>
        BY <2>1, <3>1, SubSeqEmpty
      <4>2. QED
        BY <2>1, <3>1, <4>1 DEF Reads, Pool!getView
    <3>2. CASE s[2] > 0
      <4>1. s[1] + s[2] <= Len(pool)
        BY <2>1, <3>2 DEF Reads
      <4>2. v \in Seq(C) /\ Len(v) = s[2] /\ \A j \in 1..s[2] : v[j] = pool[s[1] + j]
        <5> HIDE DEF C
        <5>1. pool \in Seq(C) /\ s[1] \in Nat /\ s[2] \in Nat
          BY <2>1
        <5>2. QED
          BY <4>1, <5>1, CutOut, ZenonT(60)
      <4> HIDE DEF v
      <4>3. Len(v) = Len(c) /\ c \in Seq(C) /\ \A j \in 1..Len(v) : v[j] = c[j]
        BY <2>1, <4>2 DEF Reads
      <4>4. v = c
        BY <4>2, <4>3, SeqEqual
      <4>5. QED
        BY <4>4 DEF v, Pool!getView
    <3>3. QED
      BY <2>1, <3>1, <3>2
  <2>3. QED
    BY <2>1, <2>2 DEF Reads, s, c
<1>4. QED
  BY <1>1, <1>2, <1>3, PTL DEF PoolSpec

\* Neither buffer loses what is in it when it grows (stdLogOutput.h, stringpool.h).
THEOREM BuffersStay == 0 \notin ViewSizes => (WriterSpec /\ PoolSpec => []BuffersKept)
<1>1. BuffersKept <=> LinesAsWritten /\ StringsKept
  BY DEF BuffersKept
<1>2. QED
  BY <1>1, LinesComplete, StringsStay, PTL

\* A set of numbers has a least one.
LEMMA SmallestNat ==
  ASSUME NEW T \in SUBSET Nat, T # {}
  PROVE  \E n \in T : \A m \in T : n <= m
<1> DEFINE R == OpToRel(<, Nat)
<1>1. IsWellFoundedOn(R, Nat)
  BY NatLessThanWellFounded
<1>2. \A m, n \in Nat : m < n => <<m, n>> \in R
  BY DEF OpToRel
<1> HIDE DEF R
<1>3. PICK n \in T : \A m \in T : <<m, n>> \notin R
  BY <1>1, WFMin
<1>4. ASSUME NEW m \in T
      PROVE  n <= m
  <2>1. m \in Nat /\ n \in Nat /\ ~(m < n)
    BY <1>2, <1>3
  <2>2. QED
    BY <2>1
<1>5. QED
  BY <1>4

-----------------------------------------------------------------------------
(* linux_spawn.h *)

\* A descriptor is inherited, free, or an end of a pipe; no end has two of them,
\* and the inherited ones stay what they were.
PipeNames == {"input", "output", "error", "control"}
AllEnds == {Process!End(p, s) : p \in PipeNames, s \in {"r", "w"}}
IsTable(t) ==
  /\ t \in [Process!Fds -> AllEnds \cup {Process!Std, Process!Free}]
  /\ \A fd, gd \in Process!Fds : t[fd] = t[gd] /\ t[fd] \in AllEnds => fd = gd
  /\ \A fd \in Process!Fds : t[fd] = Process!Std <=> fd \in Inherited
HasEnd(t, e) == \E fd \in Process!Fds : t[fd] = e

\* Which ends the parent has, by the place it is at.
MadeSoFar(e) == \E i \in 1..made : e.pipe = Process!Pipes[i]
ParentInv ==
  /\ ppc \in {"pipe", "fork", "close", "read", "readText", "ok", "join", "destroyed", "threw"}
  /\ made \in 0..4 /\ IsTable(pfd)
  /\ ppc = "pipe" => made < 4
  /\ ppc \in {"fork", "close"} => made = 4
  /\ ppc \in {"pipe", "fork", "close"} => \A e \in AllEnds : HasEnd(pfd, e) <=> MadeSoFar(e)
  /\ ppc \in {"read", "readText"} =>
       \A e \in AllEnds : HasEnd(pfd, e) <=> e # Process!End("control", "w")
  /\ ppc \in {"ok", "join"} =>
       /\ HasEnd(pfd, Process!End("output", "r")) /\ HasEnd(pfd, Process!End("error", "r"))
       /\ \A e \in AllEnds \ Process!ObjectEnds : ~HasEnd(pfd, e)
  /\ ppc = "join" /\ ClosesStdin => ~HasEnd(pfd, Process!End("input", "w"))
  /\ ppc \in {"destroyed", "threw"} => \A e \in AllEnds : ~HasEnd(pfd, e)

\* What dup2() leaves in the child, and what the child has before exec().
Copy(p, s) == [pipe |-> p, side |-> s, cloexec |-> FALSE]
Prepares == {"chdir", "stdin", "stdout", "stderr", "exec"}
Reports == {"report", "describe", "exit"}
Streams ==
  /\ cfd[0] \in {Process!Std, Copy("input", "r")}
  /\ cfd[1] \in {Process!Std, Copy("output", "w")}
  /\ cfd[2] \in {Process!Std, Copy("error", "w")}
  /\ cpc \in {"stdout", "stderr", "exec", "running"} => cfd[0] = Copy("input", "r")
  /\ cpc \in {"stderr", "exec", "running"} => cfd[1] = Copy("output", "w")
  /\ cpc \in {"exec", "running"} => cfd[2] = Copy("error", "w")
  /\ cpc \in {"chdir", "stdin", "stdout"} => cfd[1] = Process!Std
  /\ cpc \in {"chdir", "stdin", "stdout", "stderr"} => cfd[2] = Process!Std
  /\ cpc \in {"chdir", "stdin"} => cfd[0] = Process!Std
BehindStreams ==
  \A fd \in Process!Fds \ (0..2) :
    IF fd \in Inherited THEN cfd[fd] = Process!Std ELSE cfd[fd] \in AllEnds \cup {Process!Free}
ChildInv ==
  /\ cpc \in {"none", "running", "ended", "failed"} \cup Prepares \cup Reports
  /\ DOMAIN cfd = Process!Fds
  /\ cpc \in {"none", "ended", "failed"} => cfd = Process!Nothing
  /\ cpc \in Prepares \cup Reports => Streams /\ BehindStreams /\ HasEnd(cfd, Process!End("control", "w"))
  /\ cpc \in Prepares =>
       /\ HasEnd(cfd, Process!End("input", "r")) /\ HasEnd(cfd, Process!End("output", "w"))
       /\ HasEnd(cfd, Process!End("error", "w"))
  /\ cpc = "running" => Streams /\ \A fd \in Process!Fds \ (0..2) : cfd[fd] = Process!Start[fd]

\* How far parent and child are of each other, and what is in the control pipe,
\* while no signal interrupted the parent.
InStep ==
  /\ ppc \in {"pipe", "fork"} => cpc = "none"
  /\ cpc = "none" => ppc \in {"pipe", "fork", "threw"} /\ control = <<>>
  /\ cpc \in Prepares \cup {"report"} => ppc \in {"close", "read"} /\ control = <<>>
  /\ cpc = "describe" => \/ ppc \in {"close", "read"} /\ control = <<"report">>
                         \/ ppc = "readText" /\ control = <<>>
  /\ cpc \in {"exit", "failed"} =>
       \/ ppc \in {"close", "read"} /\ control = <<"report", "describe">>
       \/ ppc = "readText" /\ control \in {<<"describe">>, <<>>}
       \/ ppc = "threw" /\ cpc = "failed"
  /\ cpc \in {"running", "ended"} => ppc \in {"close", "read", "ok", "join", "destroyed"} /\ control = <<>>

BothInv == interrupted \/ InStep

ProcessInv == ParentInv /\ ChildInv /\ BothInv

\* pipe2() takes two descriptors that were free.
LEMMA PipeOpens ==
  ASSUME NEW t, IsTable(t), Process!CanOpen(t), NEW p \in PipeNames,
         \A s \in {"r", "w"} : ~HasEnd(t, Process!End(p, s))
  PROVE  LET u == Process!Open(Process!Open(t, Process!End(p, "r")), Process!End(p, "w"))
         IN  /\ IsTable(u)
             /\ \A e \in AllEnds : HasEnd(u, e) <=> HasEnd(t, e) \/ e.pipe = p
<1> DEFINE e1 == Process!End(p, "r")
           e2 == Process!End(p, "w")
           v == Process!Open(t, e1)
           u == Process!Open(v, e2)
<1>0. /\ \A x \in AllEnds : x # Process!Free /\ x # Process!Std
      /\ Process!Free # Process!Std
      /\ \A x \in AllEnds : x.pipe = p => x \in {e1, e2}
      /\ e1 \in AllEnds /\ e2 \in AllEnds /\ e1 # e2 /\ e1.pipe = p /\ e2.pipe = p
  <2>1. e1 \in AllEnds /\ e2 \in AllEnds
    BY DEF AllEnds
  <2>2. ASSUME NEW x \in AllEnds
        PROVE  x # Process!Free /\ x # Process!Std /\ (x.pipe = p => x \in {e1, e2})
    <3>1. PICK q \in PipeNames, s \in {"r", "w"} : x = Process!End(q, s)
      BY DEF AllEnds
    <3>2. QED
      BY <3>1 DEF PipeNames, Process!End, Process!Free, Process!Std
  <2>3. Process!Free # Process!Std /\ e1 # e2 /\ e1.pipe = p /\ e2.pipe = p
    BY DEF Process!End, Process!Free, Process!Std
  <2>4. QED
    BY <2>1, <2>2, <2>3
<1> HIDE DEF e1, e2
<1>1. ASSUME NEW w, Process!Unused(w) # {}
      PROVE  Process!Lowest(w) \in Process!Unused(w)
  <2>1. Process!Unused(w) \in SUBSET Nat
    BY DEF Process!Unused, Process!Fds
  <2>2. \E n \in Process!Unused(w) : \A m \in Process!Unused(w) : n <= m
    BY <1>1, <2>1, SmallestNat
  <2>3. QED
    BY <2>2 DEF Process!Lowest
<1> DEFINE a == Process!Lowest(t)
           b == Process!Lowest(v)
<1>2. a \in Process!Fds /\ t[a] = Process!Free /\ v = [t EXCEPT ![a] = e1]
  BY <1>1 DEF Process!CanOpen, Process!Unused, Process!Open
<1>3. b \in Process!Fds /\ t[b] = Process!Free /\ a # b
  <2>1. PICK fd \in Process!Unused(t) : fd # a
    BY DEF Process!CanOpen
  <2>2. fd \in Process!Unused(v)
    BY <1>2, <2>1 DEF Process!Unused, IsTable
  <2>3. b \in Process!Unused(v)
    BY <1>1, <2>2
  <2> HIDE DEF b, a, v
  <2>4. QED
    BY <1>0, <1>2, <2>3 DEF Process!Unused, IsTable
<1>4. u = [t EXCEPT ![a] = e1, ![b] = e2]
  BY <1>2 DEF Process!Open
<1> HIDE DEF a, b, u, v
<1>5. /\ DOMAIN u = Process!Fds /\ u[a] = e1 /\ u[b] = e2
      /\ \A fd \in Process!Fds \ {a, b} : u[fd] = t[fd]
  BY <1>2, <1>3, <1>4 DEF IsTable
<1>6. u \in [Process!Fds -> AllEnds \cup {Process!Std, Process!Free}]
  BY <1>0, <1>2, <1>3, <1>4 DEF IsTable
<1>7. ~HasEnd(t, e1) /\ ~HasEnd(t, e2)
  BY DEF e1, e2
<1>8. \A fd, gd \in Process!Fds : u[fd] = u[gd] /\ u[fd] \in AllEnds => fd = gd
  BY <1>0, <1>5, <1>7 DEF IsTable, HasEnd
<1>9. \A fd \in Process!Fds : u[fd] = Process!Std <=> fd \in Inherited
  BY <1>0, <1>2, <1>3, <1>5 DEF IsTable
<1>10. \A e \in AllEnds : HasEnd(u, e) <=> HasEnd(t, e) \/ e.pipe = p
  BY <1>0, <1>2, <1>3, <1>5 DEF HasEnd
<1>11. QED
  BY <1>6, <1>8, <1>9, <1>10 DEF IsTable, u, v, e1, e2

\* Closing ends leaves a table, without them.
LEMMA TableCloses ==
  ASSUME NEW t, IsTable(t), NEW u, NEW Kept, Process!Std \in Kept,
         u = [fd \in Process!Fds |-> IF t[fd] \in Kept THEN t[fd] ELSE Process!Free]
  PROVE  IsTable(u) /\ \A e \in AllEnds : HasEnd(u, e) <=> HasEnd(t, e) /\ e \in Kept
<1>1. \A e \in AllEnds : e # Process!Free /\ e # Process!Std
  BY DEF AllEnds, Process!End, PipeNames, Process!Free, Process!Std
<1>2. Process!Free # Process!Std
  BY DEF Process!Free, Process!Std
<1>3. QED
  BY <1>1, <1>2 DEF IsTable, HasEnd

\* Without ends it is what the parent had before.
LEMMA TableAtStart ==
  ASSUME NEW t, IsTable(t), \A e \in AllEnds : ~HasEnd(t, e)
  PROVE  t = Process!Start
<1>1. \A fd \in Process!Fds : t[fd] \notin AllEnds
  BY DEF HasEnd
<1>2. \A fd \in Process!Fds : t[fd] = Process!Start[fd]
  BY <1>1 DEF IsTable, Process!Start
<1>3. QED
  BY <1>2 DEF IsTable, Process!Start

\* The destructors close all of them.
LEMMA OnlyStdStays ==
  ASSUME NEW t, IsTable(t)
  PROVE  IsTable(Process!OnlyStd(t)) /\ \A e \in AllEnds : ~HasEnd(Process!OnlyStd(t), e)
<1>1. \A e \in AllEnds : e # Process!Std
  BY DEF AllEnds, Process!End, PipeNames, Process!Std
<1>2. Process!OnlyStd(t) = [fd \in Process!Fds |-> IF t[fd] \in {Process!Std} THEN t[fd] ELSE Process!Free]
  BY DEF Process!OnlyStd
<1>3. QED
  BY <1>1, <1>2, TableCloses

\* The initial state.
LEMMA ProcessStarts ==
  ASSUME Process!Init
  PROVE  ProcessInv
<1>1. /\ pfd = Process!Start /\ cfd = Process!Nothing /\ ppc = "pipe" /\ cpc = "none" /\ made = 0
      /\ control = <<>>
  BY DEF Process!Init
<1>2. \A e \in AllEnds : e # Process!Free /\ e # Process!Std
  BY DEF AllEnds, Process!End, PipeNames, Process!Free, Process!Std
<1>3. Process!Free # Process!Std
  BY DEF Process!Free, Process!Std
<1>4. IsTable(pfd)
  BY <1>1, <1>2, <1>3 DEF IsTable, Process!Start
<1>5. \A e \in AllEnds : ~HasEnd(pfd, e)
  BY <1>1, <1>2 DEF HasEnd, Process!Start
<1>6. ParentInv
  BY <1>1, <1>4, <1>5 DEF ParentInv, MadeSoFar
<1>7. ChildInv
  BY <1>1 DEF ChildInv, Process!Nothing, Prepares, Reports
<1>8. QED
  BY <1>1, <1>6, <1>7 DEF ProcessInv, BothInv, InStep, Prepares, Reports

\* The four pipes.
LEMMA FourPipes ==
  /\ Process!Pipes = <<"input", "output", "error", "control">> /\ Len(Process!Pipes) = 4
  /\ \A i \in 1..4 : Process!Pipes[i] \in PipeNames
  /\ \A i, j \in 1..4 : Process!Pipes[i] = Process!Pipes[j] => i = j
  /\ \A e \in AllEnds : \E i \in 1..4 : e.pipe = Process!Pipes[i]
<1>1. \A e \in AllEnds : e.pipe \in PipeNames
  BY DEF AllEnds, Process!End
<1>2. QED
  BY <1>1 DEF Process!Pipes, PipeNames

\* Each end, where it is read from and where it is written to.
LEMMA EachEnd ==
  /\ \A p \in PipeNames, s \in {"r", "w"} : Process!End(p, s) \in AllEnds
  /\ \A p, q, s, x : Process!End(p, s) = Process!End(q, x) => p = q /\ s = x
  /\ \A e \in AllEnds : \E p \in PipeNames, s \in {"r", "w"} : e = Process!End(p, s)
  /\ \A p, s : Process!End(p, s).pipe = p /\ Process!End(p, s).side = s /\ Process!End(p, s).cloexec
<1>1. \A p, s : Process!End(p, s).pipe = p /\ Process!End(p, s).side = s /\ Process!End(p, s).cloexec
  BY DEF Process!End
<1>2. QED
  BY <1>1 DEF AllEnds

\* Closing one end.
LEMMA EndCloses ==
  ASSUME NEW t, IsTable(t), NEW p \in PipeNames, NEW s \in {"r", "w"}
  PROVE  /\ IsTable(Process!Close(t, p, s))
         /\ \A e \in AllEnds : HasEnd(Process!Close(t, p, s), e) <=> HasEnd(t, e) /\ e # Process!End(p, s)
<1> DEFINE Kept == (AllEnds \cup {Process!Std}) \ {Process!End(p, s)}
<1>1. \A fd \in Process!Fds : fd \in Process!Holds(t, p, s) <=> t[fd] = Process!End(p, s)
  <2>1. ASSUME NEW x \in AllEnds \cup {Process!Std, Process!Free}
        PROVE  x.pipe = p /\ x.side = s <=> x = Process!End(p, s)
    BY EachEnd DEF Process!Std, Process!Free, Process!End, PipeNames
  <2>2. QED
    BY <2>1 DEF IsTable, Process!Holds
<1>2. Process!Close(t, p, s) = [fd \in Process!Fds |-> IF t[fd] \in Kept THEN t[fd] ELSE Process!Free]
  <2>1. \A fd \in Process!Fds : (IF fd \in Process!Holds(t, p, s) THEN Process!Free ELSE t[fd])
                                = (IF t[fd] \in Kept THEN t[fd] ELSE Process!Free)
    BY <1>1 DEF IsTable
  <2>2. QED
    BY <2>1 DEF Process!Close
<1>3. Process!Std \in Kept
  BY DEF Process!Std, Process!End
<1> HIDE DEF Kept
<1>4. \A e \in AllEnds : e \in Kept <=> e # Process!End(p, s)
  BY DEF Kept
<1>5. QED
  BY <1>2, <1>3, <1>4, TableCloses

\* What the parent has after each step.
LEMMA ParentSteps ==
  ASSUME ProcessInv, Process!Next
  PROVE  ParentInv'
<1> USE DEF ProcessInv
<1>1. ASSUME UNCHANGED <<pfd, ppc, made>>
      PROVE  ParentInv'
  BY <1>1 DEF ParentInv, IsTable, HasEnd, MadeSoFar
<1>2. ASSUME Process!Throw, UNCHANGED made
      PROVE  ParentInv'
  <2>1. pfd' = Process!OnlyStd(pfd) /\ ppc' = "threw"
    BY <1>2 DEF Process!Throw
  <2>2. IsTable(pfd') /\ \A e \in AllEnds : ~HasEnd(pfd', e)
    BY <2>1, OnlyStdStays DEF ParentInv
  <2>3. QED
    BY <1>2, <2>1, <2>2 DEF ParentInv, IsTable, HasEnd
<1>3. CASE Process!makePipe
  <2>1. CASE Process!Throw /\ UNCHANGED made
    BY <1>2, <2>1
  <2>2. CASE ~(Process!Throw /\ UNCHANGED made)
    <3> DEFINE p == Process!Pipes[made + 1]
    <3>1. /\ ppc = "pipe" /\ made \in 0..3 /\ Process!CanOpen(pfd) /\ IsTable(pfd)
          /\ pfd' = Process!Open(Process!Open(pfd, Process!End(p, "r")), Process!End(p, "w"))
          /\ made' = made + 1 /\ ppc' = IF made' = 4 THEN "fork" ELSE "pipe"
      BY <1>3, <2>2, FourPipes DEF Process!makePipe, ParentInv
    <3>2. p \in PipeNames /\ \A i \in 1..made : Process!Pipes[i] # p
      BY <3>1, FourPipes
    <3>3. \A s \in {"r", "w"} : ~HasEnd(pfd, Process!End(p, s))
      BY <3>1, <3>2, EachEnd DEF ParentInv, MadeSoFar
    <3>4. IsTable(pfd') /\ \A e \in AllEnds : HasEnd(pfd', e) <=> HasEnd(pfd, e) \/ e.pipe = p
      BY <3>1, <3>2, <3>3, PipeOpens
    <3>5. \A e \in AllEnds : HasEnd(pfd, e) <=> \E i \in 1..made : e.pipe = Process!Pipes[i]
      BY <3>1 DEF ParentInv, MadeSoFar
    <3>6. \A e \in AllEnds : HasEnd(pfd', e) <=> \E i \in 1..made' : e.pipe = Process!Pipes[i]
      BY <3>1, <3>4, <3>5
    <3>7. QED
      BY <3>1, <3>4, <3>6 DEF ParentInv, MadeSoFar, IsTable, HasEnd
  <2>3. QED
    BY <2>1, <2>2
<1>4. CASE Process!Fork
  <2>1. CASE Process!Throw
    BY <1>2, <1>4, <2>1 DEF Process!Fork
  <2>2. CASE ~Process!Throw
    BY <1>4, <2>2 DEF Process!Fork, ParentInv, MadeSoFar, IsTable, HasEnd
  <2>3. QED
    BY <2>1, <2>2
<1>5. CASE Process!CloseControl
  <2>1. /\ ppc = "close" /\ ppc' = "read" /\ made' = made /\ IsTable(pfd) /\ made = 4
        /\ pfd' = Process!Close(pfd, "control", "w") /\ \A e \in AllEnds : HasEnd(pfd, e)
    BY <1>5, FourPipes DEF Process!CloseControl, ParentInv, MadeSoFar
  <2>2. IsTable(pfd') /\ \A e \in AllEnds : HasEnd(pfd', e) <=> HasEnd(pfd, e) /\ e # Process!End("control", "w")
    BY <2>1, EndCloses DEF PipeNames
  <2>3. \A e \in AllEnds : HasEnd(pfd', e) <=> e # Process!End("control", "w")
    BY <2>1, <2>2
  <2>4. QED
    BY <2>1, <2>2, <2>3 DEF ParentInv, IsTable, HasEnd
<1>6. CASE Process!ReadError
  <2>0. ppc = "read" /\ made' = made /\ IsTable(pfd) /\ made \in 0..4
    BY <1>6 DEF Process!ReadError, ParentInv
  <2>1. CASE ppc' = "readText" /\ pfd' = pfd
    <3>2. QED
      BY <2>0, <2>1 DEF ParentInv, IsTable, HasEnd
  <2>2. CASE Process!Return
    <3> DEFINE Kept == Process!ObjectEnds \cup {Process!Std}
               Own == Process!Holds(pfd, "input", "w") \cup Process!Holds(pfd, "output", "r")
                        \cup Process!Holds(pfd, "error", "r")
    <3>1. /\ ppc' = "ok"
          /\ pfd' = [fd \in Process!Fds |-> IF fd \in Own \/ pfd[fd] = Process!Std THEN pfd[fd] ELSE Process!Free]
      BY <2>2 DEF Process!Return
    <3>2. \A fd \in Process!Fds : fd \in Own \/ pfd[fd] = Process!Std <=> pfd[fd] \in Kept
      <4>1. ASSUME NEW x \in AllEnds \cup {Process!Std, Process!Free}, NEW p, NEW s, p \in PipeNames
            PROVE  x.pipe = p /\ x.side = s <=> x = Process!End(p, s)
        BY <4>1, EachEnd DEF Process!Std, Process!Free, Process!End, PipeNames
      <4>2. \A fd \in Process!Fds : pfd[fd] \in AllEnds \cup {Process!Std, Process!Free}
        BY <2>0 DEF IsTable
      <4>3. \A fd \in Process!Fds : /\ fd \in Process!Holds(pfd, "input", "w") <=> pfd[fd] = Process!End("input", "w")
                                    /\ fd \in Process!Holds(pfd, "output", "r") <=> pfd[fd] = Process!End("output", "r")
                                    /\ fd \in Process!Holds(pfd, "error", "r") <=> pfd[fd] = Process!End("error", "r")
        BY <4>1, <4>2 DEF Process!Holds, PipeNames
      <4>4. QED
        BY <4>3 DEF Process!ObjectEnds
    <3>3. pfd' = [fd \in Process!Fds |-> IF pfd[fd] \in Kept THEN pfd[fd] ELSE Process!Free]
      BY <3>1, <3>2
    <3> HIDE DEF Own
    <3>4. Process!Std \in Kept
      OBVIOUS
    <3> HIDE DEF Kept
    <3>5. IsTable(pfd') /\ \A e \in AllEnds : HasEnd(pfd', e) <=> HasEnd(pfd, e) /\ e \in Kept
      BY <2>0, <3>3, <3>4, TableCloses
    <3>6. \A e \in AllEnds : HasEnd(pfd, e) <=> e # Process!End("control", "w")
      BY <2>0 DEF ParentInv
    <3>7. \A e \in AllEnds : e # Process!Std
      BY EachEnd DEF Process!End, PipeNames, Process!Std
    <3>8. /\ HasEnd(pfd', Process!End("output", "r")) /\ HasEnd(pfd', Process!End("error", "r"))
          /\ \A e \in AllEnds \ Process!ObjectEnds : ~HasEnd(pfd', e)
      <4>1. /\ Process!End("output", "r") \in AllEnds /\ Process!End("error", "r") \in AllEnds
            /\ Process!End("output", "r") # Process!End("control", "w")
            /\ Process!End("error", "r") # Process!End("control", "w")
        BY EachEnd DEF PipeNames
      <4>2. QED
        BY <3>5, <3>6, <3>7, <4>1 DEF Kept, Process!ObjectEnds
    <3>9. QED
      BY <2>0, <3>1, <3>5, <3>8 DEF ParentInv, IsTable, HasEnd
  <2>3. QED
    BY <1>6, <2>1, <2>2 DEF Process!ReadError
<1>7. CASE Process!ReadText
  BY <1>1, <1>2, <1>7 DEF Process!ReadText
<1>8. CASE Process!CloseStdin
  <2>1. /\ ppc = "ok" /\ ppc' = "ok" /\ made' = made /\ IsTable(pfd)
        /\ pfd' = Process!Close(pfd, "input", "w")
    BY <1>8 DEF Process!CloseStdin, Process!Idle, ParentInv
  <2>2. IsTable(pfd') /\ \A e \in AllEnds : HasEnd(pfd', e) <=> HasEnd(pfd, e) /\ e # Process!End("input", "w")
    BY <2>1, EndCloses DEF PipeNames
  <2>3. /\ HasEnd(pfd', Process!End("output", "r")) /\ HasEnd(pfd', Process!End("error", "r"))
        /\ \A e \in AllEnds \ Process!ObjectEnds : ~HasEnd(pfd', e)
    <3>1. /\ Process!End("output", "r") \in AllEnds /\ Process!End("error", "r") \in AllEnds
          /\ Process!End("output", "r") # Process!End("input", "w")
          /\ Process!End("error", "r") # Process!End("input", "w")
      BY EachEnd DEF PipeNames
    <3>2. QED
      BY <2>1, <2>2, <3>1 DEF ParentInv
  <2>4. QED
    BY <2>1, <2>2, <2>3 DEF ParentInv, IsTable, HasEnd
<1>9. CASE Process!Destroy
  <2>1. ppc = "ok" /\ ppc' = "join" /\ UNCHANGED <<pfd, made>>
    BY <1>9 DEF Process!Destroy, Process!Idle
  <2>2. ClosesStdin => ~HasEnd(pfd, Process!End("input", "w"))
    <3>1. ClosesStdin => Process!Holds(pfd, "input", "w") = {}
      BY <1>9 DEF Process!Destroy
    <3>2. QED
      BY <3>1, EachEnd DEF HasEnd, Process!Holds
  <2>3. QED
    BY <2>1, <2>2 DEF ParentInv, IsTable, HasEnd
<1>10. CASE Process!Joined
  <2>1. ppc' = "destroyed" /\ UNCHANGED made /\ pfd' = Process!OnlyStd(pfd)
    BY <1>10 DEF Process!Joined
  <2>2. IsTable(pfd') /\ \A e \in AllEnds : ~HasEnd(pfd', e)
    BY <2>1, OnlyStdStays DEF ParentInv
  <2>3. QED
    BY <2>1, <2>2 DEF ParentInv, IsTable, HasEnd
<1>11. CASE Process!Child \/ Process!isRunning \/ Process!sendSignal \/ Process!detach
  BY <1>1, <1>11 DEF Process!Child, Process!Prepare, Process!Exec, Process!ReportError, Process!Exit,
     Process!isRunning, Process!sendSignal, Process!detach
<1>12. QED
  BY <1>3, <1>4, <1>5, <1>6, <1>7, <1>8, <1>9, <1>10, <1>11 DEF Process!Next, Process!Parent

\* What the child has after each step.
LEMMA ChildSteps ==
  ASSUME ProcessInv, Process!Next, {0, 1, 2} \subseteq Inherited
  PROVE  ChildInv'
<1> USE DEF ProcessInv
<1>0. /\ {0, 1, 2} \subseteq Process!Fds /\ Inherited \subseteq Process!Fds
      /\ \A e \in AllEnds : e # Process!Free /\ e # Process!Std /\ e.cloexec
      /\ \A p, s : Copy(p, s) \notin AllEnds /\ Copy(p, s).cloexec = FALSE
      /\ Process!Free # Process!Std /\ Process!Std.cloexec = FALSE /\ Process!Free.cloexec = FALSE
  <2>1. {0, 1, 2} \subseteq Process!Fds /\ Inherited \subseteq Process!Fds
    BY LibraryAssumption DEF Process!Fds
  <2>2. \A e \in AllEnds : e # Process!Free /\ e # Process!Std /\ e.cloexec
    BY DEF AllEnds, Process!End, PipeNames, Process!Free, Process!Std
  <2>3. \A p, s : Copy(p, s).cloexec = FALSE
    BY DEF Copy
  <2>4. ASSUME NEW p, NEW s
        PROVE  Copy(p, s) \notin AllEnds
    BY <2>2, <2>3
  <2>5. Process!Free # Process!Std /\ Process!Std.cloexec = FALSE /\ Process!Free.cloexec = FALSE
    BY DEF Process!Free, Process!Std
  <2>6. QED
    BY <2>1, <2>2, <2>3, <2>4, <2>5
<1>1. ASSUME UNCHANGED <<cfd, cpc>>
      PROVE  ChildInv'
  BY <1>1 DEF ChildInv, Streams, BehindStreams, HasEnd
<1>2. CASE Process!Fork
  <2>1. CASE Process!Throw
    BY <1>1, <1>2, <2>1 DEF Process!Fork, Process!Throw
  <2>2. CASE ~Process!Throw
    <3>1. cfd' = pfd /\ cpc' = "chdir" /\ IsTable(pfd) /\ \A e \in AllEnds : HasEnd(pfd, e)
      BY <1>2, <2>2, FourPipes DEF Process!Fork, ParentInv, MadeSoFar
    <3>2. Streams' /\ BehindStreams'
      BY <1>0, <3>1 DEF Streams, BehindStreams, IsTable
    <3>3. \A p \in PipeNames, s \in {"r", "w"} : HasEnd(cfd', Process!End(p, s))
      BY <3>1, EachEnd
    <3>4. QED
      BY <3>1, <3>2, <3>3 DEF ChildInv, Prepares, Reports, PipeNames, HasEnd, IsTable
  <2>3. QED
    BY <2>1, <2>2
<1>3. CASE Process!Prepare
  <2>1. /\ cpc \in {"chdir", "stdin", "stdout", "stderr"} /\ Streams /\ BehindStreams /\ DOMAIN cfd = Process!Fds
        /\ HasEnd(cfd, Process!End("control", "w")) /\ HasEnd(cfd, Process!End("input", "r"))
        /\ HasEnd(cfd, Process!End("output", "w")) /\ HasEnd(cfd, Process!End("error", "w"))
    BY <1>3 DEF Process!Prepare, Process!Steps, ChildInv, Prepares
  <2>2. CASE Process!Fail
    BY <2>1, <2>2 DEF Process!Fail, ChildInv, Streams, BehindStreams, HasEnd, Prepares, Reports
  <2>3. CASE cpc = "chdir" /\ cpc' = "stdin" /\ cfd' = cfd
    BY <2>1, <2>3 DEF ChildInv, Streams, BehindStreams, HasEnd, Prepares, Reports
  <2>4. ASSUME NEW p \in PipeNames, NEW s \in {"r", "w"}, HasEnd(cfd, Process!End(p, s)),
               NEW to \in {0, 1, 2}, cfd[to] = Process!Std,
               cfd' = Process!Dup2(Process!FdOf(cfd, p, s), to)
        PROVE  cfd' = [cfd EXCEPT ![to] = Copy(p, s)]
    <3> DEFINE from == Process!FdOf(cfd, p, s)
    <3>1. Process!Holds(cfd, p, s) # {}
      BY <2>4, EachEnd DEF HasEnd, Process!Holds
    <3>2. from \in Process!Fds /\ cfd[from].pipe = p /\ cfd[from].side = s
      BY <3>1 DEF Process!FdOf, Process!Holds
    <3> HIDE DEF from
    <3>3. from # to
      BY <2>4, <3>2 DEF Process!Std, PipeNames
    <3>4. Process!Copied(cfd[from]) = Copy(p, s)
      BY <3>2 DEF Process!Copied, Copy
    <3>5. QED
      BY <2>4, <3>3, <3>4 DEF Process!Dup2, from
  <2>5. ASSUME NEW p, NEW s, NEW to \in {0, 1, 2}, cfd[to] = Process!Std, cfd' = [cfd EXCEPT ![to] = Copy(p, s)]
        PROVE  /\ BehindStreams' /\ DOMAIN cfd' = Process!Fds /\ cfd'[to] = Copy(p, s)
               /\ \A e \in AllEnds : HasEnd(cfd, e) => HasEnd(cfd', e)
               /\ \A fd \in {0, 1, 2} \ {to} : cfd'[fd] = cfd[fd]
    <3>1. \A fd \in Process!Fds \ (0..2) : fd # to
      OBVIOUS
    <3>2. QED
      BY <1>0, <2>1, <2>5, <3>1 DEF BehindStreams, HasEnd
  <2>6. \A p \in PipeNames, s \in {"r", "w"} : Process!End(p, s) \in AllEnds
    BY EachEnd
  <2>7. CASE cpc = "stdin" /\ cpc' = "stdout" /\ cfd' = Process!Dup2(Process!FdOf(cfd, "input", "r"), 0)
    <3>1. cfd[0] = Process!Std /\ cfd' = [cfd EXCEPT ![0] = Copy("input", "r")]
      BY <2>1, <2>4, <2>7 DEF Streams, PipeNames
    <3>2. QED
      BY <2>1, <2>5, <2>6, <2>7, <3>1 DEF ChildInv, Streams, Prepares, Reports, PipeNames, HasEnd
  <2>8. CASE cpc = "stdout" /\ cpc' = "stderr" /\ cfd' = Process!Dup2(Process!FdOf(cfd, "output", "w"), 1)
    <3>1. cfd[1] = Process!Std /\ cfd' = [cfd EXCEPT ![1] = Copy("output", "w")]
      BY <2>1, <2>4, <2>8 DEF Streams, PipeNames
    <3>2. QED
      BY <2>1, <2>5, <2>6, <2>8, <3>1 DEF ChildInv, Streams, Prepares, Reports, PipeNames, HasEnd
  <2>9. CASE cpc = "stderr" /\ cpc' = "exec" /\ cfd' = Process!Dup2(Process!FdOf(cfd, "error", "w"), 2)
    <3>1. cfd[2] = Process!Std /\ cfd' = [cfd EXCEPT ![2] = Copy("error", "w")]
      BY <2>1, <2>4, <2>9 DEF Streams, PipeNames
    <3>2. QED
      BY <2>1, <2>5, <2>6, <2>9, <3>1 DEF ChildInv, Streams, Prepares, Reports, PipeNames, HasEnd
  <2>10. QED
    BY <1>3, <2>1, <2>2, <2>3, <2>7, <2>8, <2>9 DEF Process!Prepare, Process!Steps
<1>4. CASE Process!Exec
  <2>1. /\ cpc = "exec" /\ Streams /\ BehindStreams /\ DOMAIN cfd = Process!Fds
        /\ HasEnd(cfd, Process!End("control", "w"))
    BY <1>4 DEF Process!Exec, ChildInv, Prepares
  <2>2. CASE Process!Fail
    BY <2>1, <2>2 DEF Process!Fail, ChildInv, Streams, BehindStreams, HasEnd, Prepares, Reports
  <2>3. CASE ~Process!Fail
    <3>1. /\ cfd' = [fd \in Process!Fds |-> IF cfd[fd].cloexec THEN Process!Free ELSE cfd[fd]]
          /\ cpc' = "running"
      BY <1>4, <2>3 DEF Process!Exec
    <3>2. cfd'[0] = cfd[0] /\ cfd'[1] = cfd[1] /\ cfd'[2] = cfd[2]
      <4>1. ~cfd[0].cloexec /\ ~cfd[1].cloexec /\ ~cfd[2].cloexec
        BY <1>0, <2>1 DEF Streams
      <4>2. QED
        BY <1>0, <3>1, <4>1
    <3>3. \A fd \in Process!Fds \ (0..2) : cfd'[fd] = Process!Start[fd]
      BY <1>0, <2>1, <3>1 DEF BehindStreams, Process!Start
    <3>4. QED
      BY <2>1, <3>1, <3>2, <3>3 DEF ChildInv, Streams, Prepares, Reports, Process!Nothing
  <2>4. QED
    BY <2>2, <2>3
<1>5. CASE Process!ReportError
  BY <1>5 DEF Process!ReportError, ChildInv, Streams, BehindStreams, HasEnd, Prepares, Reports
<1>6. CASE Process!Exit \/ Process!sendSignal
  <2>1. cfd' = Process!Nothing /\ cpc' \in {"ended", "failed"}
    BY <1>6 DEF Process!Exit, Process!sendSignal
  <2>2. QED
    BY <2>1 DEF ChildInv, Process!Nothing, Prepares, Reports
<1>7. CASE \/ Process!makePipe \/ Process!CloseControl \/ Process!ReadError \/ Process!ReadText
           \/ Process!CloseStdin \/ Process!isRunning \/ Process!detach \/ Process!Destroy \/ Process!Joined
  BY <1>1, <1>7 DEF Process!makePipe, Process!CloseControl, Process!ReadError, Process!ReadText, Process!Return,
     Process!CloseStdin, Process!isRunning, Process!detach, Process!Destroy, Process!Joined
<1>8. QED
  BY <1>2, <1>3, <1>4, <1>5, <1>6, <1>7 DEF Process!Next, Process!Child, Process!Parent

\* Who has the write end of a pipe.
LEMMA NobodyWrites ==
  ASSUME NEW p \in PipeNames
  PROVE  Process!AtEnd(p) => ~HasEnd(pfd, Process!End(p, "w")) /\ ~HasEnd(cfd, Process!End(p, "w"))
<1>1. \A t : HasEnd(t, Process!End(p, "w")) => Process!Holds(t, p, "w") # {}
  BY EachEnd DEF HasEnd, Process!Holds
<1>2. QED
  BY <1>1 DEF Process!AtEnd

\* A sequence of two.
LEMMA AppendToOne ==
  ASSUME NEW a, NEW b
  PROVE  Append(<<a>>, b) = <<a, b>> /\ Append(<<>>, b) = <<b>>
<1> DEFINE S == {a, b}
           x == Append(<<a>>, b)
           y == <<a, b>>
<1>1. <<a>> \in Seq(S) /\ y \in Seq(S) /\ Len(<<a>>) = 1 /\ b \in S
  OBVIOUS
<1>2. Append(<<>>, b) = <<b>>
  OBVIOUS
<1> HIDE DEF S
<1>3. x \in Seq(S) /\ Len(x) = 2 /\ x[1] = <<a>>[1] /\ x[2] = b
  BY <1>1, AppendProperties
<1>4. Len(y) = 2 /\ <<a>>[1] = a /\ y[1] = a /\ y[2] = b
  OBVIOUS
<1> HIDE DEF x, y
<1>5. \A i \in 1..2 : x[i] = y[i]
  BY <1>3, <1>4
<1>6. x = y
  BY <1>1, <1>3, <1>4, <1>5, SeqEqual
<1>7. QED
  BY <1>2, <1>6 DEF x, y

\* How far they are of each other after each step.
LEMMA BothSteps ==
  ASSUME ProcessInv, Process!Next
  PROVE  BothInv'
<1>00. SUFFICES ASSUME ~interrupted'
                PROVE  InStep'
  BY DEF BothInv
<1>01. interrupted' = interrupted /\ ParentInv /\ ChildInv /\ InStep
  BY <1>00 DEF Process!Next, Process!ReadError, Process!ReadText, ProcessInv, BothInv
<1>0. <<"report">> # <<>> /\ <<"describe">> # <<>> /\ <<"report", "describe">> # <<>>
  OBVIOUS
<1>1. ASSUME UNCHANGED <<ppc, cpc, control>>
      PROVE  InStep'
  BY <1>01, <1>1 DEF InStep
<1>2. CASE Process!makePipe \/ Process!Fork
  BY <1>01, <1>2 DEF Process!makePipe, Process!Fork, Process!Throw, InStep, ParentInv, Prepares, Reports
<1>3. CASE Process!Prepare \/ Process!Exec
  BY <1>01, <1>3 DEF Process!Prepare, Process!Exec, Process!Fail, Process!Steps, InStep, Prepares, Reports
<1>4. CASE Process!ReportError
  <2>1. CASE cpc = "report"
    <3>1. control' = <<"report">> /\ cpc' = "describe" /\ ppc' = ppc
      BY <1>01, <1>4, <2>1 DEF Process!ReportError, InStep
    <3>2. QED
      BY <1>01, <2>1, <3>1 DEF InStep, Prepares, Reports
  <2>2. CASE cpc = "describe"
    <3>1. control' = Append(control, "describe") /\ cpc' = "exit" /\ ppc' = ppc
      BY <1>01, <1>4, <2>2 DEF Process!ReportError
    <3>2. Append(<<"report">>, "describe") = <<"report", "describe">> /\ Append(<<>>, "describe") = <<"describe">>
      BY AppendToOne
    <3>3. QED
      BY <1>01, <2>2, <3>1, <3>2 DEF InStep, Prepares, Reports
  <2>3. QED
    BY <1>01, <1>4, <2>1, <2>2 DEF Process!ReportError
<1>5. CASE Process!Exit \/ Process!sendSignal
  <2>1. Process!sendSignal => cpc = "running"
    BY <1>01 DEF Process!sendSignal, Process!Idle, InStep, ChildInv, Prepares, Reports
  <2>2. QED
    BY <1>01, <1>5, <2>1 DEF Process!Exit, Process!sendSignal, Process!Idle, InStep, Prepares, Reports
<1>6. CASE Process!CloseControl
  BY <1>01, <1>6 DEF Process!CloseControl, InStep, Prepares, Reports
<1>7. CASE Process!ReadError
  <2>0. ppc = "read" /\ cpc' = cpc
    BY <1>01, <1>7 DEF Process!ReadError
  <2>1. CASE control # <<>>
    <3>1. control' = Tail(control) /\ ppc' = "readText"
      BY <1>7, <2>1 DEF Process!ReadError, Process!CanRead
    <3>2. Tail(<<"report">>) = <<>> /\ Tail(<<"report", "describe">>) = <<"describe">>
      OBVIOUS
    <3>3. cpc \in {"describe", "exit", "failed"}
      BY <1>01, <2>0, <2>1 DEF InStep, ChildInv, Prepares, Reports
    <3>4. QED
      BY <1>01, <2>0, <2>1, <3>1, <3>2, <3>3 DEF InStep, Prepares, Reports
  <2>2. CASE control = <<>>
    <3>1. control' = <<>> /\ ppc' = "ok" /\ ~HasEnd(cfd, Process!End("control", "w"))
      <4>1. Process!AtEnd("control") /\ Process!Return
        BY <1>00, <1>7, <2>2 DEF Process!ReadError
      <4>2. QED
        BY <2>2, <4>1, NobodyWrites DEF Process!Return, PipeNames
    <3>2. cpc \in {"none", "running", "ended", "failed"}
      BY <1>01, <3>1 DEF ChildInv
    <3>3. QED
      BY <1>01, <1>0, <2>0, <2>2, <3>1, <3>2 DEF InStep, Prepares, Reports
  <2>3. QED
    BY <2>1, <2>2
<1>8. CASE Process!ReadText
  <2>0. ppc = "readText" /\ cpc' = cpc
    BY <1>01, <1>8 DEF Process!ReadText
  <2>1. CASE control # <<>>
    <3>1. control' = Tail(control) /\ ppc' = ppc
      BY <1>8, <2>1 DEF Process!ReadText, Process!CanRead
    <3>2. Tail(<<"describe">>) = <<>>
      OBVIOUS
    <3>3. cpc \in {"exit", "failed"} /\ control = <<"describe">>
      BY <1>01, <2>0, <2>1 DEF InStep, ChildInv, Prepares, Reports
    <3>4. QED
      BY <1>01, <2>0, <3>1, <3>2, <3>3 DEF InStep, Prepares, Reports
  <2>2. CASE control = <<>>
    <3>1. control' = <<>> /\ ppc' = "threw" /\ ~HasEnd(cfd, Process!End("control", "w"))
      <4>1. Process!AtEnd("control") /\ Process!Throw /\ UNCHANGED control
        BY <1>00, <1>8, <2>2 DEF Process!ReadText
      <4>2. QED
        BY <2>2, <4>1, NobodyWrites DEF Process!Throw, PipeNames
    <3>2. cpc \in {"none", "running", "ended", "failed"}
      BY <1>01, <3>1 DEF ChildInv
    <3>3. QED
      BY <1>01, <2>0, <3>1, <3>2 DEF InStep, Prepares, Reports
  <2>3. QED
    BY <2>1, <2>2
<1>9. CASE Process!Destroy \/ Process!Joined
  BY <1>01, <1>9 DEF Process!Destroy, Process!Joined, Process!Idle, InStep, Prepares, Reports
<1>10. CASE Process!CloseStdin \/ Process!isRunning \/ Process!detach
  BY <1>01, <1>1, <1>10 DEF Process!CloseStdin, Process!isRunning, Process!detach
<1>11. QED
  BY <1>01, <1>2, <1>3, <1>4, <1>5, <1>6, <1>7, <1>8, <1>9, <1>10 DEF Process!Next, Process!Child, Process!Parent

\* In a program that was started nobody writes into its input or into the control pipe.
LEMMA ProgramWrites ==
  ASSUME ProcessInv, cpc \in {"running", "ended", "failed"}, NEW p \in {"input", "control"}
  PROVE  Process!Holds(cfd, p, "w") = {}
<1>1. CASE cpc = "running"
  <2>1. ASSUME NEW fd \in Process!Fds
        PROVE  ~(cfd[fd].pipe = p /\ cfd[fd].side = "w")
    <3>1. CASE fd \in 0..2
      BY <1>1, <3>1 DEF ProcessInv, ChildInv, Streams, Copy
    <3>2. CASE fd \notin 0..2
      BY <1>1, <3>2 DEF ProcessInv, ChildInv, Process!Start, Process!Std, Process!Free
    <3>3. QED
      BY <3>1, <3>2
  <2>2. QED
    BY <2>1 DEF Process!Holds
<1>2. CASE cpc # "running"
  BY <1>2 DEF ProcessInv, ChildInv, Process!Nothing, Process!Holds, Process!Free
<1>3. QED
  BY <1>1, <1>2

\* What the parent does not have it does not hold.
LEMMA NoEndHeld ==
  ASSUME IsTable(pfd), NEW p \in PipeNames, NEW s \in {"r", "w"}, ~HasEnd(pfd, Process!End(p, s))
  PROVE  Process!Holds(pfd, p, s) = {}
<1>1. ASSUME NEW x \in AllEnds \cup {Process!Std, Process!Free}
      PROVE  x.pipe = p /\ x.side = s => x = Process!End(p, s)
  BY EachEnd DEF Process!Std, Process!Free, Process!End, PipeNames
<1>2. QED
  BY <1>1 DEF IsTable, HasEnd, Process!Holds

\* Whatever the parent inherited and however many descriptors there may be, if it
\* has the three standard ones: spawn() returns an object only for a program that
\* runs with the pipes as its streams and throws only when there is none, unless a
\* signal interrupts its read(); interrupted or not, it leaves no descriptor behind,
\* and neither it nor the destructor waits for ever.
THEOREM SpawnAlwaysTells ==
  ASSUME {0, 1, 2} \subseteq Inherited, ClosesStdin
  PROVE  ProcessSpec => []SpawnTells
<1>1. ProcessInv /\ [Process!Next]_spawns => ProcessInv'
  <2>1. CASE Process!Next
    BY <2>1, ParentSteps, ChildSteps, BothSteps DEF ProcessInv
  <2>2. CASE UNCHANGED spawns
    BY <2>2 DEF spawns, ProcessInv, ParentInv, ChildInv, BothInv, IsTable, HasEnd, MadeSoFar, Streams, BehindStreams, InStep
  <2>3. QED
    BY <2>1, <2>2
<1>2. ProcessInv => SpawnTells
  <2> SUFFICES ASSUME ProcessInv
               PROVE  Process!SpawnTells
    BY DEF SpawnTells
  <2>0. /\ IsTable(pfd) /\ {0, 1, 2} \subseteq Process!Fds
        /\ \A e \in AllEnds : e # Process!Free /\ e # Process!Std
    <3>1. {0, 1, 2} \subseteq Process!Fds
      BY LibraryAssumption DEF Process!Fds
    <3>2. QED
      BY <3>1 DEF ProcessInv, ParentInv, AllEnds, Process!End, PipeNames, Process!Free, Process!Std
  <2>1. ASSUME ppc = "ok"
        PROVE  /\ interrupted \/ cpc \in {"running", "ended"}
               /\ Process!ObjectEnds \ {Process!End("input", "w")} \subseteq {pfd[fd] : fd \in Process!Owned}
               /\ {pfd[fd] : fd \in Process!Owned} \subseteq Process!ObjectEnds
               /\ \A fd, gd \in Process!Owned : pfd[fd] = pfd[gd] => fd = gd
               /\ \A fd \in Process!Fds \ Process!Owned : pfd[fd] = Process!Start[fd]
    <3>1. interrupted \/ cpc \in {"running", "ended"}
      BY <2>1 DEF ProcessInv, BothInv, InStep, ChildInv, Prepares, Reports
    <3>2. \A fd \in Process!Fds : fd \in Process!Owned <=> pfd[fd] \in AllEnds
      BY <2>0 DEF Process!Owned, IsTable
    <3>3. Process!Owned \subseteq Process!Fds
      BY DEF Process!Owned
    <3>4. HasEnd(pfd, Process!End("output", "r")) /\ HasEnd(pfd, Process!End("error", "r"))
          /\ \A e \in AllEnds \ Process!ObjectEnds : ~HasEnd(pfd, e)
      BY <2>1 DEF ProcessInv, ParentInv
    <3>5. \A e \in Process!ObjectEnds \ {Process!End("input", "w")} : e \in AllEnds /\ HasEnd(pfd, e)
      BY <3>4, EachEnd DEF Process!ObjectEnds, PipeNames
    <3>6. \A fd \in Process!Owned : pfd[fd] \in Process!ObjectEnds
      BY <3>2, <3>3, <3>4 DEF HasEnd
    <3>7. \A fd, gd \in Process!Owned : pfd[fd] = pfd[gd] => fd = gd
      BY <2>0, <3>2, <3>3 DEF IsTable
    <3>8. \A fd \in Process!Fds \ Process!Owned : pfd[fd] = Process!Start[fd]
      BY <2>0, <3>2 DEF IsTable, Process!Start
    <3>9. QED
      BY <3>1, <3>2, <3>3, <3>5, <3>6, <3>7, <3>8 DEF HasEnd
  <2>2. ASSUME cpc = "running"
        PROVE  /\ <<cfd[0].pipe, cfd[1].pipe, cfd[2].pipe>> = <<"input", "output", "error">>
               /\ \A fd \in Process!Fds \ (0..2) : cfd[fd] = Process!Start[fd]
    BY <2>2 DEF ProcessInv, ChildInv, Streams, Copy
  <2>3. ASSUME ppc = "threw"
        PROVE  (interrupted \/ cpc \in {"none", "failed"}) /\ pfd = Process!Start
    <3>1. pfd = Process!Start
      BY <2>3, TableAtStart DEF ProcessInv, ParentInv
    <3>2. QED
      BY <2>3, <3>1 DEF ProcessInv, BothInv, InStep, ChildInv, Prepares, Reports
  <2>4. ASSUME ppc \in {"read", "readText"}, cpc \in {"running", "ended", "failed"}
        PROVE  Process!CanRead
    <3>1. ~HasEnd(pfd, Process!End("control", "w"))
      BY <2>4, EachEnd DEF ProcessInv, ParentInv, PipeNames
    <3>2. Process!Holds(pfd, "control", "w") = {}
      BY <2>0, <3>1, NoEndHeld DEF PipeNames
    <3>3. Process!Holds(cfd, "control", "w") = {}
      BY <2>4, ProgramWrites
    <3>4. QED
      BY <3>2, <3>3 DEF Process!CanRead, Process!AtEnd
  <2>5. ASSUME ppc = "join", cpc = "running"
        PROVE  Process!Ends
    <3>1. Process!Holds(pfd, "input", "w") = {}
      BY <2>0, <2>5, NoEndHeld DEF ProcessInv, ParentInv, PipeNames
    <3>2. Process!Holds(cfd, "input", "w") = {}
      BY <2>5, ProgramWrites
    <3>3. QED
      BY <3>1, <3>2 DEF Process!Ends, Process!AtEnd
  <2>6. QED
    BY <2>1, <2>2, <2>3, <2>4, <2>5 DEF Process!SpawnTells
<1>3. QED
  BY <1>1, <1>2, ProcessStarts, PTL DEF ProcessSpec

-----------------------------------------------------------------------------
(* cmdline.h *)

\* The argument that ends the options, and a place of the iterator: it stands on
\* an argument that is not empty, everything it passed over on the way there was
\* empty, or the first that ends the options.
DashDash == <<"-", "-">>
Iterators == [arglist : Nat, curarg : Nat, end : BOOLEAN, opt : BOOLEAN, noopts : BOOLEAN]
StandsAt(it) ==
  /\ it.arglist \in 1..(Len(argv) + 1)
  /\ it.end <=> it.arglist = Len(argv) + 1
  /\ it.noopts <=> \E k \in 1..(it.arglist - 1) : argv[k] = DashDash
  /\ ~it.end => argv[it.arglist] # <<>> /\ (~it.noopts => argv[it.arglist] # DashDash)
PassesOver(i) == argv[i] = <<>> \/ CmdLine!Separator(i)

\* A group of letters: it begins with one dash.
IsGroup(i) == argv[i] # <<>> /\ argv[i][1] = "-" /\ (Len(argv[i]) >= 2 => argv[i][2] # "-")

\* What was returned so far: each character up to the place of the iterator, in order.
InCover(k, j) == \E n \in DOMAIN taken : taken[n][1] = k /\ j \in taken[n][2]..taken[n][3]
IsWhole(k) == \E n \in DOMAIN taken : taken[n][1] = k /\ taken[n][2] = 1
IsDash(k, j) == ~IsWhole(k) /\ j <= 2 /\ \A i \in 1..j : argv[k][i] = "-"

CmdTypes ==
  /\ argv \in Seq(Words) /\ CmdLine!It \in Iterators
  /\ taken \in Seq((1..Len(argv)) \X Nat \X Nat)
CmdPlace ==
  /\ StandsAt(CmdLine!It) /\ (end => ~opt) /\ (~opt => curarg = 1)
  /\ opt => /\ IsGroup(arglist) /\ ~noopts /\ curarg >= 2
            /\ IF curarg = 2 THEN CmdLine!Unreadable ELSE curarg <= Len(argv[arglist])
CmdOrder ==
  /\ \A n \in DOMAIN taken :
       \/ taken[n][1] < arglist
       \/ taken[n][1] = arglist /\ opt /\ taken[n][2] >= 2 /\ taken[n][3] < curarg
  /\ \A m, n \in DOMAIN taken : m < n =>
       \/ taken[m][1] < taken[n][1]
       \/ taken[m][1] = taken[n][1] /\ taken[m][3] < taken[n][2]
CmdCover ==
  \A k \in 1..Len(argv), j \in Nat :
    InCover(k, j) <=>
      \/ /\ k < arglist /\ ~CmdLine!Separator(k)
         /\ j \in DOMAIN argv[k] /\ ~IsDash(k, j)
      \/ k = arglist /\ opt /\ j \in 2..(curarg - 1)
CmdInv == CmdTypes /\ CmdPlace /\ CmdOrder /\ CmdCover

\* The words of an argument, and when one ends the options.
LEMMA WordsAre ==
  ASSUME NEW w \in Words
  PROVE  /\ w \in Seq(STRING) /\ Len(w) \in Nat /\ \A i \in 1..Len(w) : w[i] # CmdLine!Nul
         /\ w = DashDash <=> Len(w) = 2 /\ w[1] = "-" /\ w[2] = "-"
<1>1. w \in Seq(STRING) /\ Len(w) \in Nat /\ DOMAIN w = 1..Len(w)
  BY LibraryAssumption
<1>2. \A i \in 1..Len(w) : w[i] # CmdLine!Nul
  BY <1>1, LibraryAssumption DEF CmdLine!Nul
<1> DEFINE S == STRING \cup {"-"}
<1>3. w \in Seq(S) /\ DashDash \in Seq(S) /\ Len(DashDash) = 2 /\ DashDash[1] = "-" /\ DashDash[2] = "-"
  BY <1>1 DEF DashDash
<1> HIDE DEF S
<1>4. ASSUME Len(w) = 2, w[1] = "-", w[2] = "-"
      PROVE  w = DashDash
  <2>1. \A i \in 1..Len(w) : w[i] = DashDash[i]
    BY <1>3, <1>4
  <2>2. QED
    BY <1>1, <1>3, <1>4, <2>1, SeqEqual
<1>5. QED
  BY <1>1, <1>2, <1>3, <1>4

\* When the argument it stands at ends the options.
LEMMA EndsOptionsWhen ==
  ASSUME argv \in Seq(Words), NEW it \in Iterators, it.arglist \in 1..(Len(argv) + 1), ~it.opt, it.curarg = 1,
         it.end <=> it.arglist = Len(argv) + 1
  PROVE  CmdLine!EndsOptions(it) <=> ~it.end /\ ~it.noopts /\ argv[it.arglist] = DashDash
<1>1. CASE it.end
  BY <1>1 DEF CmdLine!EndsOptions, CmdLine!LongOptAt
<1>2. CASE ~it.end
  <2> DEFINE w == argv[it.arglist]
  <2>1. w \in Words
    BY <1>2 DEF Iterators
  <2> HIDE DEF w
  <2>2. /\ CmdLine!At(it, 0) = IF 1 <= Len(w) THEN w[1] ELSE CmdLine!Nul
        /\ CmdLine!At(it, 1) = IF 2 <= Len(w) THEN w[2] ELSE CmdLine!Nul
        /\ CmdLine!At(it, 2) = IF 3 <= Len(w) THEN w[3] ELSE CmdLine!Nul
    BY DEF CmdLine!At, w
  <2>3. "-" # CmdLine!Nul
    BY DEF CmdLine!Nul
  <2>4. CmdLine!EndsOptions(it) <=>
          ~it.noopts /\ CmdLine!At(it, 0) = "-" /\ CmdLine!At(it, 1) = "-" /\ CmdLine!At(it, 2) = CmdLine!Nul
    BY <1>2 DEF CmdLine!EndsOptions, CmdLine!LongOptAt, CmdLine!TextAt, Iterators
  <2>5. /\ Len(w) \in Nat /\ \A i \in 1..Len(w) : w[i] # CmdLine!Nul
        /\ w = DashDash <=> Len(w) = 2 /\ w[1] = "-" /\ w[2] = "-"
    BY <2>1, WordsAre
  <2>6. CmdLine!At(it, 2) = CmdLine!Nul <=> Len(w) <= 2
    BY <2>2, <2>5
  <2>7. CmdLine!At(it, 0) = "-" /\ CmdLine!At(it, 1) = "-" <=> Len(w) >= 2 /\ w[1] = "-" /\ w[2] = "-"
    BY <2>2, <2>3, <2>5
  <2>8. w = argv[it.arglist]
    BY DEF w
  <2>9. /\ CmdLine!At(it, 0) = "-" /\ CmdLine!At(it, 1) = "-" /\ CmdLine!At(it, 2) = CmdLine!Nul
        <=> argv[it.arglist] = DashDash
    <3>1. Len(w) = 2 <=> Len(w) >= 2 /\ Len(w) <= 2
      <4>1. Len(w) \in Nat
        BY <2>5, Zenon
      <4>2. \A m \in Nat : m = 2 <=> m >= 2 /\ m <= 2
        OBVIOUS
      <4>3. QED
        BY <4>1, <4>2, Zenon
    <3>2. QED
      BY <2>5, <2>6, <2>7, <2>8, <3>1, Zenon
  <2>10. QED
    BY <1>2, <2>4, <2>9, Zenon
<1>3. QED
  BY <1>1, <1>2

\* The next argument that is not empty.
LEMMA ReachesNext ==
  ASSUME argv \in Seq(Words), NEW it \in Iterators, it.arglist \in 0..Len(argv)
  PROVE  LET next == CmdLine!Reach(it)
         IN  /\ next \in Iterators /\ next.curarg = 1 /\ next.opt = it.opt /\ next.noopts = it.noopts
             /\ next.arglist \in (it.arglist + 1)..(Len(argv) + 1)
             /\ next.end <=> next.arglist = Len(argv) + 1
             /\ ~next.end => argv[next.arglist] # <<>>
             /\ \A j \in (it.arglist + 1)..(next.arglist - 1) : argv[j] = <<>>
<1> DEFINE i == it.arglist
           T == {n \in (i + 1)..(Len(argv) + 1) : n <= Len(argv) => argv[n] # <<>>}
<1>1. T \in SUBSET Nat /\ T # {}
  <2>1. Len(argv) + 1 \in T
    OBVIOUS
  <2>2. QED
    BY <2>1
<1>2. PICK n \in T : \A m \in T : n <= m
  BY <1>1, SmallestNat
<1>3. \A j \in (i + 1)..(n - 1) : argv[j] = <<>>
  BY <1>2
<1>4. \E m \in (i + 1)..(Len(argv) + 1) : (m <= Len(argv) => argv[m] # <<>>) /\ \A j \in (i + 1)..(m - 1) : argv[j] = <<>>
  BY <1>2, <1>3
<1> DEFINE a == CmdLine!After(i)
<1>5. /\ a \in (i + 1)..(Len(argv) + 1) /\ (a <= Len(argv) => argv[a] # <<>>)
      /\ \A j \in (i + 1)..(a - 1) : argv[j] = <<>>
  BY <1>4 DEF CmdLine!After
<1> HIDE DEF a
<1>6. CmdLine!Reach(it) = [it EXCEPT !.arglist = a, !.curarg = 1, !.end = a > Len(argv)]
  BY DEF CmdLine!Reach, a
<1> DEFINE next == CmdLine!Reach(it)
           e == a > Len(argv)
<1>7. e \in BOOLEAN /\ (e <=> a = Len(argv) + 1)
  BY <1>5
<1>8. next = [it EXCEPT !.arglist = a, !.curarg = 1, !.end = e]
  BY <1>6
<1> HIDE DEF e
<1>9. /\ next \in Iterators /\ next.arglist = a /\ next.curarg = 1 /\ next.end = e
      /\ next.opt = it.opt /\ next.noopts = it.noopts
  <2>1. a \in Nat /\ e \in BOOLEAN
    BY <1>5, <1>7
  <2>2. \A q \in Iterators, b \in Nat, f \in BOOLEAN :
          [q EXCEPT !.arglist = b, !.curarg = 1, !.end = f] \in Iterators
    BY DEF Iterators
  <2>3. next \in Iterators
    <3>1. it \in Iterators /\ [it EXCEPT !.arglist = a, !.curarg = 1, !.end = e] \in Iterators
      BY <2>1, <2>2
    <3>2. QED
      BY <1>8, <3>1
  <2>4. next.arglist = a /\ next.curarg = 1 /\ next.end = e
    BY <1>8 DEF Iterators
  <2>5. next.opt = it.opt /\ next.noopts = it.noopts
    BY <1>8 DEF Iterators
  <2>6. QED
    BY <2>3, <2>4, <2>5
<1> HIDE DEF next
<1>10. QED
  BY <1>5, <1>7, <1>9 DEF next

\* initNextArg() of an iterator that is not in a group: it stands at a place again.
LEMMA NextArgument ==
  ASSUME argv \in Seq(Words), NEW it \in Iterators, it.arglist \in 0..Len(argv), ~it.end, ~it.opt,
         it.noopts <=> \E k \in 1..it.arglist : argv[k] = DashDash
  PROVE  LET r == CmdLine!NextArg(it)
         IN  /\ r \in Iterators /\ StandsAt(r) /\ ~r.opt /\ r.curarg = 1 /\ r.arglist > it.arglist
             /\ \A k \in (it.arglist + 1)..(r.arglist - 1) : PassesOver(k)
<1> DEFINE next == CmdLine!Reach(it)
           from == it.arglist
<1>1. /\ next \in Iterators /\ next.curarg = 1 /\ ~next.opt /\ next.noopts = it.noopts
      /\ next.arglist \in (from + 1)..(Len(argv) + 1)
      /\ next.end <=> next.arglist = Len(argv) + 1
      /\ ~next.end => argv[next.arglist] # <<>>
      /\ \A j \in (from + 1)..(next.arglist - 1) : argv[j] = <<>>
  BY ReachesNext
<1>2. <<>> # DashDash
  BY DEF DashDash
<1>3. CmdLine!EndsOptions(next) <=> ~next.end /\ ~next.noopts /\ argv[next.arglist] = DashDash
  <2>1. next.arglist \in 1..(Len(argv) + 1)
    BY <1>1
  <2> HIDE DEF next
  <2>2. QED
    BY <1>1, <2>1, EndsOptionsWhen
<1> HIDE DEF next
<1>4. \A k \in 1..(next.arglist - 1) : argv[k] = DashDash => k \in 1..from
  BY <1>1, <1>2
<1>5. CASE ~CmdLine!EndsOptions(next)
  <2>1. CmdLine!NextArg(it) = next
    BY <1>5 DEF CmdLine!NextArg, next
  <2>2. next.noopts <=> \E k \in 1..(next.arglist - 1) : argv[k] = DashDash
    BY <1>1, <1>4
  <2>3. StandsAt(next)
    BY <1>1, <1>3, <1>5, <2>2 DEF StandsAt
  <2>4. QED
    BY <1>1, <2>1, <2>3 DEF PassesOver
<1>6. CASE CmdLine!EndsOptions(next)
  <2> DEFINE sep == next.arglist
             that == [next EXCEPT !.noopts = TRUE]
             r == CmdLine!Reach(that)
  <2>1. sep \in 1..Len(argv) /\ argv[sep] = DashDash /\ ~it.noopts /\ sep > from
    BY <1>1, <1>3, <1>6
  <2>2. that \in Iterators /\ that.arglist = sep /\ that.noopts /\ ~that.opt
    BY <1>1 DEF Iterators
  <2>3. CmdLine!NextArg(it) = r
    BY <1>6 DEF CmdLine!NextArg, next
  <2> HIDE DEF that
  <2>4. /\ r \in Iterators /\ r.curarg = 1 /\ ~r.opt /\ r.noopts
        /\ r.arglist \in (sep + 1)..(Len(argv) + 1)
        /\ r.end <=> r.arglist = Len(argv) + 1
        /\ ~r.end => argv[r.arglist] # <<>>
        /\ \A j \in (sep + 1)..(r.arglist - 1) : argv[j] = <<>>
    BY <2>1, <2>2, ReachesNext
  <2> HIDE DEF r
  <2>5. \E k \in 1..(r.arglist - 1) : argv[k] = DashDash
    BY <2>1, <2>4
  <2>6. StandsAt(r)
    BY <2>1, <2>4, <2>5 DEF StandsAt
  <2>7. CmdLine!Separator(sep)
    BY <1>4, <2>1 DEF CmdLine!Separator, DashDash
  <2>8. \A k \in (from + 1)..(r.arglist - 1) : PassesOver(k)
    BY <1>1, <2>1, <2>4, <2>7 DEF PassesOver
  <2>9. QED
    BY <2>1, <2>3, <2>4, <2>6, <2>8
<1>7. QED
  BY <1>5, <1>6

\* One more was returned: what was covered, and what is a whole argument.
LEMMA OneMoreTaken ==
  ASSUME NEW S, taken \in Seq(S), NEW t \in S, taken' = Append(taken, t)
  PROVE  /\ taken' \in Seq(S)
         /\ \A n \in DOMAIN taken' : (n \in DOMAIN taken /\ taken'[n] = taken[n]) \/ (n = Len(taken) + 1 /\ taken'[n] = t)
         /\ \A n \in DOMAIN taken : n \in DOMAIN taken' /\ n < Len(taken) + 1 /\ n \in Nat
         /\ \A k, j : InCover(k, j)' <=> InCover(k, j) \/ (k = t[1] /\ j \in t[2]..t[3])
         /\ \A k : IsWhole(k)' <=> IsWhole(k) \/ (k = t[1] /\ t[2] = 1)
<1>1. /\ taken' \in Seq(S) /\ DOMAIN taken' = 1..(Len(taken) + 1) /\ DOMAIN taken = 1..Len(taken) /\ Len(taken) \in Nat
      /\ \A n \in 1..Len(taken) : taken'[n] = taken[n]
      /\ taken'[Len(taken) + 1] = t
  OBVIOUS
<1>2. \A n \in DOMAIN taken' : (n \in DOMAIN taken /\ taken'[n] = taken[n]) \/ (n = Len(taken) + 1 /\ taken'[n] = t)
  BY <1>1
<1>3. \A n \in DOMAIN taken : n \in DOMAIN taken' /\ n < Len(taken) + 1 /\ n \in Nat /\ taken'[n] = taken[n]
  BY <1>1
<1>4. Len(taken) + 1 \in DOMAIN taken'
  BY <1>1
<1>5. \A k, j : InCover(k, j)' <=> InCover(k, j) \/ (k = t[1] /\ j \in t[2]..t[3])
  BY <1>1, <1>2, <1>3, <1>4, Zenon DEF InCover
<1>6. \A k : IsWhole(k)' <=> IsWhole(k) \/ (k = t[1] /\ t[2] = 1)
  BY <1>1, <1>2, <1>3, <1>4, Zenon DEF IsWhole
<1>7. QED
  BY <1>1, <1>2, <1>3, <1>5, <1>6

\* Where the iterator begins to return the rest of an argument: a text or a value
\* at its first character, a long option behind its dashes, a group where it is.
StandsFirst(first) ==
  \/ ~opt /\ first = 1
  \/ ~opt /\ first = 3 /\ Len(argv[arglist]) >= 2 /\ argv[arglist][1] = "-" /\ argv[arglist][2] = "-"
  \/ ~opt /\ first = 2 /\ IsGroup(arglist)
  \/ opt /\ first = curarg

\* The rest of an argument is returned, and the iterator goes to the next.
LEMMA ArgumentDone ==
  ASSUME CmdInv, ~end, argv' = argv, NEW first \in Nat, StandsFirst(first), NEW r,
         taken' = Append(taken, <<arglist, first, Len(argv[arglist])>>),
         r \in Iterators, StandsAt(r), ~r.opt, r.curarg = 1, r.arglist > arglist,
         \A k \in (arglist + 1)..(r.arglist - 1) : PassesOver(k),
         CmdLine!Set(r)
  PROVE  CmdInv'
<1> DEFINE w == argv[arglist]
           t == <<arglist, first, Len(w)>>
           S == (1..Len(argv)) \X Nat \X Nat
<1>1. /\ arglist \in 1..Len(argv) /\ curarg \in Nat /\ opt \in BOOLEAN /\ noopts \in BOOLEAN /\ Len(argv) \in Nat
      /\ argv \in Seq(Words) /\ taken \in Seq(S)
  BY DEF CmdInv, CmdTypes, CmdPlace, StandsAt, CmdLine!It, Iterators
<1>2. w \in Words /\ Len(w) \in Nat /\ DOMAIN w = 1..Len(w)
  BY <1>1, LibraryAssumption
<1>3. t \in S
  BY <1>1, <1>2
<1>4. taken' = Append(taken, t)
  OBVIOUS
<1>5. /\ taken' \in Seq(S)
      /\ \A n \in DOMAIN taken' : (n \in DOMAIN taken /\ taken'[n] = taken[n]) \/ (n = Len(taken) + 1 /\ taken'[n] = t)
      /\ \A n \in DOMAIN taken : n \in DOMAIN taken' /\ n < Len(taken) + 1 /\ n \in Nat
      /\ \A k, j : InCover(k, j)' <=> InCover(k, j) \/ (k = t[1] /\ j \in t[2]..t[3])
      /\ \A k : IsWhole(k)' <=> IsWhole(k) \/ (k = t[1] /\ t[2] = 1)
  <2> HIDE DEF S, t
  <2>1. QED
    BY <1>1, <1>3, <1>4, OneMoreTaken
<1>6. t[1] = arglist /\ t[2] = first /\ t[3] = Len(w)
  OBVIOUS
<1>7. /\ arglist' = r.arglist /\ curarg' = 1 /\ end' = r.end /\ opt' = FALSE /\ noopts' = r.noopts
      /\ r.arglist \in Nat /\ r.end \in BOOLEAN /\ r.noopts \in BOOLEAN /\ r.arglist > arglist
      /\ r.arglist \in 1..(Len(argv) + 1)
  BY <1>1 DEF CmdLine!Set, Iterators, StandsAt
<1>8. CmdTypes'
  BY <1>1, <1>5, <1>7 DEF CmdTypes, CmdLine!It, Iterators
<1>9. CmdPlace'
  <2>1. StandsAt(CmdLine!It)'
    BY <1>1, <1>7 DEF StandsAt, CmdLine!It
  <2>2. QED
    BY <1>7, <2>1 DEF CmdPlace
<1> HIDE DEF t, S
<1>10. CmdOrder'
  <2>1. \A n \in DOMAIN taken : taken[n] \in S
    BY <1>1
  <2>2. \A n \in DOMAIN taken : taken[n][1] \in Nat /\ taken[n][2] \in Nat /\ taken[n][3] \in Nat
    BY <2>1 DEF S
  <2>3. \A n \in DOMAIN taken :
          taken[n][1] < arglist \/ (taken[n][1] = arglist /\ opt /\ taken[n][2] >= 2 /\ taken[n][3] < curarg)
    BY DEF CmdInv, CmdOrder
  <2>4. \A n \in DOMAIN taken : taken[n][1] < t[1] \/ (taken[n][1] = t[1] /\ taken[n][3] < t[2])
    BY <1>6, <2>3 DEF StandsFirst
  <2>5. \A n \in DOMAIN taken' : taken'[n][1] < arglist'
    <3>1. ASSUME NEW n \in DOMAIN taken'
          PROVE  taken'[n][1] \in Nat /\ taken'[n][1] <= arglist
      <4>1. CASE n \in DOMAIN taken /\ taken'[n] = taken[n]
        <5>1. taken[n][1] \in Nat /\ (taken[n][1] < arglist \/ taken[n][1] = arglist)
          BY <2>2, <2>3, <4>1
        <5>2. QED
          BY <1>1, <4>1, <5>1
      <4>2. CASE taken'[n] = t
        BY <1>1, <1>6, <4>2
      <4>3. QED
        BY <1>5, <4>1, <4>2
    <3>2. QED
      BY <1>1, <1>7, <3>1
  <2>6. ASSUME NEW m \in DOMAIN taken', NEW n \in DOMAIN taken', m < n
        PROVE  taken'[m][1] < taken'[n][1] \/ (taken'[m][1] = taken'[n][1] /\ taken'[m][3] < taken'[n][2])
    <3>1. CASE n \in DOMAIN taken /\ taken'[n] = taken[n]
      <4>1. m \in DOMAIN taken /\ taken'[m] = taken[m]
        BY <1>1, <1>5, <2>6, <3>1
      <4>2. QED
        BY <2>6, <3>1, <4>1 DEF CmdInv, CmdOrder
    <3>2. CASE n = Len(taken) + 1 /\ taken'[n] = t
      <4>1. m \in DOMAIN taken /\ taken'[m] = taken[m]
        BY <1>1, <1>5, <2>6, <3>2
      <4>2. QED
        BY <2>4, <3>2, <4>1
    <3>3. QED
      BY <1>5, <3>1, <3>2
  <2>7. QED
    BY <2>5, <2>6 DEF CmdOrder
<1>11. CmdCover'
  <2>1. \A k \in 1..Len(argv), j \in Nat :
          InCover(k, j) <=>
            \/ k < arglist /\ ~CmdLine!Separator(k) /\ j \in DOMAIN argv[k] /\ ~IsDash(k, j)
            \/ k = arglist /\ opt /\ j \in 2..(curarg - 1)
    BY DEF CmdInv, CmdCover
  <2>2. \A k : CmdLine!Separator(k)' <=> CmdLine!Separator(k)
    BY DEF CmdLine!Separator
  <2>3. ~IsWhole(arglist)
    BY <1>1 DEF CmdInv, CmdOrder, IsWhole
  <2>4. \A k \in 1..Len(argv) : k # arglist => \A j \in Nat : IsDash(k, j)' <=> IsDash(k, j)
    BY <1>1, <1>5, <1>6 DEF IsDash
  <2>5. ~CmdLine!Separator(arglist)
    <3>1. ~noopts => w # DashDash
      BY <1>1 DEF CmdInv, CmdPlace, StandsAt, CmdLine!It
    <3>2. noopts => \E k \in 1..(arglist - 1) : argv[k] = DashDash
      BY <1>1 DEF CmdInv, CmdPlace, StandsAt, CmdLine!It
    <3>3. QED
      BY <3>1, <3>2 DEF CmdLine!Separator, DashDash
  <2>5a. PICK here : here = arglist
    OBVIOUS
  <2>6. ASSUME NEW j \in Nat
        PROVE  InCover(here, j)' <=> j \in DOMAIN w /\ ~IsDash(here, j)'
    <3>1. InCover(here, j)' <=> (opt /\ j \in 2..(curarg - 1)) \/ j \in first..Len(w)
      <4>1. InCover(here, j)' <=> InCover(here, j) \/ j \in first..Len(w)
        BY <1>5, <1>6, <2>5a, Zenon
      <4>2. InCover(here, j) <=> opt /\ j \in 2..(curarg - 1)
        BY <1>1, <2>1, <2>5a
      <4>3. QED
        BY <4>1, <4>2
    <3>2. IsDash(here, j)' <=> first # 1 /\ j <= 2 /\ \A i \in 1..j : w[i] = "-"
      <4>1. IsWhole(here)' <=> first = 1
        BY <1>5, <1>6, <2>3, <2>5a, Zenon
      <4>2. QED
        BY <4>1, <2>5a DEF IsDash
    <3>3. CASE ~opt /\ first = 1
      BY <1>2, <3>1, <3>2, <3>3
    <3>4. CASE ~opt /\ first = 3 /\ Len(w) >= 2 /\ w[1] = "-" /\ w[2] = "-"
      <4>1. \A i \in 1..2 : w[i] = "-"
        BY <3>4
      <4>2. \A i \in 1..j : j <= 2 => w[i] = "-"
        BY <4>1
      <4>3. QED
        BY <1>2, <3>1, <3>2, <3>4, <4>2
    <3>5. CASE (~opt /\ first = 2 /\ IsGroup(arglist)) \/ (opt /\ first = curarg)
      <4>1. IsGroup(arglist) /\ first >= 2 /\ (opt => first = curarg) /\ (opt /\ curarg # 2 => curarg <= Len(w)) /\ (~opt => first = 2)
        BY <3>5 DEF CmdInv, CmdPlace
      <4>2. Len(w) >= 1 /\ w[1] = "-" /\ (Len(w) >= 2 => w[2] # "-")
        <5>1. w # <<>> /\ w[1] = "-" /\ (Len(w) >= 2 => w[2] # "-")
          BY <4>1 DEF IsGroup
        <5>2. w \in Seq(STRING)
          BY <1>2, LibraryAssumption
        <5>3. QED
          BY <1>2, <5>1, <5>2
      <4>3. InCover(here, j)' <=> j \in 2..Len(w)
        BY <1>1, <1>2, <3>1, <4>1
      <4>4. j \in 1..Len(w) => (IsDash(here, j)' <=> j = 1)
        <5>1. CASE j = 1
          BY <3>2, <4>1, <4>2, <5>1
        <5>2. CASE j = 2 /\ Len(w) >= 2
          <6>1. 2 \in 1..j /\ w[2] # "-"
            BY <4>2, <5>2
          <6>2. QED
            BY <3>2, <5>2, <6>1
        <5>3. CASE j > 2
          BY <3>2, <5>3
        <5>4. QED
          BY <1>2, <5>1, <5>2, <5>3
      <4>5. QED
        BY <1>2, <4>2, <4>3, <4>4
    <3>6. QED
      BY <3>3, <3>4, <3>5 DEF StandsFirst
  <2>7. ASSUME NEW k \in 1..Len(argv), NEW j \in Nat
        PROVE  InCover(k, j)' <=> k < r.arglist /\ ~CmdLine!Separator(k) /\ j \in DOMAIN argv[k] /\ ~IsDash(k, j)'
    <3>1. CASE k < arglist
      <4>1. k # arglist /\ k < r.arglist
        BY <1>1, <1>7, <3>1
      <4>2. InCover(k, j)' <=> InCover(k, j)
        BY <1>5, <1>6, <4>1, Zenon
      <4>3. InCover(k, j) <=> ~CmdLine!Separator(k) /\ j \in DOMAIN argv[k] /\ ~IsDash(k, j)
        BY <2>1, <3>1, <4>1
      <4>4. IsDash(k, j)' <=> IsDash(k, j)
        BY <2>4, <4>1
      <4>5. QED
        BY <4>1, <4>2, <4>3, <4>4
    <3>2. CASE k = arglist
      <4>1. InCover(k, j)' <=> j \in DOMAIN argv[k] /\ ~IsDash(k, j)'
        BY <2>5a, <2>6, <3>2
      <4>2. k < r.arglist /\ ~CmdLine!Separator(k)
        BY <1>7, <2>5, <3>2
      <4>3. QED
        BY <4>1, <4>2
    <3>3. CASE k > arglist
      <4>1. ~InCover(k, j)'
        <5>1. k # arglist /\ ~(k < arglist)
          BY <1>1, <3>3
        <5>2. InCover(k, j)' <=> InCover(k, j)
          BY <1>5, <1>6, <5>1, Zenon
        <5>3. QED
          BY <2>1, <5>1, <5>2
      <4>2. k < r.arglist => CmdLine!Separator(k) \/ argv[k] = <<>>
        <5>1. k < r.arglist => k \in (arglist + 1)..(r.arglist - 1)
          BY <1>1, <1>7, <3>3
        <5>2. QED
          BY <5>1 DEF PassesOver
      <4>3. QED
        BY <4>1, <4>2
    <3>4. QED
      BY <1>1, <3>1, <3>2, <3>3
  <2>8. QED
    BY <1>7, <2>2, <2>7 DEF CmdCover
<1>12. QED
  BY <1>8, <1>9, <1>10, <1>11 DEF CmdInv

\* A '-' behind a letter of a group is taken for a long option: the code asks only
\* for the character after the current one.  No argument has one.
NoInnerDash ==
  \A w \in Words : (Len(w) >= 2 /\ w[1] = "-" /\ w[2] # "-") =>
    \A i \in 4..Len(w) : w[i] = "-" => ~CmdLine!isalnum(w[i - 1])

\* What the iterator sees of the argument it stands at.
LEMMA StandingAt ==
  ASSUME CmdInv, ~end
  PROVE  LET w == argv[arglist]
         IN  /\ arglist \in 1..Len(argv) /\ curarg \in Nat /\ opt \in BOOLEAN /\ noopts \in BOOLEAN /\ Len(argv) \in Nat
             /\ argv \in Seq(Words) /\ w \in Words /\ w # <<>> /\ Len(w) \in Nat /\ Len(w) >= 1
             /\ \A i \in 1..Len(w) : w[i] # CmdLine!Nul
             /\ \A it, n : it.arglist = arglist => CmdLine!At(it, n) = IF it.curarg + n <= Len(w) THEN w[it.curarg + n] ELSE CmdLine!Nul
             /\ noopts <=> \E k \in 1..arglist : argv[k] = DashDash
<1> DEFINE w == argv[arglist]
<1>1. /\ arglist \in 1..Len(argv) /\ curarg \in Nat /\ opt \in BOOLEAN /\ noopts \in BOOLEAN /\ Len(argv) \in Nat
      /\ argv \in Seq(Words)
  BY DEF CmdInv, CmdTypes, CmdPlace, StandsAt, CmdLine!It, Iterators
<1>2. w \in Words
  BY <1>1
<1>3. w \in Seq(STRING) /\ Len(w) \in Nat /\ \A i \in 1..Len(w) : w[i] # CmdLine!Nul
  BY <1>2, WordsAre
<1>4. w # <<>>
  BY DEF CmdInv, CmdPlace, StandsAt, CmdLine!It
<1>5. Len(w) >= 1
  BY <1>3, <1>4
<1>6. \A it, n : it.arglist = arglist => CmdLine!At(it, n) = IF it.curarg + n <= Len(w) THEN w[it.curarg + n] ELSE CmdLine!Nul
  BY DEF CmdLine!At
<1>7. noopts <=> \E k \in 1..arglist : argv[k] = DashDash
  <2>1. (noopts <=> \E k \in 1..(arglist - 1) : argv[k] = DashDash) /\ (~noopts => argv[arglist] # DashDash)
    BY DEF CmdInv, CmdPlace, StandsAt, CmdLine!It
  <2>2. QED
    BY <1>1, <2>1
<1>8. QED
  BY <1>1, <1>2, <1>3, <1>4, <1>5, <1>6, <1>7

\* initNextArg() at the end of an argument goes to the next one.
LEMMA ArgumentLeft ==
  ASSUME CmdInv, ~end, argv' = argv, NEW first \in Nat, StandsFirst(first),
         taken' = Append(taken, <<arglist, first, Len(argv[arglist])>>),
         NEW it \in Iterators, it.arglist = arglist, ~it.end, ~it.opt, it.noopts = noopts,
         CmdLine!Set(CmdLine!NextArg(it))
  PROVE  CmdInv'
<1> DEFINE r == CmdLine!NextArg(it)
<1>1. arglist \in 1..Len(argv) /\ argv \in Seq(Words) /\ (noopts <=> \E k \in 1..arglist : argv[k] = DashDash)
  BY StandingAt
<1>2. it.arglist \in 0..Len(argv)
  BY <1>1
<1>3. it.noopts <=> \E k \in 1..it.arglist : argv[k] = DashDash
  BY <1>1
<1>4. /\ r \in Iterators /\ StandsAt(r) /\ ~r.opt /\ r.curarg = 1 /\ r.arglist > it.arglist
      /\ \A k \in (it.arglist + 1)..(r.arglist - 1) : PassesOver(k)
  BY <1>1, <1>2, <1>3, NextArgument
<1> HIDE DEF r
<1>5. CmdLine!Set(r)
  BY DEF r
<1>6. QED
  BY <1>4, <1>5, ArgumentDone

\* A text, or what is left of an option's argument as its value, is returned.
LEMMA TextNext ==
  ASSUME CmdInv, CmdLine!getNext
  PROVE  CmdInv'
<1> DEFINE it == [CmdLine!It EXCEPT !.opt = FALSE]
<1>1. ~end /\ argv' = argv /\ taken' = Append(taken, <<arglist, curarg, Len(argv[arglist])>>) /\ CmdLine!Set(CmdLine!initNextArg(it))
  BY DEF CmdLine!getNext, CmdLine!Take
<1>2. it \in Iterators /\ it.arglist = arglist /\ ~it.end /\ ~it.opt /\ it.noopts = noopts
  BY <1>1 DEF CmdInv, CmdTypes, CmdLine!It, Iterators
<1> HIDE DEF it
<1>3. CmdLine!initNextArg(it) = CmdLine!NextArg(it)
  BY <1>2 DEF CmdLine!initNextArg
<1>4. CmdLine!Set(CmdLine!NextArg(it))
  BY <1>1, <1>3
<1>5. curarg \in Nat /\ StandsFirst(curarg)
  BY DEF CmdInv, CmdTypes, CmdPlace, CmdLine!It, Iterators, StandsFirst
<1>6. QED
  BY <1>1, <1>2, <1>4, <1>5, ArgumentLeft

\* A long option is returned.
LEMMA LongOptionNext ==
  ASSUME NoInnerDash, CmdInv, CmdLine!getLongOpt
  PROVE  CmdInv'
<1> DEFINE it == CmdLine!It
           w == argv[arglist]
<1>1. /\ CmdLine!LongOptAt(it) /\ ~CmdLine!Unreadable /\ argv' = argv
      /\ taken' = Append(taken, <<arglist, curarg + 2, Len(argv[arglist])>>) /\ CmdLine!Set(CmdLine!initNextArg(it))
  BY DEF CmdLine!getLongOpt, CmdLine!Take, CmdLine!isLongOpt
<1>2. it \in Iterators /\ it.arglist = arglist /\ it.curarg = curarg /\ it.end = end /\ it.opt = opt /\ it.noopts = noopts
  BY DEF CmdInv, CmdTypes, CmdLine!It
<1> HIDE DEF it
<1>3. ~end /\ ~CmdLine!TextAt(it) /\ CmdLine!At(it, 1) = "-"
  BY <1>1, <1>2 DEF CmdLine!LongOptAt
<1>4. /\ arglist \in 1..Len(argv) /\ curarg \in Nat /\ opt \in BOOLEAN /\ noopts \in BOOLEAN
      /\ w \in Words /\ Len(w) \in Nat /\ \A i \in 1..Len(w) : w[i] # CmdLine!Nul
      /\ \A n : CmdLine!At(it, n) = IF curarg + n <= Len(w) THEN w[curarg + n] ELSE CmdLine!Nul
  BY <1>2, <1>3, StandingAt
<1>5. "-" # CmdLine!Nul /\ ~CmdLine!isalnum(CmdLine!Nul)
  BY DEF CmdLine!Nul, CmdLine!isalnum
<1>6. ~opt
  <2> SUFFICES ASSUME opt PROVE FALSE
    OBVIOUS
  <2>1. IsGroup(arglist) /\ curarg >= 2 /\ (curarg = 2 => CmdLine!Unreadable) /\ w # <<>>
    BY <1>3 DEF CmdInv, CmdPlace, StandsAt, CmdLine!It
  <2>2. CmdLine!isalnum(CmdLine!At(it, 0)) /\ curarg # 2
    BY <1>1, <2>1 DEF CmdLine!Unreadable, it
  <2>3. curarg + 1 <= Len(w) /\ w[curarg + 1] = "-" /\ w[curarg] = CmdLine!At(it, 0)
    BY <1>3, <1>4, <1>5
  <2>4. Len(w) >= 2 /\ w[1] = "-" /\ w[2] # "-"
    BY <1>4, <2>1, <2>2, <2>3 DEF IsGroup
  <2>5. curarg + 1 \in 4..Len(w) /\ (curarg + 1) - 1 = curarg
    BY <1>4, <2>1, <2>2, <2>3
  <2>6. ~CmdLine!isalnum(w[(curarg + 1) - 1])
    BY <1>4, <2>3, <2>4, <2>5 DEF NoInnerDash
  <2>7. QED
    BY <2>2, <2>3, <2>5, <2>6
<1>7. curarg = 1
  BY <1>6 DEF CmdInv, CmdPlace
<1>8. CmdLine!At(it, 0) = "-"
  BY <1>2, <1>3, <1>6 DEF CmdLine!TextAt
<1>9. Len(w) >= 2 /\ w[1] = "-" /\ w[2] = "-"
  BY <1>3, <1>4, <1>5, <1>7, <1>8
<1>10. CmdLine!initNextArg(it) = CmdLine!NextArg(it)
  BY <1>2, <1>6 DEF CmdLine!initNextArg
<1>11. CmdLine!Set(CmdLine!NextArg(it))
  BY <1>1, <1>10
<1>12. curarg + 2 \in Nat /\ StandsFirst(curarg + 2)
  BY <1>6, <1>7, <1>9 DEF StandsFirst
<1>13. ~it.end /\ ~it.opt
  BY <1>2, <1>3, <1>6
<1>14. QED
  BY <1>1, <1>2, <1>3, <1>11, <1>12, <1>13, ArgumentLeft

\* A letter of a group is returned.
LEMMA LetterNext ==
  ASSUME CmdInv, CmdLine!getOpt
  PROVE  CmdInv'
<1> DEFINE w == argv[arglist]
           it == IF opt THEN CmdLine!It ELSE [CmdLine!It EXCEPT !.opt = TRUE, !.curarg = @ + 1]
           c == it.curarg
           S == (1..Len(argv)) \X Nat \X Nat
<1>1. argv' = argv /\ CmdLine!isOpt /\ ~CmdLine!Unreadable
  BY DEF CmdLine!getOpt
<1>2. ~end
  BY <1>1 DEF CmdLine!isOpt, CmdInv, CmdPlace
<1>3. /\ arglist \in 1..Len(argv) /\ curarg \in Nat /\ opt \in BOOLEAN /\ noopts \in BOOLEAN
      /\ w \in Words /\ w # <<>> /\ Len(w) \in Nat /\ Len(w) >= 1 /\ \A i \in 1..Len(w) : w[i] # CmdLine!Nul
  BY <1>2, StandingAt
<1>4. \A i, n : i.arglist = arglist => CmdLine!At(i, n) = IF i.curarg + n <= Len(w) THEN w[i.curarg + n] ELSE CmdLine!Nul
  BY <1>2, StandingAt
<1>5. "-" # CmdLine!Nul /\ ~CmdLine!isalnum(CmdLine!Nul)
  BY DEF CmdLine!Nul, CmdLine!isalnum
<1>6. /\ CmdLine!It \in Iterators /\ CmdLine!It.arglist = arglist /\ CmdLine!It.curarg = curarg
      /\ CmdLine!It.end = end /\ CmdLine!It.opt = opt /\ CmdLine!It.noopts = noopts
  BY DEF CmdInv, CmdTypes, CmdLine!It
<1>7. /\ it \in Iterators /\ it.arglist = arglist /\ it.end = end /\ it.opt /\ it.noopts = noopts
      /\ opt => c = curarg
      /\ ~opt => c = curarg + 1
  <2>1. CASE opt
    BY <1>6, <2>1
  <2>2. CASE ~opt
    <3>1. ASSUME NEW q \in Iterators
          PROVE  LET u == [q EXCEPT !.opt = TRUE, !.curarg = @ + 1]
                 IN  /\ u \in Iterators /\ u.arglist = q.arglist /\ u.end = q.end /\ u.opt = TRUE /\ u.noopts = q.noopts
                     /\ u.curarg = q.curarg + 1
      <4> DEFINE u == [q EXCEPT !.opt = TRUE, !.curarg = @ + 1]
      <4>1. q.curarg + 1 \in Nat
        BY DEF Iterators
      <4>2. u \in Iterators
        BY <4>1 DEF Iterators
      <4>3. u.arglist = q.arglist /\ u.end = q.end /\ u.noopts = q.noopts
        BY DEF Iterators
      <4>4. u.opt = TRUE
        BY DEF Iterators
      <4>5. u.curarg = q.curarg + 1
        BY DEF Iterators
      <4>6. QED
        BY <4>2, <4>3, <4>4, <4>5
    <3>2. it = [CmdLine!It EXCEPT !.opt = TRUE, !.curarg = @ + 1]
      BY <2>2
    <3> HIDE DEF it
    <3>3. QED
      BY <1>6, <2>2, <3>1, <3>2
  <2>3. QED
    BY <2>1, <2>2
<1>7a. CmdLine!isalnum(CmdLine!At(it, 0)) => c <= Len(w) /\ w[c] = CmdLine!At(it, 0)
  <2>1. c \in Nat
    BY <1>7 DEF Iterators
  <2>2. CmdLine!At(it, 0) = IF c + 0 <= Len(w) THEN w[c + 0] ELSE CmdLine!Nul
    BY <1>4, <1>7
  <2> HIDE DEF c
  <2>3. QED
    BY <1>5, <2>1, <2>2
<1>7b. opt => CmdLine!isalnum(CmdLine!At(it, 0))
  BY <1>1 DEF CmdLine!Unreadable
<1>8. ~opt => c = 2
  BY <1>3, <1>7 DEF CmdInv, CmdPlace
<1>9. opt => c >= 3 /\ c <= Len(w)
  <2> SUFFICES ASSUME opt PROVE c >= 3 /\ c <= Len(w)
    OBVIOUS
  <2>1. curarg # 2 /\ curarg >= 2
    BY <1>1 DEF CmdInv, CmdPlace
  <2>2. QED
    BY <1>3, <1>7, <1>7a, <1>7b, <2>1
<1>10. IsGroup(arglist) /\ ~noopts
  <2>1. CASE opt
    BY <2>1 DEF CmdInv, CmdPlace
  <2>2. CASE ~opt
    <3>1. ~CmdLine!TextAt(CmdLine!It) /\ CmdLine!At(CmdLine!It, 1) # "-" /\ curarg = 1
      BY <1>1, <2>2 DEF CmdLine!isOpt, CmdLine!isText, CmdInv, CmdPlace
    <3>2. CmdLine!At(CmdLine!It, 0) = "-" /\ ~noopts
      BY <1>2, <1>6, <2>2, <3>1 DEF CmdLine!TextAt
    <3>3. /\ CmdLine!At(CmdLine!It, 0) = w[1]
          /\ Len(w) >= 2 => CmdLine!At(CmdLine!It, 1) = w[2]
      BY <1>3, <1>4, <1>6, <3>1
    <3>4. QED
      BY <1>3, <3>1, <3>2, <3>3 DEF IsGroup
  <2>3. QED
    BY <2>1, <2>2
<1>11. c \in Nat /\ c >= 2 /\ StandsFirst(c)
  BY <1>3, <1>7, <1>8, <1>9, <1>10 DEF StandsFirst, Iterators
<1>12. CASE CmdLine!isalnum(CmdLine!At(it, 0))
  <2>1. taken' = Append(taken, <<arglist, c, c>>) /\ CmdLine!Set(CmdLine!initNextArg(it))
    BY <1>12 DEF CmdLine!getOpt, CmdLine!Take
  <2> HIDE DEF it
  <2>2. c <= Len(w)
    BY <1>7a, <1>12
  <2>3. CmdLine!At(it, 1) = IF c + 1 <= Len(w) THEN w[c + 1] ELSE CmdLine!Nul
    BY <1>4, <1>7
  <2>4. CASE CmdLine!At(it, 1) = CmdLine!Nul
    <3> DEFINE next == [it EXCEPT !.opt = FALSE]
    <3>1. c = Len(w)
      BY <1>3, <1>11, <2>2, <2>3, <2>4
    <3>2. CmdLine!Set(CmdLine!NextArg(next))
      BY <1>7, <2>1, <2>4 DEF CmdLine!initNextArg
    <3>3. next \in Iterators /\ next.arglist = arglist /\ ~next.end /\ ~next.opt /\ next.noopts = noopts
      BY <1>2, <1>7 DEF Iterators
    <3> HIDE DEF next
    <3>4. taken' = Append(taken, <<arglist, c, Len(argv[arglist])>>)
      BY <2>1, <3>1
    <3> HIDE DEF c
    <3>5. QED
      BY <1>1, <1>2, <1>11, <3>2, <3>3, <3>4, ArgumentLeft
  <2>5. CASE CmdLine!At(it, 1) # CmdLine!Nul
    <3>1. c + 1 <= Len(w)
      BY <2>3, <2>5
    <3>2. CmdLine!initNextArg(it) = [it EXCEPT !.curarg = @ + 1]
      BY <1>7, <2>5 DEF CmdLine!initNextArg
    <3>3. arglist' = arglist /\ curarg' = c + 1 /\ end' = end /\ opt' = TRUE /\ noopts' = noopts
      BY <1>7, <2>1, <3>2 DEF CmdLine!Set, Iterators
    <3> DEFINE t == <<arglist, c, c>>
    <3> HIDE DEF c
    <3>4. t \in S /\ taken \in Seq(S) /\ taken' = Append(taken, t) /\ t[1] = arglist /\ t[2] = c /\ t[3] = c
      BY <1>3, <1>11, <2>1 DEF CmdInv, CmdTypes
    <3> HIDE DEF t, S
    <3>5. /\ taken' \in Seq(S)
          /\ \A n \in DOMAIN taken' : (n \in DOMAIN taken /\ taken'[n] = taken[n]) \/ (n = Len(taken) + 1 /\ taken'[n] = t)
          /\ \A n \in DOMAIN taken : n \in DOMAIN taken' /\ n < Len(taken) + 1 /\ n \in Nat
          /\ \A k, j : InCover(k, j)' <=> InCover(k, j) \/ (k = t[1] /\ j \in t[2]..t[3])
          /\ \A k : IsWhole(k)' <=> IsWhole(k) \/ (k = t[1] /\ t[2] = 1)
      BY <3>4, OneMoreTaken
    <3>6. CmdTypes'
      BY <1>1, <1>2, <1>3, <1>11, <3>3, <3>5 DEF CmdInv, CmdTypes, CmdLine!It, Iterators, S
    <3>7. CmdPlace'
      <4>1. StandsAt(CmdLine!It)'
        BY <1>1, <3>3 DEF CmdInv, CmdPlace, StandsAt, CmdLine!It
      <4>2. IsGroup(arglist)'
        BY <1>1, <1>10, <3>3 DEF IsGroup
      <4>3. QED
        BY <1>1, <1>2, <1>10, <1>11, <3>1, <3>3, <4>1, <4>2 DEF CmdPlace
    <3>8. CmdOrder'
      <4>1. \A n \in DOMAIN taken : taken[n] \in S
        BY <3>4
      <4>2. \A n \in DOMAIN taken : taken[n][1] \in Nat /\ taken[n][2] \in Nat /\ taken[n][3] \in Nat
        BY <4>1 DEF S
      <4>3. \A n \in DOMAIN taken :
              taken[n][1] < arglist \/ (taken[n][1] = arglist /\ opt /\ taken[n][2] >= 2 /\ taken[n][3] < curarg)
        BY DEF CmdInv, CmdOrder
      <4>4. ASSUME NEW n \in DOMAIN taken
            PROVE  taken[n][1] < t[1] \/ (taken[n][1] = t[1] /\ taken[n][2] >= 2 /\ taken[n][3] < t[2])
        BY <1>3, <1>7, <3>4, <4>2, <4>3 DEF c
      <4>5. ASSUME NEW n \in DOMAIN taken'
            PROVE  taken'[n][1] < arglist' \/ (taken'[n][1] = arglist' /\ opt' /\ taken'[n][2] >= 2 /\ taken'[n][3] < curarg')
        <5>1. CASE n \in DOMAIN taken /\ taken'[n] = taken[n]
          BY <1>11, <3>3, <3>4, <4>2, <4>4, <5>1
        <5>2. CASE taken'[n] = t
          BY <1>11, <3>3, <3>4, <5>2
        <5>3. QED
          BY <3>5, <5>1, <5>2
      <4>6. ASSUME NEW m \in DOMAIN taken', NEW n \in DOMAIN taken', m < n
            PROVE  taken'[m][1] < taken'[n][1] \/ (taken'[m][1] = taken'[n][1] /\ taken'[m][3] < taken'[n][2])
        <5>1. CASE n \in DOMAIN taken /\ taken'[n] = taken[n]
          <6>1. m \in DOMAIN taken /\ taken'[m] = taken[m]
            BY <3>4, <3>5, <4>6, <5>1
          <6>2. QED
            BY <4>6, <5>1, <6>1 DEF CmdInv, CmdOrder
        <5>2. CASE n = Len(taken) + 1 /\ taken'[n] = t
          <6>1. m \in DOMAIN taken /\ taken'[m] = taken[m]
            BY <3>4, <3>5, <4>6, <5>2
          <6>2. QED
            BY <4>4, <5>2, <6>1
        <5>3. QED
          BY <3>5, <5>1, <5>2
      <4>7. QED
        BY <4>5, <4>6 DEF CmdOrder
    <3>9. CmdCover'
      <4>1. \A k \in 1..Len(argv), j \in Nat :
              InCover(k, j) <=>
                \/ k < arglist /\ ~CmdLine!Separator(k) /\ j \in DOMAIN argv[k] /\ ~IsDash(k, j)
                \/ k = arglist /\ opt /\ j \in 2..(curarg - 1)
        BY DEF CmdInv, CmdCover
      <4>2. \A k : CmdLine!Separator(k)' <=> CmdLine!Separator(k)
        BY <1>1 DEF CmdLine!Separator
      <4>3. \A k, j : IsDash(k, j)' <=> IsDash(k, j)
        BY <1>1, <1>11, <3>4, <3>5 DEF IsDash
      <4>4. ASSUME NEW k \in 1..Len(argv), NEW j \in Nat
            PROVE  InCover(k, j)' <=>
                     \/ k < arglist /\ ~CmdLine!Separator(k) /\ j \in DOMAIN argv[k] /\ ~IsDash(k, j)
                     \/ k = arglist /\ j \in 2..c
        <5>1. InCover(k, j)' <=> InCover(k, j) \/ (k = arglist /\ j \in c..c)
          BY <3>4, <3>5, Zenon
        <5>2. (opt /\ j \in 2..(curarg - 1)) \/ j \in c..c <=> j \in 2..c
          BY <1>3, <1>7, <1>8, <1>11 DEF c
        <5>3. QED
          BY <1>3, <4>1, <5>1, <5>2
      <4>5. (c + 1) - 1 = c
        BY <1>11
      <4>6. QED
        BY <1>1, <3>3, <4>2, <4>3, <4>4, <4>5 DEF CmdCover
    <3>10. QED
      BY <3>6, <3>7, <3>8, <3>9 DEF CmdInv
  <2>6. QED
    BY <2>4, <2>5
<1>13. CASE ~CmdLine!isalnum(CmdLine!At(it, 0))
  <2>1. ~opt /\ taken' = taken /\ CmdLine!Set(it)
    BY <1>7b, <1>13 DEF CmdLine!getOpt
  <2>2. arglist' = arglist /\ curarg' = 2 /\ end' = end /\ opt' = TRUE /\ noopts' = noopts
    BY <1>7, <1>8, <2>1 DEF CmdLine!Set
  <2> HIDE DEF it
  <2>3. CmdTypes'
    BY <1>1, <2>1, <2>2 DEF CmdInv, CmdTypes, CmdLine!It, Iterators
  <2>4. CmdPlace'
    <3>1. StandsAt(CmdLine!It)'
      BY <1>1, <2>2 DEF CmdInv, CmdPlace, StandsAt, CmdLine!It
    <3>2. IsGroup(arglist)'
      BY <1>1, <1>10, <2>2 DEF IsGroup
    <3>3. CmdLine!At(CmdLine!It, 0)' = CmdLine!At(it, 0)
      BY <1>1, <1>7, <1>8, <2>1, <2>2 DEF CmdLine!At, CmdLine!It
    <3>4. CmdLine!Unreadable'
      BY <1>13, <2>2, <3>3 DEF CmdLine!Unreadable, CmdLine!isalnum
    <3>5. QED
      BY <1>2, <1>10, <2>2, <3>1, <3>2, <3>4 DEF CmdPlace
  <2>5. CmdOrder'
    BY <2>1, <2>2 DEF CmdInv, CmdOrder
  <2>6. CmdCover'
    <3>1. \A j \in Nat : ~(j \in 2..(2 - 1))
      OBVIOUS
    <3>2. \A k, j : (InCover(k, j)' <=> InCover(k, j)) /\ (IsDash(k, j)' <=> IsDash(k, j))
      BY <1>1, <2>1 DEF InCover, IsDash, IsWhole
    <3>3. \A k : CmdLine!Separator(k)' <=> CmdLine!Separator(k)
      BY <1>1 DEF CmdLine!Separator
    <3>4. QED
      BY <1>1, <2>1, <2>2, <3>1, <3>2, <3>3 DEF CmdInv, CmdCover
  <2>7. QED
    BY <2>3, <2>4, <2>5, <2>6 DEF CmdInv
<1>14. QED
  BY <1>12, <1>13

\* The iterator begins at the first argument that is not passed over.
LEMMA CmdInitially ==
  ASSUME CmdLine!Init
  PROVE  CmdInv
<1> DEFINE it == [arglist |-> 0, curarg |-> 1, end |-> FALSE, opt |-> FALSE, noopts |-> FALSE]
           r == CmdLine!NextArg(it)
<1>1. /\ arglist = r.arglist /\ curarg = r.curarg /\ end = r.end /\ opt = FALSE /\ noopts = r.noopts /\ taken = <<>>
  BY DEF CmdLine!Init
<1>2. argv \in Seq(Words)
  BY DEF CmdLine!Init, CmdLine!BoundedSeqs
<1>3. it \in Iterators /\ it.arglist \in 0..Len(argv) /\ ~it.end /\ ~it.opt
  BY <1>2 DEF Iterators
<1>4. it.noopts <=> \E k \in 1..it.arglist : argv[k] = DashDash
  OBVIOUS
<1>4a. it.arglist = 0
  OBVIOUS
<1> HIDE DEF it
<1>5. /\ r \in Iterators /\ StandsAt(r) /\ ~r.opt /\ r.curarg = 1 /\ r.arglist > 0
      /\ \A k \in (0 + 1)..(r.arglist - 1) : PassesOver(k)
  BY <1>2, <1>3, <1>4, <1>4a, NextArgument
<1> HIDE DEF r
<1>6. CmdTypes
  <2>1. r.arglist \in Nat /\ r.end \in BOOLEAN /\ r.noopts \in BOOLEAN
    BY <1>5 DEF Iterators
  <2>2. CmdLine!It \in Iterators
    BY <1>1, <1>5, <2>1 DEF CmdLine!It, Iterators
  <2>3. taken \in Seq((1..Len(argv)) \X Nat \X Nat)
    BY <1>1
  <2>4. QED
    BY <1>2, <2>2, <2>3 DEF CmdTypes
<1>7. CmdPlace
  BY <1>1, <1>5 DEF CmdPlace, StandsAt, CmdLine!It
<1>8. CmdOrder
  BY <1>1 DEF CmdOrder
<1>9. CmdCover
  <2>1. \A k, j : ~InCover(k, j)
    BY <1>1 DEF InCover
  <2>2. \A k \in 1..Len(argv) : k < arglist => argv[k] = <<>> \/ CmdLine!Separator(k)
    BY <1>1, <1>5 DEF PassesOver, Iterators
  <2>3. QED
    BY <1>1, <2>1, <2>2 DEF CmdCover
<1>10. QED
  BY <1>6, <1>7, <1>8, <1>9 DEF CmdInv

\* What was returned is in order, and at the end it is all but the dashes.
LEMMA OnceByInv ==
  ASSUME CmdInv
  PROVE  EachArgumentOnce
<1>1. /\ taken \in Seq((1..Len(argv)) \X Nat \X Nat) /\ argv \in Seq(Words) /\ arglist \in 1..(Len(argv) + 1) /\ end \in BOOLEAN
      /\ Len(argv) \in Nat
  BY DEF CmdInv, CmdTypes, CmdPlace, StandsAt, CmdLine!It, Iterators
<1>2. \A n \in DOMAIN taken : taken[n][1] \in 1..Len(argv) /\ taken[n][2] \in Nat /\ taken[n][3] \in Nat
  BY <1>1
<1>3. \A m, n \in DOMAIN taken : m < n =>
        taken[m][1] < taken[n][1] \/ (taken[m][1] = taken[n][1] /\ taken[m][3] < taken[n][2])
  BY DEF CmdInv, CmdOrder
<1>4. \A m, n \in DOMAIN taken : m < n => CmdLine!Covered(taken[m]) \cap CmdLine!Covered(taken[n]) = {}
  <2> SUFFICES ASSUME NEW m \in DOMAIN taken, NEW n \in DOMAIN taken, m < n, NEW i \in taken[m][2]..taken[m][3],
                      NEW j \in taken[n][2]..taken[n][3], taken[m][1] = taken[n][1], i = j
               PROVE  FALSE
    BY DEF CmdLine!Covered
  <2>1. QED
    BY <1>2, <1>3
<1>5. \A n \in DOMAIN taken \ {1} : LET t == taken[n - 1] u == taken[n] IN t[1] < u[1] \/ (t[1] = u[1] /\ t[3] < u[2])
  <2> SUFFICES ASSUME NEW n \in DOMAIN taken \ {1}
               PROVE  n \in DOMAIN taken /\ n - 1 \in DOMAIN taken /\ n - 1 < n
    BY <1>3
  <2>1. DOMAIN taken = 1..Len(taken) /\ Len(taken) \in Nat
    BY <1>1
  <2>2. QED
    BY <2>1
<1>6. end => UNION {CmdLine!Covered(taken[n]) : n \in DOMAIN taken}
             = UNION {CmdLine!Positions(i) \ CmdLine!Dashes(i) : i \in {j \in DOMAIN argv : ~CmdLine!Separator(j)}}
  <2> SUFFICES ASSUME end
               PROVE  UNION {CmdLine!Covered(taken[n]) : n \in DOMAIN taken}
                      = UNION {CmdLine!Positions(i) \ CmdLine!Dashes(i) : i \in {j \in DOMAIN argv : ~CmdLine!Separator(j)}}
    OBVIOUS
  <2>1. arglist = Len(argv) + 1 /\ ~opt
    BY DEF CmdInv, CmdPlace, StandsAt, CmdLine!It
  <2>2. \A k \in 1..Len(argv), j \in Nat : InCover(k, j) <=> ~CmdLine!Separator(k) /\ j \in DOMAIN argv[k] /\ ~IsDash(k, j)
    <3>1. \A k \in 1..Len(argv) : k < arglist
      BY <1>1, <2>1
    <3>2. QED
      BY <2>1, <3>1 DEF CmdInv, CmdCover
  <2>3. \A k \in 1..Len(argv) : DOMAIN argv[k] \subseteq Nat
    <3>1. \A k \in 1..Len(argv) : argv[k] \in Words /\ argv[k] \in Seq(STRING)
      BY <1>1, LibraryAssumption
    <3>2. QED
      BY <3>1
  <2>4. \A k \in 1..Len(argv) : \A j \in DOMAIN argv[k] : <<k, j>> \in CmdLine!Dashes(k) <=> IsDash(k, j)
    <3> SUFFICES ASSUME NEW k \in 1..Len(argv), NEW j \in DOMAIN argv[k] PROVE <<k, j>> \in CmdLine!Dashes(k) <=> IsDash(k, j)
      OBVIOUS
    <3>1. CASE IsWhole(k)
      BY <3>1 DEF CmdLine!Dashes, IsDash, IsWhole
    <3>2. CASE ~IsWhole(k)
      <4>1. CmdLine!Dashes(k) = {<<k, i>> : i \in {b \in DOMAIN argv[k] : b <= 2 /\ \A a \in 1..b : argv[k][a] = "-"}}
        BY <3>2, Zenon DEF CmdLine!Dashes, IsWhole
      <4>2. <<k, j>> \in CmdLine!Dashes(k) <=> j <= 2 /\ \A a \in 1..j : argv[k][a] = "-"
        BY <4>1
      <4>3. QED
        BY <3>2, <4>2 DEF IsDash
    <3>3. QED
      BY <3>1, <3>2
  <2> DEFINE L == UNION {CmdLine!Covered(taken[n]) : n \in DOMAIN taken}
             R == UNION {CmdLine!Positions(i) \ CmdLine!Dashes(i) : i \in {j \in DOMAIN argv : ~CmdLine!Separator(j)}}
  <2>5. \A p : p \in L <=> \E k \in 1..Len(argv), j \in Nat : p = <<k, j>> /\ InCover(k, j)
    <3>1. ASSUME NEW n \in DOMAIN taken, NEW i \in taken[n][2]..taken[n][3]
          PROVE  taken[n][1] \in 1..Len(argv) /\ i \in Nat /\ InCover(taken[n][1], i)
      BY <1>2 DEF InCover
    <3>2. ASSUME NEW p, p \in L
          PROVE  \E k \in 1..Len(argv), j \in Nat : p = <<k, j>> /\ InCover(k, j)
      <4>1. PICK n \in DOMAIN taken : \E j \in taken[n][2]..taken[n][3] : p = <<taken[n][1], j>>
        BY <3>2 DEF CmdLine!Covered
      <4>2. PICK j \in taken[n][2]..taken[n][3] : p = <<taken[n][1], j>>
        BY <4>1
      <4>3. QED
        BY <3>1, <4>2
    <3>3. ASSUME NEW k \in 1..Len(argv), NEW j \in Nat, InCover(k, j)
          PROVE  <<k, j>> \in L
      BY <3>3 DEF InCover, CmdLine!Covered
    <3>4. QED
      BY <3>2, <3>3
  <2>6. \A p : p \in R <=> \E k \in 1..Len(argv) : ~CmdLine!Separator(k) /\ \E j \in DOMAIN argv[k] : p = <<k, j>> /\ ~(<<k, j>> \in CmdLine!Dashes(k))
    <3>1. DOMAIN argv = 1..Len(argv)
      BY <1>1
    <3>2. ASSUME NEW k, NEW p
          PROVE  p \in CmdLine!Positions(k) \ CmdLine!Dashes(k) <=> \E j \in DOMAIN argv[k] : p = <<k, j>> /\ ~(<<k, j>> \in CmdLine!Dashes(k))
      BY DEF CmdLine!Positions
    <3>3. ASSUME NEW p
          PROVE  p \in R <=> \E k \in DOMAIN argv : ~CmdLine!Separator(k) /\ p \in CmdLine!Positions(k) \ CmdLine!Dashes(k)
      OBVIOUS
    <3> HIDE DEF R
    <3>4. QED
      BY <3>1, <3>2, <3>3, Zenon
  <2>7. \A p : p \in L <=> p \in R
    <3> HIDE DEF L, R
    <3>1. ASSUME NEW k \in 1..Len(argv), NEW j
          PROVE  (j \in Nat /\ InCover(k, j)) <=> ~CmdLine!Separator(k) /\ j \in DOMAIN argv[k] /\ ~(<<k, j>> \in CmdLine!Dashes(k))
      BY <2>2, <2>3, <2>4, Zenon
    <3>2. QED
      <4>1. ASSUME NEW p, p \in L PROVE p \in R
        <5>1. PICK k \in 1..Len(argv), j \in Nat : p = <<k, j>> /\ InCover(k, j)
          BY <2>5, <4>1
        <5>2. QED
          BY <2>6, <3>1, <5>1
      <4>2. ASSUME NEW p, p \in R PROVE p \in L
        <5>1. PICK k \in 1..Len(argv) : ~CmdLine!Separator(k) /\ \E j \in DOMAIN argv[k] : p = <<k, j>> /\ ~(<<k, j>> \in CmdLine!Dashes(k))
          BY <2>6, <4>2
        <5>2. PICK j \in DOMAIN argv[k] : p = <<k, j>> /\ ~(<<k, j>> \in CmdLine!Dashes(k))
          BY <5>1
        <5>3. j \in Nat /\ InCover(k, j)
          BY <3>1, <5>1, <5>2
        <5>4. QED
          BY <2>5, <5>2, <5>3
      <4>3. QED
        BY <4>1, <4>2
  <2>8. QED
    BY <2>7
<1>7. QED
  BY <1>4, <1>5, <1>6 DEF EachArgumentOnce, CmdLine!EachArgumentOnce

\* No call breaks the invariant of the iterator.
LEMMA CmdStep ==
  ASSUME NoInnerDash, CmdInv, CmdLine!Next
  PROVE  CmdInv'
  BY TextNext, LetterNext, LongOptionNext DEF CmdLine!Next

\* Nor does a step of something else.
LEMMA CmdStutter ==
  ASSUME CmdInv, UNCHANGED args
  PROVE  CmdInv'
<1>1. /\ CmdTypes' /\ CmdPlace'
  BY DEF args, CmdInv, CmdTypes, CmdPlace, StandsAt, IsGroup, CmdLine!Unreadable, CmdLine!At, CmdLine!It
<1>2. CmdOrder'
  BY DEF args, CmdInv, CmdOrder
<1>2a. CmdCover'
  <2>1. \A k, j : (InCover(k, j)' <=> InCover(k, j)) /\ (IsDash(k, j)' <=> IsDash(k, j))
    BY DEF args, InCover, IsDash, IsWhole
  <2>2. \A k : CmdLine!Separator(k)' <=> CmdLine!Separator(k)
    BY DEF args, CmdLine!Separator
  <2>3. QED
    BY <2>1, <2>2 DEF args, CmdInv, CmdCover
<1>3. QED
  BY <1>1, <1>2, <1>2a DEF CmdInv

\* The arguments of a program are returned once, in order, and whole (cmdline.h),
\* unless a '-' follows a letter in a group.
THEOREM ArgumentsOnce ==
  ASSUME NoInnerDash
  PROVE  CmdLineSpec => []EachArgumentOnce
<1>1. CmdLine!Init => CmdInv
  BY CmdInitially
<1>2. CmdInv /\ [CmdLine!Next]_args => CmdInv'
  BY CmdStep, CmdStutter
<1>3. CmdInv => EachArgumentOnce
  BY OnceByInv
<1>4. QED
  BY <1>1, <1>2, <1>3, PTL DEF CmdLineSpec

-----------------------------------------------------------------------------
(* The patterns of logOutput.h *)

\* How far the pattern was read: between two items; before one; behind its $; in
\* the digits of $n, whose end is only seen at the next character; in those of
\* $(n).  What was written, and what is owed for the last item, is what it says.
LastNumber == Pattern!Number(Pattern!Last, carried)
Owed == Pattern!Meaning(Pattern!Last, LastNumber)
SomeIndex == \E i \in DOMAIN items : Pattern!HasIndex(items[i])
Between == md = "readChar" /\ chars = <<>> /\ read = out /\ curIndex = LastNumber
Before ==
  \/ /\ md = "readChar" /\ chars = Pattern!Spelled(Pattern!Last) /\ read = out \o Owed
     /\ items # <<>> /\ curIndex = carried
  \/ /\ md = "readArgIndex" /\ Len(chars) = 1 /\ chars[1] \notin Pattern!Digits
     /\ read = out \o (Pattern!NthArg(curIndex) \o <<chars[1]>>)
     /\ Pattern!Last[1] = "char" /\ curIndex = carried
BehindDollar ==
  /\ md = "readStartArg" /\ items # <<>> /\ Pattern!Last[1] # "char" /\ chars = Tail(Pattern!Spelled(Pattern!Last))
  /\ read = out \o Owed /\ curIndex = carried
InIndex ==
  /\ md = "readArgIndex" /\ items # <<>> /\ Pattern!Last[1] = "arg" /\ read = out \o Pattern!NthArg(Pattern!Last[2])
  /\ LET n == Pattern!Last[2]
     IN  \/ chars = <<>> /\ curIndex = n
         \/ Len(chars) = 1 /\ n >= 10 /\ chars[1] = n % 10 /\ curIndex = n \div 10
InParIndex ==
  /\ md = "readParIndex" /\ items # <<>> /\ Pattern!InParens(Pattern!Last) /\ read = out \o Owed
  /\ LET n == Pattern!Last[2]
     IN  /\ chars # <<>> /\ chars[Len(chars)] = IF Pattern!Last[1] = "paren" THEN Pattern!Close ELSE Pattern!Letter
         /\ \/ Len(chars) = 3 /\ n >= 10 /\ chars[1] = n \div 10 /\ chars[2] = n % 10 /\ curIndex = carried
            \/ Len(chars) = 2 /\ n >= 10 /\ chars[1] = n % 10 /\ curIndex = Pattern!Shift(carried, n \div 10)
            \/ Len(chars) = 2 /\ n < 10 /\ chars[1] = n /\ curIndex = carried
            \/ Len(chars) = 1 /\ curIndex = LastNumber

PatTypes ==
  /\ curIndex \in Nat /\ out \in Seq(Nat) /\ chars \in Seq(Nat) /\ items \in Seq(Pattern!Candidates)
  /\ read \in Seq(Nat) /\ says \in Seq(Nat) /\ carried \in Nat /\ done \in BOOLEAN
PatInv ==
  /\ PatTypes
  /\ IF done THEN chars = <<>> /\ out = read
     ELSE Between \/ Before \/ BehindDollar \/ InIndex \/ InParIndex
  /\ ~SomeIndex => LastNumber = 0
  /\ Pattern!InOrder => read = says

\* The special characters, and the two digits of a number.
LEMMA Numbers ==
  /\ Pattern!Dollar = 10 /\ Pattern!Open = 11 /\ Pattern!Close = 12 /\ Pattern!Letter = 13 /\ Pattern!Digits = 0..9
  /\ \A n \in 0..99 : n \in Nat /\ n \div 10 \in 0..9 /\ n % 10 \in 0..9 /\ (n \div 10) * 10 + (n % 10) = n
<1>1. ASSUME NEW n \in 0..99
      PROVE  n \in Nat /\ n \div 10 \in 0..9 /\ n % 10 \in 0..9 /\ (n \div 10) * 10 + (n % 10) = n
  <2>1. n \in Nat /\ n \div 10 \in 0..9
    OBVIOUS
  <2>2. n % 10 \in 0..9
    OBVIOUS
  <2>3. (n \div 10) * 10 + (n % 10) = n
    OBVIOUS
  <2>4. QED
    BY <2>1, <2>2, <2>3
<1>2. QED
  BY <1>1 DEF Pattern!Dollar, Pattern!Open, Pattern!Close, Pattern!Letter, Pattern!Digits

\* Texts are joined.
LEMMA NatsJoined ==
  ASSUME NEW a \in Seq(Nat), NEW b \in Seq(Nat)
  PROVE  /\ a \o b \in Seq(Nat) /\ Len(a \o b) = Len(a) + Len(b)
         /\ \A i \in 1..Len(a) : (a \o b)[i] = a[i]
         /\ \A i \in 1..Len(b) : (a \o b)[Len(a) + i] = b[i]
  OBVIOUS
LEMMA NatsAssociate ==
  ASSUME NEW a \in Seq(Nat), NEW b \in Seq(Nat), NEW c \in Seq(Nat)
  PROVE  (a \o b) \o c = a \o (b \o c)
  OBVIOUS

\* What an item is: its characters,
LEMMA SpelledIs ==
  ASSUME NEW item \in Pattern!Candidates
  PROVE  LET s == Pattern!Spelled(item)
             n == item[2]
             t == IF item[1] = "paren" THEN Pattern!Close ELSE Pattern!Letter
         IN  /\ n \in Nat /\ s \in Seq(Nat)
             /\ item[1] \in {"char", "dollar", "arg", "paren", "unclosed"}
             /\ item[1] = "char" => Len(s) = 1 /\ s[1] = n /\ n # Pattern!Dollar
             /\ item[1] = "dollar" => Len(s) = 2 /\ s[1] = Pattern!Dollar /\ s[2] = Pattern!Dollar
             /\ item[1] = "arg" =>
                  /\ n \in 0..99 /\ s[1] = Pattern!Dollar
                  /\ n < 10 => Len(s) = 2 /\ s[2] = n
                  /\ n >= 10 => Len(s) = 3 /\ s[2] = n \div 10 /\ s[3] = n % 10
             /\ Pattern!InParens(item) =>
                  /\ n \in 0..99 /\ s[1] = Pattern!Dollar /\ s[2] = Pattern!Open
                  /\ n < 10 => Len(s) = 4 /\ s[3] = n /\ s[4] = t
                  /\ n >= 10 => Len(s) = 5 /\ s[3] = n \div 10 /\ s[4] = n % 10 /\ s[5] = t
<1> DEFINE s == Pattern!Spelled(item)
           n == item[2]
           d == Pattern!Decimal(n)
<1>1. \/ item[1] = "char" /\ n \in Plain
      \/ item[1] = "dollar" /\ n = 0
      \/ item[1] \in {"arg", "paren", "unclosed"} /\ n \in Indexes
  BY DEF Pattern!Candidates
<1>2. Plain \subseteq Nat \ {10} /\ Indexes \subseteq 0..99
  BY LibraryAssumption
<1>3. /\ Pattern!Dollar = 10 /\ Pattern!Open = 11 /\ Pattern!Close = 12 /\ Pattern!Letter = 13
  BY DEF Pattern!Dollar, Pattern!Open, Pattern!Close, Pattern!Letter
<1>4. CASE item[1] = "char" /\ n \in Plain
  BY <1>2, <1>3, <1>4 DEF Pattern!Spelled, Pattern!InParens
<1>5. CASE item[1] = "dollar" /\ n = 0
  BY <1>3, <1>5 DEF Pattern!Spelled, Pattern!InParens
<1>6. CASE item[1] \in {"arg", "paren", "unclosed"} /\ n \in Indexes
  <2>1. n \in 0..99 /\ n \div 10 \in Nat /\ n % 10 \in Nat
    BY <1>2, <1>6
  <2>2. /\ d \in Seq(Nat)
        /\ n < 10 => Len(d) = 1 /\ d[1] = n
        /\ n >= 10 => Len(d) = 2 /\ d[1] = n \div 10 /\ d[2] = n % 10
    BY <2>1 DEF Pattern!Decimal
  <2> HIDE DEF d
  <2>3. CASE item[1] = "arg"
    <3>1. s = <<Pattern!Dollar>> \o d
      BY <2>3 DEF Pattern!Spelled, d
    <3> HIDE DEF s, n
    <3> DEFINE one == <<Pattern!Dollar>>
    <3>2. one \in Seq(Nat) /\ Len(one) = 1 /\ one[1] = Pattern!Dollar
      BY <1>3
    <3> HIDE DEF one
    <3>3. /\ s \in Seq(Nat) /\ Len(s) = Len(d) + 1 /\ s[1] = Pattern!Dollar
          /\ \A i \in 1..Len(d) : s[1 + i] = d[i]
      BY <2>1, <2>2, <3>1, <3>2 DEF one
    <3>4. n < 10 => Len(s) = 2 /\ s[2] = n
      <4> SUFFICES ASSUME n < 10 PROVE Len(s) = 2 /\ s[2] = n
        OBVIOUS
      <4>1. Len(d) = 1 /\ d[1] = n
        BY <2>2
      <4>2. s[1 + 1] = d[1]
        BY <3>3, <4>1
      <4>3. QED
        BY <3>3, <4>1, <4>2
    <3>5. n >= 10 => Len(s) = 3 /\ s[2] = n \div 10 /\ s[3] = n % 10
      <4> SUFFICES ASSUME n >= 10 PROVE Len(s) = 3 /\ s[2] = n \div 10 /\ s[3] = n % 10
        OBVIOUS
      <4>1. Len(d) = 2 /\ d[1] = n \div 10 /\ d[2] = n % 10
        BY <2>2
      <4>2. s[1 + 1] = d[1] /\ s[1 + 2] = d[2]
        BY <3>3, <4>1
      <4>3. QED
        BY <3>3, <4>1, <4>2
    <3>6. ~Pattern!InParens(item) /\ item[1] # "char" /\ item[1] # "dollar" /\ item[1] # "paren" /\ item[1] # "unclosed"
            /\ n \in Nat
      BY <2>1, <2>3 DEF Pattern!InParens
    <3>7. QED
      BY <2>1, <2>3, <3>1, <3>3, <3>4, <3>5, <3>6 DEF s, n
  <2>4. CASE item[1] \in {"paren", "unclosed"}
    <3> DEFINE t == IF item[1] = "paren" THEN Pattern!Close ELSE Pattern!Letter
               front == <<Pattern!Dollar, Pattern!Open>> \o d
    <3>1. s = front \o <<t>>
      BY <2>4 DEF Pattern!Spelled, d
    <3>2. t \in Nat
      BY <1>3
    <3> HIDE DEF s, n, t
    <3> DEFINE two == <<Pattern!Dollar, Pattern!Open>>
    <3>2a. two \in Seq(Nat) /\ Len(two) = 2 /\ two[1] = Pattern!Dollar /\ two[2] = Pattern!Open
      BY <1>3
    <3> HIDE DEF two
    <3>2b. front = two \o d
      BY DEF two
    <3> HIDE DEF front
    <3>3. /\ front \in Seq(Nat) /\ Len(front) = Len(d) + 2 /\ front[1] = Pattern!Dollar /\ front[2] = Pattern!Open
          /\ \A i \in 1..Len(d) : front[2 + i] = d[i]
      <4>1. d \in Seq(Nat) /\ Len(d) \in Nat
        BY <2>2
      <4>2. /\ front \in Seq(Nat) /\ Len(front) = Len(two) + Len(d)
            /\ \A i \in 1..Len(two) : front[i] = two[i]
            /\ \A i \in 1..Len(d) : front[Len(two) + i] = d[i]
        BY <3>2a, <3>2b, <4>1, NatsJoined
      <4>3. QED
        BY <3>2a, <4>1, <4>2
    <3>4. /\ s \in Seq(Nat) /\ Len(s) = Len(front) + 1 /\ s[Len(front) + 1] = t
          /\ \A i \in 1..Len(front) : s[i] = front[i]
      BY <3>1, <3>2, <3>3
    <3>5. /\ s[1] = Pattern!Dollar /\ s[2] = Pattern!Open
          /\ n < 10 => Len(s) = 4 /\ s[3] = n /\ s[4] = t
          /\ n >= 10 => Len(s) = 5 /\ s[3] = n \div 10 /\ s[4] = n % 10 /\ s[5] = t
      <4>1. n < 10 => front[2 + 1] = d[1] /\ Len(front) = 3
        <5> SUFFICES ASSUME n < 10 PROVE front[2 + 1] = d[1] /\ Len(front) = 3
          OBVIOUS
        <5>1. Len(d) = 1
          BY <2>2
        <5>2. QED
          BY <3>3, <5>1
      <4>2. n >= 10 => front[2 + 1] = d[1] /\ front[2 + 2] = d[2] /\ Len(front) = 4
        <5> SUFFICES ASSUME n >= 10 PROVE front[2 + 1] = d[1] /\ front[2 + 2] = d[2] /\ Len(front) = 4
          OBVIOUS
        <5>1. Len(d) = 2
          BY <2>2
        <5>2. QED
          BY <3>3, <5>1
      <4>3. s[1] = Pattern!Dollar /\ s[2] = Pattern!Open
        BY <2>1, <2>2, <3>3, <3>4
      <4>4. n < 10 => Len(s) = 4 /\ s[3] = n /\ s[4] = t
        BY <2>1, <2>2, <3>3, <3>4, <4>1
      <4>5. n >= 10 => Len(s) = 5 /\ s[3] = n \div 10 /\ s[4] = n % 10 /\ s[5] = t
        BY <2>1, <2>2, <3>3, <3>4, <4>2
      <4>6. QED
        BY <4>3, <4>4, <4>5
    <3>6. Pattern!InParens(item) /\ item[1] # "char" /\ item[1] # "dollar" /\ item[1] # "arg" /\ n \in Nat
      BY <2>1, <2>4 DEF Pattern!InParens
    <3>7. QED
      BY <2>1, <2>4, <3>1, <3>4, <3>5, <3>6 DEF s, n, d, t, front
  <2>5. QED
    BY <1>6, <2>3, <2>4
<1>7. QED
  BY <1>1, <1>4, <1>5, <1>6

\* What stands for a number, and for an item, is a text.
LEMMA ArgumentsAre ==
  ASSUME NEW n \in Nat
  PROVE  Pattern!NthArg(n) \in Seq(Nat)
  BY DEF Pattern!NthArg, Pattern!Arg

\* its meaning, for any number of its placeholder,
LEMMA MeaningsAre ==
  ASSUME NEW item \in Pattern!Candidates, NEW k \in Nat
  PROVE  LET m == Pattern!Meaning(item, k)
         IN  /\ m \in Seq(Nat)
             /\ item[1] = "char" => m = <<item[2]>>
             /\ item[1] = "dollar" => m = <<Pattern!Dollar>>
             /\ item[1] \in {"arg", "paren"} => m = Pattern!NthArg(k)
             /\ item[1] = "unclosed" => m = <<Pattern!Dollar, Pattern!Open, Pattern!Printed(k), Pattern!Letter>>
<1> DEFINE m == Pattern!Meaning(item, k)
<1>1. item[2] \in Nat /\ item[1] \in {"char", "dollar", "arg", "paren", "unclosed"}
  BY SpelledIs
<1>2. /\ item[1] = "char" => m = <<item[2]>>
      /\ item[1] = "dollar" => m = <<Pattern!Dollar>>
      /\ item[1] \in {"arg", "paren"} => m = Pattern!NthArg(k)
      /\ item[1] = "unclosed" => m = <<Pattern!Dollar, Pattern!Open, Pattern!Printed(k), Pattern!Letter>>
  BY <1>1 DEF Pattern!Meaning
<1>3. /\ <<item[2]>> \in Seq(Nat) /\ <<Pattern!Dollar>> \in Seq(Nat) /\ Pattern!NthArg(k) \in Seq(Nat)
      /\ <<Pattern!Dollar, Pattern!Open, Pattern!Printed(k), Pattern!Letter>> \in Seq(Nat)
  BY <1>1, ArgumentsAre DEF Pattern!Dollar, Pattern!Open, Pattern!Printed, Pattern!Letter
<1> HIDE DEF m
<1>4. m \in Seq(Nat)
  BY <1>1, <1>2, <1>3
<1>5. QED
  BY <1>2, <1>4 DEF m

\* and the number that it leaves, which is its own if it is read behind none.
LEMMA ShiftIs ==
  ASSUME NEW k \in Nat, NEW c \in Nat
  PROVE  /\ Pattern!Shift(k, c) \in Nat
         /\ k * 10 + c < 100 => Pattern!Shift(k, c) = k * 10 + c
<1> DEFINE x == k * 10 + c
<1>1. x \in Nat /\ Pattern!Shift(k, c) = x % Wrap
  BY DEF Pattern!Shift
<1>2. Wrap \in Nat /\ Wrap > 99
  BY LibraryAssumption
<1> HIDE DEF x
<1>3. x % Wrap \in Nat /\ (x < 100 => x % Wrap = x)
  BY <1>1, <1>2
<1>4. QED
  BY <1>1, <1>3 DEF x

LEMMA NumbersAre ==
  ASSUME NEW item \in Pattern!Candidates, NEW from \in Nat
  PROVE  LET n == item[2]
             k == Pattern!Number(item, from)
         IN  /\ k \in Nat /\ n \in Nat
             /\ item[1] \in {"char", "dollar"} => k = from
             /\ item[1] = "arg" => k = n
             /\ Pattern!InParens(item) /\ n < 10 => k = Pattern!Shift(from, n)
             /\ Pattern!InParens(item) /\ n >= 10 => k = Pattern!Shift(Pattern!Shift(from, n \div 10), n % 10)
             /\ Pattern!InParens(item) /\ from = 0 => k = n
<1> DEFINE n == item[2]
           k == Pattern!Number(item, from)
<1>1. n \in Nat /\ item[1] \in {"char", "dollar", "arg", "paren", "unclosed"} /\ (Pattern!InParens(item) => n \in 0..99)
  BY SpelledIs
<1>2. /\ item[1] \in {"char", "dollar"} => k = from
      /\ item[1] = "arg" => k = n
      /\ Pattern!InParens(item) /\ n < 10 => k = Pattern!Shift(from, n)
      /\ Pattern!InParens(item) /\ n >= 10 => k = Pattern!Shift(Pattern!Shift(from, n \div 10), n % 10)
  BY <1>1 DEF Pattern!Number, Pattern!InParens
<1> HIDE DEF k, n
<1>3. CASE Pattern!InParens(item) /\ n < 10
  <2>1. k = Pattern!Shift(from, n)
    BY <1>2, <1>3
  <2>2. from = 0 => from * 10 + n = n
    BY <1>1
  <2>3. k \in Nat /\ (from = 0 => k = n)
    BY <1>1, <1>3, <2>1, <2>2, ShiftIs
  <2>4. QED
    BY <1>1, <1>2, <2>3 DEF k, n
<1>4. CASE Pattern!InParens(item) /\ n >= 10
  <2> DEFINE d == n \div 10
             e == n % 10
             h == Pattern!Shift(from, d)
  <2>1. n \in 0..99
    BY <1>1, <1>4
  <2>2. d \in 0..9 /\ e \in 0..9 /\ d * 10 + e = n /\ k = Pattern!Shift(h, e)
    BY <1>2, <1>4, <2>1, Numbers
  <2> HIDE DEF d, e
  <2>2a. d \in Nat /\ e \in Nat /\ (from = 0 => from * 10 + d = d) /\ d < 100
    BY <2>2
  <2>3. h \in Nat /\ (from = 0 => h = d)
    BY <2>2a, ShiftIs
  <2> HIDE DEF h
  <2>4. from = 0 => h * 10 + e = n
    BY <2>2, <2>3
  <2>5. k \in Nat /\ (from = 0 => k = n)
    <3>1. k = Pattern!Shift(h, e) /\ n < 100
      BY <2>1, <2>2
    <3>2. QED
      BY <2>2a, <2>3, <2>4, <3>1, ShiftIs
  <2>6. QED
    BY <1>1, <1>2, <2>5 DEF k, n
<1>5. CASE ~Pattern!InParens(item)
  <2>1. k \in Nat
    BY <1>1, <1>2, <1>5 DEF Pattern!InParens
  <2>2. QED
    BY <1>1, <1>2, <1>5, <2>1 DEF k, n
<1>6. QED
  BY <1>1, <1>3, <1>4, <1>5

\* The last item, when there is one, and its number.
LEMMA LastIs ==
  ASSUME PatTypes, items # <<>>
  PROVE  /\ Pattern!Last \in Pattern!Candidates /\ Pattern!Last = items[Len(items)] /\ Len(items) \in DOMAIN items
         /\ Pattern!HasIndex(Pattern!Last) => SomeIndex
<1>1. Len(items) \in DOMAIN items /\ items[Len(items)] \in Pattern!Candidates /\ Pattern!Last = items[Len(items)]
  BY DEF PatTypes, Pattern!Last
<1>2. QED
  BY <1>1 DEF SomeIndex

LEMMA LastNumberIs ==
  ASSUME PatTypes
  PROVE  LastNumber \in Nat
<1>1. CASE items = <<>>
  <2>1. Pattern!Last = <<"none", 0>>
    BY <1>1 DEF Pattern!Last
  <2>2. LastNumber = carried
    BY <2>1 DEF LastNumber, Pattern!Number, Pattern!InParens
  <2>3. QED
    BY <2>2 DEF PatTypes
<1>2. CASE items # <<>>
  BY <1>2, LastIs, NumbersAre DEF PatTypes, LastNumber
<1>3. QED
  BY <1>1, <1>2

\* When an item was read, nothing is owed but the argument of $n.
LEMMA ItemRead ==
  ASSUME PatInv, chars = <<>>, ~done
  PROVE  Between \/ (InIndex /\ curIndex = Pattern!Last[2])
<1>1. ASSUME items # <<>>
      PROVE  LET s == Pattern!Spelled(Pattern!Last)
             IN  s \in Seq(Nat) /\ Len(s) >= 1 /\ (Pattern!Last[1] # "char" => Len(s) >= 2)
  <2>1. Pattern!Last \in Pattern!Candidates
    BY <1>1, LastIs DEF PatInv
  <2>2. QED
    BY <2>1, SpelledIs DEF Pattern!InParens
<1>2. ~Before
  BY <1>1 DEF Before
<1>3. ~BehindDollar
  <2> SUFFICES ASSUME BehindDollar PROVE FALSE
    OBVIOUS
  <2> DEFINE s == Pattern!Spelled(Pattern!Last)
  <2>1. s \in Seq(Nat) /\ Len(s) >= 2 /\ Tail(s) = <<>>
    BY <1>1 DEF BehindDollar
  <2> HIDE DEF s
  <2>2. Len(s) \in Nat /\ Len(Tail(s)) = Len(s) - 1
    BY <2>1
  <2>3. Len(Tail(s)) = 0
    <3>1. Len(<<>>) = 0
      OBVIOUS
    <3>2. QED
      BY <2>1, <3>1, Zenon
  <2>4. QED
    BY <2>1, <2>2, <2>3
<1>4. ~InParIndex
  BY DEF InParIndex
<1>5. InIndex => curIndex = Pattern!Last[2]
  BY DEF InIndex
<1>6. QED
  BY <1>2, <1>3, <1>4, <1>5 DEF PatInv

\* The pattern goes on with another item.
LEMMA ItemStep ==
  ASSUME PatInv, Pattern!NextItem
  PROVE  PatInv'
<1>1. /\ chars = <<>> /\ ~done /\ md' = md /\ curIndex' = curIndex /\ out' = out /\ done' = done
      /\ carried' = LastNumber
  BY DEF Pattern!NextItem, LastNumber
<1>2. PICK item \in Pattern!Candidates :
        /\ Pattern!Follows(item)
        /\ items' = Append(items, item) /\ chars' = Pattern!Spelled(item) /\ says' = says \o Pattern!Meaning(item, item[2])
        /\ read' = read \o Pattern!Meaning(item, Pattern!Number(item, carried'))
  BY DEF Pattern!NextItem
<1> DEFINE k == Pattern!Number(item, carried')
           m == Pattern!Meaning(item, k)
           w == Pattern!Meaning(item, item[2])
<1>3. /\ curIndex \in Nat /\ out \in Seq(Nat) /\ items \in Seq(Pattern!Candidates) /\ read \in Seq(Nat) /\ says \in Seq(Nat)
      /\ LastNumber \in Nat /\ Pattern!Spelled(item) \in Seq(Nat) /\ item[2] \in Nat
  BY LastNumberIs, SpelledIs DEF PatInv, PatTypes
<1>3a. k \in Nat /\ (item[1] = "arg" \/ (Pattern!InParens(item) /\ LastNumber = 0) => k = item[2])
       /\ (item[1] \in {"char", "dollar"} => k = LastNumber)
  BY <1>1, <1>3, NumbersAre
<1> HIDE DEF k
<1>3b. m \in Seq(Nat) /\ w \in Seq(Nat) /\ (item[1] \in {"char", "dollar"} => m = w)
  BY <1>3, <1>3a, MeaningsAre
<1>4. /\ items' \in Seq(Pattern!Candidates) /\ items' # <<>> /\ Pattern!Last' = item
      /\ DOMAIN items' = DOMAIN items \cup {Len(items) + 1} /\ items'[Len(items) + 1] = item
      /\ \A i \in DOMAIN items : i \in DOMAIN items' /\ items'[i] = items[i] /\ i < Len(items) + 1
  <2> HIDE DEF PatInv
  <2>1. /\ items' \in Seq(Pattern!Candidates) /\ Len(items') = Len(items) + 1 /\ items'[Len(items) + 1] = item
        /\ DOMAIN items = 1..Len(items) /\ DOMAIN items' = 1..(Len(items) + 1) /\ Len(items) \in Nat
        /\ \A i \in 1..Len(items) : items'[i] = items[i]
    BY <1>2, <1>3
  <2>2. items' # <<>>
    BY <2>1
  <2>3. Pattern!Last' = item
    BY <2>1, <2>2 DEF Pattern!Last
  <2>4. QED
    BY <2>1, <2>2, <2>3
<1>5. LastNumber' = k /\ Owed' = m
  BY <1>4 DEF LastNumber, Owed, k
<1>6. PatTypes'
  BY <1>1, <1>2, <1>3, <1>3b, <1>4 DEF PatInv, PatTypes, m, w, k
<1>7. ~SomeIndex => LastNumber = 0
  BY DEF PatInv
<1>7a. SomeIndex' <=> SomeIndex \/ Pattern!HasIndex(item)
  BY <1>4 DEF SomeIndex
<1>7b. Pattern!InOrder' => Pattern!InOrder /\ (Pattern!InParens(item) => ~SomeIndex)
  BY <1>4 DEF Pattern!InOrder, SomeIndex
<1>7c. item[1] \in {"char", "dollar"} \/ item[1] = "arg" \/ Pattern!InParens(item)
  BY SpelledIs DEF Pattern!InParens
<1>7d. ~SomeIndex' => LastNumber' = 0
  BY <1>3a, <1>5, <1>7, <1>7a, <1>7c DEF Pattern!HasIndex
<1>7e. Pattern!InOrder' => read' = says'
  <2> SUFFICES ASSUME Pattern!InOrder' PROVE read' = says'
    OBVIOUS
  <2>1. read = says
    BY <1>7b DEF PatInv
  <2>2. m = w
    BY <1>3a, <1>3b, <1>7, <1>7b, <1>7c
  <2>3. QED
    BY <1>2, <2>1, <2>2 DEF m, w, k
<1>8. read' = read \o m
  BY <1>2 DEF m, k
<1> HIDE DEF m, w
<1>9. Between \/ (InIndex /\ curIndex = Pattern!Last[2])
  BY <1>1, ItemRead
<1>10. CASE Between
  <2>1. Before'
    BY <1>1, <1>2, <1>4, <1>5, <1>8, <1>10 DEF Before, Between
  <2>2. QED
    BY <1>1, <1>6, <1>7d, <1>7e, <2>1 DEF PatInv
<1>11. CASE InIndex /\ curIndex = Pattern!Last[2]
  <2>1. item[1] = "char" /\ item[2] \notin Pattern!Digits
    BY <1>2, <1>11 DEF InIndex, Pattern!Follows
  <2>2. Len(chars') = 1 /\ chars'[1] = item[2] /\ m = <<item[2]>>
    BY <1>2, <1>3a, <2>1, SpelledIs, MeaningsAre DEF m
  <2>2a. curIndex' = carried'
    <3>1. Pattern!Last \in Pattern!Candidates /\ carried \in Nat
      BY <1>11, LastIs DEF InIndex, PatInv, PatTypes
    <3>2. LastNumber = Pattern!Last[2]
      BY <1>11, <3>1, NumbersAre DEF LastNumber, InIndex
    <3>3. QED
      BY <1>1, <1>11, <3>2
  <2> DEFINE a == Pattern!NthArg(curIndex)
             c == <<item[2]>>
  <2>3. read' = (out \o a) \o c
    BY <1>8, <1>11, <2>2 DEF InIndex
  <2>4. a \in Seq(Nat) /\ c \in Seq(Nat)
    BY <1>3, <2>2, ArgumentsAre
  <2> HIDE DEF a, c
  <2>5. read' = out \o (a \o c)
    <3>1. out \in Seq(Nat)
      BY <1>3
    <3>2. (out \o a) \o c = out \o (a \o c)
      BY <2>4, <3>1, NatsAssociate
    <3>3. QED
      BY <2>3, <3>2
  <2>6. md' = "readArgIndex"
    BY <1>1, <1>11 DEF InIndex
  <2>7. read' = out' \o (Pattern!NthArg(curIndex') \o <<chars'[1]>>)
    BY <1>1, <2>2, <2>5 DEF a, c
  <2>8. Before'
    BY <1>4, <2>1, <2>2, <2>2a, <2>6, <2>7 DEF Before
  <2>9. QED
    BY <1>1, <1>6, <1>7d, <1>7e, <2>8 DEF PatInv
<1>12. QED
  BY <1>9, <1>10, <1>11

\* The pattern ends.
LEMMA EndStep ==
  ASSUME PatInv, Pattern!Finish
  PROVE  PatInv'
<1>1. /\ chars = <<>> /\ ~done /\ done' = TRUE /\ chars' = chars /\ curIndex' = curIndex /\ items' = items /\ read' = read
      /\ says' = says /\ carried' = carried
      /\ out' = IF md = "readArgIndex" THEN out \o Pattern!NthArg(curIndex) ELSE out
  BY DEF Pattern!Finish, Pattern!Write
<1>2. Between \/ (InIndex /\ curIndex = Pattern!Last[2])
  BY <1>1, ItemRead
<1>3. out' = read'
  BY <1>1, <1>2 DEF Between, InIndex
<1>4. read \in Seq(Nat) /\ PatTypes
  BY DEF PatInv, PatTypes
<1>5. PatTypes'
  BY <1>1, <1>3, <1>4 DEF PatTypes
<1>6. (~SomeIndex => LastNumber = 0)' /\ (Pattern!InOrder => read = says)'
  BY <1>1 DEF PatInv, SomeIndex, LastNumber, Pattern!Last, Pattern!InOrder
<1>7. QED
  BY <1>1, <1>3, <1>5, <1>6 DEF PatInv

\* One character is read.
LEMMA CharFed ==
  ASSUME PatInv, Pattern!Feed
  PROVE  /\ ~done /\ done' = done /\ items' = items /\ read' = read /\ Pattern!Last' = Pattern!Last
         /\ says' = says /\ carried' = carried /\ LastNumber' = LastNumber /\ Owed' = Owed
         /\ Len(chars) \in Nat /\ Len(chars) >= 1 /\ chars' = Tail(chars) /\ chars' \in Seq(Nat) /\ Len(chars') = Len(chars) - 1
         /\ \A i \in 1..Len(chars') : chars'[i] = chars[i + 1]
         /\ Len(chars) = 1 => chars' = <<>>
         /\ Len(chars) > 1 => chars' # <<>> /\ chars'[Len(chars')] = chars[Len(chars)]
         /\ (SomeIndex' <=> SomeIndex) /\ (Pattern!InOrder' <=> Pattern!InOrder)
         /\ \/ Pattern!ReadChar(chars[1]) \/ Pattern!ReadStartArg(chars[1])
            \/ Pattern!ReadArgIndex(chars[1]) \/ Pattern!ReadParIndex(chars[1])
         /\ curIndex \in Nat /\ out \in Seq(Nat) /\ read \in Seq(Nat)
<1>1. /\ chars # <<>> /\ chars' = Tail(chars) /\ items' = items /\ read' = read /\ done' = done
      /\ says' = says /\ carried' = carried
      /\ \/ Pattern!ReadChar(Head(chars)) \/ Pattern!ReadStartArg(Head(chars))
         \/ Pattern!ReadArgIndex(Head(chars)) \/ Pattern!ReadParIndex(Head(chars))
  BY DEF Pattern!Feed
<1>2. chars \in Seq(Nat) /\ curIndex \in Nat /\ out \in Seq(Nat) /\ read \in Seq(Nat) /\ (done => chars = <<>>)
  BY DEF PatInv, PatTypes
<1>3. Head(chars) = chars[1] /\ Len(chars) \in Nat /\ Len(chars) >= 1
  BY <1>1, <1>2
<1>4. chars' \in Seq(Nat) /\ Len(chars') = Len(chars) - 1 /\ \A i \in 1..Len(chars') : chars'[i] = chars[i + 1]
  BY <1>1, <1>2
<1>5. /\ Pattern!Last' = Pattern!Last /\ LastNumber' = LastNumber /\ Owed' = Owed
      /\ (SomeIndex' <=> SomeIndex) /\ (Pattern!InOrder' <=> Pattern!InOrder)
  BY <1>1 DEF Pattern!Last, LastNumber, Owed, SomeIndex, Pattern!InOrder
<1>6. Len(chars) = 1 => chars' = <<>>
  BY <1>3, <1>4
<1>7. Len(chars) > 1 => chars' # <<>> /\ chars'[Len(chars')] = chars[Len(chars)]
  <2> SUFFICES ASSUME Len(chars) > 1 PROVE chars' # <<>> /\ chars'[Len(chars')] = chars[Len(chars)]
    OBVIOUS
  <2>1. Len(chars') \in 1..Len(chars') /\ Len(chars') + 1 = Len(chars)
    BY <1>3, <1>4
  <2>2. QED
    BY <1>4, <2>1
<1>8. QED
  BY <1>1, <1>2, <1>3, <1>4, <1>5, <1>6, <1>7

\* What a character leaves behind, and that it keeps the invariant.
CharRead ==
  /\ curIndex' \in Nat /\ out' \in Seq(Nat)
  /\ (Between \/ Before \/ BehindDollar \/ InIndex \/ InParIndex)'
LEMMA ReadsKeep ==
  ASSUME PatInv, Pattern!Feed, CharRead
  PROVE  PatInv'
<1>1. PatTypes'
  BY CharFed DEF CharRead, PatInv, PatTypes
<1>2. (~SomeIndex => LastNumber = 0)' /\ (Pattern!InOrder => read = says)'
  BY CharFed DEF PatInv
<1>3. ~done'
  BY CharFed
<1>4. QED
  BY <1>1, <1>2, <1>3 DEF CharRead, PatInv

\* A character is read: the first of an item,
LEMMA FromBefore ==
  ASSUME PatInv, Pattern!Feed, Before
  PROVE  CharRead
<1>1. CASE md = "readArgIndex"
  <2>1. Len(chars) = 1 /\ chars[1] \notin Pattern!Digits /\ read = out \o (Pattern!NthArg(curIndex) \o <<chars[1]>>)
        /\ Pattern!Last[1] = "char" /\ curIndex = carried
    BY <1>1 DEF Before
  <2>2. Pattern!ReadArgIndex(chars[1])
    BY <1>1, CharFed DEF Pattern!ReadChar, Pattern!ReadStartArg, Pattern!ReadParIndex
  <2>3. out' = read /\ md' = "readChar" /\ curIndex' = curIndex
    BY <2>1, <2>2 DEF Pattern!ReadArgIndex, Pattern!Write, Pattern!Goto
  <2>4. LastNumber = carried
    BY <2>1 DEF LastNumber, Pattern!Number, Pattern!InParens
  <2>5. QED
    BY <2>1, <2>3, <2>4, CharFed DEF CharRead, Between
<1>2. CASE md # "readArgIndex"
  <2> DEFINE s == Pattern!Spelled(Pattern!Last)
  <2>1. /\ md = "readChar" /\ chars = s /\ read = out \o Owed
        /\ items # <<>> /\ curIndex = carried
    BY <1>2 DEF Before
  <2>2. Pattern!ReadChar(chars[1])
    BY <2>1, CharFed DEF Pattern!ReadArgIndex, Pattern!ReadStartArg, Pattern!ReadParIndex
  <2>3. Pattern!Last \in Pattern!Candidates /\ LastNumber \in Nat /\ carried \in Nat
    BY <2>1, LastIs, LastNumberIs DEF PatInv, PatTypes
  <2>4. CASE Pattern!Last[1] = "char"
    <3>1. /\ Len(chars) = 1 /\ chars[1] # Pattern!Dollar /\ Owed = <<chars[1]>>
          /\ LastNumber = carried
      BY <2>1, <2>3, <2>4, SpelledIs, MeaningsAre, NumbersAre DEF Owed, LastNumber
    <3>2. out' = read /\ md' = "readChar" /\ curIndex' = curIndex
      BY <2>1, <2>2, <3>1 DEF Pattern!ReadChar, Pattern!Write
    <3>3. QED
      BY <2>1, <3>1, <3>2, CharFed DEF CharRead, Between
  <2>5. CASE Pattern!Last[1] # "char"
    <3>1. chars[1] = Pattern!Dollar
      BY <2>1, <2>3, <2>5, SpelledIs DEF Pattern!InParens
    <3>2. md' = "readStartArg" /\ out' = out /\ curIndex' = curIndex
      BY <2>2, <3>1 DEF Pattern!ReadChar, Pattern!Goto
    <3>3. chars' = Tail(Pattern!Spelled(Pattern!Last))
      BY <2>1, CharFed
    <3>4. Pattern!Last' = Pattern!Last /\ items' = items /\ read' = read /\ carried' = carried /\ Owed' = Owed
      BY CharFed
    <3>5. BehindDollar'
      BY <2>1, <2>5, <3>2, <3>3, <3>4 DEF BehindDollar
    <3>6. QED
      BY <3>2, <3>5, CharFed DEF CharRead
  <2>6. QED
    BY <2>4, <2>5
<1>3. QED
  BY <1>1, <1>2

\* the one behind its $,
LEMMA FromDollar ==
  ASSUME PatInv, Pattern!Feed, BehindDollar
  PROVE  CharRead
<1> DEFINE item == Pattern!Last
           s == Pattern!Spelled(item)
           n == item[2]
<1>1. /\ md = "readStartArg" /\ items # <<>> /\ item[1] # "char" /\ chars = Tail(s)
      /\ read = out \o Owed /\ curIndex = carried
  BY DEF BehindDollar
<1>2. Pattern!ReadStartArg(chars[1])
  BY <1>1, CharFed DEF Pattern!ReadArgIndex, Pattern!ReadChar, Pattern!ReadParIndex
<1>3. item \in Pattern!Candidates /\ LastNumber \in Nat /\ carried \in Nat
  BY <1>1, LastIs, LastNumberIs DEF PatInv, PatTypes
<1>4. /\ s \in Seq(Nat) /\ item[1] \in {"char", "dollar", "arg", "paren", "unclosed"}
      /\ item[1] = "dollar" => Len(s) = 2 /\ s[2] = Pattern!Dollar 
      /\ item[1] = "arg" =>
           /\ n \in 0..99
           /\ n < 10 => Len(s) = 2 /\ s[2] = n
           /\ n >= 10 => Len(s) = 3 /\ s[2] = n \div 10 /\ s[3] = n % 10
      /\ Pattern!InParens(item) =>
           /\ n \in 0..99 /\ s[2] = Pattern!Open
           /\ n < 10 => Len(s) = 4 /\ s[3] = n /\ s[4] = (IF item[1] = "paren" THEN Pattern!Close ELSE Pattern!Letter)
           /\ n >= 10 => Len(s) = 5 /\ s[3] = n \div 10 /\ s[4] = n % 10
                         /\ s[5] = (IF item[1] = "paren" THEN Pattern!Close ELSE Pattern!Letter)
  BY <1>3, SpelledIs
<1>4a. /\ item[1] = "dollar" => Owed = <<Pattern!Dollar>> /\ LastNumber = carried
       /\ item[1] = "arg" => Owed = Pattern!NthArg(n)
  <2>1. /\ item[1] = "dollar" => LastNumber = carried
        /\ item[1] = "arg" => LastNumber = n
    BY <1>3, NumbersAre DEF LastNumber
  <2>2. QED
    BY <1>3, <2>1, MeaningsAre DEF Owed
<1>5. /\ items' = items /\ read' = read /\ carried' = carried /\ Owed' = Owed /\ LastNumber' = LastNumber /\ chars' = Tail(chars) /\ curIndex \in Nat /\ out \in Seq(Nat) /\ read \in Seq(Nat)
      /\ Len(chars) \in Nat /\ Len(chars) >= 1 /\ item' = item
      /\ Len(chars') = Len(chars) - 1 /\ \A i \in 1..Len(chars') : chars'[i] = chars[i + 1]
      /\ Len(chars) = 1 => chars' = <<>>
      /\ Len(chars) > 1 => chars' # <<>> /\ chars'[Len(chars')] = chars[Len(chars)]
  BY CharFed
<1> HIDE DEF s, item
<1>6. /\ Len(chars) = Len(s) - 1 /\ Len(s) \in Nat
      /\ \A i \in 1..Len(chars) : chars[i] = s[i + 1]
  <2>1. s # <<>>
    BY <1>1, <1>5, <1>4
  <2>2. QED
    BY <1>1, <1>4, <2>1
<1>7. chars[1] = s[2]
  BY <1>5, <1>6
<1>8. CASE item[1] = "dollar"
  <2>1. Len(chars) = 1 /\ chars[1] = 10 /\ Pattern!Dollar = 10
    BY <1>4, <1>6, <1>7, <1>8, Numbers
  <2>2. chars[1] \notin Pattern!Digits \cup {Pattern!Open}
    BY <2>1, Numbers
  <2>3. out' = read /\ md' = "readChar" /\ curIndex' = curIndex
    BY <1>1, <1>2, <1>4a, <1>8, <2>1, <2>2 DEF Pattern!ReadStartArg, Pattern!Write, Pattern!Goto
  <2>4. QED
    BY <1>1, <1>4a, <1>5, <1>8, <2>1, <2>3 DEF CharRead, Between
<1>9. CASE item[1] = "arg"
  <2>1. n \in 0..99 /\ Owed = Pattern!NthArg(n)
    BY <1>4, <1>4a, <1>9
  <2>2. chars[1] \in Pattern!Digits /\ chars[1] \in Nat /\ chars[1] # Pattern!Open
    <3>1. chars[1] \in 0..9
      <4>1. n \in Nat /\ n \div 10 \in 0..9 /\ (n < 10 => n \in 0..9) /\ (n < 10 \/ n >= 10)
        BY <2>1, Numbers
      <4>2. QED
        BY <1>4, <1>7, <1>9, <4>1
    <3>2. QED
      BY <3>1, Numbers
  <2>3. curIndex' = chars[1] /\ md' = "readArgIndex" /\ out' = out
    BY <1>2, <2>2 DEF Pattern!ReadStartArg, Pattern!Goto
  <2>4. \/ chars' = <<>> /\ curIndex' = n
        \/ Len(chars') = 1 /\ n >= 10 /\ chars'[1] = n % 10 /\ curIndex' = n \div 10
    <3>1. CASE n < 10
      <4>1. Len(s) = 2 /\ s[2] = n
        BY <1>4, <1>9, <3>1
      <4>2. Len(chars) = 1 /\ chars[1] = n
        BY <1>6, <1>7, <4>1
      <4>3. QED
        BY <1>5, <2>3, <4>2
    <3>2. CASE n >= 10
      <4>1. Len(s) = 3 /\ s[2] = n \div 10 /\ s[3] = n % 10
        BY <1>4, <1>9, <3>2
      <4>2. Len(chars) = 2 /\ chars[2] = s[2 + 1]
        BY <1>6, <4>1
      <4>3. Len(chars') = 1 /\ chars'[1] = chars[1 + 1]
        BY <1>5, <4>2
      <4>4. QED
        BY <1>7, <2>3, <3>2, <4>1, <4>2, <4>3
    <3>3. n < 10 \/ n >= 10
      BY <2>1
    <3>4. QED
      BY <3>1, <3>2, <3>3
  <2>5. InIndex'
    BY <1>1, <1>5, <1>9, <2>1, <2>3, <2>4 DEF InIndex, item
  <2>6. QED
    BY <1>5, <2>2, <2>3, <2>5 DEF CharRead
<1>10. CASE Pattern!InParens(item)
  <2>1. n \in 0..99 /\ chars[1] = Pattern!Open /\ curIndex = carried
    BY <1>1, <1>4, <1>7, <1>10
  <2>2. chars[1] \notin Pattern!Digits
    BY <2>1, Numbers
  <2>3. curIndex' = carried' /\ md' = "readParIndex" /\ out' = out
    BY <1>2, <1>5, <2>1, <2>2 DEF Pattern!ReadStartArg, Pattern!Goto
  <2> DEFINE t == IF item[1] = "paren" THEN Pattern!Close ELSE Pattern!Letter
  <2>4. /\ chars' # <<>> /\ chars'[Len(chars')] = t
        /\ \/ Len(chars') = 3 /\ n >= 10 /\ chars'[1] = n \div 10 /\ chars'[2] = n % 10
           \/ Len(chars') = 2 /\ n < 10 /\ chars'[1] = n
    <3>1. CASE n < 10
      <4>1. Len(s) = 4 /\ s[3] = n /\ s[4] = t
        BY <1>4, <1>10, <3>1
      <4>2. Len(chars) = 3 /\ chars[2] = s[2 + 1] /\ chars[3] = s[3 + 1]
        BY <1>6, <4>1
      <4>3. Len(chars') = 2 /\ chars'[1] = chars[1 + 1] /\ chars' # <<>> /\ chars'[Len(chars')] = chars[3]
        BY <1>5, <4>2
      <4>4. QED
        BY <3>1, <4>1, <4>2, <4>3
    <3>2. CASE n >= 10
      <4>1. Len(s) = 5 /\ s[3] = n \div 10 /\ s[4] = n % 10 /\ s[5] = t
        BY <1>4, <1>10, <3>2
      <4>2. Len(chars) = 4 /\ chars[2] = s[2 + 1] /\ chars[3] = s[3 + 1] /\ chars[4] = s[4 + 1]
        BY <1>6, <4>1
      <4>3. Len(chars') = 3 /\ chars' # <<>> /\ chars'[Len(chars')] = chars[4]
        BY <1>5, <4>2
      <4>3a. chars'[1] = chars[1 + 1] /\ chars'[2] = chars[2 + 1]
        BY <1>5, <4>3
      <4>4. QED
        BY <3>2, <4>1, <4>2, <4>3, <4>3a
    <3>3. n < 10 \/ n >= 10
      BY <2>1
    <3>4. QED
      BY <3>1, <3>2, <3>3
  <2> HIDE DEF t
  <2>5. InParIndex'
    BY <1>1, <1>5, <1>10, <2>3, <2>4 DEF InParIndex, item, t
  <2>6. QED
    BY <1>3, <1>5, <2>3, <2>5 DEF CharRead
<1>11. QED
  BY <1>1, <1>4, <1>8, <1>9, <1>10 DEF Pattern!InParens

\* one behind the first digit of $n,
LEMMA FromIndex ==
  ASSUME PatInv, Pattern!Feed, InIndex
  PROVE  CharRead
<1> DEFINE item == Pattern!Last
           n == item[2]
           c == chars[1]
<1>1. /\ md = "readArgIndex" /\ items # <<>> /\ item[1] = "arg" /\ read = out \o Pattern!NthArg(n)
      /\ chars = <<>> \/ (Len(chars) = 1 /\ n >= 10 /\ c = n % 10 /\ curIndex = n \div 10)
  BY DEF InIndex
<1>2. item \in Pattern!Candidates
  BY <1>1, LastIs DEF PatInv
<1>3. n \in 0..99
  BY <1>1, <1>2, SpelledIs
<1>4. /\ items' = items /\ read' = read /\ curIndex \in Nat /\ out \in Seq(Nat) /\ read \in Seq(Nat)
      /\ Len(chars) \in Nat /\ Len(chars) >= 1 /\ item' = item
      /\ Len(chars) = 1 => chars' = <<>>
  BY CharFed
<1>5. Pattern!ReadArgIndex(c)
  BY <1>1, CharFed DEF Pattern!ReadChar, Pattern!ReadStartArg, Pattern!ReadParIndex
<1>6. chars # <<>>
  <2>1. Len(<<>>) = 0
    OBVIOUS
  <2>2. QED
    BY <1>4, <2>1
<1> HIDE DEF item, c
<1>7. Len(chars) = 1 /\ n >= 10 /\ c = n % 10 /\ curIndex = n \div 10
  BY <1>1, <1>6
<1>8. c \in Pattern!Digits /\ Pattern!Shift(curIndex, c) = n
  <2>1. c \in 0..9 /\ curIndex * 10 + c = n
    BY <1>3, <1>7, Numbers
  <2>2. c \in Nat /\ n < 100
    BY <1>3, <2>1
  <2>3. Pattern!Shift(curIndex, c) = n
    BY <1>4, <2>1, <2>2, ShiftIs
  <2>4. QED
    BY <2>1, <2>3, Numbers
<1>9. curIndex' = n /\ md' = md /\ out' = out
  BY <1>5, <1>8 DEF Pattern!ReadArgIndex
<1>10. InIndex'
  BY <1>1, <1>4, <1>7, <1>9 DEF InIndex, item
<1>11. n \in Nat
  BY <1>3, Numbers
<1>12. QED
  BY <1>4, <1>9, <1>10, <1>11 DEF CharRead

\* one inside the parentheses of $(n).
LEMMA FromParIndex ==
  ASSUME PatInv, Pattern!Feed, InParIndex
  PROVE  CharRead
<1> DEFINE item == Pattern!Last
           n == item[2]
           c == chars[1]
           t == IF item[1] = "paren" THEN Pattern!Close ELSE Pattern!Letter
<1>1. /\ md = "readParIndex" /\ items # <<>> /\ Pattern!InParens(item) /\ read = out \o Owed
      /\ chars # <<>> /\ chars[Len(chars)] = t
      /\ \/ Len(chars) = 3 /\ n >= 10 /\ c = n \div 10 /\ chars[2] = n % 10 /\ curIndex = carried
         \/ Len(chars) = 2 /\ n >= 10 /\ c = n % 10 /\ curIndex = Pattern!Shift(carried, n \div 10)
         \/ Len(chars) = 2 /\ n < 10 /\ c = n /\ curIndex = carried
         \/ Len(chars) = 1 /\ curIndex = LastNumber
  BY DEF InParIndex
<1>2. item \in Pattern!Candidates /\ LastNumber \in Nat /\ carried \in Nat
  BY <1>1, LastIs, LastNumberIs DEF PatInv, PatTypes
<1>3. /\ n \in 0..99
      /\ item[1] = "paren" => Owed = Pattern!NthArg(LastNumber)
      /\ item[1] = "unclosed" => Owed = <<Pattern!Dollar, Pattern!Open, Pattern!Printed(LastNumber), Pattern!Letter>>
      /\ n < 10 => LastNumber = Pattern!Shift(carried, n)
      /\ n >= 10 => LastNumber = Pattern!Shift(Pattern!Shift(carried, n \div 10), n % 10)
  BY <1>1, <1>2, SpelledIs, MeaningsAre, NumbersAre DEF Owed, LastNumber
<1>3a. n \in Nat /\ n \div 10 \in Nat /\ n \div 10 \in 0..9 /\ n % 10 \in 0..9 /\ (n \div 10) * 10 + (n % 10) = n
  <2>1. n \in Nat /\ n \div 10 \in 0..9 /\ n % 10 \in 0..9 /\ (n \div 10) * 10 + (n % 10) = n
    BY <1>3, Numbers
  <2>2. \A k \in 0..9 : k \in Nat
    OBVIOUS
  <2>3. QED
    BY <2>1, <2>2
<1>4. /\ items' = items /\ read' = read /\ carried' = carried /\ Owed' = Owed /\ LastNumber' = LastNumber /\ chars' = Tail(chars) /\ curIndex \in Nat /\ out \in Seq(Nat) /\ read \in Seq(Nat)
      /\ Len(chars) \in Nat /\ Len(chars) >= 1 /\ item' = item
      /\ Len(chars') = Len(chars) - 1 /\ \A i \in 1..Len(chars') : chars'[i] = chars[i + 1]
      /\ Len(chars) = 1 => chars' = <<>>
      /\ Len(chars) > 1 => chars' # <<>> /\ chars'[Len(chars')] = chars[Len(chars)]
  BY CharFed
<1>5. Pattern!ReadParIndex(c)
  BY <1>1, CharFed DEF Pattern!ReadChar, Pattern!ReadStartArg, Pattern!ReadArgIndex
<1> HIDE DEF item, c
<1>7. ASSUME c \in Pattern!Digits
      PROVE  curIndex' = Pattern!Shift(curIndex, c) /\ curIndex' \in Nat /\ md' = md /\ out' = out
  <2>1. curIndex' = Pattern!Shift(curIndex, c) /\ md' = md /\ out' = out
    BY <1>5, <1>7, Numbers DEF Pattern!ReadParIndex
  <2>2. c \in Nat
    BY <1>7, Numbers
  <2>3. QED
    BY <1>4, <2>1, <2>2, ShiftIs
<1> HIDE DEF t
<1>8. CASE Len(chars) = 3
  <2>1. n >= 10 /\ c = n \div 10 /\ chars[2] = n % 10 /\ curIndex = carried
    BY <1>1, <1>8
  <2>2. c \in Pattern!Digits /\ n \div 10 \in Nat
    BY <1>3a, <2>1, Numbers
  <2>3. curIndex' = Pattern!Shift(carried, n \div 10) /\ curIndex' \in Nat /\ md' = md /\ out' = out
    BY <1>7, <2>1, <2>2
  <2>4. Len(chars') = 2 /\ chars'[1] = chars[1 + 1] /\ chars' # <<>> /\ chars'[Len(chars')] = t
    BY <1>1, <1>4, <1>8
  <2>5. InParIndex'
    <3>1. LET x == Pattern!Last'[2]
          IN  Len(chars') = 2 /\ x >= 10 /\ chars'[1] = x % 10 /\ curIndex' = Pattern!Shift(carried', x \div 10)
      BY <1>4, <2>1, <2>3, <2>4 DEF item
    <3>2. md' = "readParIndex" /\ items' # <<>> /\ read' = out' \o Owed' /\ Pattern!InParens(item)
      BY <1>1, <1>4, <2>3
    <3>3. QED
      BY <1>4, <2>4, <3>1, <3>2 DEF InParIndex, item, t
  <2>6. QED
    BY <1>4, <2>3, <2>5 DEF CharRead
<1>9. CASE Len(chars) = 2 /\ n >= 10
  <2>1. c = n % 10 /\ curIndex = Pattern!Shift(carried, n \div 10)
    BY <1>1, <1>3a, <1>9
  <2>2. c \in Pattern!Digits /\ Pattern!Shift(curIndex, c) = LastNumber
    BY <1>3, <1>3a, <1>9, <2>1, Numbers
  <2>3. curIndex' = LastNumber /\ curIndex' \in Nat /\ md' = md /\ out' = out
    BY <1>7, <2>2
  <2>4. Len(chars') = 1 /\ chars' # <<>> /\ chars'[Len(chars')] = t
    BY <1>1, <1>4, <1>9
  <2>5. InParIndex'
    BY <1>1, <1>4, <2>1, <2>3, <2>4 DEF InParIndex, item, t
  <2>6. QED
    BY <1>4, <2>3, <2>5 DEF CharRead
<1>10. CASE Len(chars) = 2 /\ n < 10
  <2>1. c = n /\ curIndex = carried
    <3>1. ~(n >= 10) /\ Len(chars) # 3 /\ Len(chars) # 1
      BY <1>3a, <1>10
    <3>2. QED
      BY <1>1, <3>1, Zenon
  <2>2. c \in Pattern!Digits /\ Pattern!Shift(curIndex, c) = LastNumber
    <3>1. n \in 0..9
      BY <1>3a, <1>10
    <3>2. QED
      BY <1>3, <1>10, <2>1, <3>1, Numbers
  <2>3. curIndex' = LastNumber /\ curIndex' \in Nat /\ md' = md /\ out' = out
    BY <1>7, <2>2
  <2>4. Len(chars') = 1 /\ chars' # <<>> /\ chars'[Len(chars')] = t
    BY <1>1, <1>4, <1>10
  <2>5. InParIndex'
    BY <1>1, <1>4, <2>1, <2>3, <2>4 DEF InParIndex, item, t
  <2>6. QED
    BY <1>4, <2>3, <2>5 DEF CharRead
<1>11. CASE Len(chars) = 1
  <2>1. c = t /\ curIndex = LastNumber
    BY <1>1, <1>3, <1>11 DEF c
  <2>2. c \notin Pattern!Digits
    BY <2>1, Numbers DEF t
  <2>3. CASE item[1] = "paren"
    <3>1. c = Pattern!Close
      BY <2>1, <2>3 DEF t
    <3>2. out' = out \o Pattern!NthArg(curIndex) /\ md' = "readChar" /\ curIndex' = curIndex
      BY <1>5, <2>2, <3>1 DEF Pattern!ReadParIndex, Pattern!Write, Pattern!Goto
    <3>3. QED
      BY <1>1, <1>3, <1>4, <1>11, <2>1, <2>3, <3>2 DEF CharRead, Between
  <2>4. CASE item[1] # "paren"
    <3>1. c = Pattern!Letter /\ item[1] = "unclosed"
      BY <1>1, <2>1, <2>4 DEF t, Pattern!InParens
    <3>2. c \notin Pattern!Digits \cup {Pattern!Close}
      BY <2>2, <3>1, Numbers
    <3>3. /\ out' = out \o <<Pattern!Dollar, Pattern!Open, Pattern!Printed(curIndex), c>>
          /\ md' = "readChar" /\ curIndex' = curIndex
      BY <1>5, <3>2 DEF Pattern!ReadParIndex, Pattern!Write, Pattern!Goto
    <3>4. out' = read /\ curIndex' = LastNumber
      BY <1>1, <1>3, <2>1, <3>1, <3>3
    <3>5. QED
      BY <1>4, <1>11, <3>3, <3>4 DEF CharRead, Between
  <2>5. QED
    BY <2>3, <2>4
<1>12. QED
  BY <1>1, <1>8, <1>9, <1>10, <1>11

\* Whatever was read before, a character leaves what the invariant says.
LEMMA FeedStep ==
  ASSUME PatInv, Pattern!Feed
  PROVE  PatInv'
<1>1. Before \/ BehindDollar \/ InIndex \/ InParIndex
  <2>1. ~done /\ ~Between
    BY CharFed DEF Between, Pattern!Feed
  <2>2. QED
    BY <2>1 DEF PatInv
<1>2. QED
  BY <1>1, FromBefore, FromDollar, FromIndex, FromParIndex, ReadsKeep

\* Nothing was read.
LEMMA PatInitially ==
  ASSUME Pattern!Init
  PROVE  PatInv
<1>1. /\ md = "readChar" /\ curIndex = 0 /\ out = <<>> /\ chars = <<>> /\ items = <<>> /\ read = <<>> /\ done = FALSE
      /\ says = <<>> /\ carried = 0
  BY DEF Pattern!Init
<1>2. PatTypes
  <2>1. /\ out \in Seq(Nat) /\ chars \in Seq(Nat) /\ read \in Seq(Nat) /\ curIndex \in Nat /\ done \in BOOLEAN
    <3>1. <<>> \in Seq(Nat) /\ 0 \in Nat /\ FALSE \in BOOLEAN
      OBVIOUS
    <3>2. QED
      BY <1>1, <3>1, Zenon
  <2>1a. says \in Seq(Nat) /\ carried \in Nat
    BY <1>1
  <2>2. items \in Seq(Pattern!Candidates)
    BY <1>1
  <2>3. QED
    BY <2>1, <2>1a, <2>2 DEF PatTypes
<1>3. LastNumber = 0
  BY <1>1 DEF LastNumber, Pattern!Last, Pattern!Number, Pattern!InParens
<1>4. Between
  BY <1>1, <1>3 DEF Between
<1>5. QED
  BY <1>1, <1>2, <1>3, <1>4 DEF PatInv

\* A step of something else reads nothing.
LEMMA PatStutter ==
  ASSUME PatInv, UNCHANGED prints
  PROVE  PatInv'
<1>1. /\ md' = md /\ curIndex' = curIndex /\ out' = out /\ chars' = chars /\ items' = items /\ read' = read /\ done' = done
      /\ says' = says /\ carried' = carried
  BY DEF prints
<1>2. /\ Pattern!Last' = Pattern!Last /\ LastNumber' = LastNumber /\ Owed' = Owed
      /\ (SomeIndex' <=> SomeIndex) /\ (Pattern!InOrder' <=> Pattern!InOrder)
  BY <1>1 DEF Pattern!Last, LastNumber, Owed, SomeIndex, Pattern!InOrder
<1>3. PatTypes' /\ (~SomeIndex => LastNumber = 0)' /\ (Pattern!InOrder => read = says)'
  BY <1>1, <1>2 DEF PatInv, PatTypes
<1>4. /\ Between' <=> Between
      /\ Before' <=> Before
      /\ BehindDollar' <=> BehindDollar
      /\ InIndex' <=> InIndex
      /\ InParIndex' <=> InParIndex
  BY <1>1, <1>2 DEF Between, Before, BehindDollar, InIndex, InParIndex
<1>5. QED
  BY <1>1, <1>3, <1>4 DEF PatInv

\* logPrint() replaces every placeholder by the argument of its number and keeps
\* the rest (logOutput.h), as documented where no $(n) is behind another
\* placeholder, and with the number that it left before its own where one is.
THEOREM PlaceholdersAreReplaced ==
  PatternSpec => []PlaceholdersReplaced
<1>1. Pattern!Init => PatInv
  BY PatInitially
<1>2. PatInv /\ [Pattern!Next]_prints => PatInv'
  BY ItemStep, FeedStep, EndStep, PatStutter DEF Pattern!Next
<1>3. PatInv => PlaceholdersReplaced
  BY DEF PatInv, PlaceholdersReplaced, Pattern!PlaceholdersReplaced
<1>4. QED
  BY <1>1, <1>2, <1>3, PTL DEF PatternSpec

-----------------------------------------------------------------------------
(* ini_parser.h *)

\* Characters, what is reported, and the members of the parser.
IniChars == FileChars \cup {Parser!Nul, Parser!NewLine, Parser!Space, "\\"}
IniText == Seq(IniChars)
IniItem == [type : {"comment", "data", "directive"}, section : IniText, key : IniText, value : IniText]
IniStates ==
  {"beginLine", "comment", "section", "key", "value", "valueEscaped", "valueEscapedNl", "waitForEoln",
   "directiveKeyword", "directiveData"}
Parsers ==
  [buffer : IniText, sectionSize : Nat, keySize : Nat, escapeChar : IniChars,
   curState : IniStates, afterEscapeState : IniStates, items : Seq(IniItem)]
IniKinds == {"none", "comment", "section", "keyword", "key", "value", "directive"}
IniLines == [kind : IniKinds, key : IniText, value : IniText, broken : BOOLEAN]

\* A header may neither end with a space nor hold the end of a line.
OneLine(s) == \A i \in DOMAIN s : s[i] # Parser!NewLine
Header(s) == Append(s, Parser!Nul)
\* The state that reads what a line of this kind is at.
Reader ==
  [none |-> "beginLine", comment |-> "comment", section |-> "section", keyword |-> "directiveKeyword",
   key |-> "key", value |-> "value", directive |-> "directiveData"]

\* A parser p that was given what line l holds so far, in section s, with the
\* escape character e, and reported its: what every line keeps, ...
LineKeeps(p, l, s, e, its) ==
  /\ p \in Parsers /\ l \in IniLines /\ s \in IniText /\ e \in IniChars
  /\ p.items = its /\ p.escapeChar = e /\ ~Parser!isspace(e)
  /\ ~Parser!EndsSpaced(s) /\ OneLine(s)
  /\ (l.kind # "section" => p.sectionSize = Len(s) + 1)
  /\ (l.kind # "none" => its = <<>>)
\* ... the buffer, which holds the section and what was read of the line, ...
LineHeld(p, l, s) ==
  /\ (l.kind = "none" => \E rest \in IniText : p.buffer = Header(s) \o rest)
  /\ (l.kind \in {"comment", "keyword", "key"} => p.buffer = Header(s) \o l.key)
  /\ (l.kind = "section" => p.buffer = l.key /\ OneLine(l.key))
  /\ (l.kind \in {"value", "directive"} =>
       /\ p.buffer = Header(s) \o (Append(l.key, Parser!Nul) \o l.value)
       /\ p.keySize = Len(l.key) + 1)
  /\ (l.kind \notin {"value", "directive"} => l.value = <<>> /\ ~l.broken)
\* ... and the state it is in.
LineState(p, l) ==
  IF l.broken THEN p.curState = "valueEscapedNl" /\ p.afterEscapeState = Reader[l.kind]
  ELSE p.curState = Reader[l.kind]
Fits(p, l, s, e, its) == LineKeeps(p, l, s, e, its) /\ LineHeld(p, l, s) /\ LineState(p, l)

\* The parser fits the file, until it takes something for something else.
IniFits == Fits(parser, iniLine, iniSection, iniEscape, iniItems)
IniInv == odd = {} => IniFits

\* What a text does when it grows, and what two of them are together.
LEMMA TextGrows ==
  /\ \A s \in IniText, c \in IniChars :
       /\ Append(s, c) \in IniText /\ Len(s) \in Nat /\ Len(Append(s, c)) = Len(s) + 1
       /\ Append(s, c)[Len(s) + 1] = c /\ DOMAIN s = 1..Len(s) /\ DOMAIN Append(s, c) = 1..(Len(s) + 1)
       /\ \A i \in 1..Len(s) : Append(s, c)[i] = s[i]
  /\ \A s, w \in IniText : s \o w \in IniText /\ Len(s \o w) = Len(s) + Len(w) /\ s \o <<>> = s
  /\ <<>> \in IniText /\ Len(<<>>) = 0
<1> DEFINE C == IniChars
<1> HIDE DEF C
<1>1. \A s \in Seq(C), c \in C :
       /\ Append(s, c) \in Seq(C) /\ Len(s) \in Nat /\ Len(Append(s, c)) = Len(s) + 1
       /\ Append(s, c)[Len(s) + 1] = c /\ DOMAIN s = 1..Len(s) /\ DOMAIN Append(s, c) = 1..(Len(s) + 1)
       /\ \A i \in 1..Len(s) : Append(s, c)[i] = s[i]
  OBVIOUS
<1>2. \A s, w \in Seq(C) : s \o w \in Seq(C) /\ Len(s \o w) = Len(s) + Len(w) /\ s \o <<>> = s
  OBVIOUS
<1>4. <<>> \in Seq(C) /\ Len(<<>>) = 0
  OBVIOUS
<1>5. QED
  BY <1>1, <1>2, <1>4 DEF IniText, C

\* A text that grows at its end.
LEMMA GrowsBehind ==
  ASSUME NEW s \in IniText, NEW w \in IniText, NEW c \in IniChars
  PROVE  Append(s \o w, c) = s \o Append(w, c)
<1> DEFINE C == IniChars
<1>1. s \in Seq(C) /\ w \in Seq(C) /\ c \in C
  BY DEF IniText
<1> HIDE DEF C
<1>2. QED
  BY <1>1

\* The members of a parser, one by one.
Is(p, buf, size, keySize, esc, state, after, items0) ==
  /\ p \in Parsers /\ p.buffer = buf /\ p.sectionSize = size /\ p.keySize = keySize /\ p.escapeChar = esc
  /\ p.curState = state /\ p.afterEscapeState = after /\ p.items = items0

\* A parser, and what each part of a handler leaves of it: another state,
LEMMA ParserIs ==
  ASSUME NEW p \in Parsers
  PROVE  /\ Is(p, p.buffer, p.sectionSize, p.keySize, p.escapeChar, p.curState, p.afterEscapeState, p.items)
         /\ p.buffer \in IniText /\ p.sectionSize \in Nat /\ p.keySize \in Nat /\ p.escapeChar \in IniChars
         /\ p.curState \in IniStates /\ p.afterEscapeState \in IniStates /\ p.items \in Seq(IniItem)
  BY DEF Is, Parsers

\* What each step of the parser does to them.
LEMMA KeepIs ==
  ASSUME NEW p \in Parsers, NEW c \in IniChars
  PROVE  Is(Parser!Keep(p, c), Append(p.buffer, c), p.sectionSize, p.keySize, p.escapeChar, p.curState, p.afterEscapeState, p.items)
<1>1. Append(p.buffer, c) \in IniText
  BY TextGrows, ParserIs
<1>2. QED
  BY <1>1 DEF Is, Parsers, Parser!Keep

LEMMA GotoIs ==
  ASSUME NEW p \in Parsers, NEW state \in IniStates
  PROVE  Is(Parser!Goto(p, state), p.buffer, p.sectionSize, p.keySize, p.escapeChar, state, p.afterEscapeState, p.items)
  BY DEF Is, Parsers, Parser!Goto

\* another state behind an escape,
LEMMA AfterIs ==
  ASSUME NEW p \in Parsers, NEW state \in IniStates
  PROVE  Is([p EXCEPT !.afterEscapeState = state], p.buffer, p.sectionSize, p.keySize, p.escapeChar, p.curState, state, p.items)
  BY DEF Is, Parsers

\* other items,
LEMMA ItemsIs ==
  ASSUME NEW p \in Parsers, NEW its \in Seq(IniItem)
  PROVE  Is([p EXCEPT !.items = its], p.buffer, p.sectionSize, p.keySize, p.escapeChar, p.curState, p.afterEscapeState, its)
  BY DEF Is, Parsers

\* another buffer,
LEMMA BufferIs ==
  ASSUME NEW p \in Parsers, NEW b \in IniText
  PROVE  Is([p EXCEPT !.buffer = b], b, p.sectionSize, p.keySize, p.escapeChar, p.curState, p.afterEscapeState, p.items)
  BY DEF Is, Parsers

\* a key that ended,
LEMMA KeyEndsIs ==
  ASSUME NEW p \in Parsers, Len(p.buffer) >= p.sectionSize
  PROVE  Is(Parser!KeyEnds(p), Append(p.buffer, Parser!Nul), p.sectionSize, Len(p.buffer) + 1 - p.sectionSize, p.escapeChar,
            p.curState, p.afterEscapeState, p.items)
<1> DEFINE q == Parser!Keep(p, Parser!Nul)
           k == Len(p.buffer) + 1 - p.sectionSize
<1>1. Parser!Nul \in IniChars
  BY DEF IniChars
<1>2. Is(q, Append(p.buffer, Parser!Nul), p.sectionSize, p.keySize, p.escapeChar, p.curState, p.afterEscapeState, p.items)
  BY <1>1, KeepIs
<1>3. k \in Nat
  <2>1. p.buffer \in IniText /\ p.sectionSize \in Nat
    BY ParserIs
  <2>2. Len(p.buffer) \in Nat
    BY <1>1, <2>1, TextGrows
  <2>3. QED
    BY <2>1, <2>2
<1>4. Parser!KeyEnds(p) = [q EXCEPT !.keySize = k]
  BY DEF Parser!KeyEnds
<1> HIDE DEF q, k
<1>5. q \in Parsers
  BY <1>2 DEF Is
<1>6. Is([q EXCEPT !.keySize = k], q.buffer, q.sectionSize, k, q.escapeChar, q.curState, q.afterEscapeState, q.items)
  BY <1>3, <1>5 DEF Is, Parsers
<1>7. QED
  BY <1>2, <1>4, <1>6 DEF Is, k

\* a buffer without what is behind the section.
LEMMA FreshIs ==
  ASSUME NEW p \in Parsers, NEW s \in IniText, NEW rest \in IniText, p.buffer = s \o rest, p.sectionSize = Len(s)
  PROVE  Is(Parser!Fresh(p), s, p.sectionSize, p.keySize, p.escapeChar, p.curState, p.afterEscapeState, p.items)
<1>1. SubSeq(s \o rest, 1, Len(s)) = s
  <2> DEFINE C == IniChars
             u == SubSeq(s \o rest, 1, Len(s))
  <2> HIDE DEF C
  <2>1. s \in Seq(C) /\ rest \in Seq(C)
    BY DEF IniText, C
  <2>2. u \in Seq(C) /\ Len(u) = Len(s) /\ \A i \in 1..Len(s) : u[i] = s[i]
    BY <2>1
  <2> HIDE DEF u
  <2>3. u = s
    BY <2>1, <2>2, SeqEqual
  <2>4. QED
    BY <2>3 DEF u
<1>2. Parser!Fresh(p) = [p EXCEPT !.buffer = SubSeq(p.buffer, 1, p.sectionSize)]
  BY DEF Parser!Fresh
<1>3. QED
  BY <1>1, <1>2, BufferIs

\* The characters that are something else than themselves.
LEMMA IniNames ==
  /\ {Parser!Nul, Parser!NewLine, Parser!Space, "\\"} \subseteq IniChars /\ FileChars \subseteq IniChars
  /\ \A c : (Parser!isnl(c) <=> c = Parser!NewLine) /\ (Parser!isspace(c) <=> c = Parser!NewLine \/ c = Parser!Space)
  /\ Parser!NewLine # Parser!Space /\ Parser!NewLine # Parser!Nul /\ Parser!Space # Parser!Nul
  BY DEF IniChars, Parser!isnl, Parser!isspace, Parser!NewLine, Parser!Space, Parser!Nul

\* The last of a set of positions.
LEMMA LargestNat ==
  ASSUME NEW n \in Nat, NEW T \in SUBSET (1..n), T # {}
  PROVE  \E i \in T : \A j \in T : j <= i
<1> DEFINE U == {n - j : j \in T}
<1>1. U \in SUBSET Nat /\ U # {}
  <2>1. \A j \in T : n - j \in Nat
    OBVIOUS
  <2>2. PICK j \in T : TRUE
    OBVIOUS
  <2>3. n - j \in U
    OBVIOUS
  <2>4. QED
    BY <2>1, <2>3
<1> HIDE DEF U
<1>2. PICK u \in U : \A w \in U : u <= w
  BY <1>1, SmallestNat
<1>3. PICK i \in T : u = n - i
  BY DEF U
<1>4. ASSUME NEW j \in T PROVE j <= i
  <2>1. n - j \in U
    BY DEF U
  <2>2. n - i <= n - j /\ i \in Int /\ j \in Int
    BY <1>2, <1>3, <2>1
  <2>3. QED
    BY <2>2
<1>5. QED
  BY <1>4

\* trim() leaves a text, and where it leaves one character this is no space.
LEMMA TrimIs ==
  ASSUME NEW s \in IniText
  PROVE  /\ Parser!trim(s) \in IniText
         /\ Len(Parser!trim(s)) = 1 => Parser!trim(s)[1] \in IniChars /\ ~Parser!isspace(Parser!trim(s)[1])
<1> DEFINE T == Parser!Solid(s)
           C == IniChars
<1>1. s \in Seq(C) /\ Len(s) \in Nat /\ DOMAIN s = 1..Len(s)
  BY DEF IniText
<1>2. T \in SUBSET (1..Len(s)) /\ \A i \in T : ~Parser!isspace(s[i])
  BY <1>1 DEF Parser!Solid
<1> HIDE DEF T, C
<1>3. CASE T = {}
  <2>1. Parser!trim(s) = <<>> /\ Len(<<>>) = 0 /\ <<>> \in IniText
    BY <1>3, TextGrows DEF Parser!trim, T
  <2>2. QED
    BY <2>1
<1>4. CASE T # {}
  <2> DEFINE f == Parser!FirstAt(s)
             l == Parser!LastAt(s)
             u == SubSeq(s, f, l)
  <2>1. f \in T
    <3>1. \E i \in T : \A j \in T : i <= j
      <4>1. T \in SUBSET Nat
        BY <1>2
      <4>2. QED
        BY <1>4, <4>1, SmallestNat
    <3>2. QED
      BY <3>1 DEF Parser!FirstAt, T
  <2>2. l \in T
    <3>1. \E i \in T : \A j \in T : j <= i
      BY <1>1, <1>2, <1>4, LargestNat
    <3>2. QED
      BY <1>4, <3>1 DEF Parser!LastAt, T
  <2> HIDE DEF f, l
  <2>3. f \in 1..Len(s) /\ l \in 1..Len(s) /\ ~Parser!isspace(s[f])
    BY <1>2, <2>1, <2>2
  <2>4. u \in Seq(C) /\ (Len(u) = 1 => u[1] = s[f]) /\ s[f] \in C
    BY <1>1, <2>3
  <2>5. Parser!trim(s) = u
    BY <1>4 DEF Parser!trim, T, f, l
  <2> HIDE DEF u
  <2>6. QED
    BY <2>3, <2>4, <2>5 DEF IniText, C
<1>5. QED
  BY <1>3, <1>4

\* A name that neither ends with a space nor has a second line is trimmed at its end already.
LEMMA EndsAtEnd ==
  ASSUME NEW s \in IniText, ~Parser!EndsSpaced(s), OneLine(s)
  PROVE  Parser!LastAt(s) = Len(s)
<1> DEFINE T == Parser!Solid(s)
<1>1. Len(s) \in Nat /\ DOMAIN s = 1..Len(s)
  BY DEF IniText
<1>2. CASE T = {}
  BY <1>2 DEF Parser!LastAt
<1>3. CASE T # {}
  <2>1. T \subseteq 1..Len(s)
    BY <1>1 DEF Parser!Solid
  <2>2. Len(s) \in 1..Len(s)
    BY <1>1, <1>3, <2>1
  <2>3. s # <<>>
    BY <2>2
  <2>4. s[Len(s)] # Parser!Space /\ s[Len(s)] # Parser!NewLine
    BY <1>1, <1>3, <2>2, <2>3 DEF Parser!EndsSpaced, OneLine
  <2>5. Len(s) \in T
    BY <1>1, <2>2, <2>4, IniNames DEF Parser!Solid
  <2> HIDE DEF T
  <2>6. \A i \in T : (\A j \in T : j <= i) <=> i = Len(s)
    <3>1. \A i \in T : i \in Nat /\ i <= Len(s)
      BY <1>1, <2>1
    <3>2. ASSUME NEW i \in T, \A j \in T : j <= i PROVE i = Len(s)
      <4>1. Len(s) <= i /\ i <= Len(s) /\ i \in Nat
        BY <2>5, <3>1, <3>2
      <4>2. \A x, y \in Nat : x <= y /\ y <= x => x = y
        OBVIOUS
      <4>3. QED
        BY <1>1, <4>1, <4>2, Zenon
    <3>3. QED
      BY <3>1, <3>2
  <2>7. (CHOOSE i \in T : \A j \in T : j <= i) = Len(s)
    BY <2>5, <2>6
  <2>8. QED
    BY <1>3, <2>7 DEF Parser!LastAt, T
<1>4. QED
  BY <1>2, <1>3

\* The three parts of a line in the buffer.
Split(b, s, k, v) ==
  /\ b \in IniText /\ Len(b) = Len(s) + Len(k) + Len(v) + 2 /\ b[Len(s) + 1] = Parser!Nul
  /\ SubSeq(b, 1, Len(s)) = s
  /\ SubSeq(b, Len(s) + 2, Len(s) + Len(k) + 1) = k
  /\ SubSeq(b, Len(s) + Len(k) + 3, Len(b)) = v

\* The buffer falls into section, key and value where the handlers cut it.
LEMMA PartsAre ==
  ASSUME NEW s \in IniText, NEW k \in IniText, NEW v \in IniText,
         NEW b, b = Append(s, Parser!Nul) \o (Append(k, Parser!Nul) \o v)
  PROVE  Split(b, s, k, v)
<1> DEFINE C == IniChars
           N == Parser!Nul
<1>0. b = Append(s, N) \o (Append(k, N) \o v)
  OBVIOUS
<1>1. N \in C
  BY IniNames
<1>2. s \in Seq(C) /\ k \in Seq(C) /\ v \in Seq(C)
  BY DEF IniText
<1> HIDE DEF C, N
<1>3. b \in Seq(C) /\ Len(b) = Len(s) + Len(k) + Len(v) + 2
  BY <1>0, <1>1, <1>2
<1>4. \A i \in 1..Len(s) : b[i] = s[i]
  BY <1>0, <1>1, <1>2
<1>5. b[Len(s) + 1] = N
  BY <1>0, <1>1, <1>2
<1> DEFINE w == Append(k, N) \o v
<1>6. /\ w \in Seq(C) /\ Len(w) = Len(k) + Len(v) + 1
      /\ \A i \in 1..Len(k) : w[i] = k[i]
      /\ \A i \in 1..Len(v) : w[Len(k) + 1 + i] = v[i]
  BY <1>1, <1>2
<1>7. \A i \in 1..Len(w) : b[Len(s) + 1 + i] = w[i]
  <2>1. b = Append(s, N) \o w
    BY <1>0
  <2> HIDE DEF w
  <2>2. QED
    BY <1>1, <1>2, <1>6, <2>1
<1> HIDE DEF w
<1>8. \A i \in 1..Len(k) : b[Len(s) + 1 + i] = k[i]
  BY <1>2, <1>6, <1>7
<1>9. \A i \in 1..Len(v) : b[Len(s) + 1 + (Len(k) + 1 + i)] = v[i]
  <2> SUFFICES ASSUME NEW i \in 1..Len(v) PROVE b[Len(s) + 1 + (Len(k) + 1 + i)] = v[i]
    OBVIOUS
  <2>1. Len(k) + 1 + i \in 1..Len(w) /\ w[Len(k) + 1 + i] = v[i]
    BY <1>2, <1>6
  <2>2. QED
    BY <1>7, <2>1
<1>10. SubSeq(b, 1, Len(s)) = s
  <2> DEFINE u == SubSeq(b, 1, Len(s))
  <2>1. u \in Seq(C) /\ Len(u) = Len(s) /\ \A i \in 1..Len(s) : u[i] = s[i]
    BY <1>2, <1>3, <1>4
  <2> HIDE DEF u
  <2>2. u = s
    BY <1>2, <2>1, SeqEqual
  <2>3. QED
    BY <2>2 DEF u
<1>11. SubSeq(b, Len(s) + 2, Len(s) + Len(k) + 1) = k
  <2> DEFINE u == SubSeq(b, Len(s) + 2, Len(s) + Len(k) + 1)
  <2>1. u \in Seq(C) /\ Len(u) = Len(k) /\ \A i \in 1..Len(k) : u[i] = b[Len(s) + 2 + i - 1]
    BY <1>2, <1>3
  <2>2. \A i \in 1..Len(k) : u[i] = k[i]
    <3> HIDE DEF u
    <3> SUFFICES ASSUME NEW i \in 1..Len(k) PROVE u[i] = k[i]
      OBVIOUS
    <3>1. Len(s) + 2 + i - 1 = Len(s) + 1 + i
      BY <1>2
    <3>2. QED
      BY <1>8, <2>1, <3>1
  <2> HIDE DEF u
  <2>3. u = k
    BY <1>2, <2>1, <2>2, SeqEqual
  <2>4. QED
    BY <2>3 DEF u
<1>12. SubSeq(b, Len(s) + Len(k) + 3, Len(b)) = v
  <2> DEFINE u == SubSeq(b, Len(s) + Len(k) + 3, Len(b))
  <2>1. u \in Seq(C) /\ Len(u) = Len(v) /\ \A i \in 1..Len(v) : u[i] = b[Len(s) + Len(k) + 3 + i - 1]
    BY <1>2, <1>3
  <2>2. \A i \in 1..Len(v) : u[i] = v[i]
    <3> HIDE DEF u
    <3> SUFFICES ASSUME NEW i \in 1..Len(v) PROVE u[i] = v[i]
      OBVIOUS
    <3>1. Len(s) + Len(k) + 3 + i - 1 = Len(s) + 1 + (Len(k) + 1 + i)
      BY <1>2
    <3>2. QED
      BY <1>9, <2>1, <3>1
  <2> HIDE DEF u
  <2>3. u = v
    BY <1>2, <2>1, <2>2, SeqEqual
  <2>4. QED
    BY <2>3 DEF u
<1>13. QED
  BY <1>3, <1>5, <1>10, <1>11, <1>12 DEF N, C, IniText, Split

\* The end of a line that has a key: the parser is at the beginning of the next,
\* with the section still in its buffer, and reported the line or took a new
\* escape character from it.
EndsAs(q, s, k, v, type, e) ==
  LET takes == type = "directive" /\ Parser!trim(k) = <<"\\">> /\ Len(Parser!trim(v)) = 1
  IN  /\ q \in Parsers /\ q.curState = "beginLine" /\ q.sectionSize = Len(s) + 1
      /\ \E rest \in IniText : q.buffer = Append(s, Parser!Nul) \o rest
      /\ takes => q.escapeChar = Parser!trim(v)[1] /\ q.items = <<>>
      /\ ~takes => /\ q.escapeChar = e
                   /\ q.items = <<Parser!Item(type, Parser!trim(s), Parser!trim(k), Parser!trim(v))>>

\* What the end of a line makes of its parts.
LEMMA EndOfLineIs ==
  ASSUME NEW p \in Parsers, NEW s \in IniText, NEW k \in IniText, NEW v \in IniText, NEW type \in {"data", "directive"},
         p.buffer = Append(s, Parser!Nul) \o (Append(k, Parser!Nul) \o v),
         p.sectionSize = Len(s) + 1, p.keySize = Len(k) + 1, p.items = <<>>,
         ~Parser!EndsSpaced(s), OneLine(s)
  PROVE  EndsAs(Parser!EndOfLine(p, type), s, k, v, type, p.escapeChar)
<1> DEFINE b == p.buffer
           N == Parser!Nul
           H == Append(s, N)
           w == Append(k, N) \o v
           L == Append(b, N)
           q == Parser!EndOfLine(p, type)
           cut == Parser!Goto([p EXCEPT !.buffer = L], "beginLine")
           takes == type = "directive" /\ Parser!trim(k) = <<"\\">> /\ Len(Parser!trim(v)) = 1
           item == Parser!Item(type, Parser!trim(s), Parser!trim(k), Parser!trim(v))
<1>1. N \in IniChars /\ Len(s) \in Nat /\ Len(k) \in Nat /\ Len(v) \in Nat
  BY IniNames, TextGrows
<1>2. /\ b \in IniText /\ Len(b) = Len(s) + Len(k) + Len(v) + 2 /\ b[Len(s) + 1] = N
      /\ SubSeq(b, 1, Len(s)) = s
      /\ SubSeq(b, Len(s) + 2, Len(s) + Len(k) + 1) = k
      /\ SubSeq(b, Len(s) + Len(k) + 3, Len(b)) = v
  <2>1. Split(p.buffer, s, k, v)
    BY PartsAre, Zenon
  <2>2. QED
    BY <2>1 DEF Split
<1>3. H \in IniText /\ w \in IniText
  BY <1>1, TextGrows
<1>4. L \in IniText /\ L = H \o Append(w, N) /\ Append(w, N) \in IniText /\ L[Len(s) + 1] = N /\ DOMAIN L = 1..Len(L)
  <2>1. L = H \o Append(w, N) /\ Append(w, N) \in IniText /\ L \in IniText
    <3>1. b = H \o w
      OBVIOUS
    <3> HIDE DEF b, H, w
    <3>2. Append(H \o w, N) = H \o Append(w, N) /\ Append(w, N) \in IniText /\ Append(b, N) \in IniText
      <4>1. N \in IniChars /\ H \in IniText /\ w \in IniText /\ b \in IniText
        BY <1>1, <1>2, <1>3
      <4>2. Append(w, N) \in IniText /\ Append(b, N) \in IniText
        BY <4>1, TextGrows, Zenon
      <4>3. Append(H \o w, N) = H \o Append(w, N)
        BY <4>1, GrowsBehind, Zenon
      <4>4. QED
        BY <4>2, <4>3
    <3>3. QED
      BY <3>1, <3>2
  <2>2. Len(s) + 1 \in 1..Len(b)
    BY <1>1, <1>2
  <2>3. L[Len(s) + 1] = b[Len(s) + 1]
    BY <1>1, <1>2, <2>2, TextGrows
  <2>4. DOMAIN L = 1..Len(L)
    BY <2>1, TextGrows
  <2>5. QED
    BY <1>2, <2>1, <2>3, <2>4
<1>5. [L EXCEPT ![Len(s) + 1] = N] = L
  <2> DEFINE C == IniChars
             f == [L EXCEPT ![Len(s) + 1] = N]
  <2> HIDE DEF L, C
  <2>1. L \in Seq(C)
    BY <1>4 DEF IniText, C
  <2>2. N \in C
    BY <1>1 DEF C
  <2>3. f \in Seq(C) /\ Len(f) = Len(L) /\ \A i \in 1..Len(L) : f[i] = L[i]
    <3>1. Len(L) \in Nat /\ L \in [1..Len(L) -> C]
      BY <2>1
    <3>2. f \in [1..Len(L) -> C]
      BY <2>2, <3>1
    <3>3. f \in Seq(C) /\ Len(f) = Len(L)
      BY <3>1, <3>2
    <3>4. \A i \in 1..Len(L) : f[i] = L[i]
      BY <1>4, <3>1
    <3>5. QED
      BY <3>3, <3>4
  <2> HIDE DEF f
  <2>4. f = L
    BY <2>1, <2>3, SeqEqual
  <2>5. QED
    BY <2>4 DEF f
<1> HIDE DEF L, N
<1>6. Parser!LastAt(s) = Len(s)
  BY EndsAtEnd
<1>7. /\ Parser!Cut(p, 1, p.sectionSize - 1) = s
      /\ Parser!Cut(p, p.sectionSize + 1, p.sectionSize + p.keySize - 1) = k
      /\ Parser!Cut(p, p.sectionSize + p.keySize + 1, Len(p.buffer)) = v
  <2>1. /\ p.sectionSize - 1 = Len(s) /\ p.sectionSize + 1 = Len(s) + 2
        /\ p.sectionSize + p.keySize - 1 = Len(s) + Len(k) + 1 /\ p.sectionSize + p.keySize + 1 = Len(s) + Len(k) + 3
    BY <1>1
  <2>2. QED
    BY <1>2, <2>1 DEF Parser!Cut
<1>8. q = IF takes THEN [cut EXCEPT !.escapeChar = Parser!trim(v)[1]] ELSE Parser!Report(cut, item)
  BY <1>5, <1>6, <1>7 DEF Parser!EndOfLine, L, N
<1>9. Is(cut, L, p.sectionSize, p.keySize, p.escapeChar, "beginLine", p.afterEscapeState, p.items)
  <2> DEFINE r == [p EXCEPT !.buffer = L]
  <2>1. Is(r, L, p.sectionSize, p.keySize, p.escapeChar, p.curState, p.afterEscapeState, p.items)
    BY <1>4, BufferIs
  <2>2. r \in Parsers
    BY <2>1 DEF Is
  <2> HIDE DEF r
  <2>3. Is(Parser!Goto(r, "beginLine"), r.buffer, r.sectionSize, r.keySize, r.escapeChar, "beginLine", r.afterEscapeState, r.items)
    <3>1. "beginLine" \in IniStates
      BY DEF IniStates
    <3>2. QED
      BY <2>2, <3>1, GotoIs, Zenon
  <2>4. cut = Parser!Goto(r, "beginLine")
    BY DEF r
  <2>5. QED
    BY <2>1, <2>3, <2>4 DEF Is
<1> HIDE DEF cut, q
<1>10. cut \in Parsers
  BY <1>9 DEF Is
<1>11. CASE takes
  <2>1. Parser!trim(v)[1] \in IniChars
    BY <1>11, TrimIs
  <2> DEFINE e == Parser!trim(v)[1]
  <2> HIDE DEF e
  <2>2. Is([cut EXCEPT !.escapeChar = e], cut.buffer, cut.sectionSize, cut.keySize, e, cut.curState, cut.afterEscapeState, cut.items)
    BY <1>10, <2>1 DEF Is, Parsers, e
  <2>3. q = [cut EXCEPT !.escapeChar = e]
    BY <1>8, <1>11 DEF e
  <2>4. /\ q \in Parsers /\ q.curState = "beginLine" /\ q.sectionSize = Len(s) + 1
        /\ q.buffer = L /\ q.escapeChar = e /\ q.items = <<>>
    BY <1>9, <2>2, <2>3 DEF Is
  <2>5. QED
    BY <1>4, <1>11, <2>4 DEF EndsAs, q, e, N
<1>12. CASE ~takes
  <2>1. item \in IniItem
    BY TrimIs DEF Parser!Item, IniItem
  <2> HIDE DEF item
  <2>2. Append(cut.items, item) = <<item>> /\ <<item>> \in Seq(IniItem)
    BY <1>9, <2>1 DEF Is
  <2>3. q = [cut EXCEPT !.items = <<item>>]
    BY <1>8, <1>12, <2>2 DEF Parser!Report
  <2>4. Is([cut EXCEPT !.items = <<item>>], cut.buffer, cut.sectionSize, cut.keySize, cut.escapeChar, cut.curState, cut.afterEscapeState, <<item>>)
    BY <1>10, <2>2, ItemsIs
  <2>5. /\ q \in Parsers /\ q.curState = "beginLine" /\ q.sectionSize = Len(s) + 1
        /\ q.buffer = L /\ q.escapeChar = p.escapeChar /\ q.items = <<item>>
    BY <1>9, <2>3, <2>4 DEF Is
  <2>6. QED
    BY <1>4, <1>12, <2>5 DEF EndsAs, q, N, item
<1>13. QED
  BY <1>11, <1>12

\* The parser hands a character to the function of its state.
LEMMA FeedIs ==
  ASSUME NEW p, NEW c
  PROVE  /\ p.curState = "beginLine" => Parser!Feed(p, c) = Parser!readBeginLine(p, c)
         /\ p.curState = "comment" => Parser!Feed(p, c) = Parser!readComment(p, c)
         /\ p.curState = "section" => Parser!Feed(p, c) = Parser!readSection(p, c)
         /\ p.curState = "key" => Parser!Feed(p, c) = Parser!readKey(p, c)
         /\ p.curState = "value" => Parser!Feed(p, c) = Parser!readValue(p, c)
         /\ p.curState = "valueEscaped" => Parser!Feed(p, c) = Parser!readValueEscaped(p, c)
         /\ p.curState = "valueEscapedNl" => Parser!Feed(p, c) = Parser!readValueEscapedNl(p, c)
         /\ p.curState = "waitForEoln" => Parser!Feed(p, c) = Parser!waitTillEoln(p, c)
         /\ p.curState = "directiveKeyword" => Parser!Feed(p, c) = Parser!readDirectiveKeyword(p, c)
         /\ p.curState = "directiveData" => Parser!Feed(p, c) = Parser!readDirectiveData(p, c)
  BY DEF Parser!Feed

\* A line is what it is made of.
LEMMA LineIs ==
  /\ Parser!NoLine \in IniLines /\ Parser!NoLine.kind = "none" /\ Parser!NoLine.key = <<>>
  /\ Parser!NoLine.value = <<>> /\ Parser!NoLine.broken = FALSE
  /\ \A kind \in IniKinds : LET l == [Parser!NoLine EXCEPT !.kind = kind]
       IN l \in IniLines /\ l.kind = kind /\ l.key = <<>> /\ l.value = <<>> /\ l.broken = FALSE
<1>1. <<>> \in IniText
  BY TextGrows
<1>2. QED
  BY <1>1 DEF Parser!NoLine, IniLines, IniKinds

\* Between two lines: what was reported is taken, and the buffer is cut back to the section.
Begins(t, s, e) ==
  /\ t \in Parsers /\ t.items = <<>> /\ t.curState = "beginLine"
  /\ t.sectionSize = Len(s) + 1 /\ t.escapeChar = e
  /\ \E rest \in IniText : t.buffer = Header(s) \o rest
  /\ Is(Parser!Fresh(t), Header(s), t.sectionSize, t.keySize, e, "beginLine", t.afterEscapeState, <<>>)
  /\ Header(s) \in IniText /\ Len(Header(s)) = Len(s) + 1 /\ Len(s) \in Nat

\* What the parser is between two lines.
LEMMA TakenIs ==
  ASSUME NEW p, NEW l, NEW s, NEW e, NEW its, Fits(p, l, s, e, its), l.kind = "none",
         NEW t, t = [p EXCEPT !.items = <<>>]
  PROVE  Begins(t, s, e)
<1>1. <<>> \in Seq(IniItem)
  OBVIOUS
<1>2. p \in Parsers /\ s \in IniText
  BY DEF Fits, LineKeeps
<1>3. Is(t, p.buffer, p.sectionSize, p.keySize, p.escapeChar, p.curState, p.afterEscapeState, <<>>)
  BY <1>1, <1>2, ItemsIs
<1>4. ~l.broken
  BY DEF Fits, LineHeld
<1>5. p.curState = "beginLine"
  BY <1>4 DEF Fits, LineState, Reader
<1>6. /\ t \in Parsers /\ t.items = <<>> /\ t.curState = "beginLine"
      /\ t.sectionSize = Len(s) + 1 /\ t.escapeChar = e
      /\ \E rest \in IniText : t.buffer = Header(s) \o rest
  BY <1>3, <1>5 DEF Is, Fits, LineKeeps, LineHeld
<1>7. Header(s) \in IniText /\ Len(Header(s)) = Len(s) + 1 /\ Len(s) \in Nat
  BY <1>2, IniNames, TextGrows DEF Header
<1>8. PICK rest \in IniText : t.buffer = Header(s) \o rest
  BY <1>6
<1>9. Is(Parser!Fresh(t), Header(s), t.sectionSize, t.keySize, t.escapeChar, t.curState, t.afterEscapeState, t.items)
  BY <1>6, <1>7, <1>8, FreshIs
<1>10. QED
  BY <1>6, <1>7, <1>9 DEF Begins

\* What a parser must be that has just begun a line.
LEMMA BeginsAs ==
  ASSUME NEW p, NEW l, NEW s, NEW e, NEW its, Fits(p, l, s, e, its), l.kind = "none",
         NEW q \in Parsers, q.items = <<>>, q.escapeChar = e, NEW m \in IniLines, ~m.broken,
         m.kind # "section" => q.sectionSize = Len(s) + 1,
         LineHeld(q, m, s), q.curState = Reader[m.kind]
  PROVE  Fits(q, m, s, e, <<>>)
  BY DEF Fits, LineKeeps, LineState

\* The characters that begin a line of some kind.
Starts(kind, c) ==
  <<kind, c>> \in {<<"comment", "#">>, <<"section", "[">>, <<"keyword", "@">>, <<"value", "=">>,
                   <<"none", Parser!NewLine>>, <<"none", Parser!Space>>}

\* After the first character of a line it fits a line of that kind.
LEMMA BeginFits ==
  ASSUME NEW p, NEW l, NEW s, NEW e, NEW its, Fits(p, l, s, e, its), l.kind = "none",
         NEW t, t = [p EXCEPT !.items = <<>>],
         NEW kind, NEW c, Starts(kind, c)
  PROVE  Fits(Parser!Feed(t, c), [Parser!NoLine EXCEPT !.kind = kind], s, e, <<>>)
<1> USE DEF Starts
<1> DEFINE m == [Parser!NoLine EXCEPT !.kind = kind]
           q == Parser!Feed(t, c)
           f == Parser!Fresh(t)
<1>1. /\ t \in Parsers /\ t.items = <<>> /\ t.curState = "beginLine"
      /\ t.sectionSize = Len(s) + 1 /\ t.escapeChar = e
      /\ \E rest \in IniText : t.buffer = Header(s) \o rest
      /\ Is(f, Header(s), t.sectionSize, t.keySize, e, "beginLine", t.afterEscapeState, <<>>)
      /\ Header(s) \in IniText /\ Len(Header(s)) = Len(s) + 1 /\ Len(s) \in Nat
  <2>1. Begins(t, s, e)
    BY TakenIs, Zenon
  <2>2. QED
    BY <2>1 DEF Begins, f
<1>2. m \in IniLines /\ m.kind = kind /\ m.key = <<>> /\ m.value = <<>> /\ m.broken = FALSE
  <2>1. kind \in IniKinds
    BY DEF IniKinds
  <2>2. QED
    BY <2>1, LineIs
<1>3. q = Parser!readBeginLine(t, c)
  BY <1>1, FeedIs
<1>4. s \in IniText
  BY DEF Fits, LineKeeps
<1>5. Header(s) \o <<>> = Header(s)
  BY <1>1, TextGrows
<1> HIDE DEF m, q, f
<1>6. f \in Parsers
  BY <1>1 DEF Is
<1>7. CASE kind = "none"
  <2>1. Parser!isspace(c) /\ c # "#" /\ c # "[" /\ c # "@"
    BY <1>7 DEF Parser!isspace, Parser!NewLine, Parser!Space
  <2>2. q = t
    BY <1>3, <2>1 DEF Parser!readBeginLine
  <2>3. LineHeld(q, m, s)
    BY <1>1, <1>2, <1>7, <2>2 DEF LineHeld
  <2>4. Reader[m.kind] = "beginLine"
    BY <1>2, <1>7 DEF Reader
  <2>5. Fits(q, m, s, e, <<>>)
    BY <1>1, <1>2, <2>2, <2>3, <2>4, BeginsAs
  <2>6. QED
    BY <2>5 DEF q, m
<1>8. CASE kind = "comment"
  <2>1. c = "#"
    BY <1>8
  <2>2. q = Parser!Goto(f, "comment")
    BY <1>3, <2>1 DEF Parser!readBeginLine, Parser!isspace, Parser!NewLine, Parser!Space, f
  <2>3. "comment" \in IniStates
    BY DEF IniStates
  <2>4. Is(q, f.buffer, f.sectionSize, f.keySize, f.escapeChar, "comment", f.afterEscapeState, f.items)
    BY <1>6, <2>2, <2>3, GotoIs
  <2>5. /\ q \in Parsers /\ q.items = <<>> /\ q.escapeChar = e /\ q.sectionSize = Len(s) + 1
        /\ q.buffer = Header(s) /\ q.curState = "comment"
    BY <1>1, <2>4 DEF Is
  <2>6. LineHeld(q, m, s)
    BY <1>2, <1>5, <1>8, <2>5 DEF LineHeld
  <2>7. Reader[m.kind] = "comment"
    BY <1>2, <1>8 DEF Reader
  <2>8. Fits(q, m, s, e, <<>>)
    BY <1>2, <2>5, <2>6, <2>7, BeginsAs
  <2>9. QED
    BY <2>8 DEF q, m
<1>9. CASE kind = "keyword"
  <2>1. c = "@"
    BY <1>9
  <2>2. q = Parser!Goto(f, "directiveKeyword")
    BY <1>3, <2>1 DEF Parser!readBeginLine, Parser!isspace, Parser!NewLine, Parser!Space, f
  <2>3. "directiveKeyword" \in IniStates
    BY DEF IniStates
  <2>4. Is(q, f.buffer, f.sectionSize, f.keySize, f.escapeChar, "directiveKeyword", f.afterEscapeState, f.items)
    BY <1>6, <2>2, <2>3, GotoIs
  <2>5. /\ q \in Parsers /\ q.items = <<>> /\ q.escapeChar = e /\ q.sectionSize = Len(s) + 1
        /\ q.buffer = Header(s) /\ q.curState = "directiveKeyword"
    BY <1>1, <2>4 DEF Is
  <2>6. LineHeld(q, m, s)
    BY <1>2, <1>5, <1>9, <2>5 DEF LineHeld
  <2>7. Reader[m.kind] = "directiveKeyword"
    BY <1>2, <1>9 DEF Reader
  <2>8. Fits(q, m, s, e, <<>>)
    BY <1>2, <2>5, <2>6, <2>7, BeginsAs
  <2>9. QED
    BY <2>8 DEF q, m
<1>10. CASE kind = "section"
  <2> DEFINE g == [t EXCEPT !.buffer = <<>>]
  <2>1. c = "["
    BY <1>10
  <2>2. q = Parser!Goto(g, "section")
    BY <1>3, <2>1 DEF Parser!readBeginLine, Parser!isspace, Parser!NewLine, Parser!Space
  <2>3. Is(g, <<>>, t.sectionSize, t.keySize, t.escapeChar, t.curState, t.afterEscapeState, t.items)
    BY <1>1, TextGrows, BufferIs
  <2> HIDE DEF g
  <2>4. g \in Parsers /\ "section" \in IniStates
    BY <2>3 DEF Is, IniStates
  <2>5. Is(q, g.buffer, g.sectionSize, g.keySize, g.escapeChar, "section", g.afterEscapeState, g.items)
    BY <2>2, <2>4, GotoIs
  <2>6. q \in Parsers /\ q.items = <<>> /\ q.escapeChar = e /\ q.buffer = <<>> /\ q.curState = "section"
    BY <1>1, <2>3, <2>5 DEF Is
  <2>7. OneLine(m.key)
    BY <1>2 DEF OneLine
  <2>8. LineHeld(q, m, s)
    BY <1>2, <1>10, <2>6, <2>7 DEF LineHeld
  <2>9. Reader[m.kind] = "section"
    BY <1>2, <1>10 DEF Reader
  <2>10. Fits(q, m, s, e, <<>>)
    BY <1>2, <1>10, <2>6, <2>8, <2>9, BeginsAs
  <2>11. QED
    BY <2>10 DEF q, m
<1>11. CASE kind = "value"
  <2> DEFINE g == Parser!Goto(f, "key")
             h == Parser!KeyEnds(g)
  <2>1. c = "="
    BY <1>11
  <2>2. q = Parser!Goto(h, "value")
    <3>1. q = Parser!readKey(g, c)
      BY <1>3, <2>1 DEF Parser!readBeginLine, Parser!isspace, Parser!NewLine, Parser!Space, f
    <3> HIDE DEF g
    <3>2. QED
      BY <2>1, <3>1 DEF Parser!readKey, Parser!isnl, Parser!NewLine
  <2>3. "key" \in IniStates /\ "value" \in IniStates
    BY DEF IniStates
  <2>4. Is(g, f.buffer, f.sectionSize, f.keySize, f.escapeChar, "key", f.afterEscapeState, f.items)
    BY <1>6, <2>3, GotoIs
  <2> HIDE DEF g
  <2>5. g \in Parsers /\ g.buffer = Header(s) /\ g.sectionSize = Len(s) + 1 /\ g.escapeChar = e /\ g.items = <<>>
    BY <1>1, <2>4 DEF Is
  <2>6. Is(h, Append(g.buffer, Parser!Nul), g.sectionSize, Len(g.buffer) + 1 - g.sectionSize, g.escapeChar,
           g.curState, g.afterEscapeState, g.items)
    BY <1>1, <2>5, KeyEndsIs
  <2> HIDE DEF h
  <2>7. h \in Parsers
    BY <2>6 DEF Is
  <2>8. Is(q, h.buffer, h.sectionSize, h.keySize, h.escapeChar, "value", h.afterEscapeState, h.items)
    BY <2>2, <2>3, <2>7, GotoIs
  <2>9. /\ q \in Parsers /\ q.items = <<>> /\ q.escapeChar = e /\ q.sectionSize = Len(s) + 1
        /\ q.buffer = Append(Header(s), Parser!Nul) /\ q.curState = "value" /\ q.keySize = Len(Header(s)) + 1 - (Len(s) + 1)
    BY <2>5, <2>6, <2>8 DEF Is
  <2>10. q.keySize = Len(m.key) + 1
    BY <1>1, <1>2, <2>9
  <2>11. q.buffer = Header(s) \o (Append(m.key, Parser!Nul) \o m.value)
    <3>1. Append(Header(s) \o <<>>, Parser!Nul) = Header(s) \o Append(<<>>, Parser!Nul)
      <4>1. Header(s) \in IniText /\ <<>> \in IniText /\ Parser!Nul \in IniChars
        BY <1>1, TextGrows, IniNames
      <4>2. QED
        BY <4>1, GrowsBehind
    <3>2. Append(<<>>, Parser!Nul) \in IniText
      BY TextGrows, IniNames
    <3>3. Append(<<>>, Parser!Nul) \o <<>> = Append(<<>>, Parser!Nul)
      BY <3>2, TextGrows
    <3>4. QED
      BY <1>2, <1>5, <2>9, <3>1, <3>3
  <2>12. LineHeld(q, m, s)
    BY <1>2, <1>11, <2>10, <2>11 DEF LineHeld
  <2>13. Reader[m.kind] = "value"
    BY <1>2, <1>11 DEF Reader
  <2>14. Fits(q, m, s, e, <<>>)
    BY <1>2, <2>9, <2>12, <2>13, BeginsAs
  <2>15. QED
    BY <2>14 DEF q, m
<1>12. QED
  BY <1>7, <1>8, <1>9, <1>10, <1>11

\* What fits, taken apart: the texts, and the parser in the middle of a line.
LEMMA FitsAre ==
  ASSUME NEW p, NEW l, NEW s, NEW e, NEW its, Fits(p, l, s, e, its)
  PROVE  /\ p \in Parsers /\ l \in IniLines /\ s \in IniText /\ e \in IniChars /\ p.items = its /\ p.escapeChar = e
         /\ l.kind \in IniKinds /\ l.key \in IniText /\ l.value \in IniText /\ l.broken \in BOOLEAN
         /\ Len(s) \in Nat /\ Len(l.key) \in Nat /\ Header(s) \in IniText /\ Len(Header(s)) = Len(s) + 1
<1>1. p \in Parsers /\ l \in IniLines /\ s \in IniText /\ e \in IniChars /\ p.items = its /\ p.escapeChar = e
  BY DEF Fits, LineKeeps
<1>2. l.kind \in IniKinds /\ l.key \in IniText /\ l.value \in IniText /\ l.broken \in BOOLEAN
  BY <1>1 DEF IniLines
<1>3. Len(s) \in Nat /\ Len(l.key) \in Nat /\ Header(s) \in IniText /\ Len(Header(s)) = Len(s) + 1
  BY <1>1, <1>2, TextGrows, IniNames DEF Header
<1>4. QED
  BY <1>1, <1>2, <1>3

\* In the middle of a line nothing is reported, and the section stays.
LEMMA GoesAs ==
  ASSUME NEW p, NEW l, NEW s, NEW e, NEW its, Fits(p, l, s, e, its), l.kind # "none",
         NEW q \in Parsers, q.items = p.items, q.escapeChar = p.escapeChar, q.sectionSize = p.sectionSize,
         NEW m \in IniLines, m.kind # "none", m.kind = "section" <=> l.kind = "section",
         LineHeld(q, m, s), LineState(q, m)
  PROVE  Fits(q, m, s, e, its)
  BY DEF Fits, LineKeeps

\* A name grows by a character that does not end it.
LEMMA NameFits ==
  ASSUME NEW p, NEW l, NEW s, NEW e, NEW its, Fits(p, l, s, e, its), l.kind \in DOMAIN Parser!Stops,
         NEW c \in IniChars, c # Parser!NewLine, c \notin Parser!Stops[l.kind]
  PROVE  Fits(Parser!Feed(p, c), [l EXCEPT !.key = Append(@, c)], s, e, its)
<1> DEFINE q == Parser!Feed(p, c)
           m == [l EXCEPT !.key = Append(@, c)]
<1>1. /\ p \in Parsers /\ l \in IniLines /\ s \in IniText /\ p.escapeChar = e /\ l.key \in IniText
      /\ Header(s) \in IniText /\ Len(l.key) \in Nat
  BY FitsAre
<1>2. l.kind \in {"comment", "section", "keyword", "key"}
  BY DEF Parser!Stops
<1>3. ~l.broken /\ l.value = <<>> /\ p.curState = Reader[l.kind]
  BY <1>2 DEF Fits, LineHeld, LineState
<1>4. q = Parser!Keep(p, c)
  <2>1. CASE l.kind = "comment"
    BY <1>3, <2>1, FeedIs DEF Reader, Parser!readComment, Parser!isnl
  <2>2. CASE l.kind = "section"
    <3>1. c # "]" /\ p.curState = "section"
      BY <1>3, <2>2 DEF Parser!Stops, Reader
    <3>2. QED
      BY <3>1, FeedIs DEF Parser!readSection
  <2>3. CASE l.kind = "keyword"
    <3>1. c # Parser!Space /\ p.curState = "directiveKeyword"
      BY <1>3, <2>3 DEF Parser!Stops, Reader
    <3>2. ~Parser!isspace(c) /\ ~Parser!isnl(c)
      BY <3>1 DEF Parser!isspace, Parser!isnl
    <3>3. q = Parser!readDirectiveKeyword(p, c)
      BY <3>1, FeedIs
    <3> HIDE DEF q
    <3>4. q = Parser!Keep(p, c)
      BY <3>2, <3>3 DEF Parser!readDirectiveKeyword
    <3>5. QED
      BY <3>4
  <2>4. CASE l.kind = "key"
    <3>1. c # "=" /\ p.curState = "key"
      BY <1>3, <2>4 DEF Parser!Stops, Reader
    <3>2. q = Parser!readKey(p, c) /\ ~Parser!isnl(c)
      BY <3>1, FeedIs DEF Parser!isnl
    <3> HIDE DEF q
    <3>3. q = Parser!Keep(p, c)
      BY <3>1, <3>2 DEF Parser!readKey
    <3>4. QED
      BY <3>3
  <2>5. QED
    BY <1>2, <2>1, <2>2, <2>3, <2>4
<1>5. Is(q, Append(p.buffer, c), p.sectionSize, p.keySize, p.escapeChar, p.curState, p.afterEscapeState, p.items)
  BY <1>1, <1>4, KeepIs
<1> HIDE DEF q
<1>6. Append(l.key, c) \in IniText
  BY <1>1, TextGrows
<1>7. m \in IniLines /\ m.kind = l.kind /\ m.key = Append(l.key, c) /\ m.value = l.value /\ m.broken = l.broken
  BY <1>1, <1>6 DEF IniLines
<1> HIDE DEF m
<1>8. LineHeld(q, m, s)
  <2>1. CASE l.kind = "section"
    <3>1. p.buffer = l.key /\ OneLine(l.key)
      BY <2>1 DEF Fits, LineHeld
    <3>2. OneLine(m.key)
      <4> SUFFICES ASSUME NEW i \in 1..(Len(l.key) + 1) PROVE Append(l.key, c)[i] # Parser!NewLine
        <5>1. DOMAIN Append(l.key, c) = 1..(Len(l.key) + 1)
          BY <1>1, TextGrows
        <5>2. QED
          BY <1>7, <5>1 DEF OneLine
      <4>1. CASE i = Len(l.key) + 1
        BY <1>1, <4>1, TextGrows
      <4>2. CASE i # Len(l.key) + 1
        <5>1. i \in 1..Len(l.key)
          BY <1>1, <4>2
        <5>2. QED
          <6>1. Append(l.key, c)[i] = l.key[i] /\ DOMAIN l.key = 1..Len(l.key)
            BY <1>1, <5>1, TextGrows
          <6>2. QED
            BY <3>1, <5>1, <6>1 DEF OneLine
      <4>3. QED
        BY <4>1, <4>2
    <3>3. QED
      BY <1>3, <1>5, <1>7, <2>1, <3>1, <3>2 DEF LineHeld, Is
  <2>2. CASE l.kind # "section"
    <3>1. p.buffer = Header(s) \o l.key
      BY <1>2, <2>2 DEF Fits, LineHeld
    <3>2. Append(Header(s) \o l.key, c) = Header(s) \o Append(l.key, c)
      BY <1>1, GrowsBehind
    <3>3. q.buffer = Header(s) \o m.key
      BY <1>5, <1>7, <3>1, <3>2 DEF Is
    <3>4. QED
      BY <1>2, <1>3, <1>7, <2>2, <3>3 DEF LineHeld
  <2>3. QED
    BY <2>1, <2>2
<1>9. LineState(q, m)
  BY <1>3, <1>5, <1>7 DEF LineState, Is
<1>10. Fits(q, m, s, e, its)
  BY <1>2, <1>5, <1>7, <1>8, <1>9, GoesAs DEF Is
<1>11. QED
  BY <1>10 DEF q, m

\* A key begins with its first character.
LEMMA BeginKeyFits ==
  ASSUME NEW p, NEW l, NEW s, NEW e, NEW its, Fits(p, l, s, e, its), l.kind = "none",
         NEW t, t = [p EXCEPT !.items = <<>>],
         NEW c \in IniChars, c \notin {Parser!NewLine, Parser!Space, "#", "[", "@", "="}
  PROVE  Fits(Parser!Feed(t, c), [Parser!NoLine EXCEPT !.kind = "key", !.key = <<c>>], s, e, <<>>)
<1> DEFINE m == [Parser!NoLine EXCEPT !.kind = "key", !.key = <<c>>]
           q == Parser!Feed(t, c)
           f == Parser!Fresh(t)
           g == Parser!Goto(f, "key")
<1>1. Begins(t, s, e)
  BY TakenIs, Zenon
<1>2. /\ t \in Parsers /\ t.items = <<>> /\ t.curState = "beginLine"
      /\ t.sectionSize = Len(s) + 1 /\ t.escapeChar = e
      /\ Is(f, Header(s), t.sectionSize, t.keySize, e, "beginLine", t.afterEscapeState, <<>>)
      /\ Header(s) \in IniText
  BY <1>1 DEF Begins
<1>3. ~Parser!isspace(c) /\ ~Parser!isnl(c)
  BY DEF Parser!isspace, Parser!isnl
<1>4. q = Parser!readKey(g, c)
  <2>1. q = Parser!readBeginLine(t, c)
    BY <1>2, FeedIs
  <2> HIDE DEF q
  <2>2. QED
    BY <1>3, <2>1 DEF Parser!readBeginLine
<1>5. f \in Parsers /\ "key" \in IniStates
  BY <1>2 DEF Is, IniStates
<1> HIDE DEF f
<1>6. Is(g, f.buffer, f.sectionSize, f.keySize, f.escapeChar, "key", f.afterEscapeState, f.items)
  BY <1>5, GotoIs
<1> HIDE DEF g, q
<1>7. q = Parser!Keep(g, c)
  BY <1>3, <1>4 DEF Parser!readKey
<1>8. g \in Parsers
  BY <1>6 DEF Is
<1>9. Is(q, Append(g.buffer, c), g.sectionSize, g.keySize, g.escapeChar, g.curState, g.afterEscapeState, g.items)
  BY <1>7, <1>8, KeepIs
<1>10. /\ q \in Parsers /\ q.items = <<>> /\ q.escapeChar = e /\ q.sectionSize = Len(s) + 1
       /\ q.buffer = Append(Header(s), c) /\ q.curState = "key"
  BY <1>2, <1>6, <1>9 DEF Is
<1>11. <<c>> \in IniText /\ Append(Header(s), c) = Header(s) \o <<c>>
  <2> DEFINE C == IniChars
  <2>1. Header(s) \in Seq(C) /\ c \in C
    BY <1>2 DEF IniText
  <2> HIDE DEF C
  <2>2. <<c>> \in Seq(C) /\ Append(Header(s), c) = Header(s) \o <<c>>
    BY <2>1
  <2>3. QED
    BY <2>2 DEF C, IniText
<1>12. m \in IniLines /\ m.kind = "key" /\ m.key = <<c>> /\ m.value = <<>> /\ m.broken = FALSE
  BY <1>11, LineIs DEF IniLines, IniKinds
<1> HIDE DEF m
<1>13. LineHeld(q, m, s)
  BY <1>10, <1>11, <1>12 DEF LineHeld
<1>14. Reader[m.kind] = "key"
  BY <1>12 DEF Reader
<1>15. Fits(q, m, s, e, <<>>)
  BY <1>10, <1>12, <1>13, <1>14, BeginsAs
<1>16. QED
  BY <1>15 DEF q, m

\* The end of a key puts a NUL behind it.
LEMMA KeyEnded ==
  ASSUME NEW p \in Parsers, NEW s \in IniText, NEW k \in IniText, p.buffer = Header(s) \o k, p.sectionSize = Len(s) + 1
  PROVE  Is(Parser!KeyEnds(p), Header(s) \o (Append(k, Parser!Nul) \o <<>>), Len(s) + 1, Len(k) + 1, p.escapeChar,
            p.curState, p.afterEscapeState, p.items)
<1>1. Parser!Nul \in IniChars /\ Len(s) \in Nat /\ Len(k) \in Nat /\ Header(s) \in IniText /\ Len(Header(s)) = Len(s) + 1
  BY IniNames, TextGrows DEF Header
<1>2. Len(p.buffer) = Len(s) + 1 + Len(k)
  <2>1. Len(Header(s) \o k) = Len(Header(s)) + Len(k)
    BY <1>1, TextGrows
  <2>2. QED
    BY <1>1, <2>1
<1>3. Append(p.buffer, Parser!Nul) = Header(s) \o Append(k, Parser!Nul)
  <2>1. Append(Header(s) \o k, Parser!Nul) = Header(s) \o Append(k, Parser!Nul)
    BY <1>1, GrowsBehind
  <2>2. QED
    BY <2>1
<1>4. Append(k, Parser!Nul) \o <<>> = Append(k, Parser!Nul)
  BY <1>1, TextGrows
<1>5. Len(p.buffer) >= p.sectionSize /\ Len(p.buffer) + 1 - p.sectionSize = Len(k) + 1
  BY <1>1, <1>2
<1>6. Is(Parser!KeyEnds(p), Append(p.buffer, Parser!Nul), p.sectionSize, Len(p.buffer) + 1 - p.sectionSize, p.escapeChar,
         p.curState, p.afterEscapeState, p.items)
  BY <1>5, KeyEndsIs
<1>7. QED
  BY <1>3, <1>4, <1>5, <1>6

\* Behind its key a line has a value, or a directive its data.
LEMMA KeyDoneFits ==
  ASSUME NEW p, NEW l, NEW s, NEW e, NEW its, Fits(p, l, s, e, its),
         NEW c, NEW kind,
         \/ l.kind = "key" /\ c = "=" /\ kind = "value"
         \/ l.kind = "keyword" /\ c = Parser!Space /\ kind = "directive"
  PROVE  Fits(Parser!Feed(p, c), [l EXCEPT !.kind = kind], s, e, its)
<1> DEFINE q == Parser!Feed(p, c)
           m == [l EXCEPT !.kind = kind]
           r == Parser!KeyEnds(p)
           state == Reader[kind]
<1>1. p \in Parsers /\ l \in IniLines /\ s \in IniText /\ l.key \in IniText
  BY FitsAre
<1>2. ~l.broken /\ l.value = <<>> /\ p.buffer = Header(s) \o l.key /\ p.sectionSize = Len(s) + 1
  BY DEF Fits, LineHeld, LineKeeps
<1>3. p.curState = Reader[l.kind]
  BY <1>2 DEF Fits, LineState
<1>4. Is(r, Header(s) \o (Append(l.key, Parser!Nul) \o <<>>), Len(s) + 1, Len(l.key) + 1, p.escapeChar,
         p.curState, p.afterEscapeState, p.items)
  BY <1>1, <1>2, KeyEnded
<1>5. q = Parser!Goto(r, state)
  <2>1. CASE l.kind = "key"
    <3>1. p.curState = "key" /\ state = "value" /\ c = "="
      BY <1>3, <2>1 DEF Reader
    <3>2. q = Parser!readKey(p, c)
      BY <3>1, FeedIs
    <3> HIDE DEF q, state
    <3>3. q = Parser!Goto(r, "value")
      BY <3>1, <3>2 DEF Parser!readKey, Parser!isnl, Parser!NewLine
    <3>4. QED
      BY <3>1, <3>3
  <2>2. CASE l.kind = "keyword"
    <3>1. p.curState = "directiveKeyword" /\ state = "directiveData" /\ c = Parser!Space
      BY <1>3, <2>2 DEF Reader
    <3>2. q = Parser!readDirectiveKeyword(p, c)
      BY <3>1, FeedIs
    <3>3. Parser!isspace(c) /\ ~Parser!isnl(c)
      BY <3>1 DEF Parser!isspace, Parser!isnl, Parser!Space, Parser!NewLine
    <3> HIDE DEF q, state
    <3>4. q = Parser!Goto(r, "directiveData")
      BY <3>2, <3>3 DEF Parser!readDirectiveKeyword
    <3>5. QED
      BY <3>1, <3>4
  <2>3. QED
    BY <2>1, <2>2
<1>6. state \in IniStates /\ kind \in IniKinds /\ kind \in {"value", "directive"} /\ l.kind \notin {"none", "section"}
  BY DEF Reader, IniStates, IniKinds
<1> HIDE DEF r, q
<1>7. r \in Parsers
  BY <1>4 DEF Is
<1> HIDE DEF state
<1>8. Is(q, r.buffer, r.sectionSize, r.keySize, r.escapeChar, state, r.afterEscapeState, r.items)
  BY <1>5, <1>6, <1>7, GotoIs
<1>9. /\ q \in Parsers /\ q.items = p.items /\ q.escapeChar = p.escapeChar /\ q.sectionSize = p.sectionSize
      /\ q.buffer = Header(s) \o (Append(l.key, Parser!Nul) \o <<>>) /\ q.keySize = Len(l.key) + 1 /\ q.curState = state
  BY <1>2, <1>4, <1>8 DEF Is
<1>10. m \in IniLines /\ m.kind = kind /\ m.key = l.key /\ m.value = <<>> /\ ~m.broken
  BY <1>1, <1>2, <1>6 DEF IniLines
<1> HIDE DEF m
<1>11. LineHeld(q, m, s)
  BY <1>6, <1>9, <1>10 DEF LineHeld
<1>12. LineState(q, m)
  BY <1>9, <1>10 DEF LineState, state
<1>13. m.kind # "none" /\ m.kind # "section"
  BY <1>6, <1>10
<1>14. Fits(q, m, s, e, its)
  BY <1>6, <1>9, <1>10, <1>11, <1>12, <1>13, GoesAs
<1>15. QED
  BY <1>14 DEF q, m

\* The state that reads the value of a line, and what reads it.
Broken(p, l) == IF l.broken THEN Parser!Goto(p, Reader[l.kind]) ELSE p
ReadsAs(p, l, e, c) ==
  LET r == Broken(p, l)
  IN  /\ Is(r, p.buffer, p.sectionSize, p.keySize, e, Reader[l.kind], p.afterEscapeState, p.items)
      /\ c # e => Parser!Feed(p, c) = Parser!Keep(r, c)
      /\ c = e => Parser!Feed(p, c) = Parser!Goto([r EXCEPT !.afterEscapeState = Reader[l.kind]], "valueEscaped")

\* A character of a value is kept, whatever was before it.
LEMMA ReadsValue ==
  ASSUME NEW p, NEW l, NEW s, NEW e, NEW its, Fits(p, l, s, e, its), l.kind \in {"value", "directive"},
         NEW c, l.broken => l.kind = "value" \/ c # e, ~Parser!isnl(c), l.broken => ~Parser!isspace(c)
  PROVE  ReadsAs(p, l, e, c)
<1> DEFINE r == Broken(p, l)
           state == Reader[l.kind]
<1>1. p \in Parsers /\ p.escapeChar = e
  BY FitsAre
<1>2. state \in IniStates /\ state = IF l.kind = "value" THEN "value" ELSE "directiveData"
  BY DEF Reader, IniStates
<1>3. Is(r, p.buffer, p.sectionSize, p.keySize, e, state, p.afterEscapeState, p.items)
  <2>1. CASE l.broken
    <3>1. Is(Parser!Goto(p, state), p.buffer, p.sectionSize, p.keySize, p.escapeChar, state, p.afterEscapeState, p.items)
      BY <1>1, <1>2, GotoIs
    <3>2. QED
      BY <1>1, <2>1, <3>1 DEF Broken
  <2>2. CASE ~l.broken
    <3>1. p.curState = state
      BY <2>2 DEF Fits, LineState
    <3>2. QED
      BY <1>1, <2>2, <3>1, ParserIs DEF Broken
  <2>3. QED
    BY <2>1, <2>2
<1> HIDE DEF state
<1>4. r.escapeChar = e
  BY <1>3 DEF Is
<1>5. CASE l.broken
  <2>1. p.curState = "valueEscapedNl" /\ p.afterEscapeState = state
    BY <1>5 DEF Fits, LineState, state
  <2>2. Parser!Feed(p, c) = Parser!readValueEscapedNl(p, c)
    BY <2>1, FeedIs
  <2>3. r = Parser!Goto(p, p.afterEscapeState)
    BY <1>5, <2>1 DEF state, Broken
  <2> HIDE DEF r
  <2>4. Parser!Feed(p, c) = Parser!readValueGen(r, c, "value", "data")
    BY <1>5, <2>2, <2>3 DEF Parser!readValueEscapedNl, Parser!readValue
  <2>5. c # e => Parser!Feed(p, c) = Parser!Keep(r, c)
    BY <1>4, <2>4 DEF Parser!readValueGen
  <2>6. c = e => state = "value" /\ Parser!Feed(p, c) = Parser!Goto([r EXCEPT !.afterEscapeState = "value"], "valueEscaped")
    BY <1>2, <1>4, <1>5, <2>4 DEF Parser!readValueGen
  <2>7. QED
    BY <1>3, <2>5, <2>6 DEF ReadsAs, r, state
<1>6. CASE ~l.broken
  <2>1. p.curState = state /\ r = p
    BY <1>6 DEF Fits, LineState, state, Broken
  <2>2. \E type \in {"data", "directive"} : Parser!Feed(p, c) = Parser!readValueGen(p, c, state, type)
    <3>1. CASE l.kind = "value"
      BY <1>2, <2>1, <3>1, FeedIs DEF Parser!readValue
    <3>2. CASE l.kind = "directive"
      BY <1>2, <2>1, <3>2, FeedIs DEF Parser!readDirectiveData
    <3>3. QED
      BY <3>1, <3>2
  <2>3. PICK type \in {"data", "directive"} : Parser!Feed(p, c) = Parser!readValueGen(p, c, state, type)
    BY <2>2
  <2>4. c # e => Parser!Feed(p, c) = Parser!Keep(p, c)
    BY <1>1, <2>3 DEF Parser!readValueGen
  <2>5. c = e => Parser!Feed(p, c) = Parser!Goto([p EXCEPT !.afterEscapeState = state], "valueEscaped")
    BY <1>1, <2>3 DEF Parser!readValueGen
  <2>6. QED
    BY <1>3, <2>1, <2>4, <2>5 DEF ReadsAs, r, state
<1>7. QED
  BY <1>5, <1>6

\* A value grows by a character as it is.
LEMMA PlainFits ==
  ASSUME NEW p, NEW l, NEW s, NEW e, NEW its, Fits(p, l, s, e, its), l.kind \in {"value", "directive"},
         NEW c \in IniChars, c # Parser!NewLine, c # e, l.broken => c # Parser!Space
  PROVE  Fits(Parser!Feed(p, c), [l EXCEPT !.value = Append(@, c), !.broken = FALSE], s, e, its)
<1> DEFINE q == Parser!Feed(p, c)
           m == [l EXCEPT !.value = Append(@, c), !.broken = FALSE]
           r == Broken(p, l)
           state == Reader[l.kind]
<1>1. p \in Parsers /\ l \in IniLines /\ l.value \in IniText /\ p.escapeChar = e
  BY FitsAre
<1>2. ~Parser!isnl(c) /\ (l.broken => ~Parser!isspace(c))
  BY DEF Parser!isnl, Parser!isspace
<1>3. Is(r, p.buffer, p.sectionSize, p.keySize, e, state, p.afterEscapeState, p.items) /\ q = Parser!Keep(r, c)
  <2>1. ReadsAs(p, l, e, c)
    BY <1>2, ReadsValue
  <2>2. QED
    BY <2>1 DEF ReadsAs
<1> HIDE DEF q, r, state
<1>4. r \in Parsers
  BY <1>3 DEF Is
<1>5. Is(q, Append(r.buffer, c), r.sectionSize, r.keySize, r.escapeChar, r.curState, r.afterEscapeState, r.items)
  BY <1>3, <1>4, KeepIs
<1>6. /\ q \in Parsers /\ q.items = p.items /\ q.escapeChar = p.escapeChar /\ q.sectionSize = p.sectionSize
      /\ q.buffer = Append(p.buffer, c) /\ q.keySize = p.keySize /\ q.curState = state
  BY <1>1, <1>3, <1>5 DEF Is
<1>7. Append(l.value, c) \in IniText
  BY <1>1, TextGrows
<1>8. m \in IniLines /\ m.kind = l.kind /\ m.key = l.key /\ m.value = Append(l.value, c) /\ ~m.broken
  BY <1>1, <1>7 DEF IniLines
<1>9. q.buffer = Header(s) \o (Append(m.key, Parser!Nul) \o m.value) /\ q.keySize = Len(m.key) + 1
  <2> DEFINE H == Header(s)
             K == Append(l.key, Parser!Nul)
  <2>1. p.buffer = H \o (K \o l.value) /\ p.keySize = Len(l.key) + 1
    BY DEF Fits, LineHeld
  <2>2. H \in IniText /\ K \in IniText /\ K \o l.value \in IniText
    BY <1>1, FitsAre, IniNames, TextGrows
  <2> HIDE DEF H, K
  <2>3. Append(K \o l.value, c) = K \o Append(l.value, c)
    BY <1>1, <2>2, GrowsBehind
  <2>4. Append(H \o (K \o l.value), c) = H \o Append(K \o l.value, c)
    BY <2>2, GrowsBehind
  <2>5. QED
    BY <1>6, <1>8, <2>1, <2>3, <2>4 DEF H, K
<1> HIDE DEF m
<1>10. LineHeld(q, m, s)
  BY <1>8, <1>9 DEF LineHeld
<1>11. LineState(q, m)
  BY <1>6, <1>8 DEF LineState, state
<1>12. l.kind # "none" /\ l.kind # "section" /\ m.kind # "none" /\ m.kind # "section"
  BY <1>8
<1>13. Fits(q, m, s, e, its)
  BY <1>6, <1>8, <1>10, <1>11, <1>12, GoesAs
<1>14. QED
  BY <1>13 DEF q, m

\* Behind the escape character the parser knows where it comes from.
LEMMA EscapeIs ==
  ASSUME NEW p, NEW l, NEW s, NEW e, NEW its, Fits(p, l, s, e, its), l.kind \in {"value", "directive"},
         l.broken => l.kind = "value"
  PROVE  Is(Parser!Feed(p, e), p.buffer, p.sectionSize, p.keySize, e, "valueEscaped", Reader[l.kind], p.items)
<1> DEFINE q == Parser!Feed(p, e)
           r == Broken(p, l)
           state == Reader[l.kind]
           a == [r EXCEPT !.afterEscapeState = state]
<1>1. ~Parser!isspace(e)
  BY DEF Fits, LineKeeps
<1>2. ~Parser!isnl(e)
  BY <1>1 DEF Parser!isspace, Parser!isnl
<1>3. Is(r, p.buffer, p.sectionSize, p.keySize, e, state, p.afterEscapeState, p.items) /\ q = Parser!Goto(a, "valueEscaped")
  <2>1. ReadsAs(p, l, e, e)
    BY <1>1, <1>2, ReadsValue
  <2>2. QED
    BY <2>1 DEF ReadsAs
<1>4. state \in IniStates /\ "valueEscaped" \in IniStates
  BY DEF Reader, IniStates
<1> HIDE DEF q, r, state
<1>5. r \in Parsers
  BY <1>3 DEF Is
<1>6. Is(a, r.buffer, r.sectionSize, r.keySize, r.escapeChar, r.curState, state, r.items)
  BY <1>4, <1>5, AfterIs
<1> HIDE DEF a
<1>7. a \in Parsers
  BY <1>6 DEF Is
<1>8. Is(q, a.buffer, a.sectionSize, a.keySize, a.escapeChar, "valueEscaped", a.afterEscapeState, a.items)
  BY <1>3, <1>4, <1>7, GotoIs
<1>9. QED
  BY <1>3, <1>6, <1>8 DEF Is, q, state

\* A value grows by an escaped character, which stands for itself, and n for the end of a line.
LEMMA EscapedFits ==
  ASSUME NEW p, NEW l, NEW s, NEW e, NEW its, Fits(p, l, s, e, its), l.kind \in {"value", "directive"},
         l.broken => l.kind = "value", NEW c \in IniChars, c # "n", c # "r"
  PROVE  Fits(Parser!Feed(Parser!Feed(p, e), IF c = Parser!NewLine THEN "n" ELSE c),
              [l EXCEPT !.value = Append(@, c), !.broken = FALSE], s, e, its)
<1> DEFINE a == Parser!Feed(p, e)
           d == IF c = Parser!NewLine THEN "n" ELSE c
           q == Parser!Feed(a, d)
           m == [l EXCEPT !.value = Append(@, c), !.broken = FALSE]
           r == Parser!Keep(a, c)
           state == Reader[l.kind]
<1>1. p \in Parsers /\ l \in IniLines /\ l.value \in IniText /\ p.escapeChar = e
  BY FitsAre
<1>2. Is(a, p.buffer, p.sectionSize, p.keySize, e, "valueEscaped", state, p.items)
  BY EscapeIs
<1> HIDE DEF a
<1>3. state \in IniStates
  BY DEF Reader, IniStates
<1> HIDE DEF state
<1>4. a \in Parsers /\ a.curState = "valueEscaped" /\ a.afterEscapeState = state
  BY <1>2 DEF Is
<1>5. q = Parser!Goto(r, state)
  <2>1. q = Parser!readValueEscaped(a, d)
    BY <1>4, FeedIs
  <2>2. ~Parser!isnl(d) /\ (IF d \in {"n", "r"} THEN Parser!NewLine ELSE d) = c
    BY DEF Parser!isnl, Parser!NewLine
  <2> HIDE DEF q, d
  <2>3. QED
    BY <1>4, <2>1, <2>2 DEF Parser!readValueEscaped
<1> HIDE DEF q
<1>6. Is(r, Append(a.buffer, c), a.sectionSize, a.keySize, a.escapeChar, a.curState, a.afterEscapeState, a.items)
  BY <1>4, KeepIs
<1> HIDE DEF r
<1>7. r \in Parsers
  BY <1>6 DEF Is
<1>8. Is(q, r.buffer, r.sectionSize, r.keySize, r.escapeChar, state, r.afterEscapeState, r.items)
  BY <1>3, <1>5, <1>7, GotoIs
<1>9. /\ q \in Parsers /\ q.items = p.items /\ q.escapeChar = p.escapeChar /\ q.sectionSize = p.sectionSize
      /\ q.buffer = Append(p.buffer, c) /\ q.keySize = p.keySize /\ q.curState = state
  BY <1>1, <1>2, <1>6, <1>8 DEF Is
<1>10. Append(l.value, c) \in IniText
  BY <1>1, TextGrows
<1>11. m \in IniLines /\ m.kind = l.kind /\ m.key = l.key /\ m.value = Append(l.value, c) /\ ~m.broken
  BY <1>1, <1>10 DEF IniLines
<1>12. q.buffer = Header(s) \o (Append(m.key, Parser!Nul) \o m.value) /\ q.keySize = Len(m.key) + 1
  <2> DEFINE H == Header(s)
             K == Append(l.key, Parser!Nul)
  <2>1. p.buffer = H \o (K \o l.value) /\ p.keySize = Len(l.key) + 1
    BY DEF Fits, LineHeld
  <2>2. H \in IniText /\ K \in IniText /\ K \o l.value \in IniText
    BY <1>1, FitsAre, IniNames, TextGrows
  <2> HIDE DEF H, K
  <2>3. Append(K \o l.value, c) = K \o Append(l.value, c)
    BY <1>1, <2>2, GrowsBehind
  <2>4. Append(H \o (K \o l.value), c) = H \o Append(K \o l.value, c)
    BY <2>2, GrowsBehind
  <2>5. QED
    BY <1>9, <1>11, <2>1, <2>3, <2>4 DEF H, K
<1> HIDE DEF m
<1>13. LineHeld(q, m, s)
  BY <1>11, <1>12 DEF LineHeld
<1>14. LineState(q, m)
  BY <1>9, <1>11 DEF LineState, state
<1>15. l.kind # "none" /\ l.kind # "section" /\ m.kind # "none" /\ m.kind # "section"
  BY <1>11
<1>16. Fits(q, m, s, e, its)
  BY <1>9, <1>11, <1>13, <1>14, <1>15, GoesAs
<1>17. QED
  BY <1>16 DEF q, m, d, a

\* A line goes on behind the spaces of the next one.
LEMMA BreakFits ==
  ASSUME NEW p, NEW l, NEW s, NEW e, NEW its, Fits(p, l, s, e, its), l.kind \in {"value", "directive"},
         l.broken => l.kind = "value"
  PROVE  Fits(Parser!Feed(Parser!Feed(Parser!Feed(p, e), Parser!NewLine), Parser!Space), [l EXCEPT !.broken = TRUE], s, e, its)
<1> DEFINE a == Parser!Feed(p, e)
           b == Parser!Feed(a, Parser!NewLine)
           q == Parser!Feed(b, Parser!Space)
           m == [l EXCEPT !.broken = TRUE]
           state == Reader[l.kind]
<1>1. p \in Parsers /\ l \in IniLines /\ p.escapeChar = e
  BY FitsAre
<1>2. Is(a, p.buffer, p.sectionSize, p.keySize, e, "valueEscaped", state, p.items)
  BY EscapeIs
<1> HIDE DEF a
<1>3. a \in Parsers /\ a.curState = "valueEscaped" /\ "valueEscapedNl" \in IniStates
  BY <1>2 DEF Is, IniStates
<1>4. b = Parser!Goto(a, "valueEscapedNl")
  BY <1>3, FeedIs DEF Parser!readValueEscaped, Parser!isnl
<1>5. Is(b, a.buffer, a.sectionSize, a.keySize, a.escapeChar, "valueEscapedNl", a.afterEscapeState, a.items)
  BY <1>3, <1>4, GotoIs
<1> HIDE DEF b
<1>6. q = b
  <2>1. b.curState = "valueEscapedNl"
    BY <1>5 DEF Is
  <2>2. QED
    BY <2>1, FeedIs DEF Parser!readValueEscapedNl, Parser!isspace
<1>7. /\ q \in Parsers /\ q.items = p.items /\ q.escapeChar = p.escapeChar /\ q.sectionSize = p.sectionSize
      /\ q.buffer = p.buffer /\ q.keySize = p.keySize /\ q.curState = "valueEscapedNl" /\ q.afterEscapeState = state
  BY <1>1, <1>2, <1>5, <1>6 DEF Is
<1>8. m \in IniLines /\ m.kind = l.kind /\ m.key = l.key /\ m.value = l.value /\ m.broken
  BY <1>1 DEF IniLines
<1> HIDE DEF q, m
<1>9. LineHeld(q, m, s)
  BY <1>7, <1>8 DEF Fits, LineHeld
<1>10. LineState(q, m)
  BY <1>7, <1>8 DEF LineState
<1>11. l.kind # "none" /\ l.kind # "section" /\ m.kind # "none" /\ m.kind # "section"
  BY <1>8
<1>12. Fits(q, m, s, e, its)
  BY <1>7, <1>8, <1>9, <1>10, <1>11, GoesAs
<1>13. QED
  BY <1>12 DEF q, m, b, a

\* What a parser must be that has just ended a line.
LEMMA EndsFit ==
  ASSUME NEW q \in Parsers, NEW s \in IniText, NEW e \in IniChars, NEW its, q.items = its, q.escapeChar = e,
         ~Parser!isspace(e), ~Parser!EndsSpaced(s), OneLine(s), q.sectionSize = Len(s) + 1, q.curState = "beginLine",
         \E rest \in IniText : q.buffer = Header(s) \o rest
  PROVE  Fits(q, Parser!NoLine, s, e, its)
<1>1. LineKeeps(q, Parser!NoLine, s, e, its)
  BY LineIs DEF LineKeeps
<1>2. LineHeld(q, Parser!NoLine, s)
  BY LineIs DEF LineHeld
<1>3. LineState(q, Parser!NoLine)
  BY LineIs DEF LineState, Reader
<1>4. QED
  BY <1>1, <1>2, <1>3 DEF Fits

\* A header ends, and is the section from now on.
LEMMA SectionFits ==
  ASSUME NEW p, NEW l, NEW s, NEW e, NEW its, Fits(p, l, s, e, its), l.kind = "section", ~Parser!EndsSpaced(l.key)
  PROVE  Fits(Parser!Feed(Parser!Feed(Parser!Feed(p, "]"), "="), Parser!NewLine), Parser!NoLine, l.key, e, its)
<1> DEFINE n == Parser!Keep(p, Parser!Nul)
           k == [n EXCEPT !.sectionSize = Len(p.buffer) + 1]
           a == Parser!Feed(p, "]")
           b == Parser!Feed(a, "=")
           q == Parser!Feed(b, Parser!NewLine)
<1>1. /\ p \in Parsers /\ l.key \in IniText /\ p.escapeChar = e /\ p.items = its /\ Len(l.key) \in Nat /\ e \in IniChars
      /\ Parser!Nul \in IniChars
  BY FitsAre, IniNames
<1>2. /\ p.buffer = l.key /\ OneLine(l.key) /\ ~l.broken /\ ~Parser!isspace(e)
  BY DEF Fits, LineHeld, LineKeeps
<1>3. p.curState = "section" /\ {"waitForEoln", "beginLine"} \subseteq IniStates
  BY <1>2 DEF Fits, LineState, Reader, IniStates
<1>4. Is(n, Append(l.key, Parser!Nul), p.sectionSize, p.keySize, e, p.curState, p.afterEscapeState, its)
  BY <1>1, <1>2, KeepIs
<1>5. a = Parser!Goto(k, "waitForEoln")
  BY <1>3, FeedIs DEF Parser!readSection
<1> HIDE DEF n
<1>6. Is(k, Append(l.key, Parser!Nul), Len(l.key) + 1, p.keySize, e, p.curState, p.afterEscapeState, its)
  <2>1. n \in Parsers /\ Len(p.buffer) + 1 \in Nat
    BY <1>1, <1>2, <1>4 DEF Is
  <2>2. k \in Parsers
    BY <2>1 DEF Parsers
  <2>3. QED
    BY <1>2, <1>4, <2>1, <2>2 DEF Is, Parsers
<1> HIDE DEF k, a
<1>7. k \in Parsers
  BY <1>6 DEF Is
<1>8. Is(a, k.buffer, k.sectionSize, k.keySize, k.escapeChar, "waitForEoln", k.afterEscapeState, k.items)
  BY <1>3, <1>5, <1>7, GotoIs
<1>9. a \in Parsers /\ a.curState = "waitForEoln"
  BY <1>8 DEF Is
<1>10. b = a
  BY <1>9, FeedIs DEF Parser!waitTillEoln, Parser!isnl, Parser!NewLine
<1> HIDE DEF b
<1>11. q = Parser!Goto(b, "beginLine")
  BY <1>9, <1>10, FeedIs DEF Parser!waitTillEoln, Parser!isnl
<1>12. Is(q, a.buffer, a.sectionSize, a.keySize, a.escapeChar, "beginLine", a.afterEscapeState, a.items)
  BY <1>3, <1>9, <1>10, <1>11, GotoIs
<1> HIDE DEF q
<1>13. /\ q \in Parsers /\ q.items = its /\ q.escapeChar = e /\ q.sectionSize = Len(l.key) + 1 /\ q.curState = "beginLine"
       /\ q.buffer = Header(l.key)
  BY <1>6, <1>8, <1>12 DEF Is, Header
<1>14. \E rest \in IniText : q.buffer = Header(l.key) \o rest
  <2>1. Header(l.key) \in IniText
    BY <1>1, TextGrows DEF Header
  <2>2. Header(l.key) \o <<>> = Header(l.key) /\ <<>> \in IniText
    BY <2>1, TextGrows
  <2>3. QED
    BY <1>13, <2>2
<1>15. Fits(q, Parser!NoLine, l.key, e, its)
  BY <1>1, <1>2, <1>13, <1>14, EndsFit
<1>16. QED
  BY <1>15 DEF q, b, a

\* A comment ends, and is reported.
LEMMA CommentFits ==
  ASSUME NEW p, NEW l, NEW s, NEW e, NEW its, Fits(p, l, s, e, its), l.kind = "comment"
  PROVE  Fits(Parser!Feed(p, Parser!NewLine), Parser!NoLine, s, e, <<Parser!Item("comment", <<>>, <<>>, l.key)>>)
<1> DEFINE q == Parser!Feed(p, Parser!NewLine)
           g == Parser!Goto(p, "beginLine")
           item == Parser!Item("comment", <<>>, <<>>, l.key)
<1>1. /\ p \in Parsers /\ l.key \in IniText /\ s \in IniText /\ p.escapeChar = e /\ p.items = its /\ e \in IniChars
      /\ Header(s) \in IniText /\ Len(Header(s)) = Len(s) + 1 /\ Len(s) \in Nat /\ Len(l.key) \in Nat
  BY FitsAre
<1>2. /\ p.buffer = Header(s) \o l.key /\ ~l.broken /\ ~Parser!isspace(e) /\ its = <<>> /\ p.sectionSize = Len(s) + 1
      /\ ~Parser!EndsSpaced(s) /\ OneLine(s)
  BY DEF Fits, LineHeld, LineKeeps
<1>3. p.curState = "comment" /\ "beginLine" \in IniStates
  BY <1>2 DEF Fits, LineState, Reader, IniStates
<1>4. Parser!Cut(p, p.sectionSize + 1, Len(p.buffer)) = l.key
  <2> DEFINE C == IniChars
             H == Header(s)
             k == l.key
             u == SubSeq(H \o k, Len(H) + 1, Len(H \o k))
  <2>1. H \in Seq(C) /\ k \in Seq(C)
    BY <1>1 DEF IniText
  <2> HIDE DEF C, H, k
  <2>2. u \in Seq(C) /\ Len(u) = Len(k) /\ \A i \in 1..Len(k) : u[i] = k[i]
    BY <2>1
  <2> HIDE DEF u
  <2>3. u = k
    BY <2>1, <2>2, SeqEqual
  <2>4. QED
    BY <1>1, <1>2, <2>3 DEF u, k, H, Parser!Cut
<1>5. q = Parser!Report(g, item)
  <2>1. q = Parser!readComment(p, Parser!NewLine)
    BY <1>3, FeedIs
  <2> HIDE DEF q
  <2>2. QED
    BY <1>4, <2>1 DEF Parser!readComment, Parser!isnl
<1>6. Is(g, p.buffer, p.sectionSize, p.keySize, p.escapeChar, "beginLine", p.afterEscapeState, p.items)
  BY <1>1, <1>3, GotoIs
<1> HIDE DEF g, q
<1>7. item \in IniItem
  BY <1>1, TextGrows DEF Parser!Item, IniItem
<1> HIDE DEF item
<1>8. g \in Parsers /\ g.items = <<>>
  BY <1>1, <1>2, <1>6 DEF Is
<1>9. Append(g.items, item) = <<item>> /\ <<item>> \in Seq(IniItem)
  BY <1>7, <1>8
<1>10. q = [g EXCEPT !.items = <<item>>]
  BY <1>5, <1>9 DEF Parser!Report
<1>11. Is(q, g.buffer, g.sectionSize, g.keySize, g.escapeChar, g.curState, g.afterEscapeState, <<item>>)
  BY <1>8, <1>9, <1>10, ItemsIs
<1>12. /\ q \in Parsers /\ q.items = <<item>> /\ q.escapeChar = e /\ q.sectionSize = Len(s) + 1 /\ q.curState = "beginLine"
       /\ q.buffer = Header(s) \o l.key
  BY <1>1, <1>2, <1>6, <1>11 DEF Is
<1>13. Fits(q, Parser!NoLine, s, e, <<item>>)
  BY <1>1, <1>2, <1>12, EndsFit
<1>14. QED
  BY <1>13 DEF q, item

\* The end of a line with a key is told by its three parts.
LEMMA KeyedEnds ==
  ASSUME NEW p, NEW l, NEW s, NEW e, NEW its, Fits(p, l, s, e, its), ~l.broken,
         NEW type,
         \/ l.kind \in {"key", "value"} /\ type = "data"
         \/ l.kind \in {"keyword", "directive"} /\ type = "directive"
  PROVE  EndsAs(Parser!Feed(p, Parser!NewLine), s, l.key, l.value, type, e)
<1> DEFINE q == Parser!Feed(p, Parser!NewLine)
           r == Parser!KeyEnds(p)
           whole == Header(s) \o (Append(l.key, Parser!Nul) \o l.value)
<1>1. /\ p \in Parsers /\ l.key \in IniText /\ l.value \in IniText /\ s \in IniText /\ p.escapeChar = e
  BY FitsAre
<1>2. p.items = <<>> /\ p.sectionSize = Len(s) + 1 /\ ~Parser!EndsSpaced(s) /\ OneLine(s)
  BY DEF Fits, LineKeeps
<1>3. p.curState = Reader[l.kind]
  BY DEF Fits, LineState
<1>4. type \in {"data", "directive"} /\ Parser!isnl(Parser!NewLine)
  BY DEF Parser!isnl
<1>5. ASSUME NEW x \in Parsers, x.buffer = whole, x.sectionSize = Len(s) + 1, x.keySize = Len(l.key) + 1,
             x.items = <<>>, x.escapeChar = e, q = Parser!EndOfLine(x, type)
      PROVE  EndsAs(q, s, l.key, l.value, type, e)
  <2>1. x.buffer = Append(s, Parser!Nul) \o (Append(l.key, Parser!Nul) \o l.value)
    BY <1>5 DEF Header
  <2>2. EndsAs(Parser!EndOfLine(x, type), s, l.key, l.value, type, x.escapeChar)
    BY <1>1, <1>2, <1>4, <1>5, <2>1, EndOfLineIs
  <2>3. QED
    BY <1>5, <2>2
<1>6. CASE l.kind \in {"value", "directive"}
  <2>1. p.buffer = whole /\ p.keySize = Len(l.key) + 1
    BY <1>6 DEF Fits, LineHeld
  <2>2. q = Parser!EndOfLine(p, type)
    <3>1. CASE l.kind = "value"
      <4>1. q = Parser!readValue(p, Parser!NewLine) /\ type = "data"
        BY <1>3, <3>1, FeedIs DEF Reader
      <4> HIDE DEF q
      <4>2. QED
        BY <1>4, <4>1 DEF Parser!readValue, Parser!readValueGen
    <3>2. CASE l.kind = "directive"
      <4>1. q = Parser!readDirectiveData(p, Parser!NewLine) /\ type = "directive"
        BY <1>3, <3>2, FeedIs DEF Reader
      <4> HIDE DEF q
      <4>2. QED
        BY <1>4, <4>1 DEF Parser!readDirectiveData, Parser!readValueGen
    <3>3. QED
      BY <1>6, <3>1, <3>2
  <2> HIDE DEF q, whole
  <2>3. QED
    BY <1>1, <1>2, <1>5, <2>1, <2>2 DEF q
<1>7. CASE l.kind \in {"key", "keyword"}
  <2>1. p.buffer = Header(s) \o l.key /\ l.value = <<>>
    BY <1>7 DEF Fits, LineHeld
  <2>2. Is(r, Header(s) \o (Append(l.key, Parser!Nul) \o <<>>), Len(s) + 1, Len(l.key) + 1, p.escapeChar,
           p.curState, p.afterEscapeState, p.items)
    BY <1>1, <1>2, <2>1, KeyEnded
  <2> HIDE DEF r
  <2>3. r \in Parsers /\ "directiveData" \in IniStates
    BY <2>2 DEF Is, IniStates
  <2>4. /\ r.buffer = whole /\ r.sectionSize = Len(s) + 1 /\ r.keySize = Len(l.key) + 1
        /\ r.items = <<>> /\ r.escapeChar = e
    BY <1>1, <1>2, <2>1, <2>2 DEF Is
  <2>5. CASE l.kind = "key"
    <3>1. q = Parser!readKey(p, Parser!NewLine) /\ type = "data"
      BY <1>3, <2>5, FeedIs DEF Reader
    <3> HIDE DEF q, whole
    <3>2. q = Parser!readValue(r, Parser!NewLine)
      BY <3>1 DEF Parser!readKey, Parser!isnl, Parser!NewLine, r
    <3>3. q = Parser!EndOfLine(r, type)
      BY <1>4, <3>1, <3>2 DEF Parser!readValue, Parser!readValueGen
    <3>4. QED
      BY <1>5, <2>3, <2>4, <3>3 DEF q
  <2>6. CASE l.kind = "keyword"
    <3> DEFINE x == Parser!Goto(r, "directiveData")
    <3>1. q = Parser!readDirectiveKeyword(p, Parser!NewLine) /\ type = "directive"
      BY <1>3, <2>6, FeedIs DEF Reader
    <3> HIDE DEF q, whole
    <3>2. q = Parser!readDirectiveData(x, Parser!NewLine)
      BY <1>4, <3>1 DEF Parser!readDirectiveKeyword, r
    <3>3. Is(x, r.buffer, r.sectionSize, r.keySize, r.escapeChar, "directiveData", r.afterEscapeState, r.items)
      BY <2>3, GotoIs
    <3> HIDE DEF x
    <3>4. q = Parser!EndOfLine(x, type)
      BY <1>4, <3>1, <3>2 DEF Parser!readDirectiveData, Parser!readValueGen
    <3>5. /\ x \in Parsers /\ x.buffer = whole /\ x.sectionSize = Len(s) + 1 /\ x.keySize = Len(l.key) + 1
          /\ x.items = <<>> /\ x.escapeChar = e
      BY <2>4, <3>3 DEF Is
    <3>6. QED
      BY <1>5, <3>4, <3>5 DEF q
  <2>7. QED
    BY <1>7, <2>5, <2>6
<1>8. QED
  BY <1>6, <1>7

\* It is reported, or the escape character is another from now on.
Takes(type, l) == type = "directive" /\ Parser!trim(l.key) = <<"\\">> /\ Len(Parser!trim(l.value)) = 1

\* The end of a line with a key: it is an item, or the new escape character.
LEMMA KeyedFits ==
  ASSUME NEW p, NEW l, NEW s, NEW e, NEW its, Fits(p, l, s, e, its), ~l.broken,
         NEW type,
         \/ l.kind \in {"key", "value"} /\ type = "data"
         \/ l.kind \in {"keyword", "directive"} /\ type = "directive"
  PROVE  /\ Takes(type, l) => Fits(Parser!Feed(p, Parser!NewLine), Parser!NoLine, s, Parser!trim(l.value)[1], <<>>)
         /\ ~Takes(type, l) =>
              Fits(Parser!Feed(p, Parser!NewLine), Parser!NoLine, s, e,
                   <<Parser!Item(type, Parser!trim(s), Parser!trim(l.key), Parser!trim(l.value))>>)
<1> DEFINE q == Parser!Feed(p, Parser!NewLine)
           item == Parser!Item(type, Parser!trim(s), Parser!trim(l.key), Parser!trim(l.value))
<1>1. l.value \in IniText /\ s \in IniText /\ e \in IniChars
  BY FitsAre
<1>2. ~Parser!isspace(e) /\ ~Parser!EndsSpaced(s) /\ OneLine(s)
  BY DEF Fits, LineKeeps
<1>3. EndsAs(q, s, l.key, l.value, type, e)
  BY KeyedEnds
<1> HIDE DEF q, item
<1>4. /\ q \in Parsers /\ q.curState = "beginLine" /\ q.sectionSize = Len(s) + 1
      /\ \E rest \in IniText : q.buffer = Header(s) \o rest
  BY <1>3 DEF EndsAs, Header
<1>5. ASSUME Takes(type, l) PROVE Fits(q, Parser!NoLine, s, Parser!trim(l.value)[1], <<>>)
  <2> DEFINE c == Parser!trim(l.value)[1]
  <2>1. q.escapeChar = c /\ q.items = <<>> /\ Len(Parser!trim(l.value)) = 1
    BY <1>3, <1>5 DEF EndsAs, Takes
  <2>2. c \in IniChars /\ ~Parser!isspace(c)
    BY <1>1, <2>1, TrimIs
  <2> HIDE DEF c
  <2>3. Fits(q, Parser!NoLine, s, c, <<>>)
    BY <1>1, <1>2, <1>4, <2>1, <2>2, EndsFit
  <2>4. QED
    BY <2>3 DEF c
<1>6. ASSUME ~Takes(type, l) PROVE Fits(q, Parser!NoLine, s, e, <<item>>)
  <2>1. q.escapeChar = e /\ q.items = <<item>>
    BY <1>3, <1>6 DEF EndsAs, Takes, item
  <2>2. QED
    BY <1>1, <1>2, <1>4, <2>1, EndsFit
<1>7. QED
  BY <1>5, <1>6 DEF q, item

\* What the parser was when it was made.
LEMMA NewFits == Fits(Parser!New, Parser!NoLine, <<>>, "\\", <<>>)
<1> DEFINE q == Parser!New
<1>1. Parser!Nul \in IniChars /\ "\\" \in IniChars /\ <<>> \in IniText /\ Len(<<>>) = 0
  BY IniNames, TextGrows
<1>2. Header(<<>>) = <<Parser!Nul>> /\ Header(<<>>) \in IniText /\ Header(<<>>) \o <<>> = Header(<<>>)
  <2>1. Header(<<>>) = <<Parser!Nul>>
    BY DEF Header
  <2>2. Header(<<>>) \in IniText
    BY <1>1, TextGrows DEF Header
  <2>3. QED
    BY <2>1, <2>2, TextGrows
<1>3. "beginLine" \in IniStates /\ <<>> \in Seq(IniItem)
  BY DEF IniStates
<1>4. /\ q.buffer = <<Parser!Nul>> /\ q.sectionSize = 1 /\ q.keySize = 0 /\ q.escapeChar = "\\"
      /\ q.curState = "beginLine" /\ q.items = <<>>
  BY DEF Parser!New
<1>5. q \in Parsers
  BY <1>1, <1>2, <1>3 DEF Parsers, Parser!New
<1>6. ~Parser!isspace("\\") /\ ~Parser!EndsSpaced(<<>>) /\ OneLine(<<>>)
  BY DEF Parser!isspace, Parser!NewLine, Parser!Space, Parser!EndsSpaced, Parser!Solid, OneLine
<1>7. \E rest \in IniText : q.buffer = Header(<<>>) \o rest
  BY <1>1, <1>2, <1>4
<1> HIDE DEF q
<1>8. Fits(q, Parser!NoLine, <<>>, "\\", <<>>)
  BY <1>1, <1>4, <1>5, <1>6, <1>7, EndsFit
<1>9. QED
  BY <1>8 DEF q

\* A line begins.
LEMMA IniBegins ==
  ASSUME IniFits, NEW kind, NEW c, Parser!Begins([Parser!NoLine EXCEPT !.kind = kind], c), Starts(kind, c)
  PROVE  IniFits'
<1>1. PICK t : t = [parser EXCEPT !.items = <<>>]
  OBVIOUS
<1>2. Fits(Parser!Feed(t, c), [Parser!NoLine EXCEPT !.kind = kind], iniSection, iniEscape, <<>>)
  <2>1. Fits(parser, iniLine, iniSection, iniEscape, iniItems) /\ iniLine.kind = "none"
    BY DEF IniFits, Parser!Begins
  <2>2. QED
    BY <1>1, <2>1, BeginFits, Zenon
<1>3. QED
  BY <1>1, <1>2 DEF IniFits, Parser!Begins, Parser!Taken

\* What was taken for something else stays so.
LEMMA OddStays ==
  ASSUME [Parser!Next]_parses, odd' = {}
  PROVE  odd = {}
<1>1. odd' = odd \/ \E x : odd' = odd \cup {x}
  <2>1. CASE Parser!BeginLine
    BY <2>1 DEF Parser!BeginLine, Parser!Begins
  <2>2. ASSUME NEW c \in FileChars,
               Parser!BeginKey(c) \/ Parser!WriteName(c) \/ Parser!WritePlain(c) \/ Parser!WriteEscaped(c)
        PROVE  odd' = odd \/ \E x : odd' = odd \cup {x}
    BY <2>2 DEF Parser!BeginKey, Parser!Begins, Parser!WriteName, Parser!WritePlain, Parser!WriteEscaped, Parser!Escapes
  <2>3. CASE Parser!KeyDone \/ Parser!BreakLine
    BY <2>3 DEF Parser!KeyDone, Parser!BreakLine, Parser!Escapes
  <2>4. CASE Parser!EndLine
    BY <2>4 DEF Parser!EndLine, Parser!EndSection, Parser!Ends
  <2>5. CASE UNCHANGED parses
    BY <2>5 DEF parses
  <2>6. QED
    BY <2>1, <2>2, <2>3, <2>4, <2>5 DEF Parser!Next
<1>2. QED
  BY <1>1

\* Every step keeps that the parser fits what was written.
LEMMA IniStep ==
  ASSUME IniInv, [Parser!Next]_parses
  PROVE  IniInv'
<1>0. SUFFICES ASSUME odd' = {} PROVE IniFits'
  BY DEF IniInv
<1>0a. IniFits
  BY <1>0, OddStays DEF IniInv
<1>1. CASE Parser!BeginLine
  <2>1. PICK kind, c : Parser!Begins([Parser!NoLine EXCEPT !.kind = kind], c) /\ Starts(kind, c)
    <3>1. ASSUME NEW c, Parser!Begins(Parser!NoLine, c)
          PROVE  Parser!Begins([Parser!NoLine EXCEPT !.kind = "none"], c)
      <4>1. [Parser!NoLine EXCEPT !.kind = "none"] = Parser!NoLine
        BY DEF Parser!NoLine
      <4>2. QED
        BY <3>1, <4>1
    <3>2. QED
      BY <1>1, <3>1 DEF Parser!BeginLine, Starts
  <2>2. QED
    BY <1>0a, <2>1, IniBegins
<1>2. ASSUME NEW c \in FileChars, Parser!BeginKey(c) PROVE IniFits'
  <2>1. PICK t : t = [parser EXCEPT !.items = <<>>]
    OBVIOUS
  <2>2. c \in IniChars /\ c \notin {Parser!NewLine, Parser!Space, "#", "[", "@", "="}
    BY <1>2, IniNames DEF Parser!BeginKey
  <2>3. Fits(Parser!Feed(t, c), [Parser!NoLine EXCEPT !.kind = "key", !.key = <<c>>], iniSection, iniEscape, <<>>)
    BY <1>2, <2>1, <2>2, BeginKeyFits, <1>0a DEF IniFits, Parser!BeginKey, Parser!Begins
  <2>4. QED
    BY <1>2, <2>1, <2>3 DEF IniFits, Parser!BeginKey, Parser!Begins, Parser!Taken
<1>3. ASSUME NEW c \in FileChars, Parser!WriteName(c) PROVE IniFits'
  <2>1. c \in IniChars /\ c # Parser!NewLine /\ c \notin Parser!Stops[iniLine.kind] /\ iniLine.kind \in DOMAIN Parser!Stops
    BY <1>3, IniNames DEF Parser!WriteName
  <2>2. Fits(Parser!Feed(parser, c), [iniLine EXCEPT !.key = Append(@, c)], iniSection, iniEscape, iniItems)
    BY <2>1, NameFits, <1>0a DEF IniFits
  <2>3. QED
    BY <1>3, <2>2 DEF IniFits, Parser!WriteName, Parser!Goes
<1>4. ASSUME NEW c \in FileChars, Parser!WritePlain(c) PROVE IniFits'
  <2>1. /\ c \in IniChars /\ c # Parser!NewLine /\ c # iniEscape /\ (iniLine.broken => c # Parser!Space)
        /\ iniLine.kind \in {"value", "directive"}
    BY <1>4, IniNames DEF Parser!WritePlain, Parser!InValue
  <2>2. Fits(Parser!Feed(parser, c), [iniLine EXCEPT !.value = Append(@, c), !.broken = FALSE], iniSection, iniEscape, iniItems)
    BY <2>1, PlainFits, <1>0a DEF IniFits
  <2>3. QED
    BY <1>4, <2>2 DEF IniFits, Parser!WritePlain, Parser!Goes, Parser!Add
<1>5. ASSUME NEW c \in FileChars, Parser!WriteEscaped(c) PROVE IniFits'
  <2>1. /\ c \in IniChars /\ c # "n" /\ c # "r" /\ iniLine.kind \in {"value", "directive"}
        /\ (iniLine.broken => iniLine.kind = "value")
    BY <1>0, <1>5, IniNames DEF Parser!WriteEscaped, Parser!InValue, Parser!Escapes
  <2>2. Fits(Parser!Feed(Parser!Feed(parser, iniEscape), IF c = Parser!NewLine THEN "n" ELSE c),
             [iniLine EXCEPT !.value = Append(@, c), !.broken = FALSE], iniSection, iniEscape, iniItems)
    BY <2>1, EscapedFits, <1>0a DEF IniFits
  <2>3. QED
    BY <1>5, <2>2 DEF IniFits, Parser!WriteEscaped, Parser!Goes, Parser!Add
<1>6. CASE Parser!KeyDone
  <2>1. ASSUME iniLine.kind = "key", Parser!Goes([iniLine EXCEPT !.kind = "value"], Parser!Feed(parser, "=")) PROVE IniFits'
    <3>1. Fits(Parser!Feed(parser, "="), [iniLine EXCEPT !.kind = "value"], iniSection, iniEscape, iniItems)
      BY <2>1, KeyDoneFits, <1>0a DEF IniFits
    <3>2. QED
      BY <2>1, <3>1 DEF IniFits, Parser!Goes
  <2>2. ASSUME iniLine.kind = "keyword",
               Parser!Goes([iniLine EXCEPT !.kind = "directive"], Parser!Feed(parser, Parser!Space))
        PROVE IniFits'
    <3>1. Fits(Parser!Feed(parser, Parser!Space), [iniLine EXCEPT !.kind = "directive"], iniSection, iniEscape, iniItems)
      BY <2>2, KeyDoneFits, <1>0a DEF IniFits
    <3>2. QED
      BY <2>2, <3>1 DEF IniFits, Parser!Goes
  <2>3. QED
    BY <1>6, <2>1, <2>2 DEF Parser!KeyDone
<1>7. CASE Parser!BreakLine
  <2>1. iniLine.kind \in {"value", "directive"} /\ (iniLine.broken => iniLine.kind = "value")
    BY <1>0, <1>7 DEF Parser!BreakLine, Parser!InValue, Parser!Escapes
  <2>2. Fits(Parser!Feed(Parser!Feed(Parser!Feed(parser, iniEscape), Parser!NewLine), Parser!Space),
             [iniLine EXCEPT !.broken = TRUE], iniSection, iniEscape, iniItems)
    BY <2>1, BreakFits, <1>0a DEF IniFits
  <2>3. QED
    BY <1>7, <2>2 DEF IniFits, Parser!BreakLine, Parser!Goes
<1>8. ASSUME Parser!EndSection PROVE IniFits'
  <2>1. iniLine.kind = "section" /\ ~Parser!EndsSpaced(iniLine.key)
    BY <1>0, <1>8 DEF Parser!EndSection
  <2>2. Fits(Parser!Feed(Parser!Feed(Parser!Feed(parser, "]"), "="), Parser!NewLine), Parser!NoLine,
             iniLine.key, iniEscape, iniItems)
    BY <2>1, SectionFits, <1>0a DEF IniFits
  <2>3. QED
    BY <1>8, <2>2 DEF IniFits, Parser!EndSection
<1>9. ASSUME iniLine.kind = "comment", Parser!Ends(<<Parser!Item("comment", <<>>, <<>>, iniLine.key)>>), UNCHANGED iniEscape
      PROVE IniFits'
  <2>1. Fits(Parser!Feed(parser, Parser!NewLine), Parser!NoLine, iniSection, iniEscape,
             <<Parser!Item("comment", <<>>, <<>>, iniLine.key)>>)
    BY <1>9, CommentFits, <1>0a DEF IniFits
  <2>2. QED
    BY <1>9, <2>1 DEF IniFits, Parser!Ends
<1>10. ASSUME iniLine.kind \in {"key", "value"}, UNCHANGED iniEscape,
              Parser!Ends(<<Parser!Item("data", Parser!trim(iniSection), Parser!trim(iniLine.key), Parser!trim(iniLine.value))>>)
       PROVE IniFits'
  <2>1. ~Takes("data", iniLine) /\ ~iniLine.broken
    BY <1>0, <1>10 DEF Takes, Parser!Ends
  <2>2. Fits(Parser!Feed(parser, Parser!NewLine), Parser!NoLine, iniSection, iniEscape,
             <<Parser!Item("data", Parser!trim(iniSection), Parser!trim(iniLine.key), Parser!trim(iniLine.value))>>)
    BY <1>10, <2>1, KeyedFits, <1>0a DEF IniFits
  <2>3. QED
    BY <1>10, <2>2 DEF IniFits, Parser!Ends
<1>11. ASSUME iniLine.kind \in {"keyword", "directive"},
              IF Parser!NewEscape
              THEN Parser!Ends(<<>>) /\ iniEscape' = Parser!trim(iniLine.value)[1]
              ELSE /\ Parser!Ends(<<Parser!Item("directive", Parser!trim(iniSection), Parser!trim(iniLine.key),
                                                Parser!trim(iniLine.value))>>)
                   /\ UNCHANGED iniEscape
       PROVE IniFits'
  <2>1. (Takes("directive", iniLine) <=> Parser!NewEscape) /\ ~iniLine.broken
    BY <1>0, <1>11 DEF Takes, Parser!NewEscape, Parser!Ends
  <2>2. CASE Parser!NewEscape
    <3>1. Fits(Parser!Feed(parser, Parser!NewLine), Parser!NoLine, iniSection, Parser!trim(iniLine.value)[1], <<>>)
      BY <1>11, <2>1, <2>2, KeyedFits, <1>0a DEF IniFits
    <3>2. QED
      BY <1>11, <2>2, <3>1 DEF IniFits, Parser!Ends
  <2>3. CASE ~Parser!NewEscape
    <3>1. Fits(Parser!Feed(parser, Parser!NewLine), Parser!NoLine, iniSection, iniEscape,
               <<Parser!Item("directive", Parser!trim(iniSection), Parser!trim(iniLine.key), Parser!trim(iniLine.value))>>)
      BY <1>11, <2>1, <2>3, KeyedFits, <1>0a DEF IniFits
    <3>2. QED
      BY <1>11, <2>3, <3>1 DEF IniFits, Parser!Ends
  <2>4. QED
    BY <2>2, <2>3
<1>12. CASE Parser!EndLine
  BY <1>8, <1>9, <1>10, <1>11, <1>12 DEF Parser!EndLine
<1>13. CASE UNCHANGED parses
  BY <1>0a, <1>13 DEF parses, IniFits
<1>14. QED
  BY <1>1, <1>2, <1>3, <1>4, <1>5, <1>6, <1>7, <1>12, <1>13 DEF Parser!Next

\* An ini file says what its lines say: what IniParser reports of a line is what
\* the line means (ini_parser.h:33), whatever the lines before it were and
\* wherever it was broken, as long as no header with a space at its name's end, no
\* directive broken before an escape and no line broken before an empty one was
\* written, each of which odd tells of.
THEOREM LinesAreUnderstood ==
  ParserSpec => []LinesUnderstood
<1>1. Parser!Init => IniInv
  BY NewFits DEF Parser!Init, IniInv, IniFits
<1>2. IniInv /\ [Parser!Next]_parses => IniInv'
  BY IniStep
<1>3. IniInv => LinesUnderstood
  BY DEF IniInv, IniFits, Fits, LineKeeps, LinesUnderstood, Parser!LinesUnderstood
<1>4. QED
  BY <1>1, <1>2, <1>3, PTL DEF ParserSpec

-----------------------------------------------------------------------------
(* linear_set.h *)

Elements == (1..MaxKey) \X Values
Vectors == Seq(Elements)
\* No key twice, whatever the order, and what is left of a vector from a position on.
Distinct(s) == \A i, j \in 1..Len(s) : i # j => s[i][1] # s[j][1]
Rest(s, n) == {s[i] : i \in n..Len(s)}
Ordered(s) == Set!Ordered(s)
AllLess(m, n) == \A d \in m, e \in n : d[1] < e[1]

SetTypes ==
  /\ {vector, other, tmp, newvect} \subseteq Vectors
  /\ oldNext \in Nat \ {0} /\ newNext \in Nat \ {0} /\ newNext <= Len(tmp) + 1 /\ oldNext <= Len(vector) + 1
  /\ Ordered(vector) /\ Ordered(other)
\* The ghosts: a key once in what std::set would hold, and what replaced elements of that.
Once(m) == \A d, e \in m : d[1] = e[1] => d = e
SetGhosts ==
  /\ {map, again} \subseteq SUBSET Elements /\ Once(map)
  /\ \A a \in again : \E d \in map : d[1] = a[1]
\* Between two calls the vector holds what it should, and the last insertion is where it was said to be.
SetAtRest ==
  /\ tmp = <<>> /\ newvect = <<>> /\ oldNext = 1 /\ newNext = 1
  /\ Set!Contents(vector) = Set!Held
  /\ result # Set!None => result[1] \in DOMAIN vector /\ vector[result[1]][1] = result[2]
\* In the middle of one that is what it will hold.
SetEach ==
  /\ newvect = <<>> /\ oldNext = 1 /\ Distinct(tmp)
  /\ Set!Held = Set!Keeping(Set!Contents(vector), Rest(tmp, newNext))
SetMerge ==
  /\ Ordered(tmp) /\ Ordered(newvect)
  /\ Set!Held = Set!Contents(newvect) \cup Set!Replacing(Rest(vector, oldNext), Rest(tmp, newNext))
  /\ AllLess(Set!Contents(newvect), Rest(vector, oldNext) \cup Rest(tmp, newNext))
SetInv ==
  /\ SetTypes /\ SetGhosts /\ call \in {"none", "each", "merge"}
  /\ (call = "none" => SetAtRest)
  /\ (call = "each" => SetEach /\ result = Set!None)
  /\ (call = "merge" => SetMerge /\ result = Set!None)

\* What vectors are: elements by their place.
LEMMA VectorIs ==
  ASSUME NEW s \in Vectors
  PROVE  /\ Len(s) \in Nat /\ DOMAIN s = 1..Len(s) /\ s \in [1..Len(s) -> Elements]
         /\ \A i \in 1..Len(s) : s[i] \in Elements /\ s[i][1] \in 1..MaxKey /\ s[i][1] \in Nat
         /\ \A e : e \in Set!Contents(s) <=> \E i \in 1..Len(s) : s[i] = e
         /\ Set!Contents(s) \subseteq Elements
<1>1. Len(s) \in Nat /\ DOMAIN s = 1..Len(s) /\ s \in [1..Len(s) -> Elements]
  BY DEF Vectors
<1>2. \A i \in 1..Len(s) : s[i] \in Elements /\ s[i][1] \in 1..MaxKey /\ s[i][1] \in Nat
  BY <1>1 DEF Elements
<1>3. QED
  BY <1>1, <1>2 DEF Set!Contents

\* A sorted vector has no key twice.
LEMMA OrderedIs ==
  ASSUME NEW s \in Vectors
  PROVE  /\ Ordered(s) <=> \A i, j \in 1..Len(s) : i < j => s[i][1] < s[j][1]
         /\ Ordered(s) => \A i, j \in 1..Len(s) : (s[i][1] = s[j][1] => i = j) /\ (s[i] = s[j] => i = j)
<1>1. DOMAIN s = 1..Len(s)
  BY VectorIs
<1>2. Ordered(s) <=> \A i, j \in 1..Len(s) : i < j => s[i][1] < s[j][1]
  BY <1>1 DEF Ordered, Set!Ordered, Set!less
<1>3. ASSUME Ordered(s), NEW i \in 1..Len(s), NEW j \in 1..Len(s), s[i][1] = s[j][1] PROVE i = j
  <2>1. s[i][1] \in Nat /\ s[j][1] \in Nat
    BY VectorIs
  <2>2. ~(i < j) /\ ~(j < i)
    BY <1>2, <1>3, <2>1
  <2>3. QED
    BY <1>1, <2>2, VectorIs
<1>4. QED
  BY <1>2, <1>3

\* Where binary search ends.
IsBoundary(s, b, k) ==
  /\ b \in 1..(Len(s) + 1)
  /\ \A j \in 1..(b - 1) : s[j][1] < k
  /\ \A j \in b..Len(s) : ~(s[j][1] < k)
LEMMA LowerIs ==
  ASSUME NEW s \in Vectors, Ordered(s), NEW k \in Nat
  PROVE  IsBoundary(s, Set!lower_bound(s, k), k)
<1> DEFINE P(i) == i = Len(s) + 1 \/ (i \in 1..Len(s) /\ ~(s[i][1] < k))
           S == {i \in 1..(Len(s) + 1) : P(i)}
           Fits0(i) == (\A j \in 1..(i - 1) : s[j][1] < k) /\ \A j \in i..Len(s) : ~(s[j][1] < k)
<1>1. Len(s) \in Nat /\ \A i \in 1..Len(s) : s[i][1] \in Nat
  BY VectorIs
<1>2. S \subseteq Nat /\ Len(s) + 1 \in S
  BY <1>1
<1>3. PICK b \in S : \A i \in S : b <= i
  BY <1>2, SmallestNat
<1>4. \A j \in 1..(b - 1) : s[j][1] < k
  <2> SUFFICES ASSUME NEW j \in 1..(b - 1), ~(s[j][1] < k) PROVE FALSE
    OBVIOUS
  <2>1. j \in 1..Len(s)
    BY <1>1, <1>3
  <2>2. j \in S
    BY <1>1, <2>1
  <2>3. b <= j
    BY <1>3, <2>2
  <2>4. QED
    BY <1>1, <1>3, <2>3
<1>5. \A j \in b..Len(s) : ~(s[j][1] < k)
  <2> SUFFICES ASSUME NEW j \in b..Len(s) PROVE ~(s[j][1] < k)
    OBVIOUS
  <2>1. j \in 1..Len(s) /\ b \in 1..Len(s) /\ b <= j
    BY <1>1, <1>3
  <2>2. ~(s[b][1] < k)
    BY <1>1, <1>3, <2>1
  <2>3. s[b][1] <= s[j][1]
    <3>1. CASE b = j
      BY <1>1, <2>1, <3>1
    <3>2. CASE b # j
      <4>1. b < j
        BY <2>1, <3>2
      <4>2. s[b][1] < s[j][1]
        BY <2>1, <4>1, OrderedIs
      <4>3. QED
        BY <1>1, <2>1, <4>2
    <3>3. QED
      BY <3>1, <3>2
  <2>4. s[b][1] \in Nat /\ s[j][1] \in Nat
    BY <1>1, <2>1
  <2> HIDE DEF S, P
  <2>5. QED
    BY <2>2, <2>3, <2>4
<1>6. \E i \in 1..(Len(s) + 1) : Fits0(i)
  BY <1>3, <1>4, <1>5
<1>7. Set!lower_bound(s, k) = CHOOSE i \in 1..(Len(s) + 1) : Fits0(i)
  BY DEF Set!lower_bound, Set!Boundary, Set!End
<1> DEFINE c == CHOOSE i \in 1..(Len(s) + 1) : Fits0(i)
<1>8. c \in 1..(Len(s) + 1) /\ Fits0(c)
  BY <1>6
<1> HIDE DEF c
<1>9. IsBoundary(s, c, k)
  BY <1>8 DEF IsBoundary
<1>10. QED
  BY <1>7, <1>9 DEF c

\* Where the search for what is greater ends.
LEMMA UpperIs ==
  ASSUME NEW s \in Vectors, Ordered(s), NEW k \in Nat
  PROVE  IsBoundary(s, Set!upper_bound(s, k), k + 1)
<1> DEFINE Fits0(i) == (\A j \in 1..(i - 1) : s[j][1] <= k) /\ \A j \in i..Len(s) : ~(s[j][1] <= k)
<1>1. Len(s) \in Nat /\ \A i \in 1..Len(s) : s[i][1] \in Nat
  BY VectorIs
<1>2. IsBoundary(s, Set!lower_bound(s, k + 1), k + 1)
  BY LowerIs
<1>3. ASSUME NEW b \in 1..(Len(s) + 1) PROVE Fits0(b) <=> IsBoundary(s, b, k + 1)
  <2>1. \A j \in 1..Len(s) : s[j][1] <= k <=> s[j][1] < k + 1
    BY <1>1
  <2>2. (\A j \in 1..(b - 1) : j \in 1..Len(s)) /\ (\A j \in b..Len(s) : j \in 1..Len(s))
    BY <1>1
  <2>3. QED
    BY <2>1, <2>2 DEF IsBoundary
<1>4. \E i \in 1..(Len(s) + 1) : Fits0(i)
  BY <1>2, <1>3 DEF IsBoundary
<1>5. Set!upper_bound(s, k) = CHOOSE i \in 1..(Len(s) + 1) : Fits0(i)
  BY DEF Set!upper_bound, Set!Boundary, Set!End
<1> DEFINE c == CHOOSE i \in 1..(Len(s) + 1) : Fits0(i)
<1>6. c \in 1..(Len(s) + 1) /\ Fits0(c)
  BY <1>4
<1> HIDE DEF c
<1>7. IsBoundary(s, c, k + 1)
  BY <1>3, <1>6
<1>8. QED
  BY <1>5, <1>7 DEF c

\* Where an element goes, and whether its key is new.
LEMMA FindExists ==
  ASSUME NEW s \in Vectors, Ordered(s), NEW e \in Elements
  PROVE  LET f == Set!find_exists(s, e)
         IN  /\ IsBoundary(s, f[1], e[1])
             /\ f[2] \in BOOLEAN
             /\ f[2] => \A i \in 1..Len(s) : s[i][1] # e[1]
             /\ ~f[2] => f[1] \in 1..Len(s) /\ s[f[1]][1] = e[1]
<1> DEFINE b == Set!lower_bound(s, e[1])
           new == b = Len(s) + 1 \/ e[1] < s[b][1]
<1>1. Len(s) \in Nat /\ e[1] \in Nat /\ \A i \in 1..Len(s) : s[i][1] \in Nat
  BY VectorIs DEF Elements
<1>2. IsBoundary(s, b, e[1])
  BY <1>1, LowerIs
<1>3. Set!find_exists(s, e) = <<b, new>>
  BY DEF Set!find_exists, Set!End, Set!less
<1> HIDE DEF b
<1>4. ASSUME new PROVE \A i \in 1..Len(s) : s[i][1] # e[1]
  <2> SUFFICES ASSUME NEW i \in 1..Len(s), s[i][1] = e[1] PROVE FALSE
    OBVIOUS
  <2>1. ~(i \in 1..(b - 1))
    BY <1>1, <1>2 DEF IsBoundary
  <2>2. b \in 1..Len(s) /\ b <= i
    BY <1>1, <1>2, <2>1 DEF IsBoundary
  <2>3. e[1] < s[b][1] /\ s[b][1] <= s[i][1]
    <3>1. b = i \/ b < i
      BY <2>2
    <3>2. s[b][1] <= s[i][1]
      BY <1>1, <2>2, <3>1, OrderedIs
    <3>3. QED
      BY <1>1, <1>4, <2>2, <3>2
  <2>4. QED
    BY <1>1, <2>2, <2>3
<1>5. ASSUME ~new PROVE b \in 1..Len(s) /\ s[b][1] = e[1]
  <2>1. b \in 1..Len(s)
    BY <1>1, <1>2, <1>5 DEF IsBoundary
  <2>2. ~(s[b][1] < e[1]) /\ ~(e[1] < s[b][1])
    BY <1>1, <1>2, <1>5, <2>1 DEF IsBoundary
  <2>3. QED
    BY <1>1, <2>1, <2>2
<1>6. new \in BOOLEAN
  OBVIOUS
<1> HIDE DEF new
<1>7. QED
  BY <1>2, <1>3, <1>4, <1>5, <1>6

\* An element put between two others.
LEMMA InsertedIs ==
  ASSUME NEW s \in Vectors, NEW b \in 1..(Len(s) + 1), NEW e \in Elements
  PROVE  LET u == Set!InsertAt(s, b, e)
         IN  /\ u \in Vectors /\ Len(u) = Len(s) + 1 /\ u[b] = e
             /\ \A j \in 1..(b - 1) : u[j] = s[j]
             /\ \A j \in b..Len(s) : u[j + 1] = s[j]
<1> DEFINE C == Elements
           p == SubSeq(s, 1, b - 1)
           q == SubSeq(s, b, Len(s))
           u == p \o <<e>> \o q
<1> HIDE DEF C
<1>1. s \in Seq(C) /\ e \in C /\ Len(s) \in Nat
  BY VectorIs DEF Vectors, C
<1>2. p \in Seq(C) /\ Len(p) = b - 1 /\ \A j \in 1..(b - 1) : p[j] = s[j]
  BY <1>1
<1>3. q \in Seq(C) /\ Len(q) = Len(s) - b + 1 /\ \A j \in 1..(Len(s) - b + 1) : q[j] = s[b + j - 1]
  BY <1>1
<1> HIDE DEF p, q
<1>4. /\ u \in Seq(C) /\ Len(u) = Len(p) + 1 + Len(q) /\ u[Len(p) + 1] = e
      /\ \A j \in 1..Len(p) : u[j] = p[j]
      /\ \A j \in 1..Len(q) : u[Len(p) + 1 + j] = q[j]
  <2> DEFINE w == p \o <<e>>
  <2>1. w \in Seq(C) /\ Len(w) = Len(p) + 1 /\ w[Len(p) + 1] = e /\ \A j \in 1..Len(p) : w[j] = p[j]
    <3>1. p \in Seq(C) /\ e \in C
      BY <1>1, <1>2
    <3>2. w = Append(p, e)
      BY <3>1
    <3> HIDE DEF w
    <3>3. QED
      BY <3>1, <3>2
  <2>2. u = w \o q
    OBVIOUS
  <2> HIDE DEF w, u
  <2>3. u \in Seq(C) /\ Len(u) = Len(w) + Len(q) /\ Len(w) \in Nat
    <3>1. w \in Seq(C) /\ q \in Seq(C)
      BY <1>3, <2>1
    <3>2. w \o q \in Seq(C) /\ Len(w \o q) = Len(w) + Len(q) /\ Len(w) \in Nat
      BY <3>1
    <3>3. QED
      BY <2>2, <3>2
  <2>4. \A j \in 1..Len(w) : u[j] = w[j]
    BY <1>3, <2>1, <2>2
  <2>5. \A j \in 1..Len(q) : u[Len(w) + j] = q[j]
    BY <1>3, <2>1, <2>2
  <2>6. Len(p) \in Nat /\ Len(p) + 1 \in 1..Len(w) /\ \A j \in 1..Len(p) : j \in 1..Len(w)
    BY <1>2, <2>1
  <2>7. QED
    BY <2>1, <2>3, <2>4, <2>5, <2>6
<1> HIDE DEF u
<1>5. Len(u) = Len(s) + 1 /\ u[b] = e
  BY <1>1, <1>2, <1>3, <1>4
<1>6. \A j \in 1..(b - 1) : u[j] = s[j]
  BY <1>2, <1>4
<1>7. ASSUME NEW j \in b..Len(s) PROVE u[j + 1] = s[j]
  <2> DEFINE k == j - b + 1
  <2>1. k \in 1..Len(q) /\ Len(p) + 1 + k = j + 1 /\ b + k - 1 = j /\ k \in 1..(Len(s) - b + 1)
    BY <1>1, <1>2, <1>3
  <2> HIDE DEF k
  <2>2. u[Len(p) + 1 + k] = q[k] /\ q[k] = s[b + k - 1]
    BY <1>3, <1>4, <2>1
  <2>3. QED
    BY <2>1, <2>2
<1>8. Set!InsertAt(s, b, e) = u
  BY DEF Set!InsertAt, u, p, q
<1>9. QED
  BY <1>4, <1>5, <1>6, <1>7, <1>8 DEF Vectors, C

\* insert() keeps the vector sorted, adds an element whose key is new, and finds its place.
LEMMA WithIs ==
  ASSUME NEW s \in Vectors, Ordered(s), NEW e \in Elements
  PROVE  LET u == Set!With(s, e)
             b == Set!find_exists(s, e)[1]
         IN  /\ u \in Vectors /\ Ordered(u) /\ b \in 1..Len(u) /\ u[b][1] = e[1]
             /\ Set!Contents(u) = Set!Keeping(Set!Contents(s), {e})
<1> DEFINE f == Set!find_exists(s, e)
           b == f[1]
           u == Set!With(s, e)
<1>1. /\ IsBoundary(s, b, e[1]) /\ f[2] \in BOOLEAN
      /\ f[2] => \A i \in 1..Len(s) : s[i][1] # e[1]
      /\ ~f[2] => b \in 1..Len(s) /\ s[b][1] = e[1]
  BY FindExists
<1>2. u = IF f[2] THEN Set!InsertAt(s, b, e) ELSE s
  BY DEF Set!With
<1> HIDE DEF f, u
<1>3. Len(s) \in Nat /\ e[1] \in Nat /\ \A i \in 1..Len(s) : s[i][1] \in Nat
  BY VectorIs DEF Elements
<1>4. CASE ~f[2]
  <2>1. u = s /\ b \in 1..Len(s) /\ s[b][1] = e[1]
    BY <1>1, <1>2, <1>4
  <2>2. s[b] \in Set!Contents(s)
    BY <2>1, VectorIs
  <2>3. Set!Contents(s) = Set!Keeping(Set!Contents(s), {e})
    BY <2>1, <2>2 DEF Set!Keeping
  <2>4. QED
    BY <2>1, <2>3 DEF u, f
<1>5. CASE f[2]
  <2>1. u = Set!InsertAt(s, b, e) /\ b \in 1..(Len(s) + 1)
    BY <1>1, <1>2, <1>5 DEF IsBoundary
  <2>2. /\ u \in Vectors /\ Len(u) = Len(s) + 1 /\ u[b] = e
        /\ \A j \in 1..(b - 1) : u[j] = s[j]
        /\ \A j \in b..Len(s) : u[j + 1] = s[j]
    BY <2>1, InsertedIs
  <2>3. \A j \in (b + 1)..Len(u) : j - 1 \in b..Len(s) /\ u[j] = s[j - 1]
    <3> SUFFICES ASSUME NEW j \in (b + 1)..Len(u) PROVE j - 1 \in b..Len(s) /\ u[j] = s[j - 1]
      OBVIOUS
    <3>1. j - 1 \in b..Len(s) /\ (j - 1) + 1 = j
      BY <1>3, <2>1, <2>2
    <3>2. u[(j - 1) + 1] = s[j - 1]
      BY <2>2, <3>1
    <3>3. QED
      BY <3>1, <3>2
  <2>4. \A j \in 1..(b - 1) : j \in 1..Len(s) /\ s[j][1] < e[1]
    BY <1>1, <1>3, <2>1 DEF IsBoundary
  <2>5. \A j \in b..Len(s) : j \in 1..Len(s) /\ e[1] < s[j][1]
    <3> SUFFICES ASSUME NEW j \in b..Len(s) PROVE j \in 1..Len(s) /\ e[1] < s[j][1]
      OBVIOUS
    <3>1. j \in 1..Len(s) /\ ~(s[j][1] < e[1])
      BY <1>1, <1>3, <2>1 DEF IsBoundary
    <3>2. s[j][1] # e[1]
      BY <1>1, <1>5, <3>1
    <3>3. QED
      BY <1>3, <3>1, <3>2
  <2>6. Ordered(u)
    <3> SUFFICES ASSUME NEW i \in 1..Len(u), NEW j \in 1..Len(u), i < j PROVE u[i][1] < u[j][1]
      BY <2>2, OrderedIs
    <3>1. CASE j < b
      <4>1. i \in 1..(b - 1) /\ j \in 1..(b - 1)
        BY <2>1, <3>1
      <4>2. u[i] = s[i] /\ u[j] = s[j] /\ i \in 1..Len(s) /\ j \in 1..Len(s)
        BY <2>2, <2>4, <4>1
      <4>3. QED
        BY <4>2, OrderedIs
    <3>2. CASE j = b
      <4>1. i \in 1..(b - 1)
        BY <2>1, <3>2
      <4>2. QED
        BY <2>2, <2>4, <3>2, <4>1
    <3>3. CASE b < j
      <4>1. j \in (b + 1)..Len(u)
        BY <2>1, <3>3
      <4>2. j - 1 \in b..Len(s) /\ u[j] = s[j - 1]
        BY <2>3, <4>1
      <4>3. CASE i = b
        BY <2>2, <2>5, <4>2, <4>3
      <4>4. CASE i < b
        <5>1. i \in 1..(b - 1)
          BY <2>1, <4>4
        <5>2. u[i] = s[i] /\ s[i][1] < e[1] /\ e[1] < s[j - 1][1] /\ i \in 1..Len(s) /\ j - 1 \in 1..Len(s)
          BY <2>2, <2>4, <2>5, <4>2, <5>1
        <5>3. QED
          BY <1>3, <4>2, <5>2
      <4>5. CASE b < i
        <5>1. i \in (b + 1)..Len(u)
          BY <2>1, <4>5
        <5>2. i - 1 \in b..Len(s) /\ u[i] = s[i - 1]
          BY <2>3, <5>1
        <5>3. i - 1 \in 1..Len(s) /\ j - 1 \in 1..Len(s) /\ i - 1 < j - 1
          BY <2>5, <4>2, <5>2
        <5>4. QED
          BY <4>2, <5>2, <5>3, OrderedIs
      <4>6. QED
        BY <2>1, <4>3, <4>4, <4>5
    <3>4. QED
      BY <2>1, <3>1, <3>2, <3>3
  <2>7. b \in 1..Len(u)
    BY <1>3, <2>1, <2>2
  <2>8. \A x : x \in Set!Contents(u) <=> x \in Set!Contents(s) \/ x = e
    <3> SUFFICES ASSUME NEW x PROVE x \in Set!Contents(u) <=> x \in Set!Contents(s) \/ x = e
      OBVIOUS
    <3>1. ASSUME x \in Set!Contents(u), x # e PROVE x \in Set!Contents(s)
      <4>1. PICK i \in 1..Len(u) : u[i] = x
        BY <2>2, <3>1, VectorIs
      <4>2. i # b
        BY <2>2, <3>1, <4>1
      <4>3. CASE i < b
        <5>1. i \in 1..(b - 1)
          BY <2>1, <4>3
        <5>2. QED
          BY <2>2, <2>4, <4>1, <5>1, VectorIs
      <4>4. CASE b < i
        <5>1. i \in (b + 1)..Len(u)
          BY <2>1, <4>4
        <5>2. i - 1 \in 1..Len(s) /\ s[i - 1] = x
          BY <2>3, <2>5, <4>1, <5>1
        <5>3. QED
          BY <5>2, VectorIs
      <4>5. QED
        BY <2>1, <4>2, <4>3, <4>4
    <3>2. ASSUME x \in Set!Contents(s) PROVE x \in Set!Contents(u)
      <4>1. PICK i \in 1..Len(s) : s[i] = x
        BY <3>2, VectorIs
      <4>2. CASE i < b
        <5>1. i \in 1..(b - 1) /\ i \in 1..Len(u)
          BY <1>3, <2>1, <2>2, <4>2
        <5>2. QED
          BY <2>2, <4>1, <5>1, VectorIs
      <4>3. CASE b <= i
        <5>1. i \in b..Len(s) /\ i + 1 \in 1..Len(u)
          BY <1>3, <2>1, <2>2, <4>3
        <5>2. QED
          BY <2>2, <4>1, <5>1, VectorIs
      <4>4. QED
        BY <2>1, <4>2, <4>3
    <3>3. x = e => x \in Set!Contents(u)
      BY <2>2, <2>7, VectorIs
    <3>4. QED
      BY <3>1, <3>2, <3>3
  <2>9. \A d \in Set!Contents(s) : d[1] # e[1]
    BY <1>1, <1>5, VectorIs
  <2>10. Set!Contents(u) = Set!Keeping(Set!Contents(s), {e})
    BY <2>8, <2>9 DEF Set!Keeping
  <2>11. QED
    BY <2>2, <2>6, <2>7, <2>10 DEF u, f
<1>6. QED
  BY <1>1, <1>4, <1>5

\* operator[] and an assignment to what it returns.
LEMMA AssignedIs ==
  ASSUME NEW s \in Vectors, Ordered(s), NEW e \in Elements, NEW x \in Elements, x[1] = e[1]
  PROVE  LET b == Set!find_exists(s, x)[1]
             u == [Set!With(s, x) EXCEPT ![b] = e]
         IN  /\ u \in Vectors /\ Ordered(u) /\ b \in 1..Len(u) /\ u[b] = e
             /\ Set!Contents(u) = Set!Replacing(Set!Contents(s), {e})
<1> DEFINE b == Set!find_exists(s, x)[1]
           w == Set!With(s, x)
           u == [w EXCEPT ![b] = e]
<1>1. /\ w \in Vectors /\ Ordered(w) /\ b \in 1..Len(w) /\ w[b][1] = x[1]
      /\ Set!Contents(w) = Set!Keeping(Set!Contents(s), {x})
  BY WithIs
<1> HIDE DEF b, w
<1>2. Len(w) \in Nat /\ w \in [1..Len(w) -> Elements]
  BY <1>1, VectorIs
<1>3. u \in [1..Len(w) -> Elements] /\ u[b] = e /\ \A i \in 1..Len(w) : i # b => u[i] = w[i]
  BY <1>1, <1>2
<1> HIDE DEF u
<1>4. u \in Vectors /\ Len(u) = Len(w)
  BY <1>2, <1>3 DEF Vectors
<1>5. \A i \in 1..Len(w) : u[i][1] = w[i][1]
  BY <1>1, <1>3
<1>6. Ordered(u)
  BY <1>1, <1>4, <1>5, OrderedIs
<1>7. \A d : d \in Set!Contents(u) <=> d = e \/ (d \in Set!Contents(s) /\ d[1] # e[1])
  <2> SUFFICES ASSUME NEW d PROVE d \in Set!Contents(u) <=> d = e \/ (d \in Set!Contents(s) /\ d[1] # e[1])
    OBVIOUS
  <2>1. ASSUME d \in Set!Contents(u), d # e PROVE d \in Set!Contents(s) /\ d[1] # e[1]
    <3>1. PICK i \in 1..Len(w) : u[i] = d
      BY <1>4, <2>1, VectorIs
    <3>2. i # b /\ w[i] = d
      BY <1>3, <2>1, <3>1
    <3>3. d[1] # e[1]
      BY <1>1, <3>1, <3>2, OrderedIs
    <3>4. d \in Set!Contents(w)
      BY <1>1, <3>1, <3>2, VectorIs
    <3>5. QED
      BY <1>1, <3>3, <3>4 DEF Set!Keeping
  <2>2. ASSUME d \in Set!Contents(s), d[1] # e[1] PROVE d \in Set!Contents(u)
    <3>1. d \in Set!Contents(w)
      BY <1>1, <2>2 DEF Set!Keeping
    <3>2. PICK i \in 1..Len(w) : w[i] = d
      BY <1>1, <3>1, VectorIs
    <3>3. u[i] = d
      BY <1>1, <1>3, <2>2, <3>2
    <3>4. QED
      BY <1>4, <3>2, <3>3, VectorIs
  <2>3. e \in Set!Contents(u)
    BY <1>1, <1>3, <1>4, VectorIs
  <2>4. QED
    BY <2>1, <2>2, <2>3
<1>8. Set!Contents(u) = Set!Replacing(Set!Contents(s), {e})
  BY <1>7 DEF Set!Replacing, Set!Keeping
<1>9. QED
  BY <1>1, <1>3, <1>4, <1>6, <1>8 DEF u, w, b

\* What is left of a vector without n elements from a position on.
LEMMA ErasedIs ==
  ASSUME NEW s \in Vectors, Ordered(s), NEW b \in 1..Len(s), NEW n \in 1..(Len(s) - b + 1)
  PROVE  LET u == SubSeq(s, 1, b - 1) \o SubSeq(s, b + n, Len(s))
         IN  /\ u \in Vectors /\ Ordered(u)
             /\ Set!Contents(u) = Set!Contents(s) \ {s[j] : j \in b..(b + n - 1)}
<1> DEFINE C == Elements
           p == SubSeq(s, 1, b - 1)
           q == SubSeq(s, b + n, Len(s))
           u == p \o q
<1> HIDE DEF C
<1>1. s \in Seq(C) /\ Len(s) \in Nat
  BY VectorIs DEF Vectors, C
<1>2. p \in Seq(C) /\ Len(p) = b - 1 /\ \A j \in 1..(b - 1) : p[j] = s[j]
  BY <1>1
<1>3. q \in Seq(C) /\ Len(q) = Len(s) - b - n + 1 /\ \A j \in 1..(Len(s) - b - n + 1) : q[j] = s[b + n + j - 1]
  BY <1>1
<1> HIDE DEF p, q
<1>4. /\ u \in Seq(C) /\ Len(u) = Len(p) + Len(q)
      /\ \A j \in 1..Len(p) : u[j] = p[j]
      /\ \A j \in 1..Len(q) : u[Len(p) + j] = q[j]
  <2>1. p \in Seq(C) /\ q \in Seq(C)
    BY <1>2, <1>3
  <2>2. u \in Seq(C) /\ Len(u) = Len(p) + Len(q)
    BY <2>1
  <2>3. \A j \in 1..Len(p) : u[j] = p[j]
    BY <2>1
  <2>4. \A j \in 1..Len(q) : u[Len(p) + j] = q[j]
    BY <2>1
  <2>5. QED
    BY <2>2, <2>3, <2>4
<1> HIDE DEF u
<1>5. Len(u) = Len(s) - n /\ u \in Vectors
  BY <1>1, <1>2, <1>3, <1>4 DEF Vectors, C
<1>6. \A j \in 1..(b - 1) : u[j] = s[j]
  BY <1>2, <1>4
<1>7. ASSUME NEW j \in b..Len(u) PROVE u[j] = s[j + n]
  <2> DEFINE k == j - b + 1
  <2>1. /\ k \in 1..Len(q) /\ Len(p) + k = j /\ b + n + k - 1 = j + n
        /\ k \in 1..(Len(s) - b - n + 1)
    BY <1>1, <1>2, <1>3, <1>5
  <2> HIDE DEF k
  <2>2. u[Len(p) + k] = q[k] /\ q[k] = s[b + n + k - 1]
    BY <1>3, <1>4, <2>1
  <2>3. QED
    BY <2>1, <2>2
\* Where what is left comes from.
<1> DEFINE at(j) == IF j < b THEN j ELSE j + n
<1>8. \A j \in 1..Len(u) : at(j) \in 1..Len(s) /\ at(j) \notin b..(b + n - 1) /\ u[j] = s[at(j)]
  <2> SUFFICES ASSUME NEW j \in 1..Len(u) PROVE at(j) \in 1..Len(s) /\ at(j) \notin b..(b + n - 1) /\ u[j] = s[at(j)]
    OBVIOUS
  <2>1. CASE j < b
    <3>1. j \in 1..(b - 1) /\ at(j) = j /\ at(j) \in 1..Len(s)
      BY <1>1, <2>1
    <3>2. QED
      BY <1>6, <3>1
  <2>2. CASE b <= j
    <3>1. j \in b..Len(u) /\ at(j) = j + n
      BY <1>1, <2>2
    <3>2. at(j) \in 1..Len(s) /\ at(j) \notin b..(b + n - 1)
      BY <1>1, <1>5, <3>1
    <3>3. QED
      BY <1>7, <3>1, <3>2
  <2>3. QED
    BY <1>1, <2>1, <2>2
<1>9. \A i, j \in 1..Len(u) : i < j => at(i) < at(j)
  BY <1>1
<1>10. \A k \in 1..Len(s) : k \notin b..(b + n - 1) => \E j \in 1..Len(u) : at(j) = k
  <2> SUFFICES ASSUME NEW k \in 1..Len(s), k \notin b..(b + n - 1) PROVE \E j \in 1..Len(u) : at(j) = k
    OBVIOUS
  <2>1. CASE k < b
    <3>1. k \in 1..Len(u) /\ at(k) = k
      BY <1>1, <1>5, <2>1
    <3>2. QED
      BY <3>1
  <2>2. CASE b + n <= k
    <3>1. k - n \in 1..Len(u) /\ at(k - n) = k
      BY <1>1, <1>5, <2>2
    <3>2. QED
      BY <3>1
  <2>3. QED
    BY <1>1, <2>1, <2>2
<1> HIDE DEF at
<1>11. Ordered(u)
  <2> SUFFICES ASSUME NEW i \in 1..Len(u), NEW j \in 1..Len(u), i < j PROVE u[i][1] < u[j][1]
    BY <1>5, OrderedIs
  <2>1. s[at(i)][1] < s[at(j)][1]
    BY <1>8, <1>9, OrderedIs
  <2>2. QED
    BY <1>8, <2>1
<1>12. \A x : x \in Set!Contents(u) <=> x \in Set!Contents(s) /\ ~\E j \in b..(b + n - 1) : s[j] = x
  <2> SUFFICES ASSUME NEW x PROVE x \in Set!Contents(u) <=> x \in Set!Contents(s) /\ ~\E j \in b..(b + n - 1) : s[j] = x
    OBVIOUS
  <2>1. ASSUME x \in Set!Contents(u) PROVE x \in Set!Contents(s) /\ ~\E j \in b..(b + n - 1) : s[j] = x
    <3>1. PICK i \in 1..Len(u) : u[i] = x
      BY <1>5, <2>1, VectorIs
    <3>2. at(i) \in 1..Len(s) /\ at(i) \notin b..(b + n - 1) /\ s[at(i)] = x
      BY <1>8, <3>1
    <3>3. x \in Set!Contents(s)
      BY <3>2, VectorIs
    <3>4. \A j \in b..(b + n - 1) : j \in 1..Len(s)
      BY <1>1
    <3>5. \A j \in b..(b + n - 1) : s[j] # x
      BY <3>2, <3>4, OrderedIs
    <3>6. QED
      BY <3>3, <3>5
  <2>2. ASSUME x \in Set!Contents(s), ~\E j \in b..(b + n - 1) : s[j] = x PROVE x \in Set!Contents(u)
    <3>1. PICK k \in 1..Len(s) : s[k] = x
      BY <2>2, VectorIs
    <3>2. k \notin b..(b + n - 1)
      BY <2>2, <3>1
    <3>3. PICK j \in 1..Len(u) : at(j) = k
      BY <1>10, <3>2
    <3>4. u[j] = x
      BY <1>8, <3>1, <3>3
    <3>5. QED
      BY <1>5, <3>4, VectorIs
  <2>3. QED
    BY <2>1, <2>2
<1>13. Set!Contents(u) = Set!Contents(s) \ {s[j] : j \in b..(b + n - 1)}
  BY <1>12
<1>14. QED
  BY <1>5, <1>11, <1>13 DEF u, p, q

\* Sorting keeps the elements, and orders them where no key is there twice.
LEMMA SortedIs ==
  ASSUME NEW s \in Ranges, Distinct(s), NEW u \in Set!Sorts(s)
  PROVE  s \in Vectors /\ u \in Vectors /\ Ordered(u) /\ Set!Contents(u) = Set!Contents(s)
<1>1. s \in Vectors
  BY LibraryAssumption DEF Vectors, Elements
<1>2. Len(s) \in Nat /\ DOMAIN s = 1..Len(s) /\ \A i \in 1..Len(s) : s[i] \in Elements /\ s[i][1] \in Nat
  BY <1>1, VectorIs
<1>3. PICK p \in Orders : DOMAIN p = DOMAIN s /\ u = [i \in DOMAIN s |-> s[p[i]]]
  BY DEF Set!Sorts, Set!Permuted
<1>4. PICK n \in {Len(w) : w \in Ranges} :
        /\ p \in [1..n -> 1..n] /\ (\A i, j \in 1..n : p[i] = p[j] => i = j)
        /\ \A i \in 1..n : \E j \in 1..n : p[j] = i
  BY <1>3 DEF Orders
<1>5. 1..n = 1..Len(s)
  BY <1>2, <1>3, <1>4
<1>6. /\ \A i \in 1..Len(s) : p[i] \in 1..Len(s) /\ u[i] = s[p[i]]
      /\ \A i, j \in 1..Len(s) : p[i] = p[j] => i = j
      /\ \A i \in 1..Len(s) : \E j \in 1..Len(s) : p[j] = i
  BY <1>2, <1>3, <1>4, <1>5
<1>7. u \in Vectors /\ Len(u) = Len(s)
  <2>1. u \in [1..Len(s) -> Elements]
    BY <1>2, <1>3, <1>6
  <2>2. QED
    BY <1>2, <2>1 DEF Vectors
<1>8. Ordered(u)
  <2> SUFFICES ASSUME NEW i \in 1..Len(s), NEW j \in 1..Len(s), i < j PROVE u[i][1] < u[j][1]
    BY <1>7, OrderedIs
  <2>1. ~(u[j][1] < u[i][1])
    BY <1>7, VectorIs DEF Set!Sorts, Set!less
  <2>2. u[i][1] # u[j][1]
    <3>1. p[i] # p[j]
      BY <1>2, <1>6
    <3>2. p[i] \in 1..Len(s) /\ p[j] \in 1..Len(s) /\ u[i] = s[p[i]] /\ u[j] = s[p[j]]
      BY <1>6
    <3>3. s[p[i]][1] # s[p[j]][1]
      BY <3>1, <3>2 DEF Distinct
    <3>4. QED
      BY <3>2, <3>3
  <2>3. u[i][1] \in Nat /\ u[j][1] \in Nat
    BY <1>7, VectorIs
  <2>4. QED
    BY <2>1, <2>2, <2>3
<1>9. Set!Contents(u) = Set!Contents(s)
  <2>1. ASSUME NEW x \in Set!Contents(u) PROVE x \in Set!Contents(s)
    <3>1. PICK i \in 1..Len(s) : u[i] = x
      BY <1>7, VectorIs
    <3>2. p[i] \in 1..Len(s) /\ s[p[i]] = x
      BY <1>6, <3>1
    <3>3. QED
      BY <1>1, <3>2, VectorIs
  <2>2. ASSUME NEW x \in Set!Contents(s) PROVE x \in Set!Contents(u)
    <3>1. PICK i \in 1..Len(s) : s[i] = x
      BY <1>1, VectorIs
    <3>2. PICK j \in 1..Len(s) : p[j] = i
      BY <1>6
    <3>3. u[j] = x
      BY <1>6, <3>1, <3>2
    <3>4. QED
      BY <1>7, <3>3, VectorIs
  <2>3. QED
    BY <2>1, <2>2
<1>10. QED
  BY <1>1, <1>7, <1>8, <1>9

\* Of a sorted vector every lookup tells what is in it.
LEMMA LookupsAre ==
  ASSUME NEW s \in Vectors, Ordered(s), NEW k \in Nat, NEW here,
         \A e : e \in here <=> e \in Set!Contents(s) /\ e[1] = k
  PROVE  /\ Set!count(s, k) = IF here = {} THEN 0 ELSE 1
         /\ {s[i] : i \in Set!lower_bound(s, k)..(Set!upper_bound(s, k) - 1)} = here
         /\ here # {} => s[Set!find(s, k)] \in here
         /\ Set!contains(s, k) => Set!lower_bound(s, k) \in 1..Len(s) /\ s[Set!lower_bound(s, k)][1] = k
<1> DEFINE b == Set!lower_bound(s, k)
           c == Set!upper_bound(s, k)
           f == Set!find(s, k)
<1>1. Len(s) \in Nat /\ \A i \in 1..Len(s) : s[i][1] \in Nat
  BY VectorIs
<1>2. IsBoundary(s, b, k) /\ IsBoundary(s, c, k + 1)
  BY LowerIs, UpperIs
<1>3. f = IF b # Len(s) + 1 /\ ~(k < s[b][1]) THEN b ELSE Len(s) + 1
  BY DEF Set!find, Set!End
<1>4. Set!contains(s, k) <=> f # Len(s) + 1
  BY DEF Set!contains, Set!End
<1>5. Set!count(s, k) = IF f # Len(s) + 1 THEN 1 ELSE 0
  BY <1>4 DEF Set!count
<1> HIDE DEF b, c, f
<1>6. b \in 1..(Len(s) + 1) /\ c \in 1..(Len(s) + 1)
  BY <1>2 DEF IsBoundary
<1>7. ASSUME f # Len(s) + 1 PROVE f = b /\ b \in 1..Len(s) /\ s[b][1] = k
  <2>1. f = b /\ b \in 1..Len(s) /\ ~(k < s[b][1])
    BY <1>1, <1>3, <1>6, <1>7
  <2>2. ~(s[b][1] < k)
    BY <1>1, <1>2, <2>1 DEF IsBoundary
  <2>3. QED
    BY <1>1, <2>1, <2>2
<1>8. ASSUME NEW i \in 1..Len(s), s[i][1] = k PROVE f # Len(s) + 1
  <2>1. ~(i \in 1..(b - 1))
    BY <1>1, <1>2, <1>8 DEF IsBoundary
  <2>2. b \in 1..Len(s) /\ (b = i \/ b < i)
    BY <1>1, <1>6, <2>1
  <2>3. s[b][1] <= k
    BY <1>1, <1>8, <2>2, OrderedIs
  <2>4. ~(k < s[b][1])
    BY <1>1, <2>2, <2>3
  <2>5. QED
    BY <1>1, <1>3, <2>2, <2>4
<1>9. f # Len(s) + 1 => s[f] \in here
  BY <1>7, VectorIs
<1>10. here # {} => f # Len(s) + 1
  <2> SUFFICES ASSUME NEW e \in here PROVE f # Len(s) + 1
    OBVIOUS
  <2>1. PICK i \in 1..Len(s) : s[i] = e
    BY VectorIs
  <2>2. QED
    BY <1>8, <2>1
<1>11. Set!count(s, k) = IF here = {} THEN 0 ELSE 1
  BY <1>5, <1>9, <1>10
<1>12. \A e : e \in here <=> \E i \in b..(c - 1) : s[i] = e
  <2> SUFFICES ASSUME NEW e PROVE e \in here <=> \E i \in b..(c - 1) : s[i] = e
    OBVIOUS
  <2>1. ASSUME e \in here PROVE \E i \in b..(c - 1) : s[i] = e
    <3>1. PICK i \in 1..Len(s) : s[i] = e
      BY <2>1, VectorIs
    <3>2. s[i][1] = k
      BY <2>1, <3>1
    <3>3. ~(i \in 1..(b - 1)) /\ ~(i \in c..Len(s))
      BY <1>1, <1>2, <3>2 DEF IsBoundary
    <3>4. i \in b..(c - 1)
      BY <1>1, <1>6, <3>3
    <3>5. QED
      BY <3>1, <3>4
  <2>2. ASSUME NEW i \in b..(c - 1), s[i] = e PROVE e \in here
    <3>1. i \in 1..Len(s) /\ i \in b..Len(s) /\ i \in 1..(c - 1)
      BY <1>1, <1>6
    <3>2. ~(s[i][1] < k) /\ s[i][1] < k + 1
      BY <1>2, <3>1 DEF IsBoundary
    <3>3. s[i][1] = k
      BY <1>1, <3>1, <3>2
    <3>4. QED
      BY <2>2, <3>1, <3>3, VectorIs
  <2>3. QED
    BY <2>1, <2>2
<1>13. {s[i] : i \in b..(c - 1)} = here
  BY <1>12
<1>14. QED
  BY <1>4, <1>7, <1>9, <1>10, <1>11, <1>13 DEF b, c, f

\* Between two calls the set agrees with its ghosts.
LEMMA SetInvAgrees == SetInv => SetAgrees
<1> SUFFICES ASSUME SetInv, call = "none" PROVE SetAgrees
  BY DEF SetAgrees, Set!SetAgrees
<1>1. vector \in Vectors /\ Ordered(vector) /\ Set!Contents(vector) = Set!Held
  BY DEF SetInv, SetTypes, SetAtRest
<1>2. result # Set!None => vector[result[1]][1] = result[2]
  BY DEF SetInv, SetAtRest
<1>3. ASSUME NEW k \in Set!Keys
      PROVE  LET here == {e \in Set!Held : e[1] = k}
                 range == Set!equal_range(vector, k)
             IN  /\ Set!count(vector, k) = IF here = {} THEN 0 ELSE 1
                 /\ {vector[i] : i \in range[1]..(range[2] - 1)} = here
                 /\ here # {} => vector[Set!find(vector, k)] \in here
  <2> DEFINE here == {e \in Set!Held : e[1] = k}
  <2>1. k \in Nat
    BY <1>3 DEF Set!Keys
  <2>2. \A e : e \in here <=> e \in Set!Contents(vector) /\ e[1] = k
    BY <1>1
  <2> HIDE DEF here
  <2>3. /\ Set!count(vector, k) = IF here = {} THEN 0 ELSE 1
        /\ {vector[i] : i \in Set!lower_bound(vector, k)..(Set!upper_bound(vector, k) - 1)} = here
        /\ here # {} => vector[Set!find(vector, k)] \in here
    <3>1. vector \in Vectors /\ Ordered(vector)
      BY <1>1
    <3>2. QED
      BY <2>1, <2>2, <3>1, LookupsAre, Zenon
  <2>4. QED
    BY <2>3 DEF here, Set!equal_range
<1>4. Set!LookupsAgree
  BY <1>3 DEF Set!LookupsAgree
<1>5. QED
  BY <1>1, <1>2, <1>4 DEF SetAgrees, Set!SetAgrees, Ordered

\* The ghosts, when elements are inserted: those of new keys come to what is held.
LEMMA GhostsKeep ==
  ASSUME SetGhosts, NEW N, N \subseteq Elements, Once(N), Set!Gain(N)
  PROVE  SetGhosts' /\ Set!Held' = Set!Keeping(Set!Held, N)
<1>1. again' = again /\ \A e : e \in map' <=> e \in map \/ (e \in N /\ \A d \in map : d[1] # e[1])
  BY DEF Set!Gain, Set!Keeping
<1>2. SetGhosts'
  <2>1. map' \subseteq Elements /\ again' \subseteq Elements
    BY <1>1 DEF SetGhosts
  <2>2. Once(map)'
    BY <1>1 DEF SetGhosts, Once
  <2>3. QED
    BY <1>1, <2>1, <2>2 DEF SetGhosts
<1>3. \A e : e \in Set!Held <=> e \in again \/ (e \in map /\ \A d \in again : d[1] # e[1])
  BY DEF Set!Held, Set!Replacing, Set!Keeping
<1>4. \A e : e \in Set!Held' <=> e \in again \/ (e \in map' /\ \A d \in again : d[1] # e[1])
  BY <1>1 DEF Set!Held, Set!Replacing, Set!Keeping
<1>5. \A e : (\A d \in map : d[1] # e[1]) <=> \A d \in Set!Held : d[1] # e[1]
  BY <1>3 DEF SetGhosts
<1>6. \A e : e \in Set!Keeping(Set!Held, N) <=> e \in Set!Held \/ (e \in N /\ \A d \in map : d[1] # e[1])
  BY <1>5 DEF Set!Keeping
<1>7. \A e : e \in Set!Held' <=> e \in Set!Keeping(Set!Held, N)
  BY <1>1, <1>3, <1>4, <1>6 DEF SetGhosts
<1>8. QED
  BY <1>2, <1>7

\* When keys are erased they go from all that is held.
LEMMA GhostsForget ==
  ASSUME SetGhosts, NEW K, Set!Forget(K)
  PROVE  SetGhosts' /\ Set!Held' = Set!Without(Set!Held, K)
<1>1. /\ \A e : e \in map' <=> e \in map /\ e[1] \notin K
      /\ \A e : e \in again' <=> e \in again /\ e[1] \notin K
  BY DEF Set!Forget, Set!Without
<1>2. SetGhosts'
  <2>1. map' \subseteq Elements /\ again' \subseteq Elements
    BY <1>1 DEF SetGhosts
  <2>2. Once(map)'
    BY <1>1 DEF SetGhosts, Once
  <2>3. \A a \in again' : \E d \in map' : d[1] = a[1]
    BY <1>1 DEF SetGhosts
  <2>4. QED
    BY <2>1, <2>2, <2>3 DEF SetGhosts
<1>3. \A e : e \in Set!Held <=> e \in again \/ (e \in map /\ \A d \in again : d[1] # e[1])
  BY DEF Set!Held, Set!Replacing, Set!Keeping
<1>4. \A e : e \in Set!Held' <=> e \in again' \/ (e \in map' /\ \A d \in again' : d[1] # e[1])
  BY DEF Set!Held, Set!Replacing, Set!Keeping
<1>5. \A e : e \in Set!Held' <=> e \in Set!Held /\ e[1] \notin K
  BY <1>1, <1>3, <1>4
<1>6. QED
  BY <1>2, <1>5 DEF Set!Without

\* When an element is assigned to its key it replaces what is held there.
LEMMA GhostsReplace ==
  ASSUME SetGhosts, NEW e0 \in Elements, map' = Set!Replacing(map, {e0}), again' = Set!Without(again, {e0[1]})
  PROVE  SetGhosts' /\ Set!Held' = Set!Replacing(Set!Held, {e0})
<1>1. /\ \A e : e \in map' <=> e = e0 \/ (e \in map /\ e[1] # e0[1])
      /\ \A e : e \in again' <=> e \in again /\ e[1] # e0[1]
  BY DEF Set!Replacing, Set!Keeping, Set!Without
<1>2. SetGhosts'
  <2>1. map' \subseteq Elements /\ again' \subseteq Elements
    BY <1>1 DEF SetGhosts
  <2>2. Once(map)'
    BY <1>1 DEF SetGhosts, Once
  <2>3. \A a \in again' : \E d \in map' : d[1] = a[1]
    BY <1>1 DEF SetGhosts
  <2>4. QED
    BY <2>1, <2>2, <2>3 DEF SetGhosts
<1>3. \A e : e \in Set!Held <=> e \in again \/ (e \in map /\ \A d \in again : d[1] # e[1])
  BY DEF Set!Held, Set!Replacing, Set!Keeping
<1>4. \A e : e \in Set!Held' <=> e \in again' \/ (e \in map' /\ \A d \in again' : d[1] # e[1])
  BY DEF Set!Held, Set!Replacing, Set!Keeping
<1>5. \A e : e \in Set!Replacing(Set!Held, {e0}) <=> e = e0 \/ (e \in Set!Held /\ e[1] # e0[1])
  BY DEF Set!Replacing, Set!Keeping
<1>6. \A e : e \in Set!Held' <=> e \in Set!Replacing(Set!Held, {e0})
  BY <1>1, <1>3, <1>4, <1>5
<1>7. QED
  BY <1>2, <1>6

\* When a range is merged its elements replace what is held of their keys.
LEMMA GhostsMerge ==
  ASSUME SetGhosts, NEW N, N \subseteq Elements, Once(N), map' = Set!Keeping(map, N),
         again' = Set!Without(again, {e[1] : e \in N}) \cup {e \in N \ map : \E d \in map : d[1] = e[1]}
  PROVE  SetGhosts' /\ Set!Held' = Set!Replacing(Set!Held, N)
<1>1. /\ \A e : e \in map' <=> e \in map \/ (e \in N /\ \A d \in map : d[1] # e[1])
      /\ \A e : e \in again' <=> \/ e \in again /\ \A d \in N : d[1] # e[1]
                                 \/ e \in N /\ e \notin map /\ \E d \in map : d[1] = e[1]
  BY DEF Set!Keeping, Set!Without
<1>2. SetGhosts'
  <2>1. map' \subseteq Elements /\ again' \subseteq Elements
    BY <1>1 DEF SetGhosts
  <2>2. Once(map)'
    BY <1>1 DEF SetGhosts, Once
  <2>3. \A a \in again' : \E d \in map' : d[1] = a[1]
    BY <1>1 DEF SetGhosts
  <2>4. QED
    BY <2>1, <2>2, <2>3 DEF SetGhosts
<1>3. \A e : e \in Set!Held <=> e \in again \/ (e \in map /\ \A d \in again : d[1] # e[1])
  BY DEF Set!Held, Set!Replacing, Set!Keeping
<1>4. \A e : e \in Set!Held' <=> e \in again' \/ (e \in map' /\ \A d \in again' : d[1] # e[1])
  BY DEF Set!Held, Set!Replacing, Set!Keeping
<1>5. \A e : e \in Set!Replacing(Set!Held, N) <=> e \in N \/ (e \in Set!Held /\ \A d \in N : d[1] # e[1])
  BY DEF Set!Replacing, Set!Keeping
<1>6. ASSUME NEW e \in N PROVE e \in Set!Held'
  <2>1. CASE e \in again'
    BY <1>4, <2>1
  <2>2. CASE e \notin again'
    <3>1. e \in map'
      BY <1>1, <2>2
    <3>2. \A d \in again' : d[1] # e[1]
      <4> SUFFICES ASSUME NEW d \in again', d[1] = e[1] PROVE FALSE
        OBVIOUS
      <4>1. d \in N
        BY <1>1
      <4>2. QED
        BY <2>2, <4>1 DEF Once
    <3>3. QED
      BY <1>4, <3>1, <3>2
  <2>3. QED
    BY <2>1, <2>2
<1>7. ASSUME NEW e, \A d \in N : d[1] # e[1] PROVE e \in Set!Held' <=> e \in Set!Held
  <2>1. (e \in map' <=> e \in map) /\ (e \in again' <=> e \in again)
    BY <1>1, <1>7
  <2>2. \A d \in again' : d[1] = e[1] => d \in again
    BY <1>1, <1>7
  <2>3. \A d \in again : d[1] = e[1] => d \in again'
    BY <1>1, <1>7
  <2>4. QED
    BY <1>3, <1>4, <2>1, <2>2, <2>3
<1>8. ASSUME NEW e \in Set!Held', NEW d \in N, d[1] = e[1] PROVE e \in N
  <2>1. CASE e \in again'
    BY <1>1, <1>8, <2>1
  <2>2. CASE e \notin again'
    <3>1. e \in map' /\ \A a \in again' : a[1] # e[1]
      BY <1>4, <2>2
    <3>2. CASE e \notin map
      BY <1>1, <3>1, <3>2
    <3>3. CASE e \in map
      <4>1. d \notin again'
        BY <1>8, <3>1
      <4>2. d \in map
        BY <1>1, <1>8, <3>3, <4>1
      <4>3. QED
        BY <1>8, <3>3, <4>2 DEF SetGhosts, Once
    <3>4. QED
      BY <3>2, <3>3
  <2>3. QED
    BY <2>1, <2>2
<1>9. \A e : e \in Set!Held' <=> e \in Set!Replacing(Set!Held, N)
  BY <1>5, <1>6, <1>7, <1>8
<1>10. QED
  BY <1>2, <1>9

\* When all is set anew nothing is left of what was held.
LEMMA GhostsBecome ==
  ASSUME NEW m, m \subseteq Elements, Once(m), Set!Become(m)
  PROVE  SetGhosts' /\ Set!Held' = m
BY DEF Set!Become, SetGhosts, Once, Set!Held, Set!Replacing, Set!Keeping

\* They stay what they are.
LEMMA GhostsStay ==
  ASSUME SetGhosts, UNCHANGED <<map, again>>
  PROVE  SetGhosts' /\ Set!Held' = Set!Held
BY DEF SetGhosts, Once, Set!Held

\* A sorted vector, or any without a key twice, holds a key once.
LEMMA HeldOnce ==
  ASSUME NEW s \in Vectors, Ordered(s) \/ Distinct(s)
  PROVE  Once(Set!Contents(s))
<1> SUFFICES ASSUME NEW d \in Set!Contents(s), NEW e \in Set!Contents(s), d[1] = e[1] PROVE d = e
  BY DEF Once
<1>1. PICK i \in 1..Len(s) : s[i] = d
  BY VectorIs
<1>2. PICK j \in 1..Len(s) : s[j] = e
  BY VectorIs
<1>3. i = j
  BY <1>1, <1>2, OrderedIs DEF Distinct
<1>4. QED
  BY <1>1, <1>2, <1>3

\* What is left of a vector: all of it, or one element and what is left behind that.
LEMMA RestIs ==
  ASSUME NEW s \in Vectors
  PROVE  /\ Rest(s, 1) = Set!Contents(s)
         /\ Rest(s, Len(s) + 1) = {}
         /\ \A n \in 1..Len(s) : Rest(s, n) = {s[n]} \cup Rest(s, n + 1)
         /\ \A n \in Nat \ {0} : Rest(s, n) \subseteq Elements
<1>1. Len(s) \in Nat /\ \A i \in 1..Len(s) : s[i] \in Elements
  BY VectorIs
<1>2. Rest(s, 1) = Set!Contents(s)
  BY VectorIs DEF Rest
<1>3. Rest(s, Len(s) + 1) = {}
  BY <1>1 DEF Rest
<1>4. ASSUME NEW n \in 1..Len(s) PROVE Rest(s, n) = {s[n]} \cup Rest(s, n + 1)
  <2>1. \A i : i \in n..Len(s) <=> i = n \/ i \in (n + 1)..Len(s)
    BY <1>1
  <2>2. \A e : e \in Rest(s, n) <=> \E i \in n..Len(s) : s[i] = e
    BY DEF Rest
  <2>3. \A e : e \in Rest(s, n + 1) <=> \E i \in (n + 1)..Len(s) : s[i] = e
    BY DEF Rest
  <2> HIDE DEF Rest
  <2>4. \A e : e \in Rest(s, n) <=> e = s[n] \/ e \in Rest(s, n + 1)
    BY <2>1, <2>2, <2>3
  <2>5. QED
    BY <2>4
<1>5. ASSUME NEW n \in Nat \ {0} PROVE Rest(s, n) \subseteq Elements
  <2>1. \A i \in n..Len(s) : i \in 1..Len(s)
    BY <1>1
  <2>2. QED
    BY <1>1, <2>1 DEF Rest
<1>6. QED
  BY <1>2, <1>3, <1>4, <1>5

\* A vector grows at its end by an element behind all of it.
LEMMA AppendedIs ==
  ASSUME NEW s \in Vectors, Ordered(s), NEW e \in Elements, \A d \in Set!Contents(s) : d[1] < e[1]
  PROVE  Append(s, e) \in Vectors /\ Ordered(Append(s, e)) /\ Set!Contents(Append(s, e)) = Set!Contents(s) \cup {e}
<1> DEFINE u == Append(s, e)
<1>1. /\ u \in Vectors /\ Len(u) = Len(s) + 1 /\ u[Len(s) + 1] = e /\ \A i \in 1..Len(s) : u[i] = s[i]
      /\ Len(s) \in Nat
  <2> DEFINE C == Elements
  <2> HIDE DEF C
  <2>1. s \in Seq(C) /\ e \in C
    BY DEF Vectors, C
  <2>2. /\ u \in Seq(C) /\ Len(u) = Len(s) + 1 /\ u[Len(s) + 1] = e /\ \A i \in 1..Len(s) : u[i] = s[i]
        /\ Len(s) \in Nat
    BY <2>1
  <2>3. QED
    BY <2>2 DEF Vectors, C
<1> HIDE DEF u
<1>2. \A i \in 1..Len(u) : i \in 1..Len(s) \/ i = Len(s) + 1
  BY <1>1
<1>3. Ordered(u)
  <2> SUFFICES ASSUME NEW i \in 1..Len(u), NEW j \in 1..Len(u), i < j PROVE u[i][1] < u[j][1]
    BY <1>1, OrderedIs
  <2>1. i \in 1..Len(s) /\ u[i] = s[i]
    BY <1>1, <1>2
  <2>2. CASE j \in 1..Len(s)
    BY <1>1, <2>1, <2>2, OrderedIs
  <2>3. CASE j = Len(s) + 1
    <3>1. s[i] \in Set!Contents(s)
      BY <2>1, VectorIs
    <3>2. QED
      BY <1>1, <2>1, <2>3, <3>1
  <2>4. QED
    BY <1>2, <2>2, <2>3
<1>4. \A x : x \in Set!Contents(u) <=> x \in Set!Contents(s) \/ x = e
  <2> SUFFICES ASSUME NEW x PROVE x \in Set!Contents(u) <=> x \in Set!Contents(s) \/ x = e
    OBVIOUS
  <2>1. x \in Set!Contents(u) <=> \E i \in 1..Len(u) : u[i] = x
    BY <1>1, VectorIs
  <2>2. x \in Set!Contents(s) <=> \E i \in 1..Len(s) : s[i] = x
    BY VectorIs
  <2>3. (\A i \in 1..Len(s) : i \in 1..Len(u)) /\ Len(s) + 1 \in 1..Len(u)
    BY <1>1
  <2>4. QED
    BY <1>1, <1>2, <2>1, <2>2, <2>3
<1>5. Set!Contents(u) = Set!Contents(s) \cup {e}
  BY <1>4
<1>6. QED
  BY <1>1, <1>3, <1>5 DEF u

\* A call that is done at once leaves the set at rest.
LEMMA RestsAgain ==
  ASSUME SetInv, call = "none", Set!loop' = Set!loop,
         vector' \in Vectors, Ordered(vector'), Set!Contents(vector') = Set!Held', other' \in Vectors, Ordered(other'), SetGhosts',
         result' # Set!None => result'[1] \in 1..Len(vector') /\ vector'[result'[1]][1] = result'[2]
  PROVE  SetInv'
<1>1. call' = "none" /\ tmp' = <<>> /\ newvect' = <<>> /\ oldNext' = 1 /\ newNext' = 1
  BY DEF Set!loop, SetInv, SetAtRest
<1>2. Len(vector') \in Nat /\ DOMAIN vector' = 1..Len(vector') /\ Set!Contents(vector') \subseteq Elements
  BY VectorIs
<1>3. <<>> \in Vectors /\ Len(<<>>) = 0
  BY DEF Vectors
<1>4. SetTypes'
  BY <1>1, <1>2, <1>3 DEF SetTypes
<1>5. SetAtRest'
  BY <1>1, <1>2 DEF SetAtRest
<1>6. QED
  BY <1>1, <1>4, <1>5 DEF SetInv

\* The calls that are done at once.
LEMMA SetCalls ==
  ASSUME \A s \in Ranges : Distinct(s), SetInv, call = "none", Set!Call, Set!loop' = Set!loop
  PROVE  SetInv'
<1>1. /\ vector \in Vectors /\ Ordered(vector) /\ Set!Contents(vector) = Set!Held /\ other \in Vectors /\ Ordered(other)
      /\ Len(vector) \in Nat /\ DOMAIN vector = 1..Len(vector) /\ SetGhosts
  BY VectorIs DEF SetInv, SetTypes, SetAtRest
<1>2. \A k \in Set!Keys, v \in Values : Set!Element(k, v) \in Elements /\ Set!Element(k, v)[1] = k /\ k \in Nat
  BY DEF Set!Keys, Set!Element, Elements
<1>3. <<>> \in Vectors /\ Ordered(<<>>) /\ Set!Contents(<<>>) = {}
  BY DEF Vectors, Ordered, Set!Ordered, Set!Contents
<1>4. ASSUME NEW k \in Set!Keys, NEW v \in Values, Set!Insert(Set!Element(k, v)) PROVE SetInv'
  <2> DEFINE e == Set!Element(k, v)
             b == Set!find_exists(vector, e)[1]
  <2>1. e \in Elements /\ e[1] = k
    BY <1>2
  <2> HIDE DEF e
  <2>2. /\ Set!With(vector, e) \in Vectors /\ Ordered(Set!With(vector, e))
        /\ b \in 1..Len(Set!With(vector, e)) /\ Set!With(vector, e)[b][1] = e[1]
        /\ Set!Contents(Set!With(vector, e)) = Set!Keeping(Set!Contents(vector), {e})
    BY <1>1, <2>1, WithIs
  <2> HIDE DEF b
  <2>3. vector' = Set!With(vector, e) /\ Set!Gain({e}) /\ result' = <<b, e[1]>> /\ other' = other
    BY <1>4 DEF Set!Insert, e, b
  <2>4. SetGhosts' /\ Set!Held' = Set!Keeping(Set!Held, {e})
    <3>1. {e} \subseteq Elements /\ Once({e})
      BY <2>1 DEF Once
    <3>2. QED
      BY <1>1, <2>3, <3>1, GhostsKeep
  <2>5. QED
    BY <1>1, <2>2, <2>3, <2>4, RestsAgain
<1>5. ASSUME NEW k \in Set!Keys, NEW v \in Values, Set!Assign(Set!Element(k, v)) PROVE SetInv'
  <2> DEFINE e == Set!Element(k, v)
             x == Set!Element(e[1], Set!Default)
             b == Set!find_exists(vector, x)[1]
             u == [Set!With(vector, x) EXCEPT ![b] = e]
  <2>1. e \in Elements /\ e[1] = k /\ x \in Elements /\ x[1] = e[1]
    <3>1. Set!Default \in Values
      BY DEF Set!Default
    <3>2. QED
      BY <1>2, <3>1
  <2>2. /\ vector' = u /\ result' = <<b, e[1]>> /\ other' = other
        /\ map' = Set!Replacing(map, {e}) /\ again' = Set!Without(again, {e[1]})
    BY <1>5 DEF Set!Assign
  <2> HIDE DEF e, x
  <2>3. u \in Vectors /\ Ordered(u) /\ b \in 1..Len(u) /\ u[b] = e
        /\ Set!Contents(u) = Set!Replacing(Set!Contents(vector), {e})
    BY <1>1, <2>1, AssignedIs
  <2> HIDE DEF u, b
  <2>4. SetGhosts' /\ Set!Held' = Set!Replacing(Set!Held, {e})
    BY <1>1, <2>1, <2>2, GhostsReplace
  <2>5. QED
    BY <1>1, <2>2, <2>3, <2>4, RestsAgain
<1>6. ASSUME NEW b \in 1..Len(vector), NEW n \in 1..(Len(vector) - b + 1), Set!EraseFrom(b, n),
             NEW K, Set!Forget(K), \A e \in Set!Contents(vector) : e[1] \in K <=> e \in {vector[j] : j \in b..(b + n - 1)},
             result' = Set!None, other' = other
      PROVE  SetInv'
  <2> DEFINE u == SubSeq(vector, 1, b - 1) \o SubSeq(vector, b + n, Len(vector))
             gone == {vector[j] : j \in b..(b + n - 1)}
  <2>1. u \in Vectors /\ Ordered(u) /\ Set!Contents(u) = Set!Contents(vector) \ gone
    BY <1>1, ErasedIs
  <2>2. vector' = u
    BY <1>6 DEF Set!EraseFrom
  <2>3. SetGhosts' /\ Set!Held' = Set!Without(Set!Held, K)
    BY <1>1, <1>6, GhostsForget
  <2>4. Set!Without(Set!Held, K) = Set!Contents(vector) \ gone
    BY <1>1, <1>6 DEF Set!Without
  <2> HIDE DEF u, gone
  <2>5. QED
    BY <1>1, <1>6, <2>1, <2>2, <2>3, <2>4, RestsAgain
<1>7. ASSUME NEW k \in Set!Keys, Set!EraseKey(k) PROVE SetInv'
  <2>1. CASE Set!contains(vector, k)
    <3> DEFINE b == Set!lower_bound(vector, k)
    <3>1. k \in Nat
      BY DEF Set!Keys
    <3>2. b \in 1..Len(vector) /\ vector[b][1] = k
      <4> DEFINE here == {e \in Set!Contents(vector) : e[1] = k}
      <4>1. \A e : e \in here <=> e \in Set!Contents(vector) /\ e[1] = k
        OBVIOUS
      <4> HIDE DEF here
      <4>2. vector \in Vectors /\ Ordered(vector)
        BY <1>1
      <4>3. QED
        BY <2>1, <3>1, <4>1, <4>2, LookupsAre, Zenon
    <3>3. Set!EraseFrom(b, 1) /\ Set!Forget({k}) /\ result' = Set!None /\ other' = other
      BY <1>7, <2>1 DEF Set!EraseKey
    <3> HIDE DEF b
    <3>4. 1 \in 1..(Len(vector) - b + 1)
      BY <1>1, <3>2
    <3>5. {vector[j] : j \in b..(b + 1 - 1)} = {vector[b]}
      BY <1>1, <3>2
    <3>6. \A e \in Set!Contents(vector) : e[1] \in {k} <=> e \in {vector[j] : j \in b..(b + 1 - 1)}
      <4>1. Once(Set!Contents(vector)) /\ vector[b] \in Set!Contents(vector)
        BY <1>1, <3>2, HeldOnce, VectorIs
      <4>2. QED
        BY <3>2, <3>5, <4>1 DEF Once
    <3>7. QED
      BY <1>6, <3>2, <3>3, <3>4, <3>6
  <2>2. CASE ~Set!contains(vector, k)
    <3>1. Set!Forget({k}) /\ vector' = vector /\ result' = Set!None /\ other' = other
      BY <1>7, <2>2 DEF Set!EraseKey
    <3>2. SetGhosts' /\ Set!Held' = Set!Without(Set!Held, {k})
      BY <1>1, <3>1, GhostsForget
    <3>3. \A e \in Set!Held : e[1] # k
      <4> DEFINE here == {e \in Set!Contents(vector) : e[1] = k}
      <4>1. \A e : e \in here <=> e \in Set!Contents(vector) /\ e[1] = k
        OBVIOUS
      <4>2. k \in Nat
        BY DEF Set!Keys
      <4> HIDE DEF here
      <4>3. vector \in Vectors /\ Ordered(vector)
        BY <1>1
      <4>4. Set!count(vector, k) = IF here = {} THEN 0 ELSE 1
        BY <4>1, <4>2, <4>3, LookupsAre, Zenon
      <4>5. here = {}
        BY <2>2, <4>4 DEF Set!count
      <4>6. QED
        BY <1>1, <4>1, <4>5
    <3>4. Set!Without(Set!Held, {k}) = Set!Held
      BY <3>3 DEF Set!Without
    <3>5. QED
      BY <1>1, <3>1, <3>2, <3>4, RestsAgain
  <2>3. QED
    BY <2>1, <2>2
<1>8. ASSUME NEW s \in Ranges, Set!FromVector(s) PROVE SetInv'
  <2>1. vector' \in Set!Sorts(s) /\ Set!Become(Set!Contents(s)) /\ result' = Set!None /\ other' = other
    BY <1>8 DEF Set!FromVector
  <2>2. s \in Vectors /\ vector' \in Vectors /\ Ordered(vector') /\ Set!Contents(vector') = Set!Contents(s)
    BY <2>1, SortedIs
  <2>3. SetGhosts' /\ Set!Held' = Set!Contents(s)
    BY <2>1, <2>2, VectorIs, HeldOnce, GhostsBecome
  <2>4. QED
    BY <1>1, <2>1, <2>2, <2>3, RestsAgain
<1>9. ASSUME Set!Clear \/ Set!SwapOther \/ Set!CopyToOther \/ Set!MoveFromOther PROVE SetInv'
  <2>1. ASSUME NEW s \in Vectors, Ordered(s), Set!Become(Set!Contents(s))
        PROVE  SetGhosts' /\ Set!Held' = Set!Contents(s)
    BY <2>1, VectorIs, HeldOnce, GhostsBecome
  <2>2. CASE Set!Clear
    <3>1. SetGhosts' /\ Set!Held' = {}
      BY <2>2, GhostsBecome DEF Set!Clear, Once
    <3>2. QED
      BY <1>1, <1>3, <2>2, <3>1, RestsAgain DEF Set!Clear
  <2>3. CASE Set!SwapOther
    <3>1. SetGhosts' /\ Set!Held' = Set!Contents(other)
      BY <1>1, <2>1, <2>3 DEF Set!SwapOther
    <3>2. QED
      BY <1>1, <2>3, <3>1, RestsAgain DEF Set!SwapOther
  <2>4. CASE Set!CopyToOther
    <3>1. SetGhosts' /\ Set!Held' = Set!Held
      BY <1>1, <2>4 DEF Set!CopyToOther, SetGhosts, Set!Held
    <3>2. QED
      BY <1>1, <2>4, <3>1, RestsAgain DEF Set!CopyToOther
  <2>5. CASE Set!MoveFromOther
    <3>1. SetGhosts' /\ Set!Held' = Set!Contents(other)
      BY <1>1, <2>1, <2>5 DEF Set!MoveFromOther
    <3>2. QED
      BY <1>1, <1>3, <2>5, <3>1, RestsAgain DEF Set!MoveFromOther
  <2>6. QED
    BY <1>9, <2>2, <2>3, <2>4, <2>5
<1>10. ASSUME NEW i \in DOMAIN vector, NEW n \in 1..(Len(vector) - i + 1), Set!EraseRange(i, n) PROVE SetInv'
  <2> DEFINE K == {vector[j][1] : j \in i..(i + n - 1)}
             gone == {vector[j] : j \in i..(i + n - 1)}
  <2>1. Set!EraseFrom(i, n) /\ Set!Forget(K) /\ result' = Set!None /\ other' = other /\ i \in 1..Len(vector)
    BY <1>1, <1>10 DEF Set!EraseRange
  <2>2. Once(Set!Contents(vector)) /\ \A e \in gone : e \in Set!Contents(vector)
    <3>1. \A j \in i..(i + n - 1) : j \in 1..Len(vector)
      BY <1>1, <2>1
    <3>2. QED
      BY <1>1, <3>1, HeldOnce, VectorIs
  <2>3. \A e \in Set!Contents(vector) : e[1] \in K <=> e \in gone
    <3>1. \A k : k \in K <=> \E d \in gone : d[1] = k
      OBVIOUS
    <3> HIDE DEF K, gone
    <3>2. QED
      BY <2>2, <3>1 DEF Once
  <2> HIDE DEF K
  <2>4. QED
    BY <1>6, <2>1, <2>3
<1>11. QED
  BY <1>4, <1>5, <1>7, <1>8, <1>9, <1>10 DEF Set!Call

\* What is behind an element of a sorted vector is greater.
LEMMA RestIsGreater ==
  ASSUME NEW s \in Vectors, Ordered(s), NEW n \in 1..Len(s)
  PROVE  \A e \in Rest(s, n + 1) : s[n][1] < e[1]
<1> SUFFICES ASSUME NEW i \in (n + 1)..Len(s) PROVE s[n][1] < s[i][1]
  BY DEF Rest
<1>1. i \in 1..Len(s) /\ n < i
  BY VectorIs
<1>2. QED
  BY <1>1, OrderedIs

\* A range begins to be inserted.
LEMMA RangeBegins ==
  ASSUME \A s \in Ranges : Distinct(s), SetInv, call = "none", NEW s \in Ranges, Set!RangeInsert(s)
  PROVE  SetInv'
<1>1. /\ vector \in Vectors /\ Ordered(vector) /\ Set!Contents(vector) = Set!Held /\ SetGhosts
      /\ newvect = <<>> /\ oldNext = 1 /\ newNext = 1
  BY DEF SetInv, SetTypes, SetAtRest
<1>2. /\ vector' = vector /\ other' = other /\ newvect' = newvect /\ oldNext' = oldNext /\ newNext' = newNext
      /\ result' = Set!None
  BY DEF Set!RangeInsert
<1>3. s \in Vectors /\ Distinct(s) /\ Set!Contents(s) \subseteq Elements /\ Once(Set!Contents(s))
  <2>1. s \in Vectors
    BY LibraryAssumption DEF Vectors, Elements
  <2>2. QED
    BY <2>1, VectorIs, HeldOnce
<1>4. <<>> \in Vectors /\ Ordered(<<>>) /\ Set!Contents(<<>>) = {}
  BY DEF Vectors, Ordered, Set!Ordered, Set!Contents
<1>5. ASSUME tmp' \in Vectors PROVE SetTypes'
  <2>1. Len(tmp') \in Nat
    BY <1>5, VectorIs
  <2>2. QED
    BY <1>1, <1>2, <1>5, <2>1 DEF SetInv, SetTypes
<1>6. CASE Len(s) < Set!Few
  <2>1. call' = "each" /\ tmp' = s /\ Set!Gain(Set!Contents(s))
    BY <1>6 DEF Set!RangeInsert, Set!Gain
  <2>2. SetGhosts' /\ Set!Held' = Set!Keeping(Set!Held, Set!Contents(s))
    BY <1>1, <1>3, <2>1, GhostsKeep
  <2>3. Set!Held' = Set!Keeping(Set!Contents(vector), Rest(s, 1))
    BY <1>1, <1>3, <2>2, RestIs
  <2>4. SetEach'
    BY <1>1, <1>2, <1>3, <2>1, <2>3 DEF SetEach
  <2>5. QED
    BY <1>2, <1>3, <1>5, <2>1, <2>2, <2>4 DEF SetInv
<1>7. CASE ~(Len(s) < Set!Few)
  <2>1. /\ call' = "merge" /\ tmp' \in Set!Sorts(s) /\ map' = Set!Keeping(map, Set!Contents(s))
        /\ again' = Set!Without(again, {e[1] : e \in Set!Contents(s)})
                      \cup {e \in Set!Contents(s) \ map : \E d \in map : d[1] = e[1]}
    BY <1>7 DEF Set!RangeInsert
  <2>2. tmp' \in Vectors /\ Ordered(tmp') /\ Set!Contents(tmp') = Set!Contents(s)
    BY <1>3, <2>1, SortedIs
  <2>3. SetGhosts' /\ Set!Held' = Set!Replacing(Set!Held, Set!Contents(s))
    BY <1>1, <1>3, <2>1, GhostsMerge
  <2>4. Rest(tmp', 1) = Set!Contents(s) /\ Rest(vector, 1) = Set!Held
    BY <1>1, <2>2, RestIs
  <2>5. Set!Held' = Set!Contents(<<>>) \cup Set!Replacing(Rest(vector, 1), Rest(tmp', 1))
    BY <1>4, <2>3, <2>4
  <2>6. AllLess(Set!Contents(<<>>), Rest(vector, 1) \cup Rest(tmp', 1))
    BY <1>4 DEF AllLess
  <2>7. SetMerge'
    BY <1>1, <1>2, <1>4, <2>2, <2>5, <2>6 DEF SetMerge
  <2>8. QED
    BY <1>2, <1>5, <2>1, <2>2, <2>3, <2>7 DEF SetInv
<1>8. QED
  BY <1>6, <1>7

\* One of a short range is inserted.
LEMMA RangeEach ==
  ASSUME SetInv, Set!InsertNext
  PROVE  SetInv'
<1> DEFINE n == newNext
           e == tmp[n]
           R == Rest(tmp, n + 1)
           M == Set!Contents(vector)
<1>1. /\ call = "each" /\ n \in 1..Len(tmp) /\ vector' = Set!With(vector, e) /\ newNext' = n + 1
      /\ other' = other /\ call' = call /\ tmp' = tmp /\ newvect' = newvect /\ oldNext' = oldNext
      /\ SetGhosts' /\ Set!Held' = Set!Held
      /\ result' = result
  <2>1. tmp \in Vectors /\ n \in Nat \ {0} /\ n <= Len(tmp)
    BY DEF Set!InsertNext, SetInv, SetTypes
  <2>2. n \in 1..Len(tmp)
    BY <2>1, VectorIs
  <2>3. QED
    BY <2>2, GhostsStay DEF Set!InsertNext, SetInv
<1>2. /\ vector \in Vectors /\ Ordered(vector) /\ tmp \in Vectors /\ newvect = <<>> /\ oldNext = 1 /\ Distinct(tmp)
      /\ Set!Held = Set!Keeping(M, Rest(tmp, n)) /\ result = Set!None
  BY <1>1 DEF SetInv, SetTypes, SetEach
<1>3. Len(tmp) \in Nat /\ e \in Elements
  BY <1>1, <1>2, VectorIs
<1>4. Rest(tmp, n) = {e} \cup R
  BY <1>1, <1>2, RestIs
<1>5. \A d \in R : d[1] # e[1]
  <2> SUFFICES ASSUME NEW i \in (n + 1)..Len(tmp) PROVE tmp[i][1] # tmp[n][1]
    BY DEF Rest
  <2>1. i \in 1..Len(tmp) /\ i # n
    BY <1>1, <1>3
  <2>2. QED
    BY <1>1, <1>2, <2>1 DEF Distinct
<1> HIDE DEF e
<1>6. vector' \in Vectors /\ Ordered(vector') /\ Set!Contents(vector') = Set!Keeping(M, {e})
  BY <1>1, <1>2, <1>3, WithIs
<1> HIDE DEF M, R, n
<1>7. Set!Held = Set!Keeping(Set!Keeping(M, {e}), R)
  BY <1>2, <1>4, <1>5 DEF Set!Keeping
<1>8. SetEach'
  BY <1>1, <1>2, <1>6, <1>7 DEF SetEach, R
<1>9. SetTypes'
  <2>1. Len(vector') \in Nat
    BY <1>6, VectorIs
  <2>2. n + 1 \in Nat \ {0} /\ n + 1 <= Len(tmp) + 1
    BY <1>1, <1>3
  <2>3. {vector', tmp', other', newvect'} \subseteq Vectors /\ Ordered(other')
    BY <1>1, <1>6 DEF SetInv, SetTypes
  <2>4. oldNext' = 1 /\ 1 <= Len(vector') + 1 /\ 1 \in Nat \ {0}
    BY <1>1, <1>2, <2>1
  <2>5. QED
    BY <1>1, <1>6, <2>2, <2>3, <2>4 DEF SetTypes
<1>10. QED
  BY <1>1, <1>2, <1>8, <1>9 DEF SetInv

\* The merge: the element taken is behind all that was taken and before all that is left.
LEMMA MergeTakes ==
  ASSUME SetInv, call = "merge", NEW e \in Elements, NEW l0 \in Nat \ {0}, NEW r0 \in Nat \ {0},
         newvect' = Append(newvect, e), oldNext' = l0, newNext' = r0, l0 <= Len(vector) + 1, r0 <= Len(tmp) + 1,
         vector' = vector, other' = other, call' = call, tmp' = tmp, SetGhosts', Set!Held' = Set!Held, result' = result,
         e \in Rest(vector, oldNext) \cup Rest(tmp, newNext),
         Rest(vector, l0) \subseteq Rest(vector, oldNext), Rest(tmp, r0) \subseteq Rest(tmp, newNext),
         AllLess({e}, Rest(vector, l0) \cup Rest(tmp, r0)),
         Set!Replacing(Rest(vector, oldNext), Rest(tmp, newNext)) = {e} \cup Set!Replacing(Rest(vector, l0), Rest(tmp, r0))
  PROVE  SetInv'
<1> DEFINE R == Rest(vector, oldNext)
           N == Rest(tmp, newNext)
           R1 == Rest(vector, l0)
           N1 == Rest(tmp, r0)
           K == Set!Contents(newvect)
<1>1. /\ newvect \in Vectors /\ Ordered(newvect) /\ Ordered(tmp)
      /\ Set!Held = K \cup Set!Replacing(R, N) /\ AllLess(K, R \cup N) /\ result = Set!None
  BY DEF SetInv, SetTypes, SetMerge
<1>2. e \in R \cup N /\ R1 \subseteq R /\ N1 \subseteq N /\ AllLess({e}, R1 \cup N1)
      /\ Set!Replacing(R, N) = {e} \cup Set!Replacing(R1, N1)
  OBVIOUS
<1> HIDE DEF R, N, R1, N1, K
<1>3. \A d \in K : d[1] < e[1]
  BY <1>1, <1>2 DEF AllLess
<1>4. newvect' \in Vectors /\ Ordered(newvect') /\ Set!Contents(newvect') = K \cup {e}
  BY <1>1, <1>3, AppendedIs DEF K
<1>5. Set!Held' = Set!Contents(newvect') \cup Set!Replacing(R1, N1)
  BY <1>1, <1>2, <1>4
<1>6. AllLess(Set!Contents(newvect'), R1 \cup N1)
  BY <1>1, <1>2, <1>4 DEF AllLess
<1>7. Rest(vector', oldNext') = R1 /\ Rest(tmp', newNext') = N1
  BY DEF R1, N1
<1>8. SetMerge'
  BY <1>1, <1>4, <1>5, <1>6, <1>7 DEF SetMerge
<1>9. SetTypes'
  BY <1>4 DEF SetInv, SetTypes
<1>10. QED
  BY <1>1, <1>8, <1>9 DEF SetInv

\* The less of two elements is taken, the one of the range where they are equal.
LEMMA MergeTakesOld ==
  ASSUME SetInv, Set!TakeOld
  PROVE  SetInv'
<1> DEFINE e == vector[oldNext]
           R == Rest(vector, oldNext)
           R1 == Rest(vector, oldNext + 1)
           N == Rest(tmp, newNext)
<1>1. /\ call = "merge" /\ oldNext \in 1..Len(vector) /\ newvect' = Append(newvect, e) /\ oldNext' = oldNext + 1
      /\ newNext' = newNext /\ vector' = vector /\ other' = other /\ call' = call /\ tmp' = tmp
      /\ SetGhosts' /\ Set!Held' = Set!Held /\ result' = result
  <2>1. vector \in Vectors /\ oldNext \in Nat \ {0} /\ oldNext <= Len(vector)
    BY DEF SetInv, SetTypes, Set!TakeOld, Set!MoreOld
  <2>2. oldNext \in 1..Len(vector)
    BY <2>1, VectorIs
  <2>3. QED
    BY <2>2, GhostsStay DEF Set!TakeOld, SetInv
<1>2. vector \in Vectors /\ Ordered(vector) /\ tmp \in Vectors /\ Ordered(tmp) /\ newNext \in Nat \ {0} /\ newNext <= Len(tmp) + 1
  BY <1>1 DEF SetInv, SetTypes, SetMerge
<1>3. /\ Len(vector) \in Nat /\ Len(tmp) \in Nat /\ e \in Elements /\ e[1] \in Nat
      /\ oldNext + 1 \in Nat \ {0} /\ oldNext + 1 <= Len(vector) + 1
  BY <1>1, <1>2, VectorIs
<1>4. R = {e} \cup R1 /\ \A d \in R1 : e[1] < d[1]
  BY <1>1, <1>2, RestIs, RestIsGreater
<1>5. \A d \in N : e[1] < d[1]
  <2>1. CASE newNext <= Len(tmp)
    <3>1. newNext \in 1..Len(tmp) /\ e[1] < tmp[newNext][1]
      BY <1>2, <1>3, <2>1 DEF Set!TakeOld, Set!MoreNew, Set!less
    <3>2. N = {tmp[newNext]} \cup Rest(tmp, newNext + 1) /\ N \subseteq Elements
      BY <1>2, <3>1, RestIs
    <3>3. \A d \in Rest(tmp, newNext + 1) : tmp[newNext][1] < d[1]
      BY <1>2, <3>1, RestIsGreater
    <3>4. \A d \in N : d[1] \in Nat
      BY <3>2 DEF Elements
    <3>5. tmp[newNext][1] \in Nat
      BY <1>2, <3>1, VectorIs
    <3> HIDE DEF N, e
    <3>6. QED
      BY <1>3, <3>1, <3>2, <3>3, <3>4, <3>5
  <2>2. CASE ~(newNext <= Len(tmp))
    <3>1. newNext = Len(tmp) + 1
      BY <1>2, <1>3, <2>2
    <3>2. QED
      BY <1>2, <3>1, RestIs
  <2>3. QED
    BY <2>1, <2>2
<1> HIDE DEF e, R, R1, N
<1>6. \A d \in R1 \cup N : e[1] < d[1]
  BY <1>4, <1>5
<1>7. \A d \in N : d[1] # e[1]
  <2>1. N \subseteq Elements
    BY <1>2, RestIs DEF N
  <2>2. \A d \in N : d[1] \in Nat
    BY <2>1 DEF Elements
  <2>3. QED
    BY <1>3, <1>5, <2>2
<1>8. Set!Replacing(R, N) = {e} \cup Set!Replacing(R1, N)
  BY <1>4, <1>7 DEF Set!Replacing, Set!Keeping
<1>9. AllLess({e}, R1 \cup N) /\ e \in R \cup N /\ R1 \subseteq R
  BY <1>4, <1>6 DEF AllLess
<1>10. QED
  BY <1>1, <1>2, <1>3, <1>8, <1>9, MergeTakes DEF R, R1, N

\* That of the range, and one of the same key in the vector is dropped.
LEMMA MergeTakesNew ==
  ASSUME SetInv, Set!TakeNew
  PROVE  SetInv'
<1> DEFINE e == tmp[newNext]
           l0 == oldNext'
           R == Rest(vector, oldNext)
           R1 == Rest(vector, l0)
           N == Rest(tmp, newNext)
           N1 == Rest(tmp, newNext + 1)
<1>1. /\ call = "merge" /\ newNext \in 1..Len(tmp) /\ newvect' = Append(newvect, e)
      /\ newNext' = newNext + 1 /\ vector' = vector /\ other' = other /\ call' = call /\ tmp' = tmp
      /\ SetGhosts' /\ Set!Held' = Set!Held /\ result' = result
  <2>1. tmp \in Vectors /\ newNext \in Nat \ {0} /\ newNext <= Len(tmp)
    BY DEF SetInv, SetTypes, Set!TakeNew, Set!MoreNew
  <2>2. newNext \in 1..Len(tmp)
    BY <2>1, VectorIs
  <2>3. QED
    BY <2>2, GhostsStay DEF Set!TakeNew, SetInv
<1>2. vector \in Vectors /\ Ordered(vector) /\ tmp \in Vectors /\ Ordered(tmp) /\ oldNext \in Nat \ {0} /\ oldNext <= Len(vector) + 1
  BY <1>1 DEF SetInv, SetTypes, SetMerge
<1>3. /\ Len(vector) \in Nat /\ Len(tmp) \in Nat /\ e \in Elements /\ e[1] \in Nat
      /\ newNext + 1 \in Nat \ {0} /\ newNext + 1 <= Len(tmp) + 1
  BY <1>1, <1>2, VectorIs
<1>4. N = {e} \cup N1 /\ \A d \in N1 : e[1] < d[1]
  BY <1>1, <1>2, RestIs, RestIsGreater
\* What is left of the vector is greater, but for one of the same key.
<1>5. /\ l0 \in Nat \ {0} /\ l0 <= Len(vector) + 1 /\ R1 \subseteq R
      /\ \A d \in R1 : e[1] < d[1]
      /\ \A d \in R : d \in R1 \/ d[1] = e[1]
  <2>1. CASE oldNext <= Len(vector)
    <3> DEFINE d0 == vector[oldNext]
               R0 == Rest(vector, oldNext + 1)
    <3>1. oldNext \in 1..Len(vector)
      BY <1>2, <1>3, <2>1
    <3>2. d0[1] \in Nat /\ ~(d0[1] < e[1])
      BY <1>2, <2>1, <3>1, VectorIs DEF Set!TakeNew, Set!MoreOld, Set!less
    <3>3. R = {d0} \cup R0 /\ \A d \in R0 : d0[1] < d[1]
      BY <1>2, <3>1, RestIs, RestIsGreater
    <3>4. l0 = IF ~(e[1] < d0[1]) THEN oldNext + 1 ELSE oldNext
      BY <2>1 DEF Set!TakeNew, Set!MoreOld, Set!less
    <3>5. \A d \in R0 : d[1] \in Nat
      <4>1. R \subseteq Elements
        BY <1>2, RestIs
      <4>2. QED
        BY <3>3, <4>1 DEF Elements
    <3>6. CASE e[1] < d0[1]
      <4>1. l0 = oldNext /\ R1 = R
        BY <3>4, <3>6
      <4> HIDE DEF e, d0, R, R0, R1, l0
      <4>2. \A d \in R0 : e[1] < d[1]
        BY <1>3, <3>2, <3>3, <3>5, <3>6
      <4>3. QED
        BY <1>2, <3>3, <3>6, <4>1, <4>2
    <3>7. CASE ~(e[1] < d0[1])
      <4>1. l0 = oldNext + 1 /\ R1 = R0
        BY <3>4, <3>7
      <4>2. l0 \in Nat \ {0} /\ l0 <= Len(vector) + 1
        BY <1>3, <3>1, <4>1
      <4> HIDE DEF e, d0, R, R0, R1, l0
      <4>3. d0[1] = e[1]
        BY <1>3, <3>2, <3>7
      <4>4. QED
        BY <3>3, <4>1, <4>2, <4>3
    <3>8. QED
      BY <3>6, <3>7
  <2>2. CASE ~(oldNext <= Len(vector))
    <3>1. oldNext = Len(vector) + 1
      BY <1>2, <1>3, <2>2
    <3>2. l0 = oldNext
      BY <2>2 DEF Set!TakeNew, Set!MoreOld
    <3>3. R = {} /\ R1 = {}
      BY <1>2, <3>1, <3>2, RestIs
    <3>4. QED
      BY <1>2, <3>2, <3>3
  <2>3. QED
    BY <2>1, <2>2
<1> HIDE DEF e, R, R1, N, N1, l0
<1>6. \A d \in R1 : d[1] # e[1]
  <2>1. R1 \subseteq Elements
    BY <1>2, <1>5, RestIs DEF R1
  <2>2. \A d \in R1 : d[1] \in Nat
    BY <2>1 DEF Elements
  <2>3. QED
    BY <1>3, <1>5, <2>2
<1>7. Set!Replacing(R, N) = {e} \cup Set!Replacing(R1, N1)
  BY <1>4, <1>5, <1>6 DEF Set!Replacing, Set!Keeping
<1>8. AllLess({e}, R1 \cup N1) /\ e \in R \cup N /\ N1 \subseteq N
  BY <1>4, <1>5 DEF AllLess
<1>9. oldNext' = l0
  BY DEF l0
<1>10. QED
  BY <1>1, <1>3, <1>5, <1>7, <1>8, <1>9, MergeTakes DEF R, R1, N, N1

\* A range is inserted: nothing of it is left.
LEMMA RangeEnds ==
  ASSUME SetInv, Set!RangeDone
  PROVE  SetInv'
<1>1. /\ call' = "none" /\ tmp' = <<>> /\ newvect' = <<>> /\ oldNext' = 1 /\ newNext' = 1
      /\ other' = other /\ SetGhosts' /\ Set!Held' = Set!Held /\ result' = result
      /\ vector' = IF call = "merge" THEN newvect ELSE vector
  BY GhostsStay DEF Set!RangeDone, SetInv
<1>2. /\ vector \in Vectors /\ Ordered(vector) /\ tmp \in Vectors /\ newvect \in Vectors /\ other \in Vectors /\ Ordered(other)
      /\ oldNext \in Nat \ {0} /\ oldNext <= Len(vector) + 1 /\ newNext \in Nat \ {0} /\ newNext <= Len(tmp) + 1
      /\ Len(vector) \in Nat /\ Len(tmp) \in Nat
  BY VectorIs DEF SetInv, SetTypes
<1>3. newNext = Len(tmp) + 1 /\ Rest(tmp, newNext) = {}
  <2>1. newNext = Len(tmp) + 1
    BY <1>2 DEF Set!RangeDone, Set!MoreNew
  <2>2. QED
    BY <1>2, <2>1, RestIs
<1>4. vector' \in Vectors /\ Ordered(vector') /\ Set!Contents(vector') = Set!Held /\ result = Set!None
  <2>1. CASE call = "each"
    <3>1. vector' = vector /\ Set!Held = Set!Keeping(Set!Contents(vector), {}) /\ result = Set!None
      BY <1>1, <1>3, <2>1 DEF SetInv, SetEach
    <3>2. QED
      BY <1>2, <3>1 DEF Set!Keeping
  <2>2. CASE call = "merge"
    <3>1. Rest(vector, oldNext) = {}
      <4>1. oldNext = Len(vector) + 1
        BY <1>2, <2>2 DEF Set!RangeDone, Set!MoreOld
      <4>2. QED
        BY <1>2, <4>1, RestIs
    <3>2. vector' = newvect /\ Ordered(newvect) /\ Set!Held = Set!Contents(newvect) \cup Set!Replacing({}, {}) /\ result = Set!None
      BY <1>1, <1>3, <2>2, <3>1 DEF SetInv, SetMerge
    <3>3. Set!Replacing({}, {}) = {}
      BY DEF Set!Replacing, Set!Keeping
    <3>4. QED
      BY <1>2, <3>2, <3>3
  <2>3. QED
    BY <2>1, <2>2 DEF SetInv, Set!RangeDone
<1>5. <<>> \in Vectors /\ Len(<<>>) = 0 /\ Len(vector') \in Nat
  BY <1>4, VectorIs DEF Vectors
<1>6. SetTypes'
  BY <1>1, <1>2, <1>4, <1>5 DEF SetTypes
<1>7. SetAtRest'
  BY <1>1, <1>4 DEF SetAtRest
<1>8. QED
  BY <1>1, <1>6, <1>7 DEF SetInv

\* What holds between and in the middle of calls holds at first.
LEMMA SetBegins == Set!Init => SetInv
<1> SUFFICES ASSUME Set!Init PROVE SetInv
  OBVIOUS
<1>1. <<>> \in Vectors /\ Ordered(<<>>) /\ Set!Contents(<<>>) = {} /\ Len(<<>>) = 0
  BY DEF Vectors, Ordered, Set!Ordered, Set!Contents
<1>2. SetTypes /\ SetGhosts /\ Set!Held = {}
  BY <1>1 DEF Set!Init, SetTypes, SetGhosts, Once, Set!Held, Set!Replacing, Set!Keeping
<1>3. SetAtRest /\ call = "none"
  BY <1>1, <1>2 DEF Set!Init, SetAtRest
<1>4. QED
  BY <1>2, <1>3 DEF SetInv

\* Every step of a call keeps it.
LEMMA SetGoesOn ==
  ASSUME \A s \in Ranges : Distinct(s)
  PROVE  SetInv /\ [Set!Next]_sets => SetInv'
<1> SUFFICES ASSUME SetInv, [Set!Next]_sets PROVE SetInv'
  OBVIOUS
<1>1. CASE call = "none" /\ Set!Call /\ UNCHANGED Set!loop
  BY <1>1, SetCalls
<1>2. CASE call = "none" /\ \E s \in Ranges : Set!RangeInsert(s)
  BY <1>2, RangeBegins
<1>3. CASE Set!InsertNext
  BY <1>3, RangeEach
<1>4. CASE Set!TakeOld
  BY <1>4, MergeTakesOld
<1>5. CASE Set!TakeNew
  BY <1>5, MergeTakesNew
<1>6. CASE Set!RangeDone
  BY <1>6, RangeEnds
<1>7. CASE UNCHANGED sets
  BY <1>7, GhostsStay DEF sets, SetInv, SetTypes, SetAtRest, SetEach, SetMerge
<1>8. QED
  BY <1>1, <1>2, <1>3, <1>4, <1>5, <1>6, <1>7 DEF Set!Next

\* "Implements std::set but all items are sorted in a vector" (linear_set.h:21): after
\* any calls the sorted vector holds what std::set or std::map would, but for elements
\* that a merged range put in the place of those of their keys, and every lookup tells
\* so, whatever ranges are inserted, if none of them has a key twice: those of five or
\* more, and what a container is made of, are sorted only (linear_set.h:184).
THEOREM SetAlwaysAgrees ==
  ASSUME \A s \in Ranges : Distinct(s)
  PROVE  SetSpec => []SetAgrees
<1>1. Set!Init => SetInv
  BY SetBegins
<1>2. SetInv /\ [Set!Next]_sets => SetInv'
  BY SetGoesOn
<1>3. QED
  BY <1>1, <1>2, SetInvAgrees, PTL DEF SetSpec

\* A set is one of the same kind: where equal elements are the same, so that every key
\* has one value, what replaces an element is that element, and std::set is implemented
\* (linear_set.h:21) at every return, merged ranges and all.
THEOREM SetsImplementSet ==
  ASSUME \A s \in Ranges : Distinct(s), \A v, w \in Values : v = w
  PROVE  SetSpec => []ImplementsSet
<1>1. Set!Init => SetInv
  BY SetBegins
<1>2. SetInv /\ [Set!Next]_sets => SetInv'
  BY SetGoesOn
<1>3. SetInv => ImplementsSet
  <2> SUFFICES ASSUME SetInv, call = "none" PROVE Set!Contents(vector) = map
    BY DEF ImplementsSet, Set!ImplementsSet
  <2>1. Set!Contents(vector) = Set!Held /\ SetGhosts
    BY DEF SetInv, SetAtRest
  <2>2. \A d, e \in Elements : d[1] = e[1] => d = e
    BY DEF Elements
  <2>3. again \subseteq map
    BY <2>1, <2>2 DEF SetGhosts
  <2>4. Set!Held = map
    BY <2>1, <2>3 DEF SetGhosts, Once, Set!Held, Set!Replacing, Set!Keeping
  <2>5. QED
    BY <2>1, <2>4
<1>4. QED
  BY <1>1, <1>2, <1>3, PTL DEF SetSpec

-----------------------------------------------------------------------------
\* What is read character by character means what was written (logOutput.h,
\* ini_parser.h, cmdline.h): each pattern, whose numbers go on from one another in
\* $(n); each file, until something is written that odd tells of; and each command
\* line without a dash inside a group of letters.
THEOREM TextIsUnderstood ==
  ASSUME NoInnerDash
  PROVE  PatternSpec /\ ParserSpec /\ CmdLineSpec => []TextUnderstood
<1>1. TextUnderstood <=> PlaceholdersReplaced /\ LinesUnderstood /\ EachArgumentOnce
  BY DEF TextUnderstood
<1>2. PatternSpec => []PlaceholdersReplaced
  BY PlaceholdersAreReplaced
<1>3. ParserSpec => []LinesUnderstood
  BY LinesAreUnderstood
<1>4. CmdLineSpec => []EachArgumentOnce
  BY ArgumentsOnce
<1>5. QED
  BY <1>1, <1>2, <1>3, <1>4, PTL
=============================================================================
