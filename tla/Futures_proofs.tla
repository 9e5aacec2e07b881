--------------------------- MODULE Futures_proofs ---------------------------
(***************************************************************************)
(* For any number of threads.  async_future: the types, that a callback is *)
(* in one place at a time and hence called at most once, that none is left *)
(* in the list of a resolved future with nobody on the way to take it, and *)
(* that all steps are those of CallbackCell.  Future: one semaphore, and   *)
(* answers and calls only for a value that is there.                       *)
(***************************************************************************)
EXTENDS Futures, SequenceTheorems, TLAPS

\* What is in front of, or behind the head of, a sequence.
LEMMA Pushed ==
  ASSUME NEW S, NEW s \in Seq(S), NEW a \in S
  PROVE  /\ <<a>> \o s \in Seq(S)
         /\ \A c : Holds(<<a>> \o s, c) <=> c = a \/ Holds(s, c)
         /\ Unique(s) /\ ~Holds(s, a) => Unique(<<a>> \o s)
<1> DEFINE r == <<a>> \o s
<1>1. /\ r \in Seq(S) /\ Len(r) = Len(s) + 1
      /\ \A i \in 1..Len(r) : r[i] = IF i = 1 THEN a ELSE s[i - 1]
  OBVIOUS
<1>2. /\ DOMAIN r = 1..(Len(s) + 1) /\ DOMAIN s = 1..Len(s) /\ Len(s) \in Nat
      /\ r[1] = a /\ \A i \in 1..Len(s) : r[i + 1] = s[i]
  BY <1>1
<1>3. \A i \in DOMAIN r : i = 1 \/ (i - 1 \in DOMAIN s /\ r[i] = s[i - 1])
  BY <1>1, <1>2
<1> HIDE DEF r
<1>4. \A c : Holds(r, c) <=> c = a \/ Holds(s, c)
  <2>1. \A c : Holds(r, c) => c = a \/ Holds(s, c)
    BY <1>2, <1>3 DEF Holds
  <2>2. Holds(r, a)
    BY <1>2 DEF Holds
  <2>3. ASSUME NEW c, Holds(s, c)
        PROVE  Holds(r, c)
    <3>1. PICK i \in 1..Len(s) : s[i] = c
      BY <1>2, <2>3 DEF Holds
    <3>2. i + 1 \in DOMAIN r /\ r[i + 1] = c
      BY <1>2, <3>1
    <3>3. QED
      BY <3>2 DEF Holds
  <2>4. QED
    BY <2>1, <2>2, <2>3
<1>5. ASSUME Unique(s), ~Holds(s, a)
      PROVE  Unique(r)
  <2> SUFFICES ASSUME NEW i \in DOMAIN r, NEW j \in DOMAIN r, r[i] = r[j]
               PROVE  i = j
    BY DEF Unique
  <2>1. CASE i = 1 \/ j = 1
    BY <2>1, <1>2, <1>3, <1>5 DEF Holds
  <2>2. CASE i # 1 /\ j # 1
    <3>1. i - 1 \in DOMAIN s /\ j - 1 \in DOMAIN s /\ s[i - 1] = s[j - 1]
      BY <2>2, <1>3
    <3>2. i - 1 = j - 1
      BY <3>1, <1>5 DEF Unique
    <3>3. QED
      BY <3>2, <1>2
  <2>3. QED
    BY <2>1, <2>2
<1>6. QED
  BY <1>1, <1>4, <1>5 DEF r

LEMMA Popped ==
  ASSUME NEW S, NEW s \in Seq(S), s # <<>>
  PROVE  /\ Tail(s) \in Seq(S) /\ Head(s) \in S /\ Holds(s, Head(s))
         /\ \A c : Holds(Tail(s), c) => Holds(s, c)
         /\ Unique(s) => Unique(Tail(s)) /\ ~Holds(Tail(s), Head(s))
<1> DEFINE r == Tail(s)
<1>1. /\ r \in Seq(S) /\ Head(s) = s[1] /\ Head(s) \in S /\ 1 \in DOMAIN s
      /\ DOMAIN s = 1..Len(s) /\ Len(s) \in Nat \ {0}
      /\ DOMAIN r = 1..(Len(s) - 1)
      /\ \A i \in DOMAIN r : r[i] = s[i + 1]
  OBVIOUS
<1>2. \A i \in DOMAIN r : i + 1 \in DOMAIN s /\ i + 1 # 1 /\ i \in Nat
  BY <1>1
<1> HIDE DEF r
<1>3. Holds(s, Head(s)) /\ \A c : Holds(r, c) => Holds(s, c)
  BY <1>1, <1>2 DEF Holds
<1>4. ASSUME Unique(s)
      PROVE  Unique(r) /\ ~Holds(r, Head(s))
  <2>1. ASSUME NEW i \in DOMAIN r, NEW j \in DOMAIN r, r[i] = r[j]
        PROVE  i = j
    <3>1. s[i + 1] = s[j + 1]
      BY <2>1, <1>1
    <3>2. i + 1 = j + 1
      BY <3>1, <1>2, <1>4 DEF Unique
    <3>3. QED
      BY <3>2, <1>2
  <2>2. ASSUME NEW i \in DOMAIN r, r[i] = Head(s)
        PROVE  FALSE
    BY <2>2, <1>1, <1>2, <1>4 DEF Unique
  <2>3. QED
    BY <2>1, <2>2 DEF Unique, Holds
<1>5. QED
  BY <1>1, <1>3, <1>4 DEF r

\* What running a callback does to its counter.
LEMMA RunCounts ==
  ASSUME calls \in [Callbacks -> Nat], NEW c \in Callbacks, NEW t, NEW async, Run(c, t, async)
  PROVE  /\ calls' \in [Callbacks -> Nat]
         /\ calls'[c] = calls[c] + 1
         /\ \A d \in Callbacks : d # c => calls'[d] = calls[d]
<1>1. calls' = [calls EXCEPT ![c] = calls[c] + 1]
  BY DEF Run
<1>2. QED
  BY <1>1

-----------------------------------------------------------------------------
\* Every variable keeps its type.
THEOREM TypeCorrect == Spec => []TypeOK
<1>1. Init => TypeOK
  <2> SUFFICES ASSUME Init
               PROVE  TypeOK
    OBVIOUS
  <2>1. Early \in Seq(Callbacks) /\ <<>> \in Seq(Callbacks)
    <3> DEFINE E == {Early[i] : i \in DOMAIN Early}
    <3>1. Early \in Seq(E)
      BY NamesAssumption
    <3>2. E \subseteq Callbacks
      BY DEF Callbacks
    <3> HIDE DEF E
    <3>3. QED
      BY <3>1, <3>2
  <2>2. QED
    BY <2>1 DEF Init, TypeOK, Threads
<1>2. TypeOK /\ [Next]_vars => TypeOK'
  <2> SUFFICES ASSUME TypeOK, [Next]_vars
               PROVE  TypeOK'
    OBVIOUS
  <2> USE DEF TypeOK, Threads, Goto
  <2>1. ASSUME NEW t \in Threads, Step(t)
        PROVE  TypeOK'
    <3>1. CASE t \in Adders /\ CallDirectly(t)
      <4>1. t \in Callbacks
        BY <3>1 DEF Callbacks
      <4>2. calls' \in [Callbacks -> Nat]
        BY <3>1, <4>1, RunCounts DEF CallDirectly
      <4>3. QED
        BY <3>1, <4>2 DEF CallDirectly
    <3>2. CASE t \in Adders /\ Push(t)
      <4>1. <<t>> \o callbacks \in Seq(Callbacks)
        BY <3>2, Pushed DEF Callbacks
      <4>2. QED
        BY <3>2, <4>1 DEF Push
    <3>3. CASE t \in Adders /\ Recheck(t)
      BY <3>3 DEF Recheck
    <3>4. CASE t = Producer /\ MarkResolved
      BY <3>4 DEF MarkResolved
    <3>5. CASE Take(t)
      BY <3>5 DEF Take
    <3>6. CASE RunNext(t)
      <4>1. Tail(taken[t]) \in Seq(Callbacks) /\ Head(taken[t]) \in Callbacks
        BY <3>6, Popped DEF RunNext
      <4>2. calls' \in [Callbacks -> Nat]
        BY <3>6, <4>1, RunCounts DEF RunNext
      <4>3. taken' \in [Threads -> Seq(Callbacks)]
        BY <3>6, <4>1 DEF RunNext
      <4>4. QED
        BY <3>6, <4>2, <4>3 DEF RunNext
    <3>7. CASE Flushed(t)
      BY <3>7 DEF Flushed
    <3>8. QED
      BY <2>1, <3>1, <3>2, <3>3, <3>4, <3>5, <3>6, <3>7 DEF Step
  <2>2. ASSUME NEW a \in Adders, Attach(a)
        PROVE  TypeOK'
    BY <2>2 DEF Attach
  <2>3. ASSUME NEW v \in Values, Assign(v)
        PROVE  TypeOK'
    BY <2>3 DEF Assign
  <2>4. CASE Refuse
    BY <2>4 DEF Refuse
  <2>5. CASE Destroy
    BY <2>5 DEF Destroy
  <2>6. CASE UNCHANGED vars
    BY <2>6 DEF vars
  <2>7. QED
    BY <2>1, <2>2, <2>3, <2>4, <2>5, <2>6 DEF Next
<1>3. QED
  BY <1>1, <1>2, PTL DEF Spec

-----------------------------------------------------------------------------
\* A callback in the list of a resolved future has somebody who will take it:
\* who pushes is at "recheck", who resolves at "take", and who takes empties.
THEOREM NoneLeftBehind == Spec => []NothingLeftBehind
<1>1. Init => NothingLeftBehind
  BY DEF Init, NothingLeftBehind
<1>2. TypeOK /\ NothingLeftBehind /\ [Next]_vars => NothingLeftBehind'
  <2> SUFFICES ASSUME TypeOK, NothingLeftBehind, [Next]_vars, resolved', callbacks' # <<>>
               PROVE  \E t \in Threads : pc'[t] \in {"recheck", "take"}
    BY DEF NothingLeftBehind
  <2> USE DEF TypeOK, Threads, Goto
  <2>1. ASSUME resolved, callbacks # <<>>
        PROVE  \E u \in Threads : pc[u] \in {"recheck", "take"}
    BY <2>1 DEF NothingLeftBehind
  <2>2. ASSUME NEW t \in Threads, Step(t)
        PROVE  \E u \in Threads : pc'[u] \in {"recheck", "take"}
    <3>1. CASE t \in Adders /\ CallDirectly(t)
      BY <3>1, <2>1 DEF CallDirectly
    <3>2. CASE t \in Adders /\ Push(t)
      BY <3>2 DEF Push
    <3>3. CASE t \in Adders /\ Recheck(t)
      BY <3>3, <2>1 DEF Recheck
    <3>4. CASE t = Producer /\ MarkResolved
      BY <3>4 DEF MarkResolved
    <3>5. CASE Take(t)
      BY <3>5 DEF Take
    <3>6. CASE RunNext(t)
      BY <3>6, <2>1 DEF RunNext
    <3>7. CASE Flushed(t)
      BY <3>7, <2>1 DEF Flushed
    <3>8. QED
      BY <2>2, <3>1, <3>2, <3>3, <3>4, <3>5, <3>6, <3>7 DEF Step
  <2>3. ASSUME NEW a \in Adders, Attach(a)
        PROVE  \E u \in Threads : pc'[u] \in {"recheck", "take"}
    BY <2>3, <2>1 DEF Attach
  <2>4. ASSUME NEW v \in Values, Assign(v)
        PROVE  \E u \in Threads : pc'[u] \in {"recheck", "take"}
    BY <2>4, <2>1 DEF Assign
  <2>5. CASE Refuse
    BY <2>5, <2>1 DEF Refuse
  <2>6. CASE Destroy
    BY <2>6 DEF Destroy
  <2>7. CASE UNCHANGED vars
    BY <2>7, <2>1 DEF vars
  <2>8. QED
    BY <2>2, <2>3, <2>4, <2>5, <2>6, <2>7 DEF Next
<1>3. QED
  BY <1>1, <1>2, TypeCorrect, PTL DEF Spec

-----------------------------------------------------------------------------
\* A callback is in one place: with its thread, in the list, among what one
\* thread took, or called.
THEOREM InOnePlace == Spec => []OnePlace
<1>1. Init => OnePlace
  <2> SUFFICES ASSUME Init
               PROVE  OnePlace
    OBVIOUS
  <2>1. Unique(Early) /\ Unique(<<>>)
    <3>1. Unique(Early)
      BY NamesAssumption DEF Unique
    <3>2. Unique(<<>>)
      BY DEF Unique
    <3>3. QED
      BY <3>1, <3>2
  <2>2. \A c : ~Holds(<<>>, c)
    BY DEF Holds
  <2>3. \A a \in Adders : ~Holds(Early, a)
    BY NamesAssumption DEF Holds
  <2>4. /\ callbacks = Early \/ callbacks = <<>>
        /\ \A t \in Threads : taken[t] = <<>> /\ pc[t] \in {"idle", "new"}
        /\ \A c \in Callbacks : calls[c] = 0
    BY DEF Init
  <2>5. Lists
    BY <2>1, <2>4 DEF Lists
  <2>6. \A c \in Callbacks : Counted(c)
    BY <2>2, <2>4 DEF Counted
  <2>7. \A a \in Adders : NotAdded(a)
    BY <2>2, <2>3, <2>4 DEF NotAdded, Loose, Callbacks
  <2>8. \A t \in Threads : Position(t)
    BY <2>4 DEF Position
  <2>9. QED
    BY <2>5, <2>6, <2>7, <2>8 DEF OnePlace
<1>2. TypeOK /\ OnePlace /\ [Next]_vars => OnePlace'
  <2> SUFFICES ASSUME TypeOK, OnePlace, [Next]_vars
               PROVE  OnePlace'
    OBVIOUS
  <2> USE DEF TypeOK, Goto, OnePlace, Lists, Counted, NotAdded, Position, Loose, Alive
  <2>0. Unique(<<>>) /\ \A c : ~Holds(<<>>, c)
    BY DEF Unique, Holds
  <2>1. ASSUME NEW t \in Threads, Step(t)
        PROVE  OnePlace'
    <3>1. CASE t \in Adders /\ CallDirectly(t)
      <4>1. t \in Callbacks /\ t # Producer
        BY <3>1, NamesAssumption DEF Callbacks
      <4>2. /\ calls'[t] = calls[t] + 1
            /\ \A d \in Callbacks : d # t => calls'[d] = calls[d]
        BY <3>1, <4>1, RunCounts DEF CallDirectly
      <4>3. /\ pc[t] = "direct" /\ pc' = [pc EXCEPT ![t] = "done"]
            /\ UNCHANGED <<resolved, callbacks, taken>>
        BY <3>1 DEF CallDirectly
      <4>4. calls[t] = 0 /\ Loose(t) /\ resolved
        BY <3>1, <4>1, <4>3
      <4>5. Lists'
        BY <3>1, <4>1, <4>2, <4>3, <4>4 DEF Threads
      <4>6. \A c \in Callbacks : Counted(c)'
        BY <3>1, <4>1, <4>2, <4>3, <4>4 DEF Threads
      <4>7. \A a \in Adders : NotAdded(a)'
        <5>1. Adders \subseteq Callbacks /\ pc'[t] = "done"
          BY <3>1, <4>3 DEF Threads, Callbacks
        <5>2. \A a \in Adders : a # t => pc'[a] = pc[a] /\ calls'[a] = calls[a]
          BY <4>2, <4>3, <5>1 DEF Threads
        <5>3. QED
          BY <4>3, <5>1, <5>2
      <4>8. \A u \in Threads : Position(u)'
        BY <3>1, <4>1, <4>2, <4>3, <4>4 DEF Threads
      <4>9. QED
        BY <4>5, <4>6, <4>7, <4>8
    <3>2. CASE t \in Adders /\ Push(t)
      <4>1. t \in Callbacks /\ t # Producer
        BY <3>2, NamesAssumption DEF Callbacks
      <4>2. /\ pc[t] = "push" /\ pc' = [pc EXCEPT ![t] = "recheck"]
            /\ callbacks' = <<t>> \o callbacks
            /\ UNCHANGED <<resolved, taken, calls>>
        BY <3>2 DEF Push
      <4>3. calls[t] = 0 /\ Loose(t)
        BY <3>2, <4>2
      <4>4. /\ \A c : Holds(callbacks', c) <=> c = t \/ Holds(callbacks, c)
            /\ Unique(callbacks')
        BY <4>1, <4>2, <4>3, Pushed
      <4>5. Lists'
        BY <3>2, <4>1, <4>2, <4>3, <4>4 DEF Threads
      <4>6. \A c \in Callbacks : Counted(c)'
        <5> SUFFICES ASSUME NEW c \in Callbacks
                     PROVE  Counted(c)'
          OBVIOUS
        <5>1. Alive' = Alive /\ UNCHANGED <<resolved, taken, calls>>
          BY <4>1, <4>2 DEF Threads
        <5>2. Counted(c)
          OBVIOUS
        <5> USE DEF Counted, Loose
        <5>3. CASE c = t
          BY <5>1, <5>3, <4>3
        <5>4. CASE c # t
          BY <5>1, <5>2, <5>4, <4>4
        <5>5. QED
          BY <5>3, <5>4
      <4>7. \A a \in Adders : NotAdded(a)'
        BY <3>2, <4>1, <4>2, <4>3, <4>4 DEF Threads
      <4>8. \A u \in Threads : Position(u)'
        BY <3>2, <4>1, <4>2, <4>3, <4>4 DEF Threads
      <4>9. QED
        BY <4>5, <4>6, <4>7, <4>8
    <3>3. CASE t \in Adders /\ Recheck(t)
      BY <3>3, NamesAssumption DEF Recheck, Threads
    <3>4. CASE t = Producer /\ MarkResolved
      BY <3>4, NamesAssumption DEF MarkResolved, Threads
    <3>5. CASE Take(t)
      <4>1. /\ pc[t] = "take" /\ pc' = [pc EXCEPT ![t] = "run"]
            /\ taken' = [taken EXCEPT ![t] = callbacks] /\ callbacks' = <<>>
            /\ UNCHANGED <<resolved, calls>>
        BY <3>5 DEF Take
      <4>2. \A u \in Threads : taken'[u] = IF u = t THEN callbacks ELSE taken[u]
        BY <4>1
      <4>3. \A c : ~Holds(taken[t], c)
        BY <4>1, <2>0
      <4>4. /\ pc'[t] = "run" /\ \A u \in Threads \ {t} : pc'[u] = pc[u]
            /\ resolved
        BY <4>1
      <4>5. QED
        BY <2>0, <4>1, <4>2, <4>3, <4>4, NamesAssumption DEF Threads
    <3>6. CASE RunNext(t)
      <4> DEFINE h == Head(taken[t])
                 r == Tail(taken[t])
      <4>1. /\ pc[t] \in {"run", "drain"} /\ taken[t] # <<>> /\ taken[t] \in Seq(Callbacks)
            /\ taken' = [taken EXCEPT ![t] = r]
            /\ UNCHANGED <<resolved, callbacks, pc>>
        BY <3>6 DEF RunNext
      <4>2. /\ h \in Callbacks /\ Holds(taken[t], h)
            /\ \A c : Holds(r, c) => Holds(taken[t], c)
            /\ Unique(r) /\ ~Holds(r, h)
        BY <4>1, Popped
      <4>3. /\ calls'[h] = calls[h] + 1
            /\ \A d \in Callbacks : d # h => calls'[d] = calls[d]
        BY <3>6, <4>2, RunCounts DEF RunNext
      <4> HIDE DEF h, r
      <4>4. /\ calls[h] = 0 /\ ~Holds(callbacks, h)
            /\ \A u \in Threads : u # t => ~Holds(taken[u], h)
        BY <4>2
      <4>5. resolved \/ ~Alive
        BY <4>1
      <4>6. \A u \in Threads : taken'[u] = IF u = t THEN r ELSE taken[u]
        BY <4>1
      <4>7. \A a \in Adders : pc[a] \in {"new", "direct", "push"} => a # h
        BY <4>2
      <4>8. Lists'
        BY <4>1, <4>2, <4>3, <4>4, <4>5, <4>6, <4>7 DEF Callbacks
      <4>9. \A c \in Callbacks : Counted(c)'
        <5> SUFFICES ASSUME NEW c \in Callbacks
                     PROVE  Counted(c)'
          OBVIOUS
        <5>1. Counted(c) /\ Alive' = Alive /\ UNCHANGED <<resolved, callbacks>>
          BY <4>1
        <5>2. CASE c = h
          <6>1. \A u \in Threads : ~Holds(taken'[u], c)
            BY <5>2, <4>2, <4>4, <4>6
          <6>2. calls'[c] = 1
            BY <5>2, <4>3, <4>4
          <6>3. QED
            BY <6>1, <6>2, <5>1, <5>2, <4>4, <4>5
        <5>3. CASE c # h
          <6>1. calls'[c] = calls[c]
            BY <5>3, <4>3
          <6>2. \A u \in Threads : Holds(taken'[u], c) => Holds(taken[u], c)
            BY <4>2, <4>6
          <6>3. QED
            BY <6>1, <6>2, <5>1
        <5>4. QED
          BY <5>2, <5>3
      <4>10. \A a \in Adders : NotAdded(a)'
        BY <4>1, <4>2, <4>3, <4>4, <4>5, <4>6, <4>7 DEF Callbacks
      <4>11. \A u \in Threads : Position(u)'
        BY <4>1, <4>2, <4>3, <4>4, <4>5, <4>6, <4>7 DEF Callbacks
      <4>12. QED
        BY <4>8, <4>9, <4>10, <4>11
    <3>7. CASE Flushed(t)
      BY <3>7, NamesAssumption DEF Flushed, Threads
    <3>8. QED
      BY <2>1, <3>1, <3>2, <3>3, <3>4, <3>5, <3>6, <3>7 DEF Step
  <2>2. ASSUME NEW a \in Adders, Attach(a)
        PROVE  OnePlace'
    BY <2>2, NamesAssumption DEF Attach, Threads
  <2>3. ASSUME NEW v \in Values, Assign(v)
        PROVE  OnePlace'
    BY <2>3, NamesAssumption DEF Assign, Threads
  <2>4. CASE Refuse
    BY <2>4, NamesAssumption DEF Refuse, Threads
  <2>5. CASE Destroy
    <3>1. /\ pc[Producer] \in {"idle", "refused"} /\ pc' = [pc EXCEPT ![Producer] = "drain"]
          /\ taken' = [taken EXCEPT ![Producer] = callbacks] /\ callbacks' = <<>>
          /\ UNCHANGED <<resolved, calls>>
      BY <2>5 DEF Destroy
    <3>2. \A u \in Threads : taken'[u] = IF u = Producer THEN callbacks ELSE taken[u]
      BY <3>1
    <3>3. \A c : ~Holds(taken[Producer], c)
      BY <3>1, <2>0 DEF Threads
    <3>4. /\ pc'[Producer] = "drain"
          /\ \A u \in Threads \ {Producer} : pc'[u] = pc[u]
      BY <3>1 DEF Threads
    <3>5. QED
      BY <2>0, <3>1, <3>2, <3>3, <3>4, NamesAssumption DEF Threads
  <2>6. CASE UNCHANGED vars
    BY <2>6 DEF vars
  <2>7. QED
    BY <2>1, <2>2, <2>3, <2>4, <2>5, <2>6 DEF Next
<1>3. QED
  BY <1>1, <1>2, TypeCorrect, PTL DEF Spec

\* No callback is called twice, and none before there is an outcome.
THEOREM AtMostOneCall == Spec => []CalledOnce
<1>1. TypeOK /\ OnePlace => CalledOnce
  BY DEF TypeOK, OnePlace, Lists, Counted, NotAdded, Position, CalledOnce
<1>2. QED
  BY <1>1, TypeCorrect, InOnePlace, PTL

-----------------------------------------------------------------------------
(* AsyncFuture implements CallbackCell, step by step. *)

\* After its call a callback is known as called, and no other is.
LEMMA CountedAfter ==
  ASSUME calls \in [Callbacks -> Nat], NEW c \in Callbacks, NEW t, NEW async, Run(c, t, async)
  PROVE  calls'[c] # 0 /\ \A d \in Callbacks : d # c => calls'[d] = calls[d]
<1>1. calls[c] \in Nat /\ calls'[c] = calls[c] + 1
  BY RunCounts
<1>2. calls'[c] # 0
  BY <1>1
<1>3. QED
  BY <1>2, RunCounts

\* The value is there from its construction on and only then; a callback saw
\* nothing before its call.
Outcomes ==
  /\ resolved => value \in Values
  /\ pc[Producer] = "mark" => ~resolved /\ value \in Values
  /\ pc[Producer] \in {"idle", "refused"} /\ ~resolved => value = "none"
  /\ saw \in [Callbacks -> Values \cup {"none", "not ready"}]
  /\ \A c \in Callbacks : calls[c] = 0 => saw[c] = "none"

\* A callback that is called at most once, and not once, was not called.
LEMMA NotYet ==
  ASSUME NEW n \in Nat, n # 1, n <= 1
  PROVE  n = 0
  OBVIOUS

\* Every step keeps them; that a thread on its way is ready is OnePlace.
LEMMA OutcomesHold == Spec => []Outcomes
<1>1. Init => Outcomes
  BY NamesAssumption DEF Init, Outcomes, Threads
<1>2. TypeOK /\ OnePlace /\ Outcomes /\ [Next]_vars => Outcomes'
  <2> SUFFICES ASSUME TypeOK, OnePlace, Outcomes, [Next]_vars
               PROVE  Outcomes'
    OBVIOUS
  <2> USE NamesAssumption DEF TypeOK, Threads, Goto
  <2>1. ASSUME NEW c \in Callbacks, NEW t \in Threads, NEW async, Run(c, t, async),
               UNCHANGED <<resolved, value>>,
               pc' = pc \/ (pc[t] = "direct" /\ t # Producer /\ pc' = [pc EXCEPT ![t] = "done"])
        PROVE  Outcomes'
    <3>1. calls'[c] # 0 /\ \A e \in Callbacks : e # c => calls'[e] = calls[e]
      BY <2>1, CountedAfter
    <3>2. saw' = [saw EXCEPT ![c] = IF resolved THEN value ELSE "not ready"]
      BY <2>1 DEF Run
    <3>3. saw' \in [Callbacks -> Values \cup {"none", "not ready"}]
      BY <3>2 DEF Outcomes
    <3>4. ASSUME NEW e \in Callbacks, calls'[e] = 0
          PROVE  saw'[e] = "none"
      <4>1. e # c /\ calls[e] = 0
        BY <3>1, <3>4
      <4>2. saw'[e] = saw[e]
        BY <3>2, <4>1 DEF Outcomes
      <4>3. QED
        BY <4>1, <4>2 DEF Outcomes
    <3>5. pc'[Producer] = pc[Producer]
      BY <2>1
    <3>6. QED
      BY <2>1, <3>3, <3>4, <3>5 DEF Outcomes
  <2>2. ASSUME NEW t \in Threads, Step(t)
        PROVE  Outcomes'
    <3>1. CASE t \in Adders /\ CallDirectly(t)
      BY <2>1, <3>1 DEF CallDirectly, Callbacks
    <3>2. CASE t \in Adders /\ Push(t)
      BY <3>2 DEF Push, Outcomes
    <3>3. CASE t \in Adders /\ Recheck(t)
      BY <3>3 DEF Recheck, Outcomes
    <3>4. CASE t = Producer /\ MarkResolved
      BY <3>4 DEF MarkResolved, Outcomes
    <3>5. CASE Take(t)
      BY <3>5 DEF Take, Outcomes
    <3>6. CASE RunNext(t)
      <4>1. Head(taken[t]) \in Callbacks
        BY <3>6, Popped DEF RunNext
      <4>2. QED
        BY <2>1, <3>6, <4>1 DEF RunNext
    <3>7. CASE Flushed(t)
      BY <3>7 DEF Flushed, Outcomes, OnePlace, Position
    <3>8. QED
      BY <2>2, <3>1, <3>2, <3>3, <3>4, <3>5, <3>6, <3>7 DEF Step
  <2>3. ASSUME NEW a \in Adders, Attach(a)
        PROVE  Outcomes'
    BY <2>3 DEF Attach, Outcomes
  <2>4. ASSUME NEW v \in Values, Assign(v)
        PROVE  Outcomes'
    BY <2>4 DEF Assign, Outcomes
  <2>5. CASE Refuse
    BY <2>5 DEF Refuse, Outcomes
  <2>6. CASE Destroy
    BY <2>6 DEF Destroy, Outcomes
  <2>7. CASE UNCHANGED vars
    BY <2>7 DEF vars, Outcomes
  <2>8. QED
    BY <2>2, <2>3, <2>4, <2>5, <2>6, <2>7 DEF Next
<1>3. QED
  BY <1>1, <1>2, TypeCorrect, InOnePlace, PTL DEF Spec

\* What the abstract step sees of the callbacks does not change.
LEMMA SameAttached ==
  ASSUME \A c \in Callbacks : Known(c)' <=> Known(c)
  PROVE  Attached' = Attached
  BY DEF Attached, Callbacks

\* Whatever is in a sequence is its head or in its tail.
LEMMA HeadOrTail ==
  ASSUME NEW S, NEW s \in Seq(S), s # <<>>, NEW c, Holds(s, c)
  PROVE  c = Head(s) \/ Holds(Tail(s), c)
<1> DEFINE r == Tail(s)
<1>1. /\ Head(s) = s[1] /\ DOMAIN s = 1..Len(s) /\ Len(s) \in Nat
      /\ DOMAIN r = 1..(Len(s) - 1)
      /\ \A i \in DOMAIN r : r[i] = s[i + 1]
  OBVIOUS
<1> HIDE DEF r
<1>2. PICK i \in DOMAIN s : s[i] = c
  BY DEF Holds
<1>3. CASE i = 1
  BY <1>1, <1>2, <1>3
<1>4. CASE i # 1
  <2>1. i - 1 \in DOMAIN r /\ r[i - 1] = c
    BY <1>1, <1>2, <1>4
  <2>2. QED
    BY <2>1 DEF Holds, r
<1>5. QED
  BY <1>3, <1>4

\* Taking the list moves its callbacks and loses none.
LEMMA MovedList ==
  ASSUME taken \in [Threads -> Seq(Callbacks)], NEW t \in Threads, taken[t] = <<>>,
         taken' = [taken EXCEPT ![t] = callbacks], callbacks' = <<>>
  PROVE  \A c : (Holds(callbacks', c) \/ \E u \in Threads : Holds(taken'[u], c))
               <=> (Holds(callbacks, c) \/ \E u \in Threads : Holds(taken[u], c))
<1>1. taken'[t] = callbacks /\ \A u \in Threads : u # t => taken'[u] = taken[u]
  OBVIOUS
<1>2. \A c : ~Holds(taken[t], c) /\ ~Holds(callbacks', c)
  BY DEF Holds
<1>3. QED
  BY <1>1, <1>2

\* The call of one callback is a call of the cell, if it is attached, was not
\* called and there is an outcome.
LEMMA CallIsCall ==
  ASSUME TypeOK, Outcomes, NEW c \in Callbacks, NEW t \in Threads, NEW async, Run(c, t, async),
         Known(c), calls[c] = 0, resolved \/ ~Alive,
         Attached' = Attached, Outcome' = Outcome
  PROVE  Cell!Next
<1>1. Outcome = (IF resolved THEN value ELSE "not ready") /\ Outcome # "none"
  BY NamesAssumption DEF Outcome, Outcomes
<1>2. saw[c] = "none" /\ saw' = [saw EXCEPT ![c] = Outcome]
  BY <1>1 DEF Outcomes, Run
<1>3. c \in Attached
  BY DEF Attached
<1>4. QED
  BY <1>1, <1>2, <1>3 DEF Cell!Next, Cell!Call

\* The future is a cell that is settled at most once and calls each attached
\* callback at most once, with what it was settled to (async_future.h): every
\* step of any number of threads is a step of CallbackCell or changes nothing
\* that it shows.
THEOREM CellImplemented == Spec => Cell!Safety
<1>1. Init => Cell!Init
  <2> SUFFICES ASSUME Init
               PROVE  Cell!Init
    OBVIOUS
  <2>1. Outcome \in {"none"} \cup Values \cup {"not ready"}
    BY DEF Init, Outcome, Alive, Threads
  <2>2. Attached \in SUBSET Callbacks
    BY DEF Attached
  <2>3. QED
    BY <2>1, <2>2 DEF Init, Cell!Init
<1>2. TypeOK /\ OnePlace /\ Outcomes /\ [Next]_vars => [Cell!Next]_(Cell!vars)
  <2> SUFFICES ASSUME TypeOK, OnePlace, Outcomes, [Next]_vars
               PROVE  Cell!Next \/ UNCHANGED Cell!vars
    OBVIOUS
  <2> USE NamesAssumption DEF TypeOK, Threads, Goto
  <2>0. UNCHANGED <<Outcome, saw>> /\ (\A c \in Callbacks : Known(c)' <=> Known(c))
          => UNCHANGED Cell!vars
    BY SameAttached DEF Cell!vars
  <2>1. ASSUME NEW t \in Threads, Step(t)
        PROVE  Cell!Next \/ UNCHANGED Cell!vars
    <3>1. CASE t \in Adders /\ CallDirectly(t)
      <4>1. t \in Callbacks /\ Run(t, t, FALSE) /\ pc[t] = "direct"
            /\ UNCHANGED <<resolved, value, callbacks, taken>>
        BY <3>1 DEF CallDirectly, Callbacks
      <4>2. resolved /\ calls[t] = 0 /\ Known(t)
        BY <3>1, <4>1 DEF OnePlace, Position, NotAdded, Known
      <4>3. \A c \in Callbacks : Known(c)' <=> Known(c)
        BY <3>1, <4>1, RunCounts, ZenonT(60) DEF CallDirectly, Known
      <4>4. UNCHANGED Outcome
        BY <4>1, <4>2 DEF Outcome
      <4>5. QED
        BY <4>1, <4>2, <4>3, <4>4, SameAttached, CallIsCall
    <3>2. CASE t \in Adders /\ Push(t)
      <4>1. \A c : Holds(callbacks', c) <=> c = t \/ Holds(callbacks, c)
        <5>1. callbacks' = <<t>> \o callbacks /\ callbacks \in Seq(Callbacks) /\ t \in Callbacks
          BY <3>2 DEF Push, Callbacks
        <5>2. QED
          BY ONLY <5>1, Pushed
      <4>2. \A c \in Callbacks : Known(c)' <=> Known(c)
        BY <3>2, <4>1 DEF Push, Known
      <4>3. UNCHANGED <<Outcome, saw>>
        BY <3>2 DEF Push, Outcome, Alive
      <4>4. QED
        BY <2>0, <4>2, <4>3
    <3>3. CASE t \in Adders /\ Recheck(t)
      BY <2>0, <3>3 DEF Recheck, Known, Outcome, Alive
    <3>4. CASE t = Producer /\ MarkResolved
      <4>1. Outcome = "none" /\ Outcome' = value /\ value \in Values
        BY <3>4 DEF MarkResolved, Outcome, Outcomes, Alive
      <4>2. UNCHANGED <<Attached, saw>>
        <5>1. \A c \in Callbacks : Known(c)' <=> Known(c)
          BY <3>4 DEF MarkResolved, Known
        <5>2. QED
          BY <3>4, <5>1, SameAttached DEF MarkResolved
      <4>3. QED
        BY <4>1, <4>2 DEF Cell!Next, Cell!Settle
    <3>5. CASE Take(t)
      <4>1. taken[t] = <<>> /\ taken' = [taken EXCEPT ![t] = callbacks] /\ callbacks' = <<>>
            /\ UNCHANGED <<resolved, value, calls, saw>> /\ pc' = [pc EXCEPT ![t] = "run"]
            /\ pc[t] = "take" /\ resolved
        BY <3>5 DEF Take, OnePlace, Position
      <4>2. \A c \in Callbacks : Known(c)' <=> Known(c)
        BY <4>1, MovedList DEF Known
      <4>3. UNCHANGED <<Outcome, saw>>
        BY <4>1 DEF Outcome
      <4>4. QED
        BY <2>0, <4>2, <4>3
    <3>6. CASE RunNext(t)
      <4>0. PICK c \in Callbacks : c = Head(taken[t])
        BY <3>6, Popped DEF RunNext
      <4>1. /\ c \in Callbacks /\ Holds(taken[t], c) /\ Run(c, t, t = Producer)
            /\ taken' = [taken EXCEPT ![t] = Tail(taken[t])]
            /\ \A d : Holds(Tail(taken[t]), d) => Holds(taken[t], d)
            /\ \A d : Holds(taken[t], d) => d = c \/ Holds(Tail(taken[t]), d)
            /\ UNCHANGED <<resolved, value, callbacks, pc>>
        BY <3>6, <4>0, Popped, HeadOrTail DEF RunNext
      <4>2. ~Loose(c)
        BY <4>1 DEF Loose
      <4>3. calls[c] = 0
        <5>1. Counted(c) /\ calls[c] \in Nat
          BY <4>1 DEF OnePlace
        <5>2. calls[c] # 1 /\ calls[c] <= 1
          BY <4>2, <5>1 DEF Counted
        <5>3. QED
          BY <5>1, <5>2, NotYet
      <4>4. Known(c)
        BY <4>1, <4>2 DEF OnePlace, NotAdded, Known
      <4>5. resolved \/ ~Alive
        BY <3>6 DEF RunNext, OnePlace, Position, Alive
      <4>6. \A d \in Callbacks : Known(d)' <=> Known(d)
        <5>1. calls'[c] # 0 /\ \A d \in Callbacks : d # c => calls'[d] = calls[d]
          BY <4>1, CountedAfter
        <5>2. \A d \in Callbacks : d # c =>
                \A u \in Threads : Holds(taken'[u], d) <=> Holds(taken[u], d)
          BY <4>1
        <5>3. \A d \in Callbacks : d # c => (Known(d)' <=> Known(d))
          BY <4>1, <5>1, <5>2 DEF Known
        <5>4. Known(c)' /\ Known(c)
          BY <4>1, <4>4, <5>1 DEF Known
        <5>5. QED
          BY ONLY <5>3, <5>4
      <4>7. UNCHANGED Outcome
        BY <4>1 DEF Outcome, Alive
      <4>8. QED
        BY <4>1, <4>3, <4>4, <4>5, <4>6, <4>7, SameAttached, CallIsCall
    <3>7. CASE Flushed(t)
      <4>1. /\ pc[t] \in {"run", "drain"} /\ UNCHANGED <<resolved, value, callbacks, taken, calls, saw>>
            /\ \A u \in Threads : pc'[u] # "new" <=> pc[u] # "new"
        BY <3>7 DEF Flushed
      <4>2. \A c \in Callbacks : Known(c)' <=> Known(c)
        BY <4>1 DEF Known
      <4>3. UNCHANGED Outcome
        <5>1. CASE resolved
          BY <4>1, <5>1 DEF Outcome
        <5>2. CASE ~resolved
          <6>1. pc[t] = "drain" /\ t = Producer
            BY <4>1, <5>2 DEF OnePlace, Position
          <6>2. pc' = [pc EXCEPT ![Producer] = "gone"]
            BY <3>7, <6>1 DEF Flushed
          <6>3. QED
            BY <4>1, <6>1, <6>2 DEF Outcome, Alive
        <5>3. QED
          BY <5>1, <5>2
      <4>4. QED
        BY <2>0, <4>1, <4>2, <4>3
    <3>8. QED
      BY <2>1, <3>1, <3>2, <3>3, <3>4, <3>5, <3>6, <3>7 DEF Step
  <2>2. ASSUME NEW a \in Adders, Attach(a)
        PROVE  Cell!Next
    <3>1. a \in Callbacks /\ ~Known(a)
      BY <2>2 DEF Attach, Known, Callbacks
    <3>2. Known(a)' /\ \A c \in Callbacks : c # a => (Known(c)' <=> Known(c))
      BY <2>2 DEF Attach, Known
    <3>3. Attached' = Attached \cup {a} /\ a \notin Attached
      BY <3>1, <3>2 DEF Attached, Callbacks
    <3>4. UNCHANGED <<Outcome, saw>>
      BY <2>2 DEF Attach, Outcome, Alive
    <3>5. QED
      BY <3>1, <3>3, <3>4 DEF Cell!Next, Cell!Attach
  <2>3. ASSUME NEW v \in Values, Assign(v)
        PROVE  UNCHANGED Cell!vars
    BY <2>0, <2>3 DEF Assign, Known, Outcome, Alive
  <2>4. CASE Refuse
    BY <2>0, <2>4 DEF Refuse, Known, Outcome, Alive
  <2>5. CASE Destroy
    <3>1. /\ taken[Producer] = <<>> /\ taken' = [taken EXCEPT ![Producer] = callbacks]
          /\ callbacks' = <<>> /\ pc' = [pc EXCEPT ![Producer] = "drain"]
          /\ pc[Producer] \in {"idle", "refused"}
          /\ UNCHANGED <<resolved, value, calls, saw>>
      BY <2>5 DEF Destroy, OnePlace, Position
    <3>2. \A c \in Callbacks : Known(c)' <=> Known(c)
      BY <3>1, MovedList DEF Known
    <3>3. CASE resolved
      BY <2>0, <3>1, <3>2, <3>3 DEF Outcome
    <3>4. CASE ~resolved
      <4>1. Outcome = "none" /\ Outcome' = "not ready"
        BY <3>1, <3>4 DEF Outcome, Alive
      <4>2. QED
        BY <3>1, <3>2, <4>1, SameAttached DEF Cell!Next, Cell!Settle
    <3>5. QED
      BY <3>3, <3>4
  <2>6. CASE UNCHANGED vars
    BY <2>0, <2>6 DEF vars, Known, Outcome, Alive
  <2>7. QED
    BY <2>1, <2>2, <2>3, <2>4, <2>5, <2>6 DEF Next
<1>3. QED
  BY <1>1, <1>2, TypeCorrect, InOnePlace, OutcomesHold, PTL DEF Spec, Cell!Safety

-----------------------------------------------------------------------------
(* future.h *)

FutureTypes ==
  /\ sem \in FutureWaiters \cup {NoSem}
  /\ held \in [FutureWaiters -> FutureWaiters \cup {NoSem}]
  /\ result \in [FutureWaiters -> {"none", "true", "false"}]
  /\ fcalls \in [FutureAdders -> Nat]
  /\ fpc \in [FutureWaiters \cup FutureAdders ->
               {"new", "load", "install", "lock", "look", "asleep", "woken", "expired", "done",
                "push", "recheck", "flush", "discard"}]
  /\ fresolved \in BOOLEAN /\ fhasValue \in BOOLEAN

\* The value is there before the flag, and the flag before anybody answers; a
\* thread calls its callback as the first thing it does.
FutureInv ==
  /\ FutureTypes
  /\ F!FutureSafe
  /\ (fresolved \/ resolver # "idle") => fhasValue
  /\ \A a \in FutureAdders : fpc[a] = "new" => fcalls[a] = 0

\* All waiters share one semaphore, and nobody is told of a value that is not
\* there (future.h).
THEOREM FutureCorrect == FutureSpec => []FutureSafe
<1>1. F!Init => FutureInv
  <2> SUFFICES ASSUME F!Init
               PROVE  FutureInv
    OBVIOUS
  <2>1. FutureTypes
    BY DEF F!Init, FutureTypes
  <2>2. /\ \A w \in FutureWaiters : held[w] = NoSem /\ result[w] = "none"
        /\ \A a \in FutureAdders : fcalls[a] = 0
    BY DEF F!Init
  <2>3. F!FutureSafe
    BY <2>2 DEF F!FutureSafe
  <2>4. QED
    BY <2>1, <2>2, <2>3 DEF F!Init, FutureInv
<1>2. FutureInv /\ [F!Next]_fvars => FutureInv'
  <2> SUFFICES ASSUME FutureInv, [F!Next]_fvars
               PROVE  FutureInv'
    OBVIOUS
  <2>0. /\ FutureTypes
        /\ \A w \in FutureWaiters : held[w] # NoSem => held[w] = sem
        /\ \A w \in FutureWaiters : result[w] = "true" => fresolved /\ fhasValue
        /\ \A a \in FutureAdders : fcalls[a] <= 1 /\ (fcalls[a] = 1 => fresolved /\ fhasValue)
        /\ (fresolved \/ resolver # "idle") => fhasValue
        /\ \A a \in FutureAdders : fpc[a] = "new" => fcalls[a] = 0
    BY DEF FutureInv, F!FutureSafe
  <2> USE DEF FutureTypes
  <2>1. ASSUME NEW w \in FutureWaiters, F!Wait(w) \/ F!Look(w)
        PROVE  FutureInv'
    <3>1. PICK q \in {"load", "look", "done"}, r \in {"none", "true", "false"} :
            /\ fpc' = [fpc EXCEPT ![w] = q] /\ result' = [result EXCEPT ![w] = r]
            /\ r = "true" => fresolved \/ result[w] = "true"
            /\ UNCHANGED <<fresolved, fhasValue, resolver, sem, held, fcalls>>
      <4>1. PICK r \in {"none", "true", "false"} : r = result[w]
        BY <2>0
      <4>2. result' = result => result' = [result EXCEPT ![w] = r]
        BY <2>0, <4>1
      <4>3. QED
        BY <2>1, <4>1, <4>2 DEF F!Wait, F!Look, F!Return, F!Goto, F!life, F!list
    <3>2. \A v \in FutureWaiters : result'[v] = "true" => fresolved'
      BY <2>0, <3>1
    <3>3. \A a \in FutureAdders : fpc'[a] = "new" => fpc[a] = "new"
      BY <2>0, <3>1
    <3>4. FutureTypes'
      BY <2>0, <3>1
    <3>5. QED
      BY <2>0, <3>1, <3>2, <3>3, <3>4 DEF FutureInv, F!FutureSafe
  \* A thread uses the semaphore it finds, or the one it installs.
  <2>2. ASSUME NEW w \in FutureWaiters, F!LoadSemaphore(w) \/ F!InstallSemaphore(w)
        PROVE  FutureInv'
    <3>1. /\ sem' \in {sem, w} /\ (sem # NoSem => sem' = sem)
          /\ held' = [held EXCEPT ![w] = sem']
          /\ UNCHANGED <<fresolved, fhasValue, resolver, fcalls, result>>
      BY <2>2 DEF F!LoadSemaphore, F!InstallSemaphore, F!life, F!list
    <3>2. PICK q \in {"install", "lock"} : fpc' = [fpc EXCEPT ![w] = q]
      BY <2>2 DEF F!LoadSemaphore, F!InstallSemaphore, F!Goto
    <3>3. \A v \in FutureWaiters : held'[v] # NoSem => held'[v] = sem'
      BY <2>0, <3>1
    <3>4. \A a \in FutureAdders : fpc'[a] = "new" => fpc[a] = "new"
      BY <2>0, <3>2
    <3>5. sem' \in FutureWaiters \cup {NoSem}
      BY <2>0, <3>1
    <3>6. held' \in [FutureWaiters -> FutureWaiters \cup {NoSem}]
      BY <2>0, <3>1, <3>5
    <3>7. QED
      BY <2>0, <3>1, <3>2, <3>3, <3>4, <3>5, <3>6 DEF FutureInv, F!FutureSafe
  <2>3. ASSUME NEW w \in FutureWaiters, F!Sleep(w) \/ F!Expire(w) \/ F!Spurious(w)
        PROVE  FutureInv'
    <3>1. PICK q \in {"asleep", "expired", "woken"} :
            /\ fpc' = [fpc EXCEPT ![w] = q]
            /\ UNCHANGED <<fresolved, fhasValue, resolver, sem, held, fcalls, result>>
      BY <2>3 DEF F!Sleep, F!Expire, F!Spurious, F!Goto, F!life, F!list
    <3>2. \A a \in FutureAdders : fpc'[a] = "new" => fpc[a] = "new"
      BY <2>0, <3>1
    <3>3. QED
      BY <2>0, <3>1, <3>2 DEF FutureInv, F!FutureSafe
  <2>4. ASSUME NEW a \in FutureAdders, F!AddCallback(a)
        PROVE  FutureInv'
    <3>1. /\ fpc[a] = "new" /\ fpc' = [fpc EXCEPT ![a] = "push"]
          /\ fcalls' = [fcalls EXCEPT ![a] = fcalls[a] + (IF fresolved THEN 1 ELSE 0)]
          /\ UNCHANGED <<fresolved, fhasValue, resolver, sem, held, result>>
      BY <2>4 DEF F!AddCallback, F!Goto, F!life
    <3>2. fcalls'[a] = (IF fresolved THEN 1 ELSE 0) /\ \A b \in FutureAdders : b # a => fcalls'[b] = fcalls[b]
      BY <2>0, <3>1
    <3>3. \A b \in FutureAdders : fpc'[b] = "new" => fpc[b] = "new" /\ b # a
      BY <2>0, <3>1
    <3>4. FutureTypes'
      BY <2>0, <3>1
    <3>5. QED
      BY <2>0, <3>1, <3>2, <3>3, <3>4 DEF FutureInv, F!FutureSafe
  <2>5. ASSUME NEW a \in FutureAdders, F!AdderStep(a)
        PROVE  FutureInv'
    <3>1. /\ UNCHANGED <<fresolved, fhasValue, resolver, sem, held, result, fcalls>>
          /\ fpc' \in [FutureWaiters \cup FutureAdders ->
               {"new", "load", "install", "lock", "look", "asleep", "woken", "expired", "done",
                "push", "recheck", "flush", "discard"}]
          /\ \A b \in FutureAdders : fpc'[b] = "new" => fpc[b] = "new"
      BY <2>0, <2>5 DEF F!AdderStep, F!PushCallback, F!Recheck, F!FlushNotify, F!FlushDiscard, F!NotifyAll,
                        F!Goto, F!life, F!list
    <3>2. QED
      BY <2>0, <3>1 DEF FutureInv, F!FutureSafe
  <2>6. CASE F!Resolve \/ F!ResolverStep
    <3>1. /\ UNCHANGED <<sem, held, result, fcalls>>
          /\ fpc' \in [FutureWaiters \cup FutureAdders ->
               {"new", "load", "install", "lock", "look", "asleep", "woken", "expired", "done",
                "push", "recheck", "flush", "discard"}]
          /\ \A b \in FutureAdders : fpc'[b] = "new" => fpc[b] = "new"
      BY <2>0, <2>6 DEF F!Resolve, F!ResolverStep, F!SetResolved, F!Notify, F!Discard, F!NotifyAll, F!list
    <3>2. /\ fresolved' \in BOOLEAN /\ fhasValue' \in BOOLEAN
          /\ fhasValue => fhasValue'
          /\ fresolved => fresolved'
          /\ fresolved' \/ resolver' # "idle" => fhasValue'
      BY <2>0, <2>6 DEF F!Resolve, F!ResolverStep, F!SetResolved, F!Notify, F!Discard, F!life
    <3>3. QED
      BY <2>0, <3>1, <3>2 DEF FutureInv, F!FutureSafe
  <2>7. CASE UNCHANGED fvars
    BY <2>0, <2>7 DEF fvars, FutureInv, F!FutureSafe
  <2>8. QED
    BY <2>1, <2>2, <2>3, <2>4, <2>5, <2>6, <2>7 DEF F!Next, F!WaiterStep
<1>3. FutureInv => FutureSafe
  BY DEF FutureInv, FutureSafe
<1>4. QED
  BY <1>1, <1>2, <1>3, PTL DEF FutureSpec
=============================================================================
