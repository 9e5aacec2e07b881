--------------------------- MODULE Scheduler_proofs ---------------------------
(***************************************************************************)
(* For any number of clients, functions and nested activations: the types, *)
(* that a scheduled function is in one place, and what follows from it:    *)
(* one-shot functions start once and not early, what was removed does not  *)
(* run, sync() after remove() is a barrier, and nothing is left behind the *)
(* quit message.                                                           *)
(***************************************************************************)
EXTENDS SchedulerProps, SequenceTheorems, WellFoundedInduction, TLAPS

\* The two ends of a sequence.
LEMMA Appended ==
  ASSUME NEW S, NEW s \in Seq(S), NEW m \in S
  PROVE  /\ Append(s, m) \in Seq(S)
         /\ Len(Append(s, m)) = Len(s) + 1 /\ Len(s) \in Nat
         /\ DOMAIN Append(s, m) = DOMAIN s \cup {Len(s) + 1}
         /\ Append(s, m)[Len(s) + 1] = m
         /\ \A k \in DOMAIN s : Append(s, m)[k] = s[k] /\ k \in Nat /\ k < Len(s) + 1
  OBVIOUS

LEMMA Removed ==
  ASSUME NEW S, NEW s \in Seq(S), s # <<>>
  PROVE  /\ Tail(s) \in Seq(S) /\ Head(s) = s[1] /\ s[1] \in S /\ 1 \in DOMAIN s
         /\ Len(Tail(s)) = Len(s) - 1 /\ Len(s) \in Nat \ {0}
         /\ \A k \in DOMAIN Tail(s) : k + 1 \in DOMAIN s /\ k \in Nat /\ k # 0 /\ Tail(s)[k] = s[k + 1]
         /\ \A k \in DOMAIN s : k \in Nat /\ (k # 1 => k - 1 \in DOMAIN Tail(s) /\ Tail(s)[k - 1] = s[k])
  OBVIOUS

LEMMA TopRemoved ==
  ASSUME NEW S, NEW s \in Seq(S), Len(s) > 0
  PROVE  LET r == SubSeq(s, 1, Len(s) - 1)
         IN  /\ r \in Seq(S) /\ Len(r) = Len(s) - 1 /\ Len(s) \in Nat \ {0}
             /\ DOMAIN r = DOMAIN s \ {Len(s)} /\ Len(s) \in DOMAIN s
             /\ \A k \in DOMAIN r : r[k] = s[k]
             /\ \A k \in DOMAIN s : k \in 1..Len(s)
<1> DEFINE n == Len(s) - 1
           r == SubSeq(s, 1, n)
<1>1. n \in Nat /\ Len(s) = n + 1 /\ DOMAIN s = 1..(n + 1)
  OBVIOUS
<1> HIDE DEF n
<1>2. \A k \in 1..n : s[k] \in S
  BY <1>1
<1>3. /\ r \in Seq(S) /\ Len(r) = n
      /\ \A k \in 1..n : r[k] = s[k]
  BY <1>1, <1>2
<1>4. DOMAIN r = 1..n
  BY <1>3
<1> HIDE DEF r
<1>5. /\ r \in Seq(S) /\ Len(r) = Len(s) - 1 /\ Len(s) \in Nat \ {0}
      /\ DOMAIN r = DOMAIN s \ {Len(s)} /\ Len(s) \in DOMAIN s
      /\ \A k \in DOMAIN r : r[k] = s[k]
      /\ \A k \in DOMAIN s : k \in 1..Len(s)
  BY <1>1, <1>3, <1>4
<1>6. QED
  BY <1>5 DEF r, n

LEMMA TopReplaced ==
  ASSUME NEW S, NEW s \in Seq(S), NEW a \in S, Len(s) > 0
  PROVE  LET r == Append(SubSeq(s, 1, Len(s) - 1), a)
         IN  /\ r \in Seq(S) /\ Len(r) = Len(s) /\ DOMAIN r = DOMAIN s
             /\ Len(s) \in DOMAIN s /\ r[Len(s)] = a
             /\ \A k \in DOMAIN s : k \in 1..Len(s) /\ (k # Len(s) => r[k] = s[k])
<1> DEFINE b == SubSeq(s, 1, Len(s) - 1)
           r == Append(b, a)
<1>1. /\ b \in Seq(S) /\ Len(b) = Len(s) - 1 /\ Len(s) \in Nat \ {0}
      /\ DOMAIN b = DOMAIN s \ {Len(s)} /\ Len(s) \in DOMAIN s
      /\ \A k \in DOMAIN b : b[k] = s[k]
      /\ \A k \in DOMAIN s : k \in 1..Len(s)
  BY TopRemoved, Zenon
<1> HIDE DEF b
<1>2. /\ r \in Seq(S) /\ Len(r) = Len(b) + 1 /\ DOMAIN r = DOMAIN b \cup {Len(b) + 1}
      /\ r[Len(b) + 1] = a /\ \A k \in DOMAIN b : r[k] = b[k]
  BY <1>1, Appended
<1> HIDE DEF r
<1>3. /\ r \in Seq(S) /\ Len(r) = Len(s) /\ DOMAIN r = DOMAIN s
      /\ Len(s) \in DOMAIN s /\ r[Len(s)] = a
      /\ \A k \in DOMAIN s : k \in 1..Len(s) /\ (k # Len(s) => r[k] = s[k])
  BY <1>1, <1>2
<1>4. QED
  BY <1>3 DEF r, b

\* A set of numbers has a least one.
LEMMA SmallestNat ==
  ASSUME NEW T \in SUBSET Nat, T # {}
  PROVE  \E n \in T : \A m \in T : n <= m
<1> DEFINE R == OpToRel(<, Nat)
<1>1. IsWellFoundedOn(R, Nat)
  BY NatLessThanWellFounded
<1>2. \A m, n \in Nat : m < n => <<m, n>> \in R
  BY DEF OpToRel
<1> HIDE DEF R
<1>3. PICK n \in T : \A m \in T : <<m, n>> \notin R
  BY <1>1, WFMin
<1>4. ASSUME NEW m \in T
      PROVE  n <= m
  <2>1. m \in Nat /\ n \in Nat /\ ~(m < n)
    BY <1>2, <1>3
  <2>2. QED
    BY <2>1
<1>5. QED
  BY <1>4

-----------------------------------------------------------------------------
(* What the steps do to the messages and to the stack. *)

\* A message is posted.
LEMMA Posting ==
  ASSUME msgs \in Seq(Msg), NEW m \in Msg, msgs' = Append(msgs, m)
  PROVE  /\ msgs' \in Seq(Msg) /\ Len(msgs) \in Nat /\ Len(msgs') = Len(msgs) + 1
         /\ DOMAIN msgs' = DOMAIN msgs \cup {Len(msgs')} /\ msgs'[Len(msgs')] = m
         /\ \A k \in DOMAIN msgs : msgs'[k] = msgs[k] /\ k \in Nat /\ k < Len(msgs')
  BY Appended

\* A message is received.
LEMMA Receiving ==
  ASSUME msgs \in Seq(Msg), NEW op, Receive(op)
  PROVE  /\ Depth > 0 /\ Top.fn = None /\ Top.mode = "pump"
         /\ msgs' \in Seq(Msg) /\ Head(msgs) = msgs[1] /\ msgs[1] \in Msg /\ msgs[1].op = op
         /\ Len(msgs) \in Nat /\ Len(msgs') = Len(msgs) - 1 /\ 1 \in DOMAIN msgs
         /\ \A k \in DOMAIN msgs' :
              k + 1 \in DOMAIN msgs /\ k \in Nat /\ k # 0 /\ msgs'[k] = msgs[k + 1]
         /\ \A k \in DOMAIN msgs :
              k \in Nat /\ (k # 1 => k - 1 \in DOMAIN msgs' /\ msgs'[k - 1] = msgs[k])
  BY Removed DEF Receive, Pumping

\* The activation on top changes.
LEMMA NewTop ==
  ASSUME stack \in Seq(Activation), Depth > 0, NEW act \in Activation, SetTop(act)
  PROVE  /\ stack' \in Seq(Activation) /\ Len(stack') = Depth /\ DOMAIN stack' = DOMAIN stack
         /\ Depth \in DOMAIN stack /\ stack'[Depth] = act
         /\ \A k \in DOMAIN stack : k \in 1..Depth /\ (k # Depth => stack'[k] = stack[k])
  BY TopReplaced DEF SetTop, Below, Depth

LEMMA TopTyped ==
  ASSUME stack \in Seq(Activation), Depth > 0
  PROVE  Top \in Activation /\ Depth \in DOMAIN stack /\ Depth \in Nat
  BY DEF Top, Depth

LEMMA PumpedTyped ==
  ASSUME stack \in Seq(Activation), clock \in Nat, Depth > 0
  PROVE  /\ Pumped(Top) \in Activation /\ Pumped(Top).fn = None
         /\ Pumped(Top).now \in {Top.now, clock}
<1>1. Top \in Activation
  BY TopTyped
<1>2. QED
  BY <1>1 DEF Pumped, Activation

\* The heap has a first item, and the loop waits for its time.
LEMMA NextTimeTyped ==
  ASSUME items \subseteq Item
  PROVE  NextTime \in Nat \cup {Never}
<1>1. Firsts \subseteq Item
  BY DEF Firsts
<1>2. CASE items = {}
  BY <1>2 DEF NextTime
<1>3. CASE items # {}
  <2> DEFINE T == {x.tp : x \in items}
  <2>1. T \subseteq Nat /\ T # {}
    BY <1>3 DEF Item
  <2>2. \E n \in T : \A m \in T : n <= m
    BY <2>1, SmallestNat
  <2>3. \E x \in Firsts : TRUE
    BY <2>2 DEF Firsts
  <2>4. (CHOOSE x \in Firsts : TRUE) \in Firsts
    BY <2>3
  <2>5. QED
    BY <1>1, <1>3, <2>4 DEF NextTime, Item
<1>4. QED
  BY <1>2, <1>3

\* What is in the messages.
LEMMA Messages ==
  /\ \A i \in Item : [op |-> "push", item |-> i] \in Msg
  /\ \A f \in Imms : [op |-> "immediate", fn |-> f] \in Msg
  /\ \A i \in Ids : [op |-> "remove", id |-> i] \in Msg
  /\ \A c \in Clients : [op |-> "sync", by |-> c] \in Msg
  /\ [op |-> "removeAll"] \in Msg /\ [op |-> "quit"] \in Msg
  /\ \A m \in Msg :
       /\ m.op = "push" => m.item \in Item
       /\ m.op = "immediate" => m.fn \in Imms
       /\ m.op = "remove" => m.id \in Ids
       /\ m.op = "sync" => m.by \in Clients
  BY DEF Msg

-----------------------------------------------------------------------------
\* The variables keep their types, and each activation executes what its mode
\* says, at a time that is past.
Typed == TypeOK /\ Activations

THEOREM TypeCorrect == Spec => []Typed
<1>1. Init => Typed
  <2> SUFFICES ASSUME Init
               PROVE  Typed
    OBVIOUS
  <2>1. Loop \in Activation /\ stack = <<Loop>> /\ Loop.fn = None /\ Loop.now = 0
    BY DEF Init, Loop, Activation
  <2>2. stack \in Seq(Activation) /\ DOMAIN stack = {1} /\ stack[1] = Loop /\ Len(stack) = 1
    BY <2>1
  <2>3. Activations
    BY <2>1, <2>2 DEF Activations, Init, Depth
  <2>4. QED
    BY <2>2, <2>3, TimeAssumption DEF Init, Typed, TypeOK
<1>2. Typed /\ [Next]_vars => Typed'
  <2> SUFFICES ASSUME Typed, [Next]_vars
               PROVE  Typed'
    OBVIOUS
  <2>0. TypeOK /\ Activations /\ MaxTime \in Nat /\ clock \in Nat
    BY TimeAssumption DEF Typed, TypeOK
  <2>1. ASSUME NEW c \in Clients, Use(c)
        PROVE  Typed'
    <3>0. UNCHANGED <<clock, items, stack, ran, answer>>
      BY <2>1 DEF Use, Schedule, Immediate, Remove, Drop, Clear, Share, SyncPost, SyncReturn
    <3>1. CASE Schedule(c)
      <4>1. PICK i \in Ids \ used, interval \in Intervals, tp \in clock..MaxTime :
               Post([op |-> "push", item |-> [id |-> i, tp |-> tp, interval |-> interval]])
               /\ used' = used \cup {i}
        BY <3>1 DEF Schedule
      <4>2. [id |-> i, tp |-> tp, interval |-> interval] \in Item
        BY <2>0, IntervalsAssumption DEF Item
      <4>3. msgs' \in Seq(Msg)
        BY <2>0, <4>1, <4>2, Messages, Posting DEF Post, TypeOK
      <4>4. QED
        BY <2>0, <3>0, <3>1, <4>1, <4>3 DEF Typed, TypeOK, Activations, Depth, Schedule
    <3>2. CASE Immediate(c)
      <4>1. PICK f \in Imms \ used : Post([op |-> "immediate", fn |-> f]) /\ used' = used \cup {f}
        BY <3>2 DEF Immediate
      <4>2. msgs' \in Seq(Msg)
        BY <2>0, <4>1, Messages, Posting DEF Post, TypeOK
      <4>3. QED
        BY <2>0, <3>0, <3>2, <4>1, <4>2 DEF Typed, TypeOK, Activations, Depth, Immediate
    <3>3. CASE Remove(c)
      <4>1. PICK i \in Ids : Post([op |-> "remove", id |-> i])
                            /\ asked' = [asked EXCEPT ![c] = @ \cup {i}]
        BY <3>3 DEF Remove
      <4>2. msgs' \in Seq(Msg)
        BY <2>0, <4>1, Messages, Posting DEF Post, TypeOK
      <4>3. QED
        BY <2>0, <3>0, <3>3, <4>1, <4>2 DEF Typed, TypeOK, Activations, Depth, Remove
    <3>4. ASSUME NEW m \in Seq(Msg), Release(c, m), UNCHANGED <<calls, used, asked, settled>>
          PROVE  Typed'
      <4>1. msgs' \in Seq(Msg)
        BY <3>4, Messages DEF Release
      <4>2. QED
        BY <2>0, <3>0, <3>4, <4>1 DEF Typed, TypeOK, Activations, Depth, Release
    <3>5. CASE Drop(c)
      BY <2>0, <3>4, <3>5 DEF Drop, TypeOK
    <3>6. CASE Clear(c)
      <4>1. Append(msgs, [op |-> "removeAll"]) \in Seq(Msg)
        BY <2>0, Messages DEF TypeOK
      <4>2. QED
        BY <3>4, <3>6, <4>1 DEF Clear
    <3>7. CASE SyncPost(c)
      <4>1. msgs' \in Seq(Msg)
        BY <2>0, <3>7, Messages, Posting DEF SyncPost, Post, TypeOK
      <4>2. QED
        BY <2>0, <3>0, <3>7, <4>1 DEF Typed, TypeOK, Activations, Depth, SyncPost
    <3>8. CASE SyncReturn(c)
      BY <2>0, <3>0, <3>8 DEF Typed, TypeOK, Activations, Depth, SyncReturn
    <3>9. ASSUME NEW d \in Clients, Share(c, d)
          PROVE  Typed'
      BY <2>0, <3>0, <3>9 DEF Typed, TypeOK, Activations, Depth, Share
    <3>10. QED
      BY <2>1, <3>1, <3>2, <3>3, <3>5, <3>6, <3>7, <3>8, <3>9 DEF Use
  <2>2. ASSUME Depth > 0, NEW act \in Activation, SetTop(act),
               act.now <= clock,
               act.fn # None => act.fn \in (IF act.mode = "retire" THEN Ids ELSE Imms),
               msgs' \in Seq(Msg), items' \subseteq Item,
               calls' \in [Clients -> {"none", "sync", "nested", "done"}],
               ran' \subseteq Ids, answer' \in [Ids -> {"none", "true", "false"}],
               UNCHANGED <<clock, handles, used, asked, settled>>
        PROVE  Typed'
    <3>1. stack \in Seq(Activation)
      BY <2>0 DEF TypeOK
    <3>2. /\ stack' \in Seq(Activation) /\ Len(stack') = Depth /\ DOMAIN stack' = DOMAIN stack
          /\ Depth \in DOMAIN stack /\ stack'[Depth] = act /\ Depth' = Depth
          /\ \A k \in DOMAIN stack : k \in 1..Depth /\ (k # Depth => stack'[k] = stack[k])
      BY <2>2, <3>1, NewTop DEF Depth
    <3>3. Activations'
      BY <2>0, <2>2, <3>2 DEF Activations
    <3>4. QED
      BY <2>0, <2>2, <3>2, <3>3 DEF Typed, TypeOK
  <2>3. ASSUME NEW op, Receive(op)
        PROVE  /\ Depth > 0 /\ msgs' \in Seq(Msg) /\ Head(msgs) \in Msg /\ Head(msgs).op = op
               /\ Pumped(Top) \in Activation /\ Pumped(Top).now <= clock /\ Pumped(Top).fn = None
    <3>1. Depth > 0 /\ msgs' \in Seq(Msg) /\ Head(msgs) \in Msg /\ Head(msgs).op = op
      BY <2>0, <2>3, Receiving DEF TypeOK
    <3>2. Top.now <= clock /\ Top \in Activation
      BY <2>0, <3>1, TopTyped DEF Activations, TypeOK, Top
    <3>3. QED
      BY <2>0, <3>1, <3>2, PumpedTyped DEF TypeOK
  <2>4. CASE Thread \/ FunctionReturns \/ Yield
    <3>0. ASSUME Depth > 0
          PROVE  /\ Top \in Activation /\ Top.now <= clock /\ Top.now \in Nat /\ Top.interval \in Nat
                 /\ Top.fn # None => Top.fn \in (IF Top.mode = "retire" THEN Ids ELSE Imms)
                 /\ Pumped(Top) \in Activation /\ Pumped(Top).now <= clock /\ Pumped(Top).fn = None
                 /\ [Top EXCEPT !.mode = "retire", !.now = clock] \in Activation
                 /\ clock <= clock
      <4>1. Top \in Activation /\ Top.now <= clock
            /\ (Top.fn # None => Top.fn \in (IF Top.mode = "retire" THEN Ids ELSE Imms))
        BY <2>0, <3>0, TopTyped DEF Activations, TypeOK, Top
      <4>2. Pumped(Top) \in Activation /\ Pumped(Top).fn = None /\ Pumped(Top).now \in {Top.now, clock}
        BY <2>0, <3>0, PumpedTyped DEF TypeOK
      <4>3. /\ Top.now \in Nat /\ Top.interval \in Nat
            /\ [Top EXCEPT !.mode = "retire", !.now = clock] \in Activation
        BY <2>0, <4>1 DEF Activation
      <4>4. QED
        BY <2>0, <4>1, <4>2, <4>3
    <3>1. CASE ReceivePush
      BY <2>0, <2>2, <2>3, <3>1, Messages DEF ReceivePush, TypeOK
    <3>2. CASE ReceiveRemove
      BY <2>0, <2>2, <2>3, <3>2, Messages DEF ReceiveRemove, TypeOK
    <3>3. CASE ReceiveRemoveAll
      BY <2>0, <2>2, <2>3, <3>3 DEF ReceiveRemoveAll, TypeOK
    <3>4. CASE ReceiveSync
      BY <2>0, <2>2, <2>3, <3>4, Messages DEF ReceiveSync, TypeOK, ProbeAnswer
    <3>5. CASE ReceiveImmediate
      <4>1. Receive("immediate") /\ Depth > 0 /\ Top.mode = "pump"
        BY <2>0, <3>5, Receiving DEF ReceiveImmediate, TypeOK
      <4>2. Head(msgs).fn \in Imms /\ msgs' \in Seq(Msg)
        BY <2>3, <4>1, Messages
      <4> DEFINE act == [Top EXCEPT !.fn = Head(msgs).fn, !.interval = 0]
      <4>3. act \in Activation /\ act.now = Top.now /\ act.fn \in Imms /\ act.mode = "pump"
        BY <3>0, <4>1, <4>2 DEF Activation
      <4> HIDE DEF act
      <4>4. SetTop(act) /\ UNCHANGED <<clock, items, handles, calls, used, ran, answer, asked, settled>>
        BY <3>5 DEF ReceiveImmediate, act
      <4>5. QED
        BY <2>0, <2>2, <3>0, <4>1, <4>2, <4>3, <4>4 DEF TypeOK
    <3>6. CASE ReceiveQuit
      <4>1. stack' = <<>> /\ items' = {} /\ msgs' \in Seq(Msg)
            /\ UNCHANGED <<clock, handles, calls, used, ran, answer, asked, settled>>
        BY <2>3, <3>6 DEF ReceiveQuit
      <4>2. QED
        BY <2>0, <4>1 DEF Typed, TypeOK, Activations
    <3>7. CASE YieldQuit
      <4>1. msgs' \in Seq(Msg) /\ Depth > 0 /\ Top.fn = None
        BY <2>0, <3>7 DEF YieldQuit, TypeOK, Pumping
      <4> DEFINE act == [Top EXCEPT !.mode = "retire", !.now = clock]
      <4>2. act \in Activation /\ act.now = clock /\ act.fn = None
        BY <3>0, <4>1 DEF Activation
      <4>3. SetTop(act) /\ UNCHANGED <<clock, items, handles, calls, used, ran, answer, asked, settled>>
        BY <3>7 DEF YieldQuit
      <4> HIDE DEF act
      <4>4. QED
        BY <2>0, <2>2, <3>0, <4>1, <4>2, <4>3 DEF TypeOK
    <3>8. CASE YieldDrained
      <4>1. Depth > 0 /\ Top.fn = None
        BY <3>8 DEF YieldDrained, Pumping
      <4> DEFINE act == [Top EXCEPT !.mode = "retire", !.now = clock]
      <4>2. act \in Activation /\ act.now = clock /\ act.fn = None
        BY <3>0, <4>1 DEF Activation
      <4>3. SetTop(act) /\ UNCHANGED <<clock, msgs, items, handles, calls, used, ran, answer, asked, settled>>
        BY <3>8 DEF YieldDrained
      <4> HIDE DEF act
      <4>4. QED
        BY <2>0, <2>2, <3>0, <4>1, <4>2, <4>3 DEF TypeOK
    <3>9. CASE Timeout
      BY <2>0, <2>2, <3>0, <3>9 DEF Timeout, Pumping, TypeOK
    <3>10. CASE Retire
      <4>1. Depth > 0 /\ Top.fn = None /\ Top.mode = "retire"
        BY <3>10 DEF Retire, Retiring
      <4>2. PICK x \in items :
               /\ items' = Without(x)
               /\ SetTop([Top EXCEPT !.fn = x.id, !.interval = x.interval])
               /\ ran' = IF x.interval = 0 THEN ran \cup {x.id} ELSE ran
        BY <3>10 DEF Retire, Due, Firsts
      <4> DEFINE act == [Top EXCEPT !.fn = x.id, !.interval = x.interval]
      <4>3. x.id \in Ids /\ x.interval \in Nat
        BY <2>0 DEF TypeOK, Item
      <4>4. act \in Activation /\ act.now = Top.now /\ act.fn \in Ids /\ act.mode = "retire"
        BY <3>0, <4>1, <4>3 DEF Activation
      <4>5. SetTop(act) /\ UNCHANGED <<clock, msgs, handles, calls, used, answer, asked, settled>>
        BY <3>10, <4>2 DEF Retire
      <4> HIDE DEF act
      <4>6. items' \subseteq Item /\ ran' \subseteq Ids
        BY <2>0, <4>2, <4>3 DEF TypeOK, Without
      <4>7. QED
        BY <2>0, <2>2, <3>0, <4>1, <4>4, <4>5, <4>6 DEF TypeOK
    <3>11. CASE Retired /\ ~Nested
      <4>1. Depth > 0 /\ Top.fn = None /\ NextTime \in Nat \cup {Never}
        BY <2>0, <3>11, NextTimeTyped DEF Retired, Retiring, TypeOK
      <4> DEFINE act == [Top EXCEPT !.mode = "pump", !.until = NextTime]
      <4>2. act \in Activation /\ act.now = Top.now /\ act.fn = None
        BY <3>0, <4>1 DEF Activation
      <4>3. SetTop(act) /\ UNCHANGED <<clock, msgs, items, handles, calls, used, ran, answer, asked, settled>>
        BY <3>11 DEF Retired
      <4> HIDE DEF act
      <4>4. QED
        BY <2>0, <2>2, <3>0, <4>1, <4>2, <4>3 DEF TypeOK
    <3>12. CASE Retired /\ Nested
      <4>1. Depth > 0 /\ stack' = SubSeq(stack, 1, Len(stack) - 1)
            /\ UNCHANGED <<clock, msgs, items, handles, calls, used, ran, answer, asked, settled>>
        BY <3>12 DEF Retired, Retiring, Below, Depth
      <4>2. /\ stack' \in Seq(Activation) /\ Len(stack') = Len(stack) - 1
            /\ DOMAIN stack' = DOMAIN stack \ {Len(stack)} /\ Len(stack) \in Nat
            /\ \A k \in DOMAIN stack' : stack'[k] = stack[k]
            /\ \A k \in DOMAIN stack : k \in 1..Len(stack)
        BY <2>0, <4>1, TopRemoved, Zenon DEF TypeOK, Depth
      <4>3. Activations'
        BY <2>0, <4>1, <4>2 DEF Activations, Depth
      <4>4. QED
        BY <2>0, <4>1, <4>2, <4>3 DEF Typed, TypeOK
    <3>13. CASE FunctionReturns
      <4>1. Depth > 0 /\ Top.fn # None
        BY <3>13 DEF FunctionReturns, InFunction
      <4>2. CASE Top.mode = "retire"
        <5> DEFINE act == [Top EXCEPT !.fn = None, !.interval = 0]
        <5>1. act \in Activation /\ act.now = Top.now /\ act.fn = None
          BY <3>0, <4>1 DEF Activation
        <5>2. SetTop(act) /\ UNCHANGED <<clock, msgs, handles, calls, used, ran, answer, asked, settled>>
              /\ items' = items \cup Again
          BY <3>13, <4>2 DEF FunctionReturns
        <5> HIDE DEF act
        <5>3. Again \subseteq Item
          BY <3>0, <4>1, <4>2 DEF Again, Item
        <5>4. QED
          BY <2>0, <2>2, <3>0, <4>1, <5>1, <5>2, <5>3 DEF TypeOK
      <4>3. CASE Top.mode # "retire"
        BY <2>0, <2>2, <3>0, <3>13, <4>1, <4>3 DEF FunctionReturns, TypeOK
      <4>4. QED
        BY <4>2, <4>3
    <3>14. CASE Yield
      <4>1. Depth > 0 /\ Top.fn # None /\ stack' = Append(stack, [Loop EXCEPT !.mode = "pump"])
            /\ UNCHANGED <<clock, msgs, items, handles, calls, used, ran, answer, asked, settled>>
        BY <3>14 DEF Yield, InFunction
      <4> DEFINE act == [Loop EXCEPT !.mode = "pump"]
      <4>2. act \in Activation /\ act.now = 0 /\ act.fn = None
        BY DEF Loop, Activation
      <4> HIDE DEF act
      <4>3. /\ stack' \in Seq(Activation) /\ Len(stack') = Len(stack) + 1 /\ Len(stack) \in Nat
            /\ DOMAIN stack' = DOMAIN stack \cup {Len(stack) + 1} /\ stack'[Len(stack) + 1] = act
            /\ \A k \in DOMAIN stack : stack'[k] = stack[k] /\ k \in Nat /\ k < Len(stack) + 1
        BY <2>0, <4>1, <4>2, Appended DEF TypeOK, act
      <4>4. \A k \in DOMAIN stack : stack[k].fn # None
        <5>1. \A k \in DOMAIN stack : k < Depth => stack[k].fn # None
          BY <2>0 DEF Activations
        <5>2. \A k \in DOMAIN stack : k = Depth \/ k < Depth
          BY <4>3 DEF Depth
        <5>3. QED
          BY <4>1, <5>1, <5>2 DEF Top
      <4>5. Activations'
        <5> SUFFICES ASSUME NEW k \in DOMAIN stack'
                     PROVE  /\ stack'[k].now <= clock
                            /\ stack'[k].fn # None =>
                                 stack'[k].fn \in (IF stack'[k].mode = "retire" THEN Ids ELSE Imms)
                            /\ k < Len(stack) + 1 => stack'[k].fn # None
          BY <4>1, <4>3 DEF Activations, Depth
        <5>1. CASE k \in DOMAIN stack
          BY <2>0, <4>3, <4>4, <5>1 DEF Activations
        <5>2. CASE k = Len(stack) + 1
          BY <2>0, <4>2, <4>3, <5>2
        <5>3. QED
          BY <4>3, <5>1, <5>2
      <4>6. QED
        BY <2>0, <4>1, <4>3, <4>5 DEF Typed, TypeOK
    <3>15. QED
      BY <2>4, <3>1, <3>2, <3>3, <3>4, <3>5, <3>6, <3>7, <3>8, <3>9, <3>10, <3>11, <3>12, <3>13, <3>14
         DEF Thread
  <2>5. CASE Tick
    <3>1. clock' \in 0..MaxTime /\ clock <= clock'
          /\ UNCHANGED <<msgs, items, stack, handles, calls, used, ran, answer, asked, settled>>
      BY <2>0, <2>5 DEF Tick, TypeOK
    <3>2. \A k \in DOMAIN stack : stack[k].now \in Nat /\ stack[k].now <= clock'
      <4>1. ASSUME NEW k \in DOMAIN stack
            PROVE  stack[k].now \in Nat /\ stack[k].now <= clock'
        <5>1. stack[k] \in Activation /\ stack[k].now <= clock
          BY <2>0 DEF TypeOK, Activations
        <5>2. stack[k].now \in Nat /\ clock' \in Nat
          BY <2>0, <3>1, <5>1 DEF Activation
        <5>3. QED
          BY <2>0, <3>1, <5>1, <5>2
      <4>2. QED
        BY <4>1
    <3>3. QED
      BY <2>0, <3>1, <3>2 DEF Typed, TypeOK, Activations, Depth
  <2>6. CASE UNCHANGED vars
    BY <2>0, <2>6 DEF vars, Typed, TypeOK, Activations, Depth
  <2>7. QED
    BY <2>1, <2>4, <2>5, <2>6 DEF Next
<1>3. QED
  BY <1>1, <1>2, PTL DEF Spec

-----------------------------------------------------------------------------
\* Who posts has a handle; a caller in sync() keeps its own, and its probe is
\* the only one of that client.
Ending == Callers /\ NothingBehindQuit

\* A message other than probes and the quit message is posted.
LEMMA PostKeepsEnding ==
  ASSUME Typed, Ending, NEW m \in Msg, Post(m), m.op \notin {"sync", "quit"},
         handles # {}, handles \subseteq handles', UNCHANGED <<stack, calls>>
  PROVE  Ending'
<1>1. /\ Len(msgs) \in Nat /\ Len(msgs') = Len(msgs) + 1
      /\ DOMAIN msgs' = DOMAIN msgs \cup {Len(msgs')} /\ msgs'[Len(msgs')] = m
      /\ \A k \in DOMAIN msgs : msgs'[k] = msgs[k] /\ k \in Nat /\ k < Len(msgs')
  BY Posting DEF Post, Typed, TypeOK
<1>2. Callers'
  BY <1>1 DEF Ending, Callers
<1>3. \A k \in DOMAIN msgs : msgs[k].op # "quit"
  BY DEF Ending, NothingBehindQuit
<1>4. stack # <<>>
  BY DEF Ending, Callers
<1>5. NothingBehindQuit'
  BY <1>1, <1>3, <1>4 DEF NothingBehindQuit
<1>6. QED
  BY <1>2, <1>5 DEF Ending

\* A variable is reset, after a message that is not a probe or without one.
LEMMA ReleaseKeepsEnding ==
  ASSUME Typed, Ending, NEW c \in handles, calls[c] = "none", NEW m, Release(c, m),
         m = msgs \/ m = Append(msgs, [op |-> "removeAll"]), UNCHANGED <<stack, calls>>
  PROVE  Ending'
<1>0. c \in Clients /\ msgs \in Seq(Msg) /\ handles' = handles \ {c}
  BY DEF Typed, TypeOK, Release
<1>1. \A k \in DOMAIN msgs : msgs[k].op # "quit"
  BY DEF Ending, NothingBehindQuit
<1>2. stack # <<>>
  BY DEF Ending, Callers
<1>3. /\ m \in Seq(Msg)
      /\ \A k \in DOMAIN m : m[k].op # "quit"
      /\ \A k \in DOMAIN m : m[k].op = "sync" => k \in DOMAIN msgs /\ m[k] = msgs[k]
  <2>1. CASE m = msgs
    BY <1>0, <1>1, <2>1
  <2>2. CASE m = Append(msgs, [op |-> "removeAll"])
    <3>1. /\ m \in Seq(Msg) /\ DOMAIN m = DOMAIN msgs \cup {Len(msgs) + 1}
          /\ m[Len(msgs) + 1] = [op |-> "removeAll"] /\ \A k \in DOMAIN msgs : m[k] = msgs[k]
      BY <1>0, <2>2, Messages, Appended
    <3>2. QED
      BY <1>1, <3>1
  <2>3. QED
    BY <2>1, <2>2
<1>4. CASE handles' = {}
  <2>1. msgs' = Append(m, [op |-> "quit"])
    BY <1>3, <1>4 DEF Release
  <2>2. /\ DOMAIN msgs' = DOMAIN m \cup {Len(m) + 1} /\ Len(msgs') = Len(m) + 1
        /\ msgs'[Len(m) + 1] = [op |-> "quit"] /\ \A k \in DOMAIN m : msgs'[k] = m[k]
    BY <1>3, <2>1, Messages, Appended
  <2>3. Callers'
    BY <1>0, <1>2, <1>3, <2>2 DEF Ending, Callers
  <2>4. NothingBehindQuit'
    BY <1>2, <1>3, <1>4, <2>2 DEF NothingBehindQuit
  <2>5. QED
    BY <2>3, <2>4 DEF Ending
<1>5. CASE handles' # {}
  <2>1. msgs' = m
    BY <1>5 DEF Release
  <2>2. Callers'
    BY <1>0, <1>2, <1>3, <2>1 DEF Ending, Callers
  <2>3. NothingBehindQuit'
    BY <1>2, <1>3, <2>1 DEF NothingBehindQuit
  <2>4. QED
    BY <2>2, <2>3 DEF Ending
<1>6. QED
  BY <1>4, <1>5

\* A message other than a probe is received.
LEMMA ReceiveKeepsEnding ==
  ASSUME Typed, Ending, NEW op, op # "sync", Receive(op), stack' = <<>> => op = "quit",
         UNCHANGED <<handles, calls>>
  PROVE  Ending'
<1>1. /\ msgs[1].op = op /\ 1 \in DOMAIN msgs /\ Len(msgs) \in Nat /\ Len(msgs') = Len(msgs) - 1
      /\ msgs' \in Seq(Msg)
      /\ \A k \in DOMAIN msgs' : k + 1 \in DOMAIN msgs /\ k \in Nat /\ msgs'[k] = msgs[k + 1]
  BY Receiving DEF Typed, TypeOK
<1>2. Callers'
  <2>1. \A k \in DOMAIN msgs' : msgs'[k].op = "sync" => calls[msgs'[k].by] = "sync"
    BY <1>1 DEF Ending, Callers
  <2>2. ASSUME NEW j \in DOMAIN msgs', NEW k \in DOMAIN msgs', msgs'[j].op = "sync",
               msgs'[k].op = "sync", msgs'[j].by = msgs'[k].by
        PROVE  j = k
    <3>1. j + 1 = k + 1
      BY <1>1, <2>2 DEF Ending, Callers
    <3>2. QED
      BY <1>1, <3>1
  <2>3. stack' = <<>> => handles = {}
    BY <1>1 DEF Ending, NothingBehindQuit
  <2>4. QED
    BY <2>1, <2>2, <2>3 DEF Ending, Callers
<1>3. NothingBehindQuit'
  <2>1. ASSUME NEW k \in DOMAIN msgs', msgs'[k].op = "quit"
        PROVE  k = Len(msgs') /\ handles = {}
    BY <1>1, <2>1 DEF Ending, NothingBehindQuit
  <2>2. ASSUME op = "quit"
        PROVE  msgs' = <<>>
    <3>1. Len(msgs) = 1
      BY <1>1, <2>2 DEF Ending, NothingBehindQuit
    <3>2. QED
      BY <1>1, <3>1
  <2>3. \A k \in 1..Len(msgs') : k \in DOMAIN msgs'
    BY <1>1
  <2>4. QED
    BY <2>1, <2>2, <2>3 DEF NothingBehindQuit
<1>4. QED
  BY <1>2, <1>3 DEF Ending

\* Nothing that the invariant looks at changes.
LEMMA SameEnding ==
  ASSUME Ending, UNCHANGED <<msgs, calls>>, handles \subseteq handles',
         handles = {} => handles' = {}, stack' = <<>> => stack = <<>>
  PROVE  Ending'
  BY DEF Ending, Callers, NothingBehindQuit

\* yield() puts back the only message there is.
LEMMA YieldQuitKeeps ==
  ASSUME Typed, NothingBehindQuit, YieldQuit
  PROVE  msgs' = msgs
<1>1. msgs \in Seq(Msg) /\ msgs # <<>> /\ Head(msgs).op = "quit"
      /\ msgs' = Append(Tail(msgs), Head(msgs))
  BY DEF Typed, TypeOK, YieldQuit
<1>2. Head(msgs) = msgs[1] /\ 1 \in 1..Len(msgs)
  BY <1>1
<1>3. Len(msgs) = 1
  BY <1>1, <1>2 DEF NothingBehindQuit
<1>4. Tail(msgs) = <<>> /\ msgs = <<msgs[1]>>
  BY <1>1, <1>3
<1>5. QED
  BY <1>1, <1>2, <1>4

\* The thread's stack is empty only when it received the quit message.
LEMMA StackStays ==
  ASSUME Typed, Depth > 0, NEW act, SetTop(act)
  PROVE  stack' # <<>>
  BY DEF SetTop

\* The message loop is never left behind by yield().
LEMMA NestedStays ==
  ASSUME Typed, Nested, stack' = Below
  PROVE  stack' # <<>>
  BY TopRemoved DEF Nested, Below, Depth, Typed, TypeOK

LEMMA EndingHolds == Spec => []Ending
<1>1. Init => Ending
  BY DEF Init, Ending, Callers, NothingBehindQuit
<1>2. Typed /\ Ending /\ [Next]_vars => Ending'
  <2> SUFFICES ASSUME Typed, Ending, [Next]_vars
               PROVE  Ending'
    OBVIOUS
  <2>1. ASSUME NEW c \in Clients, Use(c)
        PROVE  Ending'
    <3>1. CASE Schedule(c)
      <4>1. PICK i \in Ids \ used, interval \in Intervals, tp \in clock..MaxTime :
               Post([op |-> "push", item |-> [id |-> i, tp |-> tp, interval |-> interval]])
        BY <3>1 DEF Schedule
      <4>2. [id |-> i, tp |-> tp, interval |-> interval] \in Item
        BY IntervalsAssumption, TimeAssumption DEF Item, Typed, TypeOK
      <4>3. QED
        BY <3>1, <4>1, <4>2, Messages, PostKeepsEnding DEF Schedule, CanCall
    <3>2. CASE Immediate(c)
      BY <3>2, Messages, PostKeepsEnding DEF Immediate, CanCall
    <3>3. CASE Remove(c)
      BY <3>3, Messages, PostKeepsEnding DEF Remove, CanCall
    <3>4. CASE Drop(c)
      BY <3>4, ReleaseKeepsEnding DEF Drop
    <3>5. CASE Clear(c)
      BY <3>5, ReleaseKeepsEnding DEF Clear, CanCall
    <3>6. CASE SyncPost(c)
      <4> DEFINE m == [op |-> "sync", by |-> c]
      <4>1. c \in handles /\ calls[c] # "sync" /\ UNCHANGED <<stack, handles>>
            /\ calls' = [calls EXCEPT ![c] = "sync"]
        BY <3>6 DEF SyncPost, CanCall, Ending, Callers
      <4>2. /\ Len(msgs) \in Nat /\ Len(msgs') = Len(msgs) + 1
            /\ DOMAIN msgs' = DOMAIN msgs \cup {Len(msgs')} /\ msgs'[Len(msgs')] = m
            /\ \A k \in DOMAIN msgs : msgs'[k] = msgs[k] /\ k \in Nat /\ k < Len(msgs')
        BY <3>6, Messages, Posting DEF SyncPost, Post, Typed, TypeOK
      <4>3. calls \in [Clients -> {"none", "sync", "nested", "done"}]
        BY DEF Typed, TypeOK
      <4>4. \A k \in DOMAIN msgs : msgs[k].op # "quit" /\ (msgs[k].op = "sync" => msgs[k].by # c)
        <5>1. ASSUME NEW k \in DOMAIN msgs
              PROVE  msgs[k].op # "quit"
          BY <4>1 DEF Ending, NothingBehindQuit
        <5>2. ASSUME NEW k \in DOMAIN msgs, msgs[k].op = "sync"
              PROVE  msgs[k].by # c
          <6>1. calls[msgs[k].by] = "sync"
            BY <5>2 DEF Ending, Callers
          <6>2. QED
            BY <4>1, <6>1
        <5>3. QED
          BY <5>1, <5>2
      <4>5. \A k \in DOMAIN msgs : msgs[k].op = "sync" => msgs[k].by \in Clients
        BY Messages DEF Typed, TypeOK
      <4>6. Callers'
        BY <4>1, <4>2, <4>3, <4>4, <4>5 DEF Ending, Callers
      <4>7. NothingBehindQuit'
        BY <4>1, <4>2, <4>4 DEF Ending, Callers, NothingBehindQuit
      <4>8. QED
        BY <4>6, <4>7 DEF Ending
    <3>7. CASE SyncReturn(c)
      <4>1. calls[c] = "done" /\ calls' = [calls EXCEPT ![c] = "none"]
            /\ UNCHANGED <<msgs, stack, handles>> /\ calls \in [Clients -> {"none", "sync", "nested", "done"}]
        BY <3>7 DEF SyncReturn, Typed, TypeOK
      <4>2. \A k \in DOMAIN msgs : msgs[k].op = "sync" => msgs[k].by # c /\ msgs[k].by \in Clients
        BY <4>1, Messages DEF Ending, Callers, Typed, TypeOK
      <4>3. QED
        BY <4>1, <4>2 DEF Ending, Callers, NothingBehindQuit
    <3>8. ASSUME NEW d \in Clients, Share(c, d)
          PROVE  Ending'
      BY <3>8, SameEnding DEF Share, CanCall
    <3>9. QED
      BY <2>1, <3>1, <3>2, <3>3, <3>4, <3>5, <3>6, <3>7, <3>8 DEF Use
  <2>2. ASSUME NEW op, Receive(op), NEW act, SetTop(act)
        PROVE  stack' # <<>>
    BY <2>2, StackStays DEF Receive, Pumping
  <2>3. CASE ReceivePush
    BY <2>2, <2>3, ReceiveKeepsEnding DEF ReceivePush
  <2>4. CASE ReceiveRemove
    BY <2>2, <2>4, ReceiveKeepsEnding DEF ReceiveRemove
  <2>5. CASE ReceiveRemoveAll
    BY <2>2, <2>5, ReceiveKeepsEnding DEF ReceiveRemoveAll
  <2>6. CASE ReceiveSync
    <3> DEFINE c == msgs[1].by
    <3>1. /\ msgs[1].op = "sync" /\ 1 \in DOMAIN msgs /\ Len(msgs) \in Nat /\ Len(msgs') = Len(msgs) - 1
          /\ msgs' \in Seq(Msg) /\ Head(msgs) = msgs[1] /\ msgs[1] \in Msg
          /\ \A k \in DOMAIN msgs' :
               k + 1 \in DOMAIN msgs /\ k \in Nat /\ k # 0 /\ msgs'[k] = msgs[k + 1]
      BY <2>6, Receiving DEF ReceiveSync, Typed, TypeOK
    <3>2. c \in Clients /\ calls' = [calls EXCEPT ![c] = ProbeAnswer] /\ UNCHANGED handles
          /\ calls \in [Clients -> {"none", "sync", "nested", "done"}]
      BY <2>6, <3>1, Messages DEF ReceiveSync, Typed, TypeOK
    <3>3. c \in handles
      BY <3>1, <3>2 DEF Ending, Callers
    <3> HIDE DEF c
    <3>4. \A k \in DOMAIN msgs' : msgs'[k].op = "sync" => msgs'[k].by # c
      BY <3>1 DEF Ending, Callers, c
    <3>5. \A k \in DOMAIN msgs' : msgs'[k].op = "sync" => msgs'[k].by \in Clients
      BY <3>1, Messages
    <3>6. \A k \in DOMAIN msgs' : msgs'[k].op = "sync" => calls'[msgs'[k].by] = "sync"
      BY <3>1, <3>2, <3>4, <3>5 DEF Ending, Callers
    <3>7. ASSUME NEW j \in DOMAIN msgs', NEW k \in DOMAIN msgs', msgs'[j].op = "sync",
                 msgs'[k].op = "sync", msgs'[j].by = msgs'[k].by
          PROVE  j = k
      <4>1. j + 1 = k + 1
        BY <3>1, <3>7 DEF Ending, Callers
      <4>2. QED
        BY <3>1, <4>1
    <3>8. stack' # <<>>
      BY <2>2, <2>6 DEF ReceiveSync
    <3>9. \A d \in Clients : calls'[d] # "none" => d \in handles
      BY <3>2, <3>3 DEF Ending, Callers
    <3>10. Callers'
      BY <3>2, <3>6, <3>7, <3>8, <3>9 DEF Callers
    <3>11. ASSUME NEW k \in DOMAIN msgs', msgs'[k].op = "quit"
           PROVE  k = Len(msgs') /\ handles = {}
      BY <3>1, <3>11 DEF Ending, NothingBehindQuit
    <3>12. NothingBehindQuit'
      BY <3>1, <3>2, <3>8, <3>11 DEF NothingBehindQuit
    <3>13. QED
      BY <3>10, <3>12 DEF Ending
  <2>7. CASE ReceiveImmediate
    BY <2>2, <2>7, ReceiveKeepsEnding DEF ReceiveImmediate
  <2>8. CASE ReceiveQuit
    BY <2>8, ReceiveKeepsEnding DEF ReceiveQuit
  <2>9. CASE YieldQuit
    <3>1. msgs' = msgs /\ UNCHANGED <<handles, calls>> /\ stack' # <<>>
      BY <2>9, YieldQuitKeeps, StackStays DEF YieldQuit, Ending, Pumping
    <3>2. QED
      BY <3>1, SameEnding
  <2>10. CASE YieldDrained \/ Timeout \/ Retire \/ FunctionReturns
    <3>1. UNCHANGED <<msgs, handles, calls>> /\ stack' # <<>>
      BY <2>10, StackStays DEF YieldDrained, Timeout, Pumping, Retire, Retiring, FunctionReturns, InFunction
    <3>2. QED
      BY <3>1, SameEnding
  <2>11. CASE Retired
    <3>1. UNCHANGED <<msgs, handles, calls>> /\ stack' # <<>>
      BY <2>11, StackStays, NestedStays DEF Retired, Retiring
    <3>2. QED
      BY <3>1, SameEnding
  <2>12. CASE Yield
    <3>1. UNCHANGED <<msgs, handles, calls>> /\ stack' # <<>>
      BY <2>12, Appended DEF Yield
    <3>2. QED
      BY <3>1, SameEnding
  <2>13. CASE Tick \/ UNCHANGED vars
    BY <2>13, SameEnding DEF Tick, vars
  <2>14. QED
    BY <2>1, <2>3, <2>4, <2>5, <2>6, <2>7, <2>8, <2>9, <2>10, <2>11, <2>12, <2>13 DEF Next, Thread
<1>3. QED
  BY <1>1, <1>2, TypeCorrect, PTL DEF Spec

\* No message is left behind the quit message, whoever let the last handle go
\* and whatever yielded meanwhile (scheduler.h, ~BasicScheduler, yield).
THEOREM QuitComesLast == Spec => []NothingBehindQuit
<1>1. Ending => NothingBehindQuit
  BY DEF Ending
<1>2. QED
  BY <1>1, EndingHolds, PTL

-----------------------------------------------------------------------------
(* Where a scheduled function is. *)

\* A step that brings function i no new push message and no new activation.
PushesKept(i) == (OnePush(i) => OnePush(i)') /\ (Posted(i)' => Posted(i))
RunsKept(i) ==
  /\ OneActivation(i) => OneActivation(i)'
  /\ Executing(i)' => Executing(i)
  /\ Repeats(i) => Repeats(i)'

Quiet ==
  /\ items' \subseteq items /\ used \subseteq used' /\ ran' = ran
  /\ \A i \in Ids : PushesKept(i) /\ RunsKept(i)

LEMMA PostPushes ==
  ASSUME msgs \in Seq(Msg), NEW m \in Msg, msgs' = Append(msgs, m),
         NEW i \in Ids, m.op = "push" => m.item.id # i
  PROVE  PushesKept(i)
<1>1. /\ DOMAIN msgs' = DOMAIN msgs \cup {Len(msgs')} /\ msgs'[Len(msgs')] = m
      /\ \A k \in DOMAIN msgs : msgs'[k] = msgs[k]
  BY Posting
<1>2. msgs' \in Seq(Msg)
  BY Posting
<1>3. DOMAIN msgs = 1..Len(msgs) /\ DOMAIN msgs' = 1..Len(msgs')
  BY <1>2
<1>4. QED
  BY <1>1, <1>3 DEF PushesKept, OnePush, Posted, PushedAt

LEMMA ReceivePushes ==
  ASSUME msgs \in Seq(Msg), NEW op, Receive(op), NEW i \in Ids
  PROVE  /\ PushesKept(i)
         /\ OnePush(i) /\ PushedAt(1, i) => ~Posted(i)'
         /\ PushedAt(1, i) => Posted(i)
<1>1. /\ msgs' \in Seq(Msg) /\ 1 \in DOMAIN msgs
      /\ \A k \in DOMAIN msgs' :
           k + 1 \in DOMAIN msgs /\ k \in Nat /\ k # 0 /\ msgs'[k] = msgs[k + 1]
  BY Receiving
<1>2. DOMAIN msgs = 1..Len(msgs) /\ DOMAIN msgs' = 1..Len(msgs')
  BY <1>1
<1>3. ASSUME OnePush(i), NEW j \in DOMAIN msgs', NEW k \in DOMAIN msgs',
             PushedAt(j, i)', PushedAt(k, i)'
      PROVE  j = k
  <2>1. PushedAt(j + 1, i) /\ PushedAt(k + 1, i)
    BY <1>1, <1>3 DEF PushedAt
  <2>2. j + 1 = k + 1
    BY <1>1, <1>3, <2>1 DEF OnePush
  <2>3. QED
    BY <1>1, <2>2
<1>4. OnePush(i) => OnePush(i)'
  BY <1>3 DEF OnePush
<1>5. Posted(i)' => \E k \in DOMAIN msgs : k # 1 /\ PushedAt(k, i)
  BY <1>1, <1>2 DEF Posted, PushedAt
<1>6. Posted(i) <=> \E k \in DOMAIN msgs : PushedAt(k, i)
  BY <1>2 DEF Posted, PushedAt
<1>7. QED
  BY <1>1, <1>4, <1>5, <1>6 DEF PushesKept, OnePush

\* A variable is reset.
LEMMA ReleasePushes ==
  ASSUME msgs \in Seq(Msg), NEW c, NEW m, Release(c, m), NEW i \in Ids,
         m = msgs \/ m = Append(msgs, [op |-> "removeAll"])
  PROVE  PushesKept(i)
<1>1. /\ m \in Seq(Msg) /\ DOMAIN msgs \subseteq DOMAIN m
      /\ \A k \in DOMAIN m : IF k \in DOMAIN msgs THEN m[k] = msgs[k] ELSE m[k].op = "removeAll"
  <2>1. CASE m = msgs
    BY <2>1
  <2>2. CASE m = Append(msgs, [op |-> "removeAll"])
    BY <2>2, Messages, Appended
  <2>3. QED
    BY <2>1, <2>2
<1>2. /\ msgs' \in Seq(Msg) /\ DOMAIN m \subseteq DOMAIN msgs'
      /\ \A k \in DOMAIN msgs' : IF k \in DOMAIN m THEN msgs'[k] = m[k] ELSE msgs'[k].op = "quit"
  <2>1. CASE msgs' = m
    BY <1>1, <2>1
  <2>2. CASE msgs' = Append(m, [op |-> "quit"])
    BY <1>1, <2>2, Messages, Appended
  <2>3. msgs' = m \/ msgs' = m \o <<[op |-> "quit"]>>
    BY DEF Release
  <2>4. m \o <<[op |-> "quit"]>> = Append(m, [op |-> "quit"])
    BY <1>1
  <2>5. QED
    BY <2>1, <2>2, <2>3, <2>4
<1>3. DOMAIN msgs = 1..Len(msgs) /\ DOMAIN msgs' = 1..Len(msgs')
  BY <1>2
<1>4. \A k \in DOMAIN msgs' : PushedAt(k, i)' => k \in DOMAIN msgs /\ PushedAt(k, i)
  BY <1>1, <1>2 DEF PushedAt
<1>5. Posted(i)' => Posted(i)
  BY <1>3, <1>4 DEF Posted, PushedAt
<1>6. OnePush(i) => OnePush(i)'
  BY <1>4 DEF OnePush
<1>7. QED
  BY <1>5, <1>6 DEF PushesKept

\* The activation on top gets idle: its function is not executing any more.
LEMMA IdleTop ==
  ASSUME Typed, Depth > 0, NEW act \in Activation, SetTop(act), act.fn = None, NEW i \in Ids
  PROVE  RunsKept(i) /\ (OneActivation(i) /\ Top.fn = i => ~Executing(i)')
<1>1. /\ DOMAIN stack' = DOMAIN stack /\ Depth \in DOMAIN stack /\ stack'[Depth] = act
      /\ \A k \in DOMAIN stack : k # Depth => stack'[k] = stack[k]
  BY NewTop DEF Typed, TypeOK
<1>2. \A k \in DOMAIN stack' : Executes(k, i)' =>
        k \in DOMAIN stack /\ k # Depth /\ Executes(k, i) /\ stack'[k] = stack[k]
  BY <1>1, NamesAssumption DEF Executes
<1>3. QED
  BY <1>1, <1>2 DEF RunsKept, OneActivation, Executing, Repeats, Executes, Top

\* The idle activation on top begins to execute a function.
LEMMA BusyTop ==
  ASSUME Typed, Depth > 0, Top.fn = None, NEW act \in Activation, SetTop(act), NEW i \in Ids
  PROVE  /\ act.fn # i => RunsKept(i)
         /\ ~Executing(i) => OneActivation(i)'
         /\ Repeats(i) /\ act.interval # 0 => Repeats(i)'
<1>1. /\ DOMAIN stack' = DOMAIN stack /\ Depth \in DOMAIN stack /\ stack'[Depth] = act
      /\ \A k \in DOMAIN stack : k # Depth => stack'[k] = stack[k]
  BY NewTop DEF Typed, TypeOK
<1>2. QED
  BY <1>1 DEF RunsKept, OneActivation, Executing, Repeats, Executes

LEMMA RemovedTop ==
  ASSUME Typed, Depth > 0, stack' = Below, NEW i \in Ids
  PROVE  RunsKept(i)
<1>1. stack \in Seq(Activation) /\ Len(stack) > 0 /\ stack' = SubSeq(stack, 1, Len(stack) - 1)
  BY DEF Typed, TypeOK, Depth, Below
<1>2. DOMAIN stack' = DOMAIN stack \ {Len(stack)} /\ \A k \in DOMAIN stack' : stack'[k] = stack[k]
  BY <1>1, TopRemoved, Zenon
<1>3. QED
  BY <1>2 DEF RunsKept, OneActivation, Executing, Repeats, Executes

LEMMA AddedTop ==
  ASSUME Typed, NEW act \in Activation, stack' = Append(stack, act), act.fn = None, NEW i \in Ids
  PROVE  RunsKept(i)
<1>1. /\ DOMAIN stack' = DOMAIN stack \cup {Len(stack) + 1} /\ stack'[Len(stack) + 1] = act
      /\ \A k \in DOMAIN stack : stack'[k] = stack[k]
  BY Appended DEF Typed, TypeOK
<1>2. QED
  BY <1>1, NamesAssumption DEF RunsKept, OneActivation, Executing, Repeats, Executes

LEMMA SameRuns ==
  ASSUME UNCHANGED stack, NEW i \in Ids
  PROVE  RunsKept(i)
  BY DEF RunsKept, OneActivation, Executing, Repeats, Executes

LEMMA SamePushes ==
  ASSUME UNCHANGED msgs, NEW i \in Ids
  PROVE  PushesKept(i)
  BY DEF PushesKept, OnePush, Posted, PushedAt

\* Only four steps move a function; all others only let some go.
LEMMA QuietSteps ==
  ASSUME Typed, NothingBehindQuit, [Next]_vars
  PROVE  \/ Quiet
         \/ \E c \in Clients : Schedule(c)
         \/ ReceivePush \/ Retire
         \/ FunctionReturns /\ Top.mode = "retire"
<1>0. msgs \in Seq(Msg) /\ stack \in Seq(Activation) /\ clock \in Nat
  BY TimeAssumption DEF Typed, TypeOK
<1>1. ASSUME NEW c \in Clients, Use(c), ~Schedule(c)
      PROVE  Quiet
  <2>1. items' = items /\ used \subseteq used' /\ ran' = ran /\ stack' = stack
    BY <1>1 DEF Use, Immediate, Remove, Drop, Clear, Share, SyncPost, SyncReturn
  <2>2. ASSUME NEW i \in Ids
        PROVE  PushesKept(i)
    <3>1. CASE Immediate(c) \/ Remove(c) \/ SyncPost(c)
      BY <1>0, <3>1, Messages, PostPushes DEF Immediate, Remove, SyncPost, Post
    <3>2. CASE Drop(c) \/ Clear(c)
      BY <1>0, <3>2, ReleasePushes DEF Drop, Clear
    <3>3. CASE SyncReturn(c) \/ \E d \in Clients : Share(c, d)
      BY <3>3, SamePushes DEF SyncReturn, Share
    <3>4. QED
      BY <1>1, <3>1, <3>2, <3>3 DEF Use
  <2>3. QED
    BY <2>1, <2>2, SameRuns DEF Quiet
<1>2. ASSUME NEW op, Receive(op)
      PROVE  /\ \A i \in Ids : PushesKept(i)
             /\ Depth > 0 /\ Top.fn = None /\ Top \in Activation
             /\ Pumped(Top) \in Activation /\ Pumped(Top).fn = None
  BY <1>0, <1>2, ReceivePushes, Receiving, PumpedTyped, TopTyped
<1>3. CASE ReceiveRemove \/ ReceiveRemoveAll \/ ReceiveSync
  <2>1. (\E op : Receive(op)) /\ SetTop(Pumped(Top)) /\ items' \subseteq items /\ UNCHANGED <<used, ran>>
    BY <1>3 DEF ReceiveRemove, ReceiveRemoveAll, ReceiveSync
  <2>2. QED
    BY <1>2, <2>1, IdleTop DEF Quiet
<1>4. CASE ReceiveImmediate
  <2> DEFINE act == [Top EXCEPT !.fn = Head(msgs).fn, !.interval = 0]
  <2>1. Receive("immediate") /\ SetTop(act) /\ UNCHANGED <<items, used, ran>>
    BY <1>4 DEF ReceiveImmediate
  <2>2. Head(msgs).fn \in Imms
    BY <1>0, <2>1, Receiving, Messages
  <2>3. act \in Activation /\ act.fn \in Imms
    BY <1>2, <2>1, <2>2 DEF Activation
  <2> HIDE DEF act
  <2>4. \A i \in Ids : act.fn # i
    BY <2>3, NamesAssumption
  <2>5. \A i \in Ids : RunsKept(i)
    BY <1>2, <2>1, <2>3, <2>4, BusyTop
  <2>6. QED
    BY <1>2, <2>1, <2>5 DEF Quiet
<1>5. CASE ReceiveQuit
  <2>1. Receive("quit") /\ stack' = <<>> /\ items' = {} /\ UNCHANGED <<used, ran>>
    BY <1>5 DEF ReceiveQuit
  <2>2. \A i \in Ids : RunsKept(i)
    BY <2>1 DEF RunsKept, OneActivation, Executing, Repeats
  <2>3. QED
    BY <1>2, <2>1, <2>2 DEF Quiet
<1>6. CASE YieldQuit \/ YieldDrained
  <2> DEFINE act == [Top EXCEPT !.mode = "retire", !.now = clock]
  <2>1. Depth > 0 /\ Top.fn = None /\ SetTop(act) /\ UNCHANGED <<items, used, ran>> /\ msgs' = msgs
    BY <1>6, YieldQuitKeeps DEF YieldQuit, YieldDrained, Pumping
  <2>2. act \in Activation /\ act.fn = None
    BY <1>0, <2>1, TopTyped DEF Activation
  <2> HIDE DEF act
  <2>3. QED
    BY <2>1, <2>2, IdleTop, SamePushes DEF Quiet
<1>7. CASE Timeout
  <2>1. Depth > 0 /\ SetTop(Pumped(Top)) /\ UNCHANGED <<msgs, items, used, ran>>
    BY <1>7 DEF Timeout, Pumping
  <2>2. QED
    BY <1>0, <2>1, PumpedTyped, IdleTop, SamePushes DEF Quiet
<1>8. CASE Retired
  <2>1. Depth > 0 /\ UNCHANGED <<msgs, items, used, ran>>
    BY <1>8 DEF Retired, Retiring
  <2>2. CASE Nested
    BY <1>8, <2>1, <2>2, RemovedTop, SamePushes DEF Retired, Quiet
  <2>3. CASE ~Nested
    <3> DEFINE act == [Top EXCEPT !.mode = "pump", !.until = NextTime]
    <3>1. SetTop(act) /\ Top.fn = None /\ Top \in Activation
      BY <1>0, <1>8, <2>1, <2>3, TopTyped DEF Retired, Retiring
    <3>2. act \in Activation /\ act.fn = None
      BY <1>0, <3>1, NextTimeTyped DEF Activation, Typed, TypeOK
    <3> HIDE DEF act
    <3>3. QED
      BY <2>1, <3>1, <3>2, IdleTop, SamePushes DEF Quiet
  <2>4. QED
    BY <2>2, <2>3
<1>9. CASE FunctionReturns /\ Top.mode # "retire"
  <2>1. Depth > 0 /\ SetTop(Pumped(Top)) /\ UNCHANGED <<msgs, items, used, ran>>
    BY <1>9 DEF FunctionReturns, InFunction
  <2>2. QED
    BY <1>0, <2>1, PumpedTyped, IdleTop, SamePushes DEF Quiet
<1>10. CASE Yield
  <2> DEFINE act == [Loop EXCEPT !.mode = "pump"]
  <2>1. act \in Activation /\ act.fn = None
    BY DEF Loop, Activation
  <2>2. stack' = Append(stack, act) /\ UNCHANGED <<msgs, items, used, ran>>
    BY <1>10 DEF Yield
  <2> HIDE DEF act
  <2>3. QED
    BY <2>1, <2>2, AddedTop, SamePushes DEF Quiet
<1>11. CASE Tick \/ UNCHANGED vars
  BY <1>11, SameRuns, SamePushes DEF Tick, vars, Quiet
<1>12. QED
  BY <1>1, <1>3, <1>4, <1>5, <1>6, <1>7, <1>8, <1>9, <1>10, <1>11 DEF Next, Thread

\* The four steps that do.
LEMMA ScheduleMoves ==
  ASSUME Typed, NEW c \in Clients, Schedule(c)
  PROVE  \E i \in Ids \ used :
           /\ used' = used \cup {i} /\ UNCHANGED <<items, ran>>
           /\ \A j \in Ids :
                /\ RunsKept(j) /\ (j # i => PushesKept(j))
                /\ ~Posted(j) => OnePush(j)'
<1>1. PICK i \in Ids \ used, interval \in Intervals, tp \in clock..MaxTime :
         /\ Post([op |-> "push", item |-> [id |-> i, tp |-> tp, interval |-> interval]])
         /\ used' = used \cup {i}
  BY DEF Schedule
<1> DEFINE m == [op |-> "push", item |-> [id |-> i, tp |-> tp, interval |-> interval]]
<1>2. m \in Msg /\ m.op = "push" /\ m.item.id = i
  <2>1. [id |-> i, tp |-> tp, interval |-> interval] \in Item
    BY IntervalsAssumption, TimeAssumption DEF Item, Typed, TypeOK
  <2>2. QED
    BY <2>1, Messages
<1>3. msgs \in Seq(Msg) /\ msgs' = Append(msgs, m) /\ UNCHANGED <<stack, items, ran>>
  BY <1>1 DEF Schedule, Post, Typed, TypeOK
<1> HIDE DEF m
<1>4. ASSUME NEW j \in Ids, ~Posted(j)
      PROVE  OnePush(j)'
  <2>1. \A k \in DOMAIN msgs : ~PushedAt(k, j)
    BY <1>3, <1>4 DEF Posted, PushedAt
  <2>2. /\ DOMAIN msgs' = DOMAIN msgs \cup {Len(msgs')}
        /\ \A k \in DOMAIN msgs : msgs'[k] = msgs[k]
    BY <1>2, <1>3, Posting
  <2>3. QED
    BY <2>1, <2>2 DEF OnePush, PushedAt
<1>5. \A j \in Ids : RunsKept(j) /\ (j # i => PushesKept(j))
  BY <1>2, <1>3, PostPushes, SameRuns
<1>6. QED
  BY <1>1, <1>3, <1>4, <1>5

LEMMA ReceivePushMoves ==
  ASSUME Typed, ReceivePush
  PROVE  \E x \in Item :
           /\ items' = items \cup {x} /\ UNCHANGED <<used, ran>>
           /\ Posted(x.id) /\ (OnePush(x.id) => ~Posted(x.id)')
           /\ \A j \in Ids : RunsKept(j) /\ PushesKept(j)
<1>0. msgs \in Seq(Msg) /\ stack \in Seq(Activation) /\ clock \in Nat
  BY TimeAssumption DEF Typed, TypeOK
<1>1. Receive("push") /\ items' = items \cup {Head(msgs).item} /\ SetTop(Pumped(Top))
      /\ UNCHANGED <<used, ran>>
  BY DEF ReceivePush
<1>2. PICK x : x = Head(msgs).item
  OBVIOUS
<1>3. Depth > 0 /\ Head(msgs) = msgs[1] /\ msgs[1] \in Msg /\ msgs[1].op = "push"
  BY <1>0, <1>1, Receiving
<1>4. x \in Item /\ x.id \in Ids /\ PushedAt(1, x.id)
  BY <1>3, <1>2, Messages DEF PushedAt, Item
<1>5. Posted(x.id) /\ (OnePush(x.id) => ~Posted(x.id)')
  BY <1>0, <1>1, <1>4, ReceivePushes
<1>6. \A j \in Ids : RunsKept(j) /\ PushesKept(j)
  BY <1>0, <1>1, <1>3, PumpedTyped, IdleTop, ReceivePushes
<1>7. QED
  BY <1>1, <1>2, <1>4, <1>5, <1>6

LEMMA RetireMoves ==
  ASSUME Typed, Retire
  PROVE  \E x \in items :
           /\ items' = items \ {x} /\ used' = used /\ x.tp <= clock
           /\ ran' = IF x.interval = 0 THEN ran \cup {x.id} ELSE ran
           /\ \A j \in Ids :
                /\ PushesKept(j) /\ (j # x.id => RunsKept(j))
                /\ ~Executing(j) => OneActivation(j)'
                /\ Repeats(j) /\ x.interval # 0 => Repeats(j)'
<1>1. Depth > 0 /\ Top.fn = None /\ UNCHANGED <<msgs, used>>
  BY DEF Retire, Retiring
<1>2. PICK x \in items :
         /\ items' = Without(x) /\ x.tp <= Top.now
         /\ SetTop([Top EXCEPT !.fn = x.id, !.interval = x.interval])
         /\ ran' = IF x.interval = 0 THEN ran \cup {x.id} ELSE ran
  BY DEF Retire, Due, Firsts
<1>3. /\ Top \in Activation /\ Top.now <= clock /\ clock \in Nat
      /\ x.id \in Ids /\ x.interval \in Nat /\ x.tp \in Nat
  <2>1. Top \in Activation /\ Depth \in DOMAIN stack
    BY <1>1, TopTyped DEF Typed, TypeOK
  <2>2. QED
    BY <2>1, TimeAssumption DEF Typed, TypeOK, Activations, Item, Top
<1> DEFINE act == [Top EXCEPT !.fn = x.id, !.interval = x.interval]
<1>4. act \in Activation /\ act.fn = x.id /\ act.interval = x.interval
  BY <1>3 DEF Activation
<1>5. SetTop(act)
  BY <1>2
<1> HIDE DEF act
<1>6. Top.now \in Nat
  BY <1>3 DEF Activation
<1>7. x.tp <= clock
  BY <1>2, <1>3, <1>6
<1>8. ASSUME NEW j \in Ids
      PROVE  /\ PushesKept(j) /\ (j # x.id => RunsKept(j))
             /\ ~Executing(j) => OneActivation(j)'
             /\ Repeats(j) /\ x.interval # 0 => Repeats(j)'
  BY <1>1, <1>4, <1>5, BusyTop, SamePushes
<1>9. QED
  BY <1>1, <1>2, <1>7, <1>8 DEF Without

LEMMA ReturnMoves ==
  ASSUME Typed, FunctionReturns, Top.mode = "retire"
  PROVE  \E x \in Item :
           /\ items' \in {items, items \cup {x}} /\ x.interval # 0 /\ UNCHANGED <<used, ran>>
           /\ Executing(x.id) /\ (OneActivation(x.id) => ~Executing(x.id)')
           /\ \A j \in Ids : RunsKept(j) /\ PushesKept(j)
<1>1. /\ Depth > 0 /\ Top.fn # None /\ UNCHANGED <<msgs, used, ran>>
      /\ items' = items \cup Again /\ SetTop([Top EXCEPT !.fn = None, !.interval = 0])
  BY DEF FunctionReturns, InFunction
<1>2. Top \in Activation /\ Depth \in DOMAIN stack
  BY <1>1, TopTyped DEF Typed, TypeOK
<1>3. Top.fn \in Ids /\ Executing(Top.fn)
  BY <1>1, <1>2 DEF Typed, Activations, Top, Executing, Executes
<1> DEFINE act == [Top EXCEPT !.fn = None, !.interval = 0]
<1>4. act \in Activation /\ act.fn = None
  BY <1>2 DEF Activation
<1>5. SetTop(act)
  BY <1>1
<1> HIDE DEF act
<1>6. \A j \in Ids : RunsKept(j) /\ PushesKept(j) /\ (OneActivation(j) /\ Top.fn = j => ~Executing(j)')
  BY <1>1, <1>4, <1>5, IdleTop, SamePushes
<1>7. \E x \in Item : x.id = Top.fn /\ x.interval # 0 /\ items' \in {items, items \cup {x}}
  <2>1. Top.now \in Nat /\ Top.interval \in Nat
    BY <1>2 DEF Activation
  <2>2. CASE Top.interval > 0
    <3> DEFINE x == [id |-> Top.fn, tp |-> Top.now + Top.interval, interval |-> Top.interval]
    <3>1. x \in Item /\ x.id = Top.fn /\ x.interval # 0
      BY <1>3, <2>1, <2>2 DEF Item
    <3>2. items' = items \cup {x}
      BY <1>1, <2>2 DEF Again
    <3>3. QED
      BY <3>1, <3>2
  <2>3. CASE ~(Top.interval > 0)
    <3> DEFINE x == [id |-> Top.fn, tp |-> 0, interval |-> 1]
    <3>1. x \in Item /\ x.id = Top.fn /\ x.interval # 0
      BY <1>3 DEF Item
    <3>2. items' = items
      BY <1>1, <2>3 DEF Again
    <3>3. QED
      BY <3>1, <3>2
  <2>4. QED
    BY <2>2, <2>3
<1>8. QED
  BY <1>1, <1>3, <1>6, <1>7

-----------------------------------------------------------------------------
\* A function is in one place, and a pending function of at() was not started.
Placed == OnePlace /\ FirstRuns

LEMMA PlacedHolds == Spec => []Placed
<1>1. Init => Placed
  BY NamesAssumption DEF Init, Placed, OnePlace, FirstRuns, OnePush, OneItem, OneActivation, Posted,
     InHeap, Pending, Executing, Executes, PushedAt, Loop
<1>2. Typed /\ NothingBehindQuit /\ Placed /\ [Next]_vars => Placed'
  <2> SUFFICES ASSUME Typed, NothingBehindQuit, Placed, [Next]_vars
               PROVE  Placed'
    OBVIOUS
  <2>0. OnePlace /\ FirstRuns
    BY DEF Placed
  <2>1. CASE Quiet
    BY <2>0, <2>1 DEF Quiet, Placed, OnePlace, FirstRuns, PushesKept, RunsKept, OneItem, InHeap, Pending
  <2>2. ASSUME NEW c \in Clients, Schedule(c)
        PROVE  Placed'
    <3>1. PICK i \in Ids \ used :
             /\ used' = used \cup {i} /\ UNCHANGED <<items, ran>>
             /\ \A j \in Ids :
                  /\ RunsKept(j) /\ (j # i => PushesKept(j))
                  /\ ~Posted(j) => OnePush(j)'
      BY <2>2, ScheduleMoves
    <3>2. ~Posted(i) /\ ~InHeap(i) /\ ~Executing(i) /\ i \notin ran
      BY <2>0 DEF OnePlace, FirstRuns, Pending
    <3>3. OnePlace'
      BY <2>0, <3>1, <3>2 DEF OnePlace, PushesKept, RunsKept, OneItem, InHeap, Pending
    <3>4. FirstRuns'
      BY <2>0, <3>1, <3>2 DEF FirstRuns, PushesKept, InHeap
    <3>5. QED
      BY <3>3, <3>4 DEF Placed
  <2>3. CASE ReceivePush
    <3>1. PICK x \in Item :
             /\ items' = items \cup {x} /\ UNCHANGED <<used, ran>>
             /\ Posted(x.id) /\ (OnePush(x.id) => ~Posted(x.id)')
             /\ \A j \in Ids : RunsKept(j) /\ PushesKept(j)
      BY <2>3, ReceivePushMoves
    <3>2. x.id \in Ids
      BY DEF Item
    <3>3. /\ ~Posted(x.id)' /\ ~InHeap(x.id) /\ ~Executing(x.id)
          /\ x.id \in used /\ x.id \notin ran
      BY <2>0, <3>1, <3>2 DEF OnePlace, FirstRuns, Pending
    <3>4. OnePlace'
      BY <2>0, <3>1, <3>3 DEF OnePlace, PushesKept, RunsKept, OneItem, InHeap, Pending
    <3>5. FirstRuns'
      BY <2>0, <3>1, <3>3 DEF FirstRuns, PushesKept, InHeap
    <3>6. QED
      BY <3>4, <3>5 DEF Placed
  <2>4. CASE Retire
    <3>1. PICK x \in items :
             /\ items' = items \ {x} /\ used' = used
             /\ ran' = IF x.interval = 0 THEN ran \cup {x.id} ELSE ran
             /\ \A j \in Ids :
                  /\ PushesKept(j) /\ (j # x.id => RunsKept(j))
                  /\ ~Executing(j) => OneActivation(j)'
      BY <2>4, RetireMoves
    <3>2. x.id \in Ids /\ InHeap(x.id)
      BY DEF Typed, TypeOK, Item, InHeap
    <3>3. /\ ~Posted(x.id) /\ ~InHeap(x.id)' /\ ~Executing(x.id) /\ x.id \in used
      BY <2>0, <3>1, <3>2 DEF OnePlace, OneItem, InHeap, Pending
    <3>4. OnePlace'
      BY <2>0, <3>1, <3>3 DEF OnePlace, PushesKept, RunsKept, OneItem, InHeap, Pending
    <3>5. FirstRuns'
      BY <2>0, <3>1, <3>3 DEF FirstRuns, PushesKept, InHeap
    <3>6. QED
      BY <3>4, <3>5 DEF Placed
  <2>5. CASE FunctionReturns /\ Top.mode = "retire"
    <3>1. PICK x \in Item :
             /\ items' \in {items, items \cup {x}} /\ x.interval # 0 /\ UNCHANGED <<used, ran>>
             /\ Executing(x.id) /\ (OneActivation(x.id) => ~Executing(x.id)')
             /\ \A j \in Ids : RunsKept(j) /\ PushesKept(j)
      BY <2>5, ReturnMoves
    <3>2. x.id \in Ids
      BY DEF Item
    <3>3. ~Posted(x.id) /\ ~InHeap(x.id) /\ ~Executing(x.id)' /\ x.id \in used
      BY <2>0, <3>1, <3>2 DEF OnePlace
    <3>4. OnePlace'
      BY <2>0, <3>1, <3>3 DEF OnePlace, PushesKept, RunsKept, OneItem, InHeap, Pending
    <3>5. FirstRuns'
      BY <2>0, <3>1, <3>3 DEF FirstRuns, PushesKept, InHeap
    <3>6. QED
      BY <3>4, <3>5 DEF Placed
  <2>6. QED
    BY <2>1, <2>2, <2>3, <2>4, <2>5, QuietSteps
<1>3. QED
  BY <1>1, <1>2, TypeCorrect, QuitComesLast, PTL DEF Spec

\* A function of at() that is still pending has not been started, whatever
\* nested rounds of execAllRetired() run meanwhile (scheduler.h).
THEOREM OneShots == Spec => []OneShotRunsOnce
<1>1. Typed /\ Placed => OneShotRunsOnce
  BY DEF Typed, TypeOK, Item, Placed, FirstRuns, OneShotRunsOnce
<1>2. QED
  BY <1>1, TypeCorrect, PlacedHolds, PTL

\* What executes, in the words of the properties.
LEMMA RunningExecutes ==
  ASSUME Typed, NEW i \in Ids
  PROVE  i \in Running <=> Executing(i)
  BY NamesAssumption DEF Running, Executing, Executes, Typed, TypeOK, Depth

\* Nothing starts from the heap before its time, although execAllRetired() works
\* with a time read before (scheduler.h).
THEOREM StartsInTime == Spec => NeverEarly
<1>1. ASSUME Typed, Typed', NothingBehindQuit, Placed, [Next]_vars,
             NEW x \in items, x.id \in Running' \ Running
      PROVE  x.tp <= clock
  <2>1. x.id \in Ids
    BY <1>1 DEF Typed, TypeOK, Item
  <2>2. Executing(x.id)' /\ ~Executing(x.id)
    BY <1>1, <2>1, RunningExecutes DEF Running, Executing, Executes, Typed, TypeOK, Depth
  <2>3. ~RunsKept(x.id)
    BY <2>2 DEF RunsKept
  <2>4. Retire
    BY <1>1, <2>1, <2>3, QuietSteps, ScheduleMoves, ReceivePushMoves, ReturnMoves DEF Quiet
  <2>5. PICK y \in items : y.tp <= clock /\ \A j \in Ids : j # y.id => RunsKept(j)
    BY <1>1, <2>4, RetireMoves
  <2>6. y.id = x.id
    BY <2>1, <2>3, <2>5
  <2>7. y = x
    BY <1>1, <2>1, <2>6 DEF Placed, OnePlace, OneItem
  <2>8. QED
    BY <2>5, <2>7
<1>2. Typed /\ Typed' /\ NothingBehindQuit /\ Placed /\ [Next]_vars
        => [\A x \in items : x.id \in Running' \ Running => x.tp <= clock]_vars
  BY <1>1
<1>3. QED
  BY <1>2, TypeCorrect, QuitComesLast, PlacedHolds, PTL DEF Spec, NeverEarly

-----------------------------------------------------------------------------
(* What remove() asks for. *)

\* A step that receives no message appends some: a function that is new, the
\* removal of one that was handed in and not yet asked for, a probe.
Grown ==
  /\ Len(msgs) \in Nat /\ DOMAIN msgs \subseteq DOMAIN msgs'
  /\ \A k \in DOMAIN msgs : k \in Nat /\ k <= Len(msgs) /\ msgs'[k] = msgs[k]
  /\ \A k \in DOMAIN msgs' \ DOMAIN msgs :
       /\ k \in Nat /\ k > Len(msgs)
       /\ msgs'[k].op = "push" => msgs'[k].item.id \notin used
       /\ msgs'[k].op = "remove" =>
            msgs'[k].id \in used /\ \A c \in Clients : msgs'[k].id \notin asked[c]

LEMMA PostGrows ==
  ASSUME Typed, NEW m \in Msg, msgs' = Append(msgs, m),
         m.op = "push" => m.item.id \notin used,
         m.op = "remove" => m.id \in used /\ \A c \in Clients : m.id \notin asked[c]
  PROVE  Grown
<1>1. /\ msgs' \in Seq(Msg) /\ Len(msgs) \in Nat /\ Len(msgs') = Len(msgs) + 1
      /\ DOMAIN msgs' = DOMAIN msgs \cup {Len(msgs')} /\ msgs'[Len(msgs')] = m
      /\ \A k \in DOMAIN msgs : msgs'[k] = msgs[k] /\ k \in Nat /\ k < Len(msgs')
  BY Posting DEF Typed, TypeOK
<1>2. QED
  BY <1>1 DEF Grown

LEMMA ReleaseGrows ==
  ASSUME Typed, NEW c, NEW m, Release(c, m), m = msgs \/ m = Append(msgs, [op |-> "removeAll"])
  PROVE  Grown
<1>0. msgs \in Seq(Msg)
  BY DEF Typed, TypeOK
<1>1. /\ m \in Seq(Msg) /\ DOMAIN msgs \subseteq DOMAIN m /\ Len(msgs) <= Len(m)
      /\ \A k \in DOMAIN m : k \in Nat /\
           IF k \in DOMAIN msgs THEN m[k] = msgs[k] /\ k <= Len(msgs)
                                ELSE m[k].op = "removeAll" /\ k > Len(msgs)
  <2>1. CASE m = msgs
    BY <1>0, <2>1
  <2>2. CASE m = Append(msgs, [op |-> "removeAll"])
    <3>1. /\ m \in Seq(Msg) /\ DOMAIN m = DOMAIN msgs \cup {Len(msgs) + 1}
          /\ Len(m) = Len(msgs) + 1 /\ Len(msgs) \in Nat
          /\ m[Len(msgs) + 1] = [op |-> "removeAll"]
          /\ \A k \in DOMAIN msgs : m[k] = msgs[k] /\ k \in Nat /\ k < Len(msgs) + 1
      BY <1>0, <2>2, Messages, Appended
    <3>2. QED
      BY <3>1
  <2>3. QED
    BY <2>1, <2>2
<1>2. CASE msgs' = m
  BY <1>0, <1>1, <1>2 DEF Grown
<1>3. CASE msgs' = Append(m, [op |-> "quit"])
  <2>1. /\ msgs' \in Seq(Msg) /\ DOMAIN msgs' = DOMAIN m \cup {Len(m) + 1} /\ Len(m) \in Nat
        /\ msgs'[Len(m) + 1] = [op |-> "quit"] /\ \A k \in DOMAIN m : msgs'[k] = m[k]
    BY <1>1, <1>3, Messages, Appended
  <2>2. QED
    BY <1>0, <1>1, <2>1 DEF Grown
<1>4. QED
  BY <1>1, <1>2, <1>3 DEF Release

LEMMA SameGrows ==
  ASSUME Typed, msgs' = msgs
  PROVE  Grown
  BY DEF Grown, Typed, TypeOK

LEMMA UseGrows ==
  ASSUME Typed, NEW c \in Clients, Use(c)
  PROVE  Grown
<1>1. CASE Schedule(c)
  <2>1. PICK i \in Ids \ used, interval \in Intervals, tp \in clock..MaxTime :
           Post([op |-> "push", item |-> [id |-> i, tp |-> tp, interval |-> interval]])
    BY <1>1 DEF Schedule
  <2>2. [id |-> i, tp |-> tp, interval |-> interval] \in Item
    BY IntervalsAssumption, TimeAssumption DEF Item, Typed, TypeOK
  <2>3. QED
    BY <2>1, <2>2, Messages, PostGrows DEF Post
<1>2. CASE Immediate(c) \/ Remove(c) \/ SyncPost(c)
  BY <1>2, Messages, PostGrows DEF Immediate, Remove, SyncPost, Post
<1>3. CASE Drop(c) \/ Clear(c)
  BY <1>3, ReleaseGrows DEF Drop, Clear
<1>4. CASE SyncReturn(c) \/ \E d \in Clients : Share(c, d)
  BY <1>4, SameGrows DEF SyncReturn, Share
<1>5. QED
  BY <1>1, <1>2, <1>3, <1>4 DEF Use

LEMMA MessageSteps ==
  ASSUME Typed, NothingBehindQuit, [Next]_vars
  PROVE  Grown \/ \E op : Receive(op)
<1>1. CASE \E c \in Clients : Use(c)
  BY <1>1, UseGrows
<1>2. CASE YieldQuit
  BY <1>2, YieldQuitKeeps, SameGrows
<1>3. CASE \/ YieldDrained \/ Timeout \/ Retire \/ Retired \/ FunctionReturns
           \/ Yield \/ Tick \/ UNCHANGED vars
  BY <1>3, SameGrows DEF YieldDrained, Timeout, Retire, Retired, FunctionReturns, Yield, Tick, vars
<1>4. QED
  BY <1>1, <1>2, <1>3 DEF Next, Thread, ReceivePush, ReceiveRemove, ReceiveRemoveAll, ReceiveSync,
     ReceiveImmediate, ReceiveQuit

\* used only grows; it grows by what is posted.
LEMMA UsedGrows ==
  ASSUME [Next]_vars
  PROVE  used \subseteq used'
  BY DEF Next, Use, Thread, Schedule, Immediate, Remove, Drop, Clear, Share, SyncPost, SyncReturn,
     ReceivePush, ReceiveRemove, ReceiveRemoveAll, ReceiveSync, ReceiveImmediate, ReceiveQuit,
     YieldQuit, YieldDrained, Timeout, Retire, Retired, FunctionReturns, Yield, Tick, vars

\* A request to remove a function comes after that function, and only what was
\* handed in is answered.
Requests == \A i \in Ids : RemovedAfterPush(i) /\ (answer[i] # "none" => i \in used)

LEMMA RequestsHold == Spec => []Requests
<1>1. Init => Requests
  BY DEF Init, Requests, RemovedAfterPush
<1>2. Typed /\ NothingBehindQuit /\ Requests /\ [Next]_vars => Requests'
  <2> SUFFICES ASSUME Typed, NothingBehindQuit, Requests, [Next]_vars, NEW i \in Ids
               PROVE  RemovedAfterPush(i)' /\ (answer[i] # "none" => i \in used)'
    BY DEF Requests
  <2>1. RemovedAfterPush(i) /\ (answer[i] # "none" => i \in used) /\ used \subseteq used'
    BY UsedGrows DEF Requests
  <2>2. RemovedAfterPush(i)'
    <3>1. CASE Grown
      <4>1. ASSUME NEW k \in DOMAIN msgs', RemoveAt(k, i)'
            PROVE  i \in used /\ \A j \in DOMAIN msgs' : PushedAt(j, i)' => j < k
        <5>1. i \in used
          BY <2>1, <3>1, <4>1 DEF Grown, RemovedAfterPush, RemoveAt
        <5>2. ASSUME NEW j \in DOMAIN msgs', PushedAt(j, i)'
              PROVE  j < k
          <6>1. j \in DOMAIN msgs /\ PushedAt(j, i) /\ j \in Nat /\ j <= Len(msgs)
            BY <3>1, <5>1, <5>2 DEF Grown, PushedAt
          <6>2. CASE k \in DOMAIN msgs
            BY <2>1, <3>1, <4>1, <6>1, <6>2 DEF Grown, RemovedAfterPush, RemoveAt
          <6>3. CASE k \notin DOMAIN msgs
            BY <3>1, <6>1, <6>3 DEF Grown
          <6>4. QED
            BY <6>2, <6>3
        <5>3. QED
          BY <5>1, <5>2
      <4>2. QED
        BY <2>1, <4>1 DEF RemovedAfterPush
    <3>2. ASSUME NEW op, Receive(op)
          PROVE  RemovedAfterPush(i)'
      <4>1. \A k \in DOMAIN msgs' :
              k + 1 \in DOMAIN msgs /\ k \in Nat /\ msgs'[k] = msgs[k + 1]
        BY <3>2, Receiving DEF Typed, TypeOK
      <4>2. ASSUME NEW k \in DOMAIN msgs', RemoveAt(k, i)'
            PROVE  i \in used /\ \A j \in DOMAIN msgs' : PushedAt(j, i)' => j < k
        <5>1. RemoveAt(k + 1, i)
          BY <4>1, <4>2 DEF RemoveAt
        <5>2. i \in used
          BY <2>1, <4>1, <5>1 DEF RemovedAfterPush
        <5>3. ASSUME NEW j \in DOMAIN msgs', PushedAt(j, i)'
              PROVE  j < k
          <6>1. PushedAt(j + 1, i)
            BY <4>1, <5>3 DEF PushedAt
          <6>2. j + 1 < k + 1
            BY <2>1, <4>1, <5>1, <6>1 DEF RemovedAfterPush
          <6>3. QED
            BY <4>1, <6>2
        <5>4. QED
          BY <5>2, <5>3
      <4>3. QED
        BY <2>1, <4>2 DEF RemovedAfterPush
    <3>3. QED
      BY <3>1, <3>2, MessageSteps
  <2>3. CASE ReceiveRemove
    <3>1. Receive("remove") /\ \A j \in Ids : answer'[j] # answer[j] => j = Head(msgs).id
      BY <2>3 DEF ReceiveRemove, Typed, TypeOK
    <3>2. 1 \in DOMAIN msgs /\ (Head(msgs).id = i => RemoveAt(1, i))
      BY <3>1, Receiving DEF RemoveAt, Typed, TypeOK
    <3>3. QED
      BY <2>1, <2>2, <3>1, <3>2 DEF RemovedAfterPush
  <2>4. CASE ~ReceiveRemove
    <3>1. answer' = answer
      BY <2>4 DEF Next, Use, Thread, Schedule, Immediate, Remove, Drop, Clear, Share, SyncPost,
         SyncReturn, ReceivePush, ReceiveRemoveAll, ReceiveSync, ReceiveImmediate, ReceiveQuit,
         YieldQuit, YieldDrained, Timeout, Retire, Retired, FunctionReturns, Yield, Tick, vars
    <3>2. QED
      BY <2>1, <2>2, <3>1
  <2>5. QED
    BY <2>3, <2>4
<1>3. QED
  BY <1>1, <1>2, TypeCorrect, QuitComesLast, PTL DEF Spec

-----------------------------------------------------------------------------
\* What was removed is gone for good.
Gone(i) == ~Pending(i) /\ ~Executing(i)

LEMMA GoneStays ==
  ASSUME Typed, NothingBehindQuit, [Next]_vars, NEW i \in used \cap Ids, Gone(i)
  PROVE  Gone(i)'
<1>0. ~Posted(i) /\ ~InHeap(i) /\ ~Executing(i)
  BY DEF Gone, Pending
<1>1. CASE Quiet
  BY <1>0, <1>1 DEF Quiet, PushesKept, RunsKept, Gone, Pending, InHeap
<1>2. ASSUME NEW c \in Clients, Schedule(c)
      PROVE  Gone(i)'
  BY <1>0, <1>2, ScheduleMoves DEF PushesKept, RunsKept, Gone, Pending, InHeap
<1>3. CASE ReceivePush
  BY <1>0, <1>3, ReceivePushMoves DEF PushesKept, RunsKept, Gone, Pending, InHeap
<1>4. CASE Retire
  BY <1>0, <1>4, RetireMoves DEF PushesKept, RunsKept, Gone, Pending, InHeap
<1>5. CASE FunctionReturns /\ Top.mode = "retire"
  BY <1>0, <1>5, ReturnMoves DEF PushesKept, RunsKept, Gone, Pending, InHeap
<1>6. QED
  BY <1>1, <1>2, <1>3, <1>4, <1>5, QuietSteps

\* remove() that reported success is final (scheduler.h, remove).
THEOREM RemoveIsFinal == Spec => []RemovedForGood
<1> DEFINE Inv == \A i \in Ids : answer[i] = "true" => Gone(i)
<1>1. Init => Inv
  BY DEF Init
<1>2. Typed /\ NothingBehindQuit /\ Placed /\ Requests /\ Inv /\ [Next]_vars => Inv'
  <2> SUFFICES ASSUME Typed, NothingBehindQuit, Placed, Requests, Inv, [Next]_vars,
                      NEW i \in Ids, answer'[i] = "true"
               PROVE  Gone(i)'
    OBVIOUS
  <2>1. CASE answer[i] = "true"
    BY <2>1, GoneStays DEF Requests
  <2>2. CASE answer[i] # "true"
    <3>1. ReceiveRemove
      BY <2>2 DEF Next, Use, Thread, Schedule, Immediate, Remove, Drop, Clear, Share, SyncPost,
         SyncReturn, ReceivePush, ReceiveRemoveAll, ReceiveSync, ReceiveImmediate, ReceiveQuit,
         YieldQuit, YieldDrained, Timeout, Retire, Retired, FunctionReturns, Yield, Tick, vars
    <3>2. Head(msgs).id = i /\ Found(i) /\ items' = {x \in items : x.id # i}
      BY <2>2, <3>1 DEF ReceiveRemove, Typed, TypeOK
    <3>3. ~Posted(i) /\ ~Executing(i)
      BY <3>2 DEF Placed, OnePlace, Found, InHeap
    <3>4. PushesKept(i)
      BY <3>1, ReceivePushes DEF ReceiveRemove, Typed, TypeOK
    <3>5. RunsKept(i)
      BY <3>1, PumpedTyped, Receiving, IdleTop, TimeAssumption DEF ReceiveRemove, Typed, TypeOK
    <3>6. QED
      BY <3>2, <3>3, <3>4, <3>5 DEF Gone, Pending, InHeap, PushesKept, RunsKept
  <2>3. QED
    BY <2>1, <2>2
<1>3. Typed /\ Inv => RemovedForGood
  BY RunningExecutes DEF RemovedForGood, Gone
<1>4. QED
  BY <1>1, <1>2, <1>3, TypeCorrect, QuitComesLast, PlacedHolds, RequestsHold, PTL DEF Spec

-----------------------------------------------------------------------------
(* The barrier: remove() and then sync(). *)

\* A function of at() that left for its only run, and one whose run is over.
LEMMA OverStays ==
  ASSUME Typed, NothingBehindQuit, [Next]_vars, NEW i \in used \cap Ids, Unpending(i)
  PROVE  Unpending(i)' /\ (Repeats(i) => Repeats(i)')
<1>0. ~Posted(i) /\ \A x \in items : x.id = i => x.interval # 0
  BY DEF Unpending
<1>1. CASE Quiet
  BY <1>0, <1>1 DEF Quiet, PushesKept, RunsKept, Unpending
<1>2. ASSUME NEW c \in Clients, Schedule(c)
      PROVE  Unpending(i)' /\ (Repeats(i) => Repeats(i)')
  BY <1>0, <1>2, ScheduleMoves DEF PushesKept, RunsKept, Unpending
<1>3. CASE ReceivePush
  BY <1>0, <1>3, ReceivePushMoves DEF PushesKept, RunsKept, Unpending
<1>4. CASE Retire
  BY <1>0, <1>4, RetireMoves DEF PushesKept, RunsKept, Unpending
<1>5. CASE FunctionReturns /\ Top.mode = "retire"
  BY <1>0, <1>5, ReturnMoves DEF PushesKept, RunsKept, Unpending
<1>6. QED
  BY <1>1, <1>2, <1>3, <1>4, <1>5, QuietSteps

\* A request to remove a function waits among the messages or has been done.
Asked(i) == (\E k \in DOMAIN msgs : RemoveAt(k, i)) \/ Unpending(i)

LEMMA AskedStays ==
  ASSUME Typed, NothingBehindQuit, Requests, [Next]_vars, NEW i \in used \cap Ids, Asked(i)
  PROVE  Asked(i)'
<1>1. CASE Unpending(i)
  BY <1>1, OverStays DEF Asked
<1>2. ASSUME NEW k \in DOMAIN msgs, RemoveAt(k, i)
      PROVE  Asked(i)'
  <2>1. CASE Grown
    BY <1>2, <2>1 DEF Grown, Asked, RemoveAt
  <2>2. ASSUME NEW op, Receive(op), k # 1
        PROVE  Asked(i)'
    <3>1. k - 1 \in DOMAIN msgs' /\ msgs'[k - 1] = msgs[k]
      BY <2>2, Receiving DEF Typed, TypeOK
    <3>2. RemoveAt(k - 1, i)'
      BY <1>2, <3>1 DEF RemoveAt
    <3>3. QED
      BY <3>1, <3>2 DEF Asked
  <2>3. ASSUME NEW op, Receive(op), k = 1
        PROVE  Asked(i)'
    <3>1. /\ op = "remove" /\ Head(msgs) = msgs[1] /\ msgs[1].id = i
          /\ \A j \in DOMAIN msgs : j \in Nat /\ j # 0
          /\ DOMAIN msgs = 1..Len(msgs)
      BY <1>2, <2>3, Receiving DEF RemoveAt, Typed, TypeOK
    <3>2. ReceiveRemove
      <4>1. Depth > 0 /\ Top.fn = None /\ Top.mode = "pump" /\ msgs # <<>> /\ msgs' = Tail(msgs)
            /\ Head(msgs).op = "remove"
        BY <2>3, <3>1 DEF Receive, Pumping
      <4>2. ~(Nested /\ Head(msgs).op = "quit") /\ ~Retiring /\ ~InFunction
        BY <4>1 DEF Retiring, InFunction
      <4>3. msgs' # msgs
        BY <2>3, Receiving DEF Typed, TypeOK
      <4>4. ASSUME NEW c \in Clients, Use(c)
            PROVE  FALSE
        <5>1. Grown
          BY <4>4, UseGrows
        <5>2. Len(msgs') = Len(msgs) - 1 /\ Len(msgs) \in Nat \ {0} /\ msgs' \in Seq(Msg)
              /\ Len(msgs) \in DOMAIN msgs
          BY <2>3, <4>1, Removed DEF Typed, TypeOK
        <5>3. Len(msgs) \in DOMAIN msgs'
          BY <5>1, <5>2 DEF Grown
        <5>4. QED
          BY <5>2, <5>3
      <4>5. QED
        BY <4>1, <4>2, <4>3, <4>4 DEF Next, Thread, ReceivePush, ReceiveRemoveAll, ReceiveSync,
           ReceiveImmediate, ReceiveQuit, Receive, YieldQuit, YieldDrained, Timeout, Retire, Retired,
           FunctionReturns, Yield, Tick, vars
    <3>3. items' = {x \in items : x.id # i}
      BY <3>1, <3>2 DEF ReceiveRemove
    <3>4. ~Posted(i)
      BY <1>2, <2>3, <3>1 DEF Requests, RemovedAfterPush, Posted, PushedAt
    <3>5. ~Posted(i)'
      BY <2>3, <3>4, ReceivePushes DEF PushesKept, Typed, TypeOK
    <3>6. QED
      BY <3>3, <3>5 DEF Asked, Unpending
  <2>4. QED
    BY <2>1, <2>2, <2>3, MessageSteps
<1>3. QED
  BY <1>1, <1>2 DEF Asked

\* A request comes before the next probe of the same client.
LEMMA ProbeStays ==
  ASSUME Typed, NothingBehindQuit, [Next]_vars, NEW c \in Clients, NEW i \in asked[c],
         RemovedBeforeProbe(c, i)
  PROVE  RemovedBeforeProbe(c, i)'
<1> SUFFICES ASSUME NEW j \in DOMAIN msgs', NEW k \in DOMAIN msgs', msgs'[j].op = "sync",
                    msgs'[j].by = c, RemoveAt(k, i)'
             PROVE  k < j
  BY DEF RemovedBeforeProbe
<1>1. CASE Grown
  <2>1. k \in DOMAIN msgs /\ RemoveAt(k, i) /\ k \in Nat /\ k <= Len(msgs)
    BY <1>1 DEF Grown, RemoveAt
  <2>2. CASE j \in DOMAIN msgs
    BY <1>1, <2>1, <2>2 DEF Grown, RemovedBeforeProbe
  <2>3. CASE j \notin DOMAIN msgs
    BY <1>1, <2>1, <2>3 DEF Grown
  <2>4. QED
    BY <2>2, <2>3
<1>2. ASSUME NEW op, Receive(op)
      PROVE  k < j
  <2>1. /\ k + 1 \in DOMAIN msgs /\ k \in Nat /\ msgs'[k] = msgs[k + 1]
        /\ j + 1 \in DOMAIN msgs /\ j \in Nat /\ msgs'[j] = msgs[j + 1]
    BY <1>2, Receiving DEF Typed, TypeOK
  <2>2. RemoveAt(k + 1, i)
    BY <2>1 DEF RemoveAt
  <2>3. k + 1 < j + 1
    BY <2>1, <2>2 DEF RemovedBeforeProbe
  <2>4. QED
    BY <2>1, <2>3
<1>3. QED
  BY <1>1, <1>2, MessageSteps

\* What a client asked to be removed, and what it knows when its probe is done.
Barrier ==
  /\ \A c \in Clients : \A i \in asked[c] :
       /\ i \in used /\ Asked(i) /\ RemovedBeforeProbe(c, i)
       /\ calls[c] = "done" => Over(i)
  /\ \A i \in settled : i \in used /\ Over(i)

LEMMA BarrierHolds == Spec => []Barrier
<1>1. Init => Barrier
  BY DEF Init, Barrier
<1>2. Typed /\ Ending /\ Requests /\ Barrier /\ [Next]_vars => Barrier'
  <2> SUFFICES ASSUME Typed, Ending, Requests, Barrier, [Next]_vars
               PROVE  Barrier'
    OBVIOUS
  <2>0. NothingBehindQuit /\ Callers /\ used \subseteq used' /\ settled \subseteq Ids
        /\ asked \in [Clients -> SUBSET Ids] /\ calls \in [Clients -> {"none", "sync", "nested", "done"}]
    BY UsedGrows DEF Ending, Typed, TypeOK
  <2>1. ASSUME NEW i \in used \cap Ids, Over(i)
        PROVE  Over(i)'
    BY <2>0, <2>1, OverStays DEF Over
  <2>2. ASSUME NEW c \in Clients, NEW i \in asked[c]
        PROVE  i \in used' /\ Asked(i)' /\ RemovedBeforeProbe(c, i)' /\ (calls[c] = "done" => Over(i)')
    <3>1. i \in Ids /\ i \in used /\ Asked(i) /\ RemovedBeforeProbe(c, i) /\ (calls[c] = "done" => Over(i))
      BY <2>0 DEF Barrier
    <3>2. QED
      BY <2>0, <2>1, <3>1, AskedStays, ProbeStays
  <2>3. \A i \in settled : i \in used' /\ Over(i)'
    BY <2>0, <2>1 DEF Barrier
  <2>4. ASSUME NEW c \in Clients, Remove(c)
        PROVE  Barrier'
    <3>1. PICK i \in Ids \cap used :
             /\ Post([op |-> "remove", id |-> i])
             /\ asked' = [asked EXCEPT ![c] = @ \cup {i}]
      BY <2>4 DEF Remove
    <3>2. calls[c] = "none" /\ UNCHANGED <<calls, settled, used, items, stack>>
      BY <2>4 DEF Remove, CanCall
    <3>3. PICK n : /\ DOMAIN msgs' = DOMAIN msgs \cup {n}
                   /\ msgs'[n] = [op |-> "remove", id |-> i]
                   /\ \A k \in DOMAIN msgs : msgs'[k] = msgs[k]
      BY <3>1, Messages, Posting DEF Post, Typed, TypeOK
    <3>4. Asked(i)'
      <4>1. RemoveAt(n, i)'
        BY <3>3 DEF RemoveAt
      <4>2. QED
        BY <3>3, <4>1 DEF Asked
    <3>5. RemovedBeforeProbe(c, i)'
      <4>1. \A j \in DOMAIN msgs' : msgs'[j].op = "sync" => j \in DOMAIN msgs
        BY <3>3
      <4>2. \A j \in DOMAIN msgs : msgs[j].op = "sync" => msgs[j].by # c
        BY <2>0, <3>2 DEF Callers
      <4>3. \A j \in DOMAIN msgs' : msgs'[j].op = "sync" => msgs'[j].by # c
        BY <3>3, <4>1, <4>2
      <4>4. QED
        BY <4>3 DEF RemovedBeforeProbe
    <3>6. ASSUME NEW d \in Clients, NEW j \in asked'[d]
          PROVE  (d = c /\ j = i) \/ j \in asked[d]
      BY <2>0, <3>1
    <3>7. QED
      BY <2>2, <2>3, <3>1, <3>2, <3>4, <3>5, <3>6 DEF Barrier
  <2>5. CASE ReceiveSync
    <3>1. /\ Receive("sync") /\ calls' = [calls EXCEPT ![Head(msgs).by] = ProbeAnswer]
          /\ UNCHANGED <<items, used, asked, settled>>
      BY <2>5 DEF ReceiveSync
    <3>2. /\ Depth > 0 /\ Top.fn = None /\ Head(msgs) = msgs[1] /\ msgs[1].op = "sync"
          /\ 1 \in DOMAIN msgs /\ \A k \in DOMAIN msgs : k \in Nat /\ k # 0
      BY <3>1, Receiving DEF Typed, TypeOK
    <3>3. ASSUME NEW c \in Clients, NEW i \in asked[c], calls'[c] = "done", calls[c] # "done"
          PROVE  Over(i)
      <4>1. msgs[1].by = c /\ ~Nested
        BY <2>0, <3>1, <3>2, <3>3 DEF ProbeAnswer
      <4>2. ~ \E k \in DOMAIN msgs : RemoveAt(k, i)
        BY <3>2, <3>3, <4>1 DEF Barrier, RemovedBeforeProbe
      <4>3. Unpending(i)
        BY <3>3, <4>2 DEF Barrier, Asked
      <4>4. \A k \in DOMAIN stack : k = Depth
        BY <3>2, <4>1 DEF Nested, Depth, Typed, TypeOK
      <4>5. Repeats(i)
        BY <2>0, <3>2, <3>3, <4>4, NamesAssumption DEF Repeats, Executes, Top
      <4>6. QED
        BY <4>3, <4>5 DEF Over
    <3>4. ASSUME NEW c \in Clients, NEW i \in asked[c], calls'[c] = "done"
          PROVE  Over(i)'
      <4>1. i \in used \cap Ids
        BY <2>0 DEF Barrier
      <4>2. Over(i)
        BY <3>3, <3>4 DEF Barrier
      <4>3. QED
        BY <2>1, <4>1, <4>2
    <3>5. QED
      BY <2>2, <2>3, <3>1, <3>4 DEF Barrier
  <2>6. ASSUME NEW c \in Clients, SyncReturn(c)
        PROVE  Barrier'
    <3>1. /\ calls[c] = "done" /\ calls' = [calls EXCEPT ![c] = "none"]
          /\ settled' = settled \cup asked[c] /\ UNCHANGED <<asked, used>>
      BY <2>6 DEF SyncReturn
    <3>2. \A d \in Clients : calls'[d] = "done" => calls[d] = "done"
      BY <2>0, <3>1
    <3>3. QED
      BY <2>2, <2>3, <3>1, <3>2 DEF Barrier
  <2>7. ASSUME UNCHANGED <<asked, settled>>, \A c \in Clients : calls'[c] = "done" => calls[c] = "done"
        PROVE  Barrier'
    BY <2>2, <2>3, <2>7 DEF Barrier
  <2>8. ASSUME NEW c \in Clients, SyncPost(c)
        PROVE  Barrier'
    <3>1. UNCHANGED <<asked, settled>> /\ calls' = [calls EXCEPT ![c] = "sync"]
      BY <2>8 DEF SyncPost
    <3>2. \A d \in Clients : calls'[d] = "done" => calls[d] = "done"
      BY <2>0, <3>1
    <3>3. QED
      BY <2>7, <3>1, <3>2
  <2>9. \/ \E c \in Clients : Remove(c) \/ SyncReturn(c) \/ SyncPost(c)
        \/ ReceiveSync
        \/ UNCHANGED <<asked, settled, calls>>
    BY DEF Next, Use, Thread, Schedule, Immediate, Drop, Clear, Share, ReceivePush, ReceiveRemove,
       ReceiveRemoveAll, ReceiveImmediate, ReceiveQuit, YieldQuit, YieldDrained, Timeout, Retire,
       Retired, FunctionReturns, Yield, Tick, vars
  <2>10. QED
    BY <2>4, <2>5, <2>6, <2>7, <2>8, <2>9
<1>3. QED
  BY <1>1, <1>2, TypeCorrect, EndingHolds, RequestsHold, PTL DEF Spec

\* remove() and then sync() by the same client: a function of at() is neither
\* pending nor executing afterwards (scheduler.h, sync).
THEOREM SyncIsBarrier == Spec => []SyncSettlesOneShots
<1>1. Typed /\ Barrier => SyncSettlesOneShots
  <2> SUFFICES ASSUME Typed, Barrier, NEW i \in settled
               PROVE  /\ ~ \E x \in items : x.id = i /\ x.interval = 0
                      /\ ~ \E k \in 1..Depth : stack[k].fn = i /\ stack[k].interval = 0
    BY DEF SyncSettlesOneShots
  <2>1. Unpending(i) /\ Repeats(i) /\ DOMAIN stack = 1..Depth
    BY DEF Barrier, Over, Typed, TypeOK, Depth
  <2>2. QED
    BY <2>1 DEF Unpending, Repeats, Executes
<1>2. QED
  BY <1>1, TypeCorrect, BarrierHolds, PTL

\* The inductive invariant as a whole, which the runs check on small instances.
THEOREM SchedulerInvariant == Spec => []IInv
<1>1. Typed /\ Ending /\ Placed /\ RemovedForGood /\ Requests /\ Barrier => IInv
  BY DEF Typed, Ending, Placed, Requests, Barrier, Asked, IInv, Removals
<1>2. QED
  BY <1>1, TypeCorrect, EndingHolds, PlacedHolds, RemoveIsFinal, RequestsHold, BarrierHolds, PTL
=============================================================================
