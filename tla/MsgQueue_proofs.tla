-------------------------- MODULE MsgQueue_proofs --------------------------
(* Type correctness of MsgQueue, and that it never loses a wakeup. *)
EXTENDS MsgQueue, SequenceTheorems, FiniteSetTheorems, TLAPS

\* What is owed stays between nothing and the whole queue.
LEMMA OweBounded ==
  ASSUME NEW s \in Nat, Owe(s), queue' \in Seq(Msgs)
  PROVE  silent' \in 0..Len(queue')
BY DEF Owe

\* A modification owes for what it adds beyond the first message.
LEMMA SurplusType ==
  ASSUME queue \in Seq(Msgs), queue' \in Seq(Msgs)
  PROVE  /\ Surplus \in Nat
         /\ Len(queue') <= Len(queue) + 1 + Surplus
<1>1. Len(queue) \in Nat /\ Len(queue') \in Nat
  OBVIOUS
<1>2. CASE Len(queue') > Len(queue)
  <2>1. Surplus = Len(queue') - Len(queue) - 1
    BY <1>2 DEF Surplus
  <2>2. QED
    BY <1>1, <1>2, <2>1
<1>3. CASE ~(Len(queue') > Len(queue))
  <2>1. Surplus = 0
    BY <1>3 DEF Surplus
  <2>2. QED
    BY <1>1, <1>3, <2>1
<1>4. QED
  BY <1>2, <1>3

\* fn leaves a queue of messages.
LEMMA ModifyQueueType ==
  ASSUME ModifyQueue
  PROVE  queue' \in Seq(Msgs)
<1>1. PICK n \in 0..MaxLen : queue' \in [1..n -> Msgs]
  BY DEF ModifyQueue
<1>2. QED
  BY <1>1, BoundsAssumption

\* The queue, the wait set, the calls and the debt keep their types in every
\* step.
THEOREM TypeCorrect == Spec => []TypeOK
<1>1. Init => TypeOK
  BY DEF Init, TypeOK, Calls
<1>2. TypeOK /\ [Next]_vars => TypeOK'
  <2> SUFFICES ASSUME TypeOK, [Next]_vars
               PROVE  TypeOK'
    OBVIOUS
  <2> USE DEF TypeOK, Calls
  <2>0. silent \in Nat
    OBVIOUS
  <2>1. CASE Producer
    <3>1. ASSUME NEW m \in Msgs, Push(m), UNCHANGED call, Owe(silent)
          PROVE  TypeOK'
      <4>1. queue' \in Seq(Msgs)
        BY <3>1 DEF Push
      <4>2. QED
        BY <3>1, <4>1, <2>0, OweBounded DEF Push, Notify
    <3>2. CASE (TryPump \/ Clear) /\ UNCHANGED call /\ Owe(silent)
      <4>1. queue' \in Seq(Msgs)
        <5>1. CASE TryPump
          BY <5>1 DEF TryPump
        <5>2. CASE Clear
          BY <5>2 DEF Clear
        <5>3. QED
          BY <3>2, <5>1, <5>2
      <4>2. QED
        BY <3>2, <4>1, <2>0, OweBounded DEF TryPump, Clear
    <3>3. CASE ModifyQueue /\ UNCHANGED call /\ Owe(silent + Surplus)
      <4>1. silent + Surplus \in Nat /\ queue' \in Seq(Msgs)
        BY <3>3, <2>0, ModifyQueueType, SurplusType
      <4>2. silent' \in 0..Len(queue')
        BY <3>3, <4>1, OweBounded
      <4>3. QED
        BY <3>3, <4>1, <4>2 DEF ModifyQueue, Notify
    <3>4. QED
      BY <2>1, <3>1, <3>2, <3>3 DEF Producer
  <2>2. ASSUME NEW a \in Actors, Consumer(a)
        PROVE  TypeOK'
    <3>1. CASE Enter(a)
      BY <3>1 DEF Enter
    <3>2. CASE Block(a)
      BY <3>2, <2>0, OweBounded DEF Block, Sleep
    <3>3. CASE Return(a)
      <4>1. queue' \in Seq(Msgs)
        BY <3>3 DEF Return, Take
      <4>2. QED
        BY <3>3, <4>1, <2>0, OweBounded DEF Return, Take
    <3>4. CASE Spurious(a)
      BY <3>4, <2>0, OweBounded DEF Spurious
    <3>5. CASE Expire(a)
      BY <3>5, <2>0, OweBounded DEF Expire
    <3>6. CASE GiveUp(a)
      BY <3>6 DEF GiveUp
    <3>7. QED
      BY <2>2, <3>1, <3>2, <3>3, <3>4, <3>5, <3>6 DEF Consumer
  <2>3. CASE UNCHANGED vars
    BY <2>3 DEF vars
  <2>4. QED
    BY <2>1, <2>2, <2>3 DEF Next
<1>3. QED
  BY <1>1, <1>2, PTL DEF Spec

-----------------------------------------------------------------------------
\* The awake callers can be counted.
LEMMA AwakeFinite ==
  /\ IsFiniteSet(Awake)
  /\ Cardinality(Awake) \in Nat
<1>1. Awake \subseteq Actors
  BY DEF Awake
<1>2. QED
  BY <1>1, ActorsAssumption, FS_Subset, FS_CardinalityType

\* Adding an awake caller makes room for one more message.
LEMMA OneMoreAwake ==
  ASSUME NEW A, IsFiniteSet(A), NEW a, a \notin A
  PROVE  Cardinality(A \cup {a}) = Cardinality(A) + 1
  BY FS_AddElement

LEMMA OneLessAwake ==
  ASSUME NEW A, IsFiniteSet(A), NEW a \in A
  PROVE  Cardinality(A \ {a}) = Cardinality(A) - 1
  BY FS_RemoveElement

\* The arithmetic of a step: what is owed counts for the sleepers that are left.
LEMMA Covered ==
  ASSUME NEW s \in Nat, Owe(s), queue' \in Seq(Msgs), Cardinality(Awake') \in Nat,
         waiting' # {} => Len(queue') <= Cardinality(Awake') + s
  PROVE  NoLostWakeup'
BY DEF Owe, NoLostWakeup

LEMMA AwakeFiniteNext == Cardinality(Awake') \in Nat
<1>1. Awake' \subseteq Actors
  BY DEF Awake
<1>2. QED
  BY <1>1, ActorsAssumption, FS_Subset, FS_CardinalityType

\* One notification pays for one more message: if the queue grows by at most one
\* beyond what is owed from now on and a sleeper, if there is one, is woken, no
\* other wakeup is lost.
LEMMA NotifyPays ==
  ASSUME TypeOK, NoLostWakeup, Notify, UNCHANGED call, queue' \in Seq(Msgs),
         NEW more \in Nat, Owe(silent + more), Len(queue') <= Len(queue) + 1 + more
  PROVE  NoLostWakeup'
<1> USE DEF TypeOK
<1>1. CASE waiting = {}
  BY <1>1 DEF Notify, NoLostWakeup
<1>2. ASSUME NEW w \in waiting, waiting' = waiting \ {w}
      PROVE  NoLostWakeup'
  <2>1. Awake' = Awake \cup {w} /\ w \notin Awake
    BY <1>2 DEF Awake
  <2>2. Cardinality(Awake') = Cardinality(Awake) + 1
    BY <2>1, AwakeFinite, OneMoreAwake
  <2>3. Len(queue) <= Cardinality(Awake) + silent
    BY <1>2 DEF NoLostWakeup
  <2>4. Len(queue') <= Cardinality(Awake') + (silent + more)
    BY <2>2, <2>3, AwakeFinite
  <2>5. QED
    BY <2>4, Covered, AwakeFiniteNext
<1>3. QED
  BY <1>1, <1>2 DEF Notify

\* While somebody sleeps there is an awake consumer for every queued message but
\* those modifyQueue() added beyond its one notification (push, modifyQueue with
\* any content, the waits, timeouts, clear, try_pump).
THEOREM WakeupsNeverLost == Spec => []NoLostWakeup
<1>1. Init => NoLostWakeup
  BY DEF Init, NoLostWakeup
<1>2. TypeOK /\ TypeOK' /\ NoLostWakeup /\ [Next]_vars => NoLostWakeup'
  <2> SUFFICES ASSUME TypeOK, TypeOK', NoLostWakeup, [Next]_vars
               PROVE  NoLostWakeup'
    OBVIOUS
  <2> USE DEF TypeOK, Calls
  <2>0. /\ Len(queue) \in Nat /\ Len(queue') \in Nat /\ silent \in Nat
        /\ queue' \in Seq(Msgs)
    OBVIOUS
  <2>1. CASE Producer
    <3>1. ASSUME NEW m \in Msgs, Push(m), UNCHANGED call, Owe(silent)
          PROVE  NoLostWakeup'
      <4>1. Len(queue') <= Len(queue) + 1 + 0 /\ Owe(silent + 0)
        BY <3>1, <2>0 DEF Push
      <4>2. QED
        BY <3>1, <4>1, <2>0, NotifyPays DEF Push
    <3>2. CASE (TryPump \/ Clear) /\ UNCHANGED call /\ Owe(silent)
      <4>1. Len(queue') <= Len(queue) /\ UNCHANGED waiting
        BY <3>2 DEF TryPump, Clear
      <4>2. Awake' = Awake
        BY <3>2, <4>1 DEF Awake
      <4>3. waiting' # {} => Len(queue') <= Cardinality(Awake') + silent
        BY <2>0, <4>1, <4>2, AwakeFinite DEF NoLostWakeup
      <4>4. QED
        BY <3>2, <4>3, <2>0, Covered, AwakeFiniteNext
    <3>3. CASE ModifyQueue /\ UNCHANGED call /\ Owe(silent + Surplus)
      <4>1. Surplus \in Nat /\ Len(queue') <= Len(queue) + 1 + Surplus
        BY <2>0, SurplusType
      <4>2. Notify
        BY <3>3 DEF ModifyQueue
      <4>3. QED
        BY <3>3, <4>1, <4>2, <2>0, NotifyPays
    <3>4. QED
      BY <2>1, <3>1, <3>2, <3>3 DEF Producer
  <2>2. ASSUME NEW a \in Actors, Consumer(a)
        PROVE  NoLostWakeup'
    <3>1. CASE Enter(a)
      <4>1. Awake' = Awake \cup {a} /\ a \notin Awake
        BY <3>1 DEF Enter, Awake
      <4>2. Cardinality(Awake') = Cardinality(Awake) + 1
        BY <4>1, AwakeFinite, OneMoreAwake
      <4>3. QED
        BY <3>1, <4>2, <2>0, AwakeFinite DEF Enter, NoLostWakeup
    <3>2. CASE Block(a)
      BY <3>2, <2>0, AwakeFiniteNext DEF Block, Sleep, NoLostWakeup
    <3>3. CASE Return(a)
      <4>1. Awake' = Awake \ {a} /\ a \in Awake
        BY <3>3 DEF Return, Take, Awake
      <4>2. Cardinality(Awake') = Cardinality(Awake) - 1
        BY <4>1, AwakeFinite, OneLessAwake
      <4>3. Len(queue') = Len(queue) - 1 /\ UNCHANGED waiting
        BY <3>3 DEF Return, Take
      <4>4. waiting' # {} => Len(queue') <= Cardinality(Awake') + silent
        BY <2>0, <4>2, <4>3, AwakeFinite DEF NoLostWakeup
      <4>5. QED
        BY <3>3, <4>4, <2>0, Covered, AwakeFiniteNext DEF Return
    <3>4. CASE Spurious(a)
      <4>1. Awake' = Awake \cup {a} /\ a \notin Awake
        BY <3>4 DEF Spurious, Awake
      <4>2. Cardinality(Awake') = Cardinality(Awake) + 1
        BY <4>1, AwakeFinite, OneMoreAwake
      <4>3. waiting' # {} => Len(queue') <= Cardinality(Awake') + silent
        BY <3>4, <4>2, <2>0, AwakeFinite DEF Spurious, NoLostWakeup
      <4>4. QED
        BY <3>4, <4>3, <2>0, Covered, AwakeFiniteNext DEF Spurious
    <3>5. CASE Expire(a)
      <4>1. Awake' = Awake \cup {a}
        BY <3>5 DEF Expire, Awake
      <4>2. Cardinality(Awake') >= Cardinality(Awake)
        <5>1. CASE a \in Awake
          <6>1. Awake' = Awake
            BY <4>1, <5>1
          <6>2. QED
            BY <6>1, AwakeFinite
        <5>2. CASE a \notin Awake
          BY <4>1, <5>2, AwakeFinite, OneMoreAwake
        <5>3. QED
          BY <5>1, <5>2
      <4>3. waiting' # {} => Len(queue') <= Cardinality(Awake') + silent
        BY <3>5, <4>2, <2>0, AwakeFinite, AwakeFiniteNext DEF Expire, NoLostWakeup
      <4>4. QED
        BY <3>5, <4>3, <2>0, Covered, AwakeFiniteNext DEF Expire
    <3>6. CASE GiveUp(a)
      BY <3>6, <2>0, AwakeFiniteNext DEF GiveUp, NoLostWakeup
    <3>7. QED
      BY <2>2, <3>1, <3>2, <3>3, <3>4, <3>5, <3>6 DEF Consumer
  <2>3. CASE UNCHANGED vars
    BY <2>3 DEF vars, NoLostWakeup, Awake
  <2>4. QED
    BY <2>1, <2>2, <2>3 DEF Next
<1>3. QED
  BY <1>1, <1>2, TypeCorrect, PTL DEF Spec
=============================================================================
