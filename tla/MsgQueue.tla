------------------------------ MODULE MsgQueue ------------------------------
(***************************************************************************)
(* MsgQueue<Msg> of msgqueue.h: a FIFO queue under one mutex with one      *)
(* condition variable.                                                     *)
(*                                                                         *)
(* Every method holds the mutex from its first line to its return or to    *)
(* the explicit unlock before the caller's function runs, so a method is   *)
(* one step, except that a blocking method gives the mutex up while it     *)
(* sleeps on the condition variable: Sleep and Take (or GiveUp) are        *)
(* separate steps of it.  The caller's function runs after the unlock and  *)
(* belongs to the modules that use the queue.                              *)
(*                                                                         *)
(* The operators on queue and waiting alone (Push, Notify, ...) are what   *)
(* the dispatcher's users instantiate; Next is the queue in the hands of   *)
(* an arbitrary set of threads.                                            *)
(*                                                                         *)
(* silent is history: modifyQueue() notifies once however many messages    *)
(* its function adds, and silent counts those it told no sleeper about.    *)
(***************************************************************************)
EXTENDS Naturals, Sequences, FiniteSets

CONSTANTS
  Actors,     \* threads that call the queue
  Msgs,       \* what a message can be
  MaxLen      \* bound: no push or modification makes the queue longer

ASSUME ActorsAssumption == IsFiniteSet(Actors)
ASSUME BoundsAssumption == MaxLen \in Nat

VARIABLES
  queue,      \* MsgQueue::queue
  waiting,    \* threads asleep on MsgQueue::condvar
  call,       \* call[a]: the blocking method a is in: "none", "pop" (pop and
              \* pump), "timed" (pump_for and pump_until) or "expired" (a timed
              \* wait whose time is over and that re-evaluates its predicate)
  silent      \* history: messages in the queue that modifyQueue() added beyond
              \* the one it notifies, while somebody slept

vars == <<queue, waiting, call, silent>>

Calls == {"none", "pop", "timed", "expired"}

\* Types; a thread on the condition variable is inside a blocking call whose
\* time is not over.
TypeOK ==
  /\ queue \in Seq(Msgs)
  /\ call \in [Actors -> Calls]
  /\ waiting \subseteq {a \in Actors : call[a] \in {"pop", "timed"}}
  /\ silent \in 0..Len(queue)

Init ==
  /\ queue = <<>>
  /\ waiting = {}
  /\ call = [a \in Actors |-> "none"]
  /\ silent = 0

-----------------------------------------------------------------------------
(* The critical sections. *)

\* condvar.notify_one(): some sleeper, if there is one, gets up.
Notify ==
  \/ waiting = {} /\ UNCHANGED waiting
  \/ \E w \in waiting : waiting' = waiting \ {w}

\* Fault: push() that notifies only the first message of a batch.
PushNotifyingIfEmpty(m) ==
  /\ queue' = Append(queue, m)
  /\ IF queue = <<>> THEN Notify ELSE UNCHANGED waiting

\* push(): append, then one notification.
Push(m) ==
  /\ queue' = Append(queue, m)
  /\ Notify

\* The wait of pop() and of the pumps found its predicate false.
Sleep(a) ==
  /\ a \notin waiting
  /\ queue = <<>>
  /\ waiting' = waiting \cup {a}
  /\ UNCHANGED queue

\* The wait found its predicate true: front(), pop(), unlock.
Take(a) ==
  /\ a \notin waiting
  /\ queue # <<>>
  /\ queue' = Tail(queue)
  /\ UNCHANGED waiting

\* try_pump() on a queue that is not empty; on an empty one it returns false
\* and changes nothing.
TryPump ==
  /\ queue # <<>>
  /\ queue' = Tail(queue)
  /\ UNCHANGED waiting

\* clear(): the content goes, nobody is notified.
Clear ==
  /\ queue' = <<>>
  /\ UNCHANGED waiting

\* Fault: modifyQueue() without its notification.
ModifyQueueSilently ==
  /\ \E n \in 0..MaxLen : queue' \in [1..n -> Msgs]
  /\ UNCHANGED waiting

\* modifyQueue(fn): fn leaves any content, and the queue notifies once whatever
\* fn did.
ModifyQueue ==
  /\ \E n \in 0..MaxLen : queue' \in [1..n -> Msgs]
  /\ Notify

-----------------------------------------------------------------------------
(* The queue called by any thread at any time. *)

\* What is left of s messages nobody was told about: none when nobody sleeps.
Owe(s) ==
  silent' = IF waiting' = {} THEN 0 ELSE IF s <= Len(queue') THEN s ELSE Len(queue')

\* The messages a modification adds beyond the first.
Surplus == IF Len(queue') > Len(queue) THEN Len(queue') - Len(queue) - 1 ELSE 0

Producer ==
  /\ \/ /\ \/ \E m \in Msgs : Len(queue) < MaxLen /\ Push(m)
           \/ TryPump
           \/ Clear
        /\ Owe(silent)
     \/ /\ ModifyQueue
        /\ Owe(silent + Surplus)
  /\ UNCHANGED call

Enter(a) ==
  /\ call[a] = "none"
  /\ \E c \in {"pop", "timed"} : call' = [call EXCEPT ![a] = c]
  /\ UNCHANGED <<queue, waiting, silent>>

Block(a) ==
  /\ call[a] \in {"pop", "timed"}
  /\ Sleep(a)
  /\ Owe(silent)
  /\ UNCHANGED call

Return(a) ==
  /\ call[a] # "none"
  /\ Take(a)
  /\ Owe(silent)
  /\ call' = [call EXCEPT ![a] = "none"]

\* A sleeper gets up without a notification and will look at the queue again.
Spurious(a) ==
  /\ a \in waiting
  /\ waiting' = waiting \ {a}
  /\ UNCHANGED <<queue, call>>
  /\ Owe(silent)

\* Fault: a timed-out thread that stays registered as a sleeper.
ExpireRegistered(a) ==
  /\ call[a] = "timed"
  /\ call' = [call EXCEPT ![a] = "expired"]
  /\ UNCHANGED <<queue, waiting, silent>>

\* The time of pump_for()/pump_until() is over, asleep or not yet asleep.
Expire(a) ==
  /\ call[a] = "timed"
  /\ call' = [call EXCEPT ![a] = "expired"]
  /\ waiting' = waiting \ {a}
  /\ UNCHANGED queue
  /\ Owe(silent)

\* The last look after the timeout finds nothing: return false.
GiveUp(a) ==
  /\ call[a] = "expired"
  /\ queue = <<>>
  /\ call' = [call EXCEPT ![a] = "none"]
  /\ UNCHANGED <<queue, waiting, silent>>

Consumer(a) ==
  \/ Enter(a) \/ Block(a) \/ Return(a)
  \/ Spurious(a) \/ Expire(a) \/ GiveUp(a)

Next == Producer \/ \E a \in Actors : Consumer(a)

\* A thread inside a call that can return does return, and a timed wait ends.
\* Nobody is obliged to push or to enter a call.
Fairness ==
  \A a \in Actors : WF_vars(Return(a)) /\ WF_vars(Expire(a)) /\ WF_vars(GiveUp(a))

Spec == Init /\ [][Next]_vars /\ Fairness

-----------------------------------------------------------------------------
(* Properties. *)

\* The threads inside a blocking call that are not asleep: each of them will
\* look at the queue before it sleeps or returns.
Awake == {a \in Actors : call[a] # "none"} \ waiting

\* No wakeup is lost but those modifyQueue() never sends: while somebody sleeps,
\* every message in the queue, except the ones it added beyond its one
\* notification, has an awake consumer of its own on the way to it.  One
\* notify_one() per push is enough because of this, and clear(), try_pump(),
\* timeouts and thieves that never slept do not upset it (msgqueue.h, push,
\* modifyQueue and the waits).
NoLostWakeup ==
  waiting # {} => Len(queue) <= Cardinality(Awake) + silent

\* A sleeper and a message somebody was told about do not coexist forever:
\* either the queue drains down to what modifyQueue() added silently or the last
\* sleeper gets up.
SleepersDrain ==
  (waiting # {} /\ Len(queue) > silent) ~> (waiting = {} \/ Len(queue) <= silent)

\* pop() and pump() block only "if there is no message" (msgqueue.h:24): a
\* sleeper and a message, whoever put it there, do not coexist forever.
BlocksOnlyIfEmpty ==
  (waiting # {} /\ queue # <<>>) ~> (waiting = {} \/ queue = <<>>)

=============================================================================
