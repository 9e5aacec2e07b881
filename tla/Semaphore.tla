------------------------------ MODULE Semaphore ------------------------------
(***************************************************************************)
(* Semaphore of semaphore.h: a counter under a mutex with a condition      *)
(* variable, used as a lock of Count permits: a thread that came out of    *)
(* wait(), wait_until(), wait_for() or try_lock() with a permit gives that *)
(* permit back with unlock() (signal(), operator++).                       *)
(*                                                                         *)
(* silent is history: operator++ notifies only when the counter was zero,  *)
(* and silent counts the free permits no sleeper was told about.           *)
(***************************************************************************)
EXTENDS Naturals, FiniteSets

CONSTANTS
  Threads,
  Count       \* the constructor's argument, a number

VARIABLES
  counter,
  waiting,    \* threads asleep on waiter
  pc,         \* "out", in wait() ("wait"), in wait_until()/wait_for() ("timed"),
              \* there with the time over ("expired"), or holding a permit ("in")
  silent      \* history: free permits given back beside another free one while
              \* somebody slept

vars == <<counter, waiting, pc, silent>>

\* Types; a sleeper is inside a wait whose time is not over.
TypeOK ==
  /\ counter \in Nat
  /\ pc \in [Threads -> {"out", "wait", "timed", "expired", "in"}]
  /\ waiting \subseteq {t \in Threads : pc[t] \in {"wait", "timed"}}
  /\ silent \in 0..counter

Init ==
  /\ counter = Count
  /\ waiting = {}
  /\ pc = [t \in Threads |-> "out"]
  /\ silent = 0

\* What is left of s permits nobody was told about: none when nobody sleeps.
Owe(s) ==
  silent' = IF waiting' = {} THEN 0 ELSE IF s <= counter' THEN s ELSE counter'

\* wait(), lock(), operator--, wait_until() and wait_for() are entered.
Call(t) ==
  /\ pc[t] = "out"
  /\ \E p \in {"wait", "timed"} : pc' = [pc EXCEPT ![t] = p]
  /\ UNCHANGED <<counter, waiting, silent>>

\* The predicate counter > 0 is false: sleep.
Block(t) ==
  /\ pc[t] \in {"wait", "timed"} /\ t \notin waiting
  /\ counter = 0
  /\ waiting' = waiting \cup {t}
  /\ UNCHANGED <<counter, pc>>
  /\ Owe(silent)

\* The predicate is true, be it on the last look after a timeout: --counter.
Acquire(t) ==
  /\ pc[t] \in {"wait", "timed", "expired"} /\ t \notin waiting
  /\ counter > 0
  /\ counter' = counter - 1
  /\ pc' = [pc EXCEPT ![t] = "in"]
  /\ UNCHANGED waiting
  /\ Owe(silent)

\* Fault: try_lock() takes a permit without counting it.
TryLockUncounted(t) ==
  /\ pc[t] = "out"
  /\ counter > 0
  /\ pc' = [pc EXCEPT ![t] = "in"]
  /\ UNCHANGED <<counter, waiting, silent>>

TryLock(t) ==
  /\ pc[t] = "out"
  /\ counter > 0
  /\ counter' = counter - 1
  /\ pc' = [pc EXCEPT ![t] = "in"]
  /\ UNCHANGED waiting
  /\ Owe(silent)

\* Fault: the counter is tested after the increment.
WasEmptyLate == counter + 1 = 0

WasEmpty == counter = 0

\* operator++: one waiter is notified only if the counter was zero.
Unlock(t) ==
  /\ pc[t] = "in"
  /\ counter' = counter + 1
  /\ pc' = [pc EXCEPT ![t] = "out"]
  /\ IF WasEmpty /\ waiting # {}
       THEN \E w \in waiting : waiting' = waiting \ {w}
       ELSE UNCHANGED waiting
  /\ Owe(silent + (IF counter = 0 THEN 0 ELSE 1))

\* Fault: a timed-out thread that stays registered as a sleeper.
ExpireRegistered(t) ==
  /\ pc[t] = "timed"
  /\ pc' = [pc EXCEPT ![t] = "expired"]
  /\ UNCHANGED <<counter, waiting, silent>>

Expire(t) ==
  /\ pc[t] = "timed"
  /\ pc' = [pc EXCEPT ![t] = "expired"]
  /\ waiting' = waiting \ {t}
  /\ UNCHANGED counter
  /\ Owe(silent)

GiveUp(t) ==
  /\ pc[t] = "expired"
  /\ counter = 0
  /\ pc' = [pc EXCEPT ![t] = "out"]
  /\ UNCHANGED <<counter, waiting, silent>>

Spurious(t) ==
  /\ t \in waiting
  /\ waiting' = waiting \ {t}
  /\ UNCHANGED <<counter, pc>>
  /\ Owe(silent)

Next ==
  \E t \in Threads :
    \/ Call(t) \/ Block(t) \/ Acquire(t) \/ TryLock(t) \/ Unlock(t)
    \/ Expire(t) \/ GiveUp(t) \/ Spurious(t)

\* Awake threads go on and permits are given back; nobody has to call.
Fairness ==
  \A t \in Threads :
    /\ WF_vars(Acquire(t)) /\ WF_vars(Unlock(t))
    /\ WF_vars(Expire(t)) /\ WF_vars(GiveUp(t))

Spec == Init /\ [][Next]_vars /\ Fairness

-----------------------------------------------------------------------------
Holders == {t \in Threads : pc[t] = "in"}
Awake == {t \in Threads : pc[t] \in {"wait", "timed", "expired"}} \ waiting

\* Permits are neither lost nor made up, whatever timeouts and notifications
\* race: free permits and holders are Count together.
PermitsConserved == counter + Cardinality(Holders) = Count

\* While a thread sleeps, every free permit has an awake thread on its way to it,
\* except those given back while another one was free, which notify nobody: the
\* way from zero, timeouts, thieves and spurious wakeups strand no other permit.
NoStrandedPermit == waiting # {} => counter <= Cardinality(Awake) + silent

\* A thread does not sleep forever beside a free permit.  Not so after two
\* unlock() in a row: only the first of them notifies.
PermitsAreTaken == (waiting # {} /\ counter > 0) ~> (waiting = {} \/ counter = 0)
=============================================================================
