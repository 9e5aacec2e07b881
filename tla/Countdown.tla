------------------------------ MODULE Countdown ------------------------------
(***************************************************************************)
(* Countdown (MTCounter) of countdown.h, with WaitableEvent and            *)
(* CountdownGuard built on it: a counter under a mutex; threads wait for   *)
(* it to be zero or below.                                                 *)
(*                                                                         *)
(* silent is history: setCounter() notifies at zero and not below, and     *)
(* silent says that it opened the countdown without telling the sleepers.  *)
(***************************************************************************)
EXTENDS Integers, FiniteSets

CONSTANTS
  Waiters,    \* threads that call wait(), wait_until() or wait_for()
  Initial,    \* in Lo..Hi: the constructor's argument
  Lo, Hi,     \* bounds: inc() and dec() are called only within Lo..Hi
  Values      \* in Lo..Hi: what setCounter() and setCounterWhen() are called with

VARIABLES
  counter,
  waiting,    \* threads asleep on waiter
  pc,         \* "out", "wait", "timed", "expired", and the two results "passed"
              \* (true) and "false", until the thread calls again
  silent      \* history: opened by setCounter() below zero, and threads that
              \* slept then sleep still

vars == <<counter, waiting, pc, silent>>

\* Types; a sleeper is inside a wait whose time is not over.
TypeOK ==
  /\ counter \in Lo..Hi
  /\ pc \in [Waiters -> {"out", "wait", "timed", "expired", "passed", "false"}]
  /\ waiting \subseteq {t \in Waiters : pc[t] \in {"wait", "timed"}}
  /\ silent \in BOOLEAN

Init ==
  /\ counter = Initial
  /\ waiting = {}
  /\ pc = [t \in Waiters |-> "out"]
  /\ silent = FALSE

\* Faults: one waiter is notified, and the counter is compared with the wrong
\* bound.
ReleaseOneAt(v) ==
  IF v = 0 /\ waiting # {} THEN \E w \in waiting : waiting' = waiting \ {w}
                           ELSE UNCHANGED waiting
ReleaseBelow(v) == waiting' = IF v < 0 THEN {} ELSE waiting

\* All waiters are notified when the counter is exactly zero.
ReleaseAt(v) == waiting' = IF v = 0 THEN {} ELSE waiting

\* Sleepers nobody told stay so until they wake up or the countdown closes.
StillSilent == silent' = (silent /\ counter' <= 0 /\ waiting' # {})

\* inc(), lock(), operator++, CountdownGuard's constructors.
Inc ==
  /\ counter < Hi
  /\ counter' = counter + 1
  /\ UNCHANGED <<waiting, pc>>
  /\ StillSilent

\* dec(), unlock(), operator--, ~CountdownGuard, WaitableEvent::signal().
Dec ==
  /\ counter > Lo
  /\ counter' = counter - 1
  /\ ReleaseAt(counter')
  /\ UNCHANGED pc
  /\ StillSilent

\* setCounter(); WaitableEvent::reset() is setCounter(1).
SetCounter(v) ==
  /\ counter' = v
  /\ ReleaseAt(v)
  /\ UNCHANGED pc
  /\ silent' = (v < 0 /\ waiting # {})

\* setCounterWhen(expected, value) with the expected value found: it notifies
\* and returns true, and does not set the counter.  With another value it
\* returns false and does nothing.
SetCounterWhen(expected, value) ==
  /\ counter = expected
  /\ ReleaseAt(value)
  /\ UNCHANGED <<counter, pc>>
  /\ StillSilent

Call(t) ==
  /\ pc[t] \in {"out", "passed", "false"}
  /\ \E p \in {"wait", "timed"} : pc' = [pc EXCEPT ![t] = p]
  /\ UNCHANGED <<counter, waiting, silent>>

\* The predicate counter <= 0 is false: sleep.
Block(t) ==
  /\ pc[t] \in {"wait", "timed"} /\ t \notin waiting
  /\ counter > 0
  /\ waiting' = waiting \cup {t}
  /\ UNCHANGED <<counter, pc, silent>>

Pass(t) ==
  /\ pc[t] \in {"wait", "timed", "expired"} /\ t \notin waiting
  /\ counter <= 0
  /\ pc' = [pc EXCEPT ![t] = "passed"]
  /\ UNCHANGED <<counter, waiting, silent>>

\* Fault: a timed-out thread that stays registered as a sleeper.
ExpireRegistered(t) ==
  /\ pc[t] = "timed"
  /\ pc' = [pc EXCEPT ![t] = "expired"]
  /\ UNCHANGED <<counter, waiting, silent>>

Expire(t) ==
  /\ pc[t] = "timed"
  /\ pc' = [pc EXCEPT ![t] = "expired"]
  /\ waiting' = waiting \ {t}
  /\ UNCHANGED counter
  /\ StillSilent

GiveUp(t) ==
  /\ pc[t] = "expired"
  /\ counter > 0
  /\ pc' = [pc EXCEPT ![t] = "false"]
  /\ UNCHANGED <<counter, waiting, silent>>

Spurious(t) ==
  /\ t \in waiting
  /\ waiting' = waiting \ {t}
  /\ UNCHANGED <<counter, pc>>
  /\ StillSilent

Count ==
  \/ Inc \/ Dec
  \/ \E v \in Values : SetCounter(v)
  \/ \E e, v \in Values : SetCounterWhen(e, v)

Wait(t) ==
  \/ Call(t) \/ Block(t) \/ Pass(t) \/ Expire(t) \/ GiveUp(t) \/ Spurious(t)

Next == Count \/ \E t \in Waiters : Wait(t)

\* A thread that is awake inside a wait goes on.
Fairness ==
  \A t \in Waiters : WF_vars(Pass(t)) /\ WF_vars(Expire(t)) /\ WF_vars(GiveUp(t))

Spec == Init /\ [][Next]_vars /\ Fairness

-----------------------------------------------------------------------------
\* An open Countdown has no sleepers, however the counter got to zero or below,
\* but those that setCounter() left asleep when it opened it below zero: whoever
\* else is inside a wait is awake and will pass.
OpenMeansAwake == counter <= 0 /\ waiting # {} => silent

\* A thread inside wait() passes if the Countdown stays open and setCounter() has
\* not left sleepers behind.
OpenReleases ==
  \A t \in Waiters :
    [](pc[t] = "wait" /\ [](counter <= 0 /\ ~silent) => <>(pc[t] = "passed"))

\* Sleepers of an open Countdown get up: "Countdown object is opened while
\* counter is zero or below" (countdown.h:20).
SleepersReleased == (counter <= 0 /\ waiting # {}) ~> (counter > 0 \/ waiting = {})
=============================================================================
