------------------------------- MODULE Future -------------------------------
(***************************************************************************)
(* Future of future.h: a state shared by reference count, resolved once;   *)
(* threads wait for it on a semaphore (mutex and condition variable) that  *)
(* the first of them installs, or add callbacks.                           *)
(***************************************************************************)
EXTENDS Naturals, Sequences

CONSTANTS
  Waiters,    \* threads that wait, once each
  Adders,     \* threads that add a callback; it is named after its thread
  NoSem       \* a null semaphore; a semaphore is named after who allocated it

VARIABLES
  resolved, hasValue,
  resolver,   \* the resolving thread: "idle", "resolve", "notify", "discard", "done"
  sem,        \* state->semaphore
  held,       \* per waiter: the semaphore it uses
  callbacks,  \* state->callbacks
  timed,      \* the waiters inside wait_for() or wait_until()
  pc,         \* per waiter and adder: the next step
  result,     \* per waiter: what the wait returned
  calls,      \* per callback: how often it was called
  dropped     \* the callbacks nobody refers to any more, never called from a list

vars == <<resolved, hasValue, resolver, sem, held, callbacks, timed, pc, result, calls, dropped>>
life == <<resolved, hasValue, resolver>>
list == <<callbacks, calls, dropped>>

TypeOK ==
  /\ sem \in Waiters \cup {NoSem} /\ held \in [Waiters -> Waiters \cup {NoSem}]
  /\ timed \subseteq Waiters /\ calls \in [Adders -> 0..2] /\ dropped \subseteq Adders

Init ==
  /\ resolved = FALSE /\ hasValue = FALSE /\ resolver = "idle"
  /\ sem = NoSem /\ held = [w \in Waiters |-> NoSem]
  /\ callbacks = <<>> /\ dropped = {}
  /\ timed \in SUBSET Waiters
  /\ pc = [t \in Waiters \cup Adders |-> "new"]
  /\ result = [w \in Waiters |-> "none"]
  /\ calls = [a \in Adders |-> 0]

Goto(t, p) == pc' = [pc EXCEPT ![t] = p]
Return(w, r) == Goto(w, "done") /\ result' = [result EXCEPT ![w] = r]

-----------------------------------------------------------------------------
\* wait(), wait_for(), wait_until(): true at once if it is resolved, otherwise
\* installSemaphore(), which loads the pointer ...
Wait(w) ==
  /\ pc[w] = "new"
  /\ \/ resolved /\ Return(w, "true") /\ UNCHANGED held
     \/ ~resolved /\ Goto(w, "load") /\ UNCHANGED <<held, result>>
  /\ UNCHANGED <<life, list, sem, timed>>

LoadSemaphore(w) ==
  /\ pc[w] = "load"
  /\ held' = [held EXCEPT ![w] = sem]
  /\ Goto(w, IF sem = NoSem THEN "install" ELSE "lock")
  /\ UNCHANGED <<life, list, sem, timed, result>>

\* Fault: the loser of the exchange keeps the semaphore it allocated.
KeepOwn(w) ==
  /\ pc[w] = "install"
  /\ sem' = IF sem = NoSem THEN w ELSE sem
  /\ held' = [held EXCEPT ![w] = w]
  /\ Goto(w, "lock")
  /\ UNCHANGED <<life, list, timed, result>>

\* ... and, if it was null, exchanges it for a new one; the loser deletes its own.
InstallSemaphore(w) ==
  /\ pc[w] = "install"
  /\ sem' = IF sem = NoSem THEN w ELSE sem
  /\ held' = [held EXCEPT ![w] = sem']
  /\ Goto(w, "lock")
  /\ UNCHANGED <<life, list, timed, result>>

\* Nobody holds the mutex of w's semaphore: between its look and its sleep a
\* thread does.
MutexFree(w) == \A v \in Waiters : pc[v] = "look" => held[v] # held[w]

\* Fault: a wait whose time is over goes back to sleep.
LookAgain(w) ==
  /\ pc[w] \in {"lock", "woken", "expired"} /\ MutexFree(w)
  /\ IF resolved THEN Return(w, "true") ELSE Goto(w, "look") /\ UNCHANGED result
  /\ UNCHANGED <<life, list, sem, held, timed>>

\* The predicate, under the mutex: resolved, or about to sleep.
Look(w) ==
  /\ pc[w] \in {"lock", "woken", "expired"} /\ MutexFree(w)
  /\ \/ resolved /\ Return(w, "true")
     \/ ~resolved /\ pc[w] = "expired" /\ Return(w, "false")
     \/ ~resolved /\ pc[w] # "expired" /\ Goto(w, "look") /\ UNCHANGED result
  /\ UNCHANGED <<life, list, sem, held, timed>>

Sleep(w) ==
  /\ pc[w] = "look"
  /\ Goto(w, "asleep")
  /\ UNCHANGED <<life, list, sem, held, timed, result>>

\* Its time is over, at whatever point of the wait: it looks once more.
Expire(w) ==
  /\ pc[w] \in {"lock", "look", "asleep", "woken"} /\ w \in timed
  /\ Goto(w, "expired")
  /\ UNCHANGED <<life, list, sem, held, timed, result>>

Spurious(w) ==
  /\ pc[w] = "asleep"
  /\ Goto(w, "woken")
  /\ UNCHANGED <<life, list, sem, held, timed, result>>

\* notify_all() on semaphore s, without its mutex.
NotifyAll(s) == [t \in DOMAIN pc |->
  IF t \in Waiters /\ pc[t] = "asleep" /\ s # NoSem /\ held[t] = s THEN "woken" ELSE pc[t]]

-----------------------------------------------------------------------------
\* resolve(), reject(): value or exception, then flushCallbacks(): the flag, the
\* waiters, and the list, which is exchanged for null and forgotten.
Resolve ==
  /\ resolver = "idle"
  /\ hasValue' = TRUE /\ resolver' = "resolve"
  /\ UNCHANGED <<resolved, list, sem, held, timed, pc, result>>

SetResolved ==
  /\ resolver = "resolve"
  /\ resolved' = TRUE /\ resolver' = "notify"
  /\ UNCHANGED <<hasValue, list, sem, held, timed, pc, result>>

Notify ==
  /\ resolver = "notify"
  /\ pc' = NotifyAll(sem) /\ resolver' = "discard"
  /\ UNCHANGED <<resolved, hasValue, list, sem, held, timed, result>>

Elements(s) == {s[i] : i \in DOMAIN s}
Discard ==
  /\ resolver = "discard"
  /\ callbacks' = <<>> /\ dropped' = dropped \cup Elements(callbacks)
  /\ resolver' = "done"
  /\ UNCHANGED <<resolved, hasValue, calls, sem, held, timed, pc, result>>

-----------------------------------------------------------------------------
\* addCallback(): on a resolved future the function is called; then, in any
\* case, it is pushed, and if the future is resolved flushCallbacks() runs again.
AddCallback(a) ==
  /\ pc[a] = "new"
  /\ calls' = [calls EXCEPT ![a] = @ + IF resolved THEN 1 ELSE 0]
  /\ Goto(a, "push")
  /\ UNCHANGED <<life, sem, held, timed, result, callbacks, dropped>>

PushCallback(a) ==
  /\ pc[a] = "push"
  /\ callbacks' = <<a>> \o callbacks
  /\ Goto(a, "recheck")
  /\ UNCHANGED <<life, calls, dropped, sem, held, timed, result>>

Recheck(a) ==
  /\ pc[a] = "recheck"
  /\ Goto(a, IF resolved THEN "flush" ELSE "done")
  /\ UNCHANGED <<life, list, sem, held, timed, result>>

FlushNotify(a) ==
  /\ pc[a] = "flush"
  /\ pc' = [NotifyAll(sem) EXCEPT ![a] = "discard"]
  /\ UNCHANGED <<life, list, sem, held, timed, result>>

FlushDiscard(a) ==
  /\ pc[a] = "discard"
  /\ callbacks' = <<>> /\ dropped' = dropped \cup Elements(callbacks)
  /\ Goto(a, "done")
  /\ UNCHANGED <<life, calls, sem, held, timed, result>>

-----------------------------------------------------------------------------
WaiterStep(w) ==
  \/ LoadSemaphore(w) \/ InstallSemaphore(w) \/ Look(w) \/ Sleep(w)
AdderStep(a) == PushCallback(a) \/ Recheck(a) \/ FlushNotify(a) \/ FlushDiscard(a)
ResolverStep == SetResolved \/ Notify \/ Discard

Next ==
  \/ \E w \in Waiters : Wait(w) \/ WaiterStep(w) \/ Expire(w) \/ Spurious(w)
  \/ \E a \in Adders : AddCallback(a) \/ AdderStep(a)
  \/ Resolve \/ ResolverStep

Fairness ==
  /\ \A w \in Waiters : SF_vars(WaiterStep(w)) /\ WF_vars(Expire(w))
  /\ \A a \in Adders : WF_vars(AdderStep(a))
  /\ WF_vars(ResolverStep)

Spec == Init /\ [][Next]_vars /\ Fairness

-----------------------------------------------------------------------------
\* All waiters use the one semaphore resolve() will notify, whoever installed
\* it; a wait answers true only for a value that is there; a callback is
\* called at most once, and never before the value is there (future.h:340, 467).
FutureSafe ==
  /\ \A w \in Waiters : held[w] # NoSem => held[w] = sem
  /\ \A w \in Waiters : result[w] = "true" => resolved /\ hasValue
  /\ \A a \in Adders : calls[a] <= 1 /\ (calls[a] = 1 => resolved /\ hasValue)

\* A wait_for() or wait_until() returns, also when the notification of resolve()
\* is lost between its look and its sleep (future.h:373, 489).
TimedReturns == \A w \in Waiters : (w \in timed /\ pc[w] # "new") ~> (pc[w] = "done")

\* "Waits for resolution" (future.h:179).  Not so: the notification falls
\* between a waiter's look at the flag and its sleep.
WaitReturns == \A w \in Waiters : (resolver = "done" /\ pc[w] # "new") ~> (pc[w] = "done")

\* "The function is called when the future is resolved" (future.h:137).  Not
\* so: those in the list are forgotten by the exchange.
CallbacksCalled == \A a \in Adders : (resolver = "done" /\ pc[a] = "done") => calls[a] = 1
=============================================================================
