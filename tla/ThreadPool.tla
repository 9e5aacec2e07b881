----------------------------- MODULE ThreadPool -----------------------------
(***************************************************************************)
(* thread_pool of thread_pool.h: a queue of actions, a mutex _m, a         *)
(* condition variable _c, the list _l of threads and the flag _s.          *)
(*                                                                         *)
(* Each method is one critical section, except that a waiting worker gives *)
(* the mutex up, that stop() joins its threads after the critical section, *)
(* and that start_thread() joins threads inside its critical section.      *)
(***************************************************************************)
EXTENDS Naturals, Sequences, FiniteSets

CONSTANTS
  Clients,    \* threads outside the pool
  Threads,    \* names for the threads the pool starts
  First,      \* the threads the constructor starts
  Fns,        \* functions handed to run(), each at most once
  Null,       \* the null action stop_thread() enqueues
  None,
  MaxNulls    \* bound: stop_thread() is called only while fewer are queued

ASSUME NamesAssumption ==
  /\ Clients \cap Threads = {} /\ First \subseteq Threads
  /\ Null \notin Fns /\ None \notin Clients \cup Threads \cup Fns
ASSUME MaxNullsAssumption == MaxNulls \in Nat
ASSUME ThreadsAssumption == IsFiniteSet(Threads)

VARIABLES
  q,          \* _q
  waiting,    \* workers asleep on _c
  s,          \* _s
  l,          \* _l
  owner,      \* who keeps _m locked across a join, None otherwise
  thr,        \* thr[t]: "none", in worker() at the head of its loop ("loop"),
              \* executing a function ("run"), or "ended"
  fn,         \* the function it executes
  call,       \* call[c]: "none", or what the client is blocked in: "stop",
              \* "destroy" (stop() from the destructor) or "start_thread"
  joins,      \* the threads that call has still to join
  freed,      \* the pool has been destroyed
  fate,       \* history: what became of each function
  stops       \* history: calls of stop_thread(), counted up to MaxNulls

vars == <<q, waiting, s, l, owner, thr, fn, call, joins, freed, fate, stops>>

\* Types; sleepers are in worker().
Types ==
  /\ q \in Seq(Fns \cup {Null})
  /\ waiting \subseteq {t \in Threads : thr[t] = "loop"}
  /\ s \in BOOLEAN
  /\ l \subseteq {t \in Threads : thr[t] # "none"}
  /\ owner \in Clients \cup {None}
  /\ thr \in [Threads -> {"none", "loop", "run", "ended"}]
  /\ fn \in [Threads -> Fns \cup {None}]
  /\ call \in [Clients -> {"none", "stop", "destroy", "start_thread"}]
  /\ joins \in [Clients -> SUBSET Threads]
  /\ freed \in BOOLEAN
  /\ fate \in [Fns -> {"new", "queued", "running", "done", "cleared"}]
  /\ stops \in 0..MaxNulls

\* ... and a function is executed by one worker.
TypeOK == Types /\ \A t, u \in Threads : fn[t] # None /\ fn[t] = fn[u] => t = u

Init ==
  /\ q = <<>>
  /\ waiting = {}
  /\ s = FALSE
  /\ l = First
  /\ owner = None
  /\ thr = [t \in Threads |-> IF t \in First THEN "loop" ELSE "none"]
  /\ fn = [t \in Threads |-> None]
  /\ call = [c \in Clients |-> "none"]
  /\ joins = [c \in Clients |-> {}]
  /\ freed = FALSE
  /\ fate = [f \in Fns |-> "new"]
  /\ stops = 0

-----------------------------------------------------------------------------
(* worker() *)

\* The worker holds _m and looks at _s and _q: it is about to, is not asleep,
\* and nobody keeps the mutex.
Looks(t) == thr[t] = "loop" /\ t \notin waiting /\ owner = None

Exit(t) ==
  /\ Looks(t)
  /\ s
  /\ thr' = [thr EXCEPT ![t] = "ended"]
  /\ UNCHANGED <<q, waiting, s, l, owner, fn, call, joins, freed, fate, stops>>

Wait(t) ==
  /\ Looks(t)
  /\ ~s
  /\ q = <<>>
  /\ waiting' = waiting \cup {t}
  /\ UNCHANGED <<q, s, l, owner, thr, fn, call, joins, freed, fate, stops>>

\* Fault: the function is popped after its execution, not before.
TakeFnKeeping(t) ==
  /\ Looks(t)
  /\ ~s
  /\ q # <<>>
  /\ Head(q) # Null
  /\ fn' = [fn EXCEPT ![t] = Head(q)]
  /\ thr' = [thr EXCEPT ![t] = "run"]
  /\ fate' = [fate EXCEPT ![Head(q)] = "running"]
  /\ UNCHANGED <<q, waiting, s, l, owner, call, joins, freed, stops>>

TakeFn(t) ==
  /\ Looks(t)
  /\ ~s
  /\ q # <<>>
  /\ Head(q) # Null
  /\ q' = Tail(q)
  /\ fn' = [fn EXCEPT ![t] = Head(q)]
  /\ thr' = [thr EXCEPT ![t] = "run"]
  /\ fate' = [fate EXCEPT ![Head(q)] = "running"]
  /\ UNCHANGED <<waiting, s, l, owner, call, joins, freed, stops>>

\* The null action ends the loop; it is not popped.
TakeNull(t) ==
  /\ Looks(t)
  /\ ~s
  /\ q # <<>>
  /\ Head(q) = Null
  /\ thr' = [thr EXCEPT ![t] = "ended"]
  /\ UNCHANGED <<q, waiting, s, l, owner, fn, call, joins, freed, fate, stops>>

FnReturns(t) ==
  /\ thr[t] = "run"
  /\ thr' = [thr EXCEPT ![t] = "loop"]
  /\ fate' = [fate EXCEPT ![fn[t]] = "done"]
  /\ fn' = [fn EXCEPT ![t] = None]
  /\ UNCHANGED <<q, waiting, s, l, owner, call, joins, freed, stops>>

-----------------------------------------------------------------------------
(* The interface: called by a client, or by a function the pool executes    *)
(* through thread_pool::current.                                            *)

\* Nobody but the pool's own functions calls during the destruction ("Ensure,
\* that nothing is added during destruction").
Callers ==
  {c \in Clients : call[c] = "none" /\ ~freed /\ \A d \in Clients : call[d] # "destroy"}
    \cup {t \in Threads : thr[t] = "run"}

\* Somebody can call and take the mutex.
CanCall == Callers # {} /\ owner = None

NotifyOne ==
  \/ waiting = {} /\ UNCHANGED waiting
  \/ \E t \in waiting : waiting' = waiting \ {t}

\* notify_all().  (Fault: NotifyOne in its place.)
NotifyAll == waiting' = {}

\* Faults: only the first function of a batch is notified, none is, the queue is
\* a stack.
EnqueueNotifyingIfEmpty(f) ==
  /\ q' = Append(q, f)
  /\ IF q = <<>> THEN NotifyOne ELSE UNCHANGED waiting
EnqueueSilently(f) == q' = Append(q, f) /\ UNCHANGED waiting
EnqueueInFront(f) == q' = <<f>> \o q /\ NotifyOne

Enqueue(f) == q' = Append(q, f) /\ NotifyOne

Run(f) ==
  /\ CanCall
  /\ fate[f] = "new"
  /\ Enqueue(f)
  /\ fate' = [fate EXCEPT ![f] = "queued"]
  /\ UNCHANGED <<s, l, owner, thr, fn, call, joins, freed, stops>>

Clear ==
  /\ CanCall
  /\ q' = <<>>
  /\ fate' = [f \in Fns |-> IF fate[f] = "queued" THEN "cleared" ELSE fate[f]]
  /\ UNCHANGED <<waiting, s, l, owner, thr, fn, call, joins, freed, stops>>

StopNb ==
  /\ CanCall
  /\ s' = TRUE
  /\ NotifyAll
  /\ UNCHANGED <<q, l, owner, thr, fn, call, joins, freed, fate, stops>>

\* stop_thread(): a null action is queued, nobody is notified.
StopThread ==
  /\ CanCall
  /\ stops < MaxNulls
  /\ stops' = stops + 1
  /\ q' = Append(q, Null)
  /\ UNCHANGED <<waiting, s, l, owner, thr, fn, call, joins, freed, fate>>

\* stop(), and the destructor, which no other call may overlap: take the list,
\* set the flag, wake everybody.
StopBegins(c, how) ==
  /\ c \in Callers
  /\ owner = None
  /\ joins' = [joins EXCEPT ![c] = l]
  /\ l' = {}
  /\ s' = TRUE
  /\ NotifyAll
  /\ call' = [call EXCEPT ![c] = how]
  /\ UNCHANGED <<q, owner, thr, fn, freed, fate, stops>>

Stop(c) == StopBegins(c, "stop")

Destroy(c) ==
  /\ \A d \in Clients : call[d] = "none"
  /\ StopBegins(c, "destroy")

\* start_thread(): the mutex is taken and kept while every joinable thread of
\* the list is joined.
StartThread(c) ==
  /\ c \in Callers
  /\ owner = None
  /\ \E t \in Threads : thr[t] = "none"   \* bound: a name is left
  /\ owner' = c
  /\ call' = [call EXCEPT ![c] = "start_thread"]
  /\ joins' = [joins EXCEPT ![c] = l]
  /\ UNCHANGED <<q, waiting, s, l, thr, fn, freed, fate, stops>>

\* x.join() returns for a thread that has ended.
Join(c) ==
  /\ \E t \in joins[c] :
       /\ thr[t] = "ended"
       /\ joins' = [joins EXCEPT ![c] = @ \ {t}]
  /\ UNCHANGED <<q, waiting, s, l, owner, thr, fn, call, freed, fate, stops>>

\* Fault: stop() detaches its threads instead of joining them.
StopReturnsDetaching(c) ==
  /\ call[c] \in {"stop", "destroy"}
  /\ joins' = [joins EXCEPT ![c] = {}]
  /\ freed' = (call[c] = "destroy")
  /\ call' = [call EXCEPT ![c] = "none"]
  /\ UNCHANGED <<q, waiting, s, l, owner, thr, fn, fate, stops>>

StopReturns(c) ==
  /\ call[c] \in {"stop", "destroy"}
  /\ joins[c] = {}
  /\ freed' = (call[c] = "destroy")
  /\ call' = [call EXCEPT ![c] = "none"]
  /\ UNCHANGED <<q, waiting, s, l, owner, thr, fn, joins, fate, stops>>

\* The rest of start_thread(): the joined threads are erased, one is started.
ThreadStarts(c) ==
  /\ call[c] = "start_thread"
  /\ joins[c] = {}
  /\ \E t \in Threads :
       /\ thr[t] = "none"
       /\ l' = {t}
       /\ thr' = [thr EXCEPT ![t] = "loop"]
  /\ owner' = None
  /\ call' = [call EXCEPT ![c] = "none"]
  /\ UNCHANGED <<q, waiting, s, fn, joins, freed, fate, stops>>

-----------------------------------------------------------------------------
Worker(t) == Exit(t) \/ Wait(t) \/ TakeFn(t) \/ TakeNull(t) \/ FnReturns(t)

Interface ==
  \/ \E f \in Fns : Run(f)
  \/ Clear \/ StopNb \/ StopThread
  \/ \E c \in Clients : Stop(c) \/ Destroy(c) \/ StartThread(c)

Blocked(c) == Join(c) \/ StopReturns(c) \/ ThreadStarts(c)

Next ==
  \/ \E t \in Threads : Worker(t)
  \/ Interface
  \/ \E c \in Clients : Blocked(c)

\* Workers and blocked calls are scheduled, functions return.
Fairness ==
  /\ \A t \in Threads : WF_vars(Worker(t))
  /\ \A c \in Clients : WF_vars(Blocked(c))

Spec == Init /\ [][Next]_vars /\ Fairness
=============================================================================
