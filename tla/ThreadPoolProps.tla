--------------------------- MODULE ThreadPoolProps ---------------------------
(* What thread_pool promises, and what its comments promise. *)
EXTENDS ThreadPool

\* Workers that are going to look at _s and _q.
Lookers == {t \in Threads : thr[t] = "loop"} \ waiting

\* The functions in front of the first null action, where it stops the loops.
Servable ==
  {i \in 1..Len(q) : \A j \in 1..i : q[j] # Null}

\* No wakeup is lost: while a worker sleeps, every function that is not behind a
\* null action has a worker on the way to it, and nobody sleeps through stop().
WakeupsMatch ==
  waiting # {} => ~s /\ Cardinality(Servable) <= Cardinality(Lookers)

\* When the pool is destroyed every thread it ever started has ended: none
\* touches the queue or the mutex afterwards.
NoUseAfterFree ==
  freed => \A t \in Threads : thr[t] \in {"none", "ended"}

\* The queue without its null actions, SelectSeq(q, LAMBDA a : a # Null), said
\* without recursion: no function is queued twice, so the k-th of them is the one
\* with k functions up to it.
FnsOf(sq) == {f \in Fns : \E i \in 1..Len(sq) : sq[i] = f}
UpTo(sq, f) == {g \in Fns : \E i, j \in 1..Len(sq) : i <= j /\ sq[i] = g /\ sq[j] = f}
Nth(sq, k) == {f \in FnsOf(sq) : Cardinality(UpTo(sq, f)) = k}
InOrder(sq) == [k \in 1..Cardinality(FnsOf(sq)) |-> CHOOSE f \in Nth(sq, k) : TRUE]

Pending == InOrder(q)
NeverRun == {f \in Fns : fate[f] = "new"}
Executing == {f \in Fns : \E t \in Threads : fn[t] = f}
Exists == ~freed

TP == INSTANCE TaskPool WITH
        Tasks <- Fns, fresh <- NeverRun, pending <- Pending, running <- Executing, open <- Exists

\* Functions start in the order of run(), each at most once, with stop_thread()
\* and start_thread() going on; clear() and nothing else takes them out.
ImplementsTaskPool == TP!Safety

\* In a pool that nobody stops and no thread is taken from or added to, every
\* function is executed or cleared.
FnsAreRun ==
  \A f \in Fns :
    fate[f] = "queued" ~>
      \/ fate[f] \in {"done", "cleared"}
      \/ s \/ stops > 0 \/ owner # None

\* stop() and the destructor return, whatever is queued and whoever calls
\* stop_thread(), provided no start_thread() keeps the mutex for ever.
StopEnds ==
  []<>(owner = None) =>
    \A c \in Clients : call[c] \in {"stop", "destroy"} ~> call[c] = "none"

-----------------------------------------------------------------------------
(* Promised by a comment and not kept. *)

\* stop_thread(): "Stops the one thread": no more threads of a running pool
\* have ended than stop_thread() was called times.
OneThreadPerStop ==
  ~s => Cardinality({t \in Threads : thr[t] = "ended"}) <= stops

\* start_thread() returns the "count of running threads".
StartThreadReturns ==
  \A c \in Clients : call[c] = "start_thread" ~> call[c] = "none"

\* stop(): "Removes all enqueued functions. Finishes all running functions and
\* joins all threads": when a call of stop() returns, no thread is left running.
StopJoinsAll ==
  [][\A c \in Clients : call[c] = "stop" /\ call'[c] = "none" =>
       \A t \in Threads : thr[t] \in {"none", "ended"}]_vars

\* ... and what is queued when stop() is called does not stay queued.
StopRemovesQueued ==
  \A f \in Fns, c \in Clients :
    (call[c] = "stop" /\ fate[f] = "queued") ~> (fate[f] # "queued" \/ freed)
=============================================================================
