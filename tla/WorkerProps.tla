----------------------------- MODULE WorkerProps -----------------------------
(* What Worker promises. *)
EXTENDS Worker

\* Threads between popping the quit message and posting it again (or, in
\* ~SharedDispatcher, freeing the queue).
QuitHolders == {a \in Actors : pc[a] \in {"repost", "free"}}

QuitsQueued == {i \in 1..Len(queue) : queue[i] = Null}

\* From the destruction of the DefaultWorker to that of the SharedDispatcher
\* there is exactly one quit message, in the queue or in the hands of one
\* thread, and none before: so every thread of the pool gets it in its turn, the
\* drain in ~SharedDispatcher finds it, and clear() never removes it
\* (worker.h, worker(), flush(), ~DefaultWorker, ~SharedDispatcher).
OneQuitMessage ==
  Cardinality(QuitHolders) + Cardinality(QuitsQueued) =
    IF worker \in {"quitted", "gone"} /\ sd # "freed" THEN 1 ELSE 0

\* No function is ever queued behind the quit message, where the loops would
\* leave it.
QuitIsLast ==
  \A i \in QuitsQueued : i = Len(queue)

\* When the SharedDispatcher is freed, every function dispatched has been
\* executed or was removed by clear(): the queue's destructor finds nothing.
NothingAbandoned ==
  sd = "freed" => \A t \in Tasks : fate[t] \in {"new", "done", "cleared"}

\* Nobody is inside the SharedDispatcher after it is freed, and during its
\* destructor only the thread that runs it is.
NoUseAfterFree ==
  /\ sd = "freed" => \A a \in Actors : role[a] = "none" /\ killer # a
  /\ sd = "draining" => \A a, b \in Actors : role[a] # "none" /\ role[b] # "none" => a = b

\* Once the last handle is gone every thread ends, every call returns and the
\* dispatcher is freed, whatever was still queued ("The worker can cleanup
\* itself after the last reference is released").
Shutdown ==
  handles = {} ~> (sd = "freed" /\ \A a \in Actors : pc[a] = Home(a))

\* In a pool with a thread of its own, or one that is being destroyed, every
\* dispatched function is executed unless clear() removes it first.
Served ==
  \A t \in Tasks :
    (fate[t] = "queued" /\ \E w \in Threads : role[w] = "run")
      ~> fate[t] \in {"done", "cleared"}

\* A queue without the quit message, the tasks never dispatched, and those that
\* some thread is executing.
WorkOf(sq) ==
  IF sq # <<>> /\ sq[Len(sq)] = Null THEN SubSeq(sq, 1, Len(sq) - 1) ELSE sq
Work == WorkOf(queue)
Undispatched == {t \in Tasks : fate[t] = "new"}
Executing == {t \in Tasks : \E a \in Actors : job[a] = t}
InUse == handles # {}

TP == INSTANCE TaskPool WITH
        fresh <- Undispatched, pending <- Work, running <- Executing, open <- InUse

\* A Worker implements TaskPool: every function starts at most once and in the
\* order of dispatch whichever thread takes it, nothing is submitted or
\* discarded once the last handle is gone, and then everything queued is run.
ImplementsTaskPool == TP!Spec

-----------------------------------------------------------------------------
(* Promised by a comment and not kept. *)

\* flush() "process all messages in the queue and returns when there is no
\* unprocessed message".  It does not: between its look at the queue and pop()
\* another thread may take the last message, and pop() blocks.
FlushReturns ==
  \A c \in Clients : role[c] = "flush" ~> role[c] # "flush"

\* A worker without threads "doesn't process its queue until the flush() is
\* called".  The thread that lets the last reference go does: it runs what is
\* left in ~SharedDispatcher.
OnlyFlushServes ==
  (\A a \in Actors : role[a] # "run") =>
    \A a \in Actors : pc[a] = "exec" => role[a] = "flush"

-----------------------------------------------------------------------------
(* The inductive invariant behind the safety properties, in first-order     *)
(* form: who holds what, which task is where, who is in which loop, and     *)
(* where the quit message is.                                               *)

\* Reference count of the DefaultWorker: it lives exactly while somebody holds a
\* handle, one thread destroys it, and a handle due for release is still counted
\* and due in one thread only.
HandleInv ==
  /\ handles # {} <=> worker = "alive"
  /\ killer # None <=> worker \in {"dying", "quitted"}
  /\ \A a \in Actors : due[a] # None => due[a] \in handles
  /\ \A a, b \in Actors : due[a] # None /\ due[a] = due[b] => a = b
  /\ \A a \in Actors : due[a] \in Clients => due[a] = a
  /\ \A a \in Actors : due[a] \in Tasks =>
       \/ fate[due[a]] = "running" /\ job[a] = due[a]
       \/ fate[due[a]] = "done"

\* A running task is in the hands of one thread, which is executing it.
JobInv ==
  /\ \A a \in Actors : pc[a] = "exec" <=> job[a] # None
  /\ \A a \in Actors : job[a] # None => fate[job[a]] = "running"
  /\ \A a, b \in Actors : job[a] # None /\ job[a] = job[b] => a = b
  /\ \A t \in Tasks : fate[t] = "running" => \E a \in Actors : job[a] = t

\* A queued task is in the queue once.
QueueInv ==
  /\ \A i \in 1..Len(queue) : queue[i] # Null => fate[queue[i]] = "queued"
  /\ \A i, j \in 1..Len(queue) : queue[i] # Null /\ queue[i] = queue[j] => i = j
  /\ \A t \in Tasks : fate[t] = "queued" => \E i \in 1..Len(queue) : queue[i] = t

\* The places of each loop.
LoopPlaces ==
  \A a \in Actors :
    /\ role[a] = "none" => pc[a] = Home(a)
    /\ role[a] = "run" => pc[a] \in {"pop", "exec", "repost", "release"}
    /\ role[a] = "flush" => pc[a] \in {"check", "pop", "exec", "repost", "release"}
    /\ role[a] = "drain" => pc[a] \in {"pop", "exec", "free"}

\* Reference count of the SharedDispatcher: whoever is in a loop holds a
\* reference; when nobody does it is in its destructor, in one thread, or freed.
LoopInv ==
  /\ LoopPlaces
  /\ \A a \in Actors : a \in sdrefs <=> role[a] \in {"run", "flush"}
  /\ Self \in sdrefs <=> worker # "gone"
  /\ sd = "live" <=> sdrefs # {}
  /\ \A a, b \in Actors : role[a] = "drain" /\ role[b] = "drain" => a = b
  /\ (\E a \in Actors : role[a] = "drain") <=> sd = "draining"

\* A thread holds the quit message; the queue does.
Holds(a) == pc[a] \in {"repost", "free"}
QuitQueued == \E i \in 1..Len(queue) : queue[i] = Null

\* The quit message exists once from ~DefaultWorker to ~SharedDispatcher, in a
\* thread's hands or at the end of the queue.
QuitInv ==
  /\ QuitIsLast
  /\ worker \in {"alive", "dying"} => ~QuitQueued /\ \A a \in Actors : ~Holds(a)
  /\ QuitQueued => \A a \in Actors : ~Holds(a)
  /\ \A a, b \in Actors : Holds(a) /\ Holds(b) => a = b
  /\ worker \in {"quitted", "gone"} /\ sd # "freed" => QuitQueued \/ \E a \in Actors : Holds(a)
  /\ sd = "freed" => \A a \in Actors : ~Holds(a)
  /\ (\E a \in Actors : pc[a] = "free") \/ sd = "freed" => queue = <<>>

IInv == HandleInv /\ JobInv /\ QueueInv /\ LoopInv /\ QuitInv
=============================================================================
