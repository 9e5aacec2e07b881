---------------------------- MODULE SchedulerProps ----------------------------
(* What Scheduler promises, and what its comments promise. *)
EXTENDS Scheduler

\* The item with this id is on its way to the heap or in it.
Posted(i) == \E k \in 1..Len(msgs) : msgs[k].op = "push" /\ msgs[k].item.id = i
InHeap(i) == \E x \in items : x.id = i
Pending(i) == Posted(i) \/ InHeap(i)

\* ... and its time comes before the clock stops.
Ripe(i) ==
  \/ Posted(i)
  \/ \E x \in items : x.id = i /\ x.tp <= MaxTime

\* A function starts from the heap no earlier than its time point, although the
\* time is read once and used for a whole round of execAllRetired().
NeverEarly ==
  [][\A x \in items : x.id \in Running' \ Running => x.tp <= clock]_vars

\* A function given to at() that is still pending has not been started: it
\* leaves the heap for its only run, whatever yields and nested rounds happen
\* meanwhile (scheduler.h, execAllRetired).
OneShotRunsOnce ==
  \A x \in items : x.interval = 0 => x.id \notin ran

\* remove() that reported success is final: the function is not executing and
\* will not be executed again ("The value true means, that item has been
\* removed").
RemovedForGood ==
  \A i \in Ids : answer[i] = "true" => ~Pending(i) /\ i \notin Running

\* For functions given to at(), remove() and then sync() by the same client is a
\* barrier: the function is neither pending nor executing afterwards ("useful to
\* ensure,that operation has been removed and it is not executed right now").
SyncSettlesOneShots ==
  \A i \in settled :
    /\ ~ \E x \in items : x.id = i /\ x.interval = 0
    /\ ~ \E k \in 1..Depth : stack[k].fn = i /\ stack[k].interval = 0

\* No message is left behind the quit message when the thread ends.
NothingBehindQuit ==
  /\ stack = <<>> => msgs = <<>>
  /\ \A k \in 1..Len(msgs) : msgs[k].op = "quit" => k = Len(msgs) /\ handles = {}

\* Whatever is scheduled for a time that comes starts or is removed, provided
\* the thread keeps coming back to its message loop: neither a flood of messages
\* nor repeating functions keep a due item in the heap.
NothingStaysPending ==
  []<>~Nested =>
    \A i \in Ids : Ripe(i) ~> ~Ripe(i)

\* sync() returns, provided the thread keeps coming back to its message loop
\* (see YieldReturns for why it may not).
SyncReturns ==
  []<>~Nested => \A c \in Clients : calls[c] = "sync" ~> calls[c] = "none"

\* When the last handle is gone the thread ends ("Once this is achieved,
\* scheduler is destroyed").
ShutdownEnds == handles = {} ~> stack = <<>>

-----------------------------------------------------------------------------
(* The inductive invariant behind them. *)

\* The message loop executes what immediate() posted while it pumps and what
\* was scheduled while it retires, at a time that is past; below the top an
\* activation waits for the function that called yield().
Activations ==
  \A k \in DOMAIN stack :
    /\ stack[k].now <= clock
    /\ stack[k].fn # None => stack[k].fn \in (IF stack[k].mode = "retire" THEN Ids ELSE Imms)
    /\ k < Depth => stack[k].fn # None

\* Who is inside sync() holds a handle and has at most the one probe it waits
\* for among the messages; the thread ends, and the quit message is posted,
\* when nobody can post any more.
Callers ==
  /\ \A c \in Clients : calls[c] # "none" => c \in handles
  /\ \A k \in DOMAIN msgs : msgs[k].op = "sync" => calls[msgs[k].by] = "sync"
  /\ \A j, k \in DOMAIN msgs :
       msgs[j].op = "sync" /\ msgs[k].op = "sync" /\ msgs[j].by = msgs[k].by => j = k
  /\ stack = <<>> => handles = {}

\* A scheduled function is in one place: on its way to the heap, in the heap, or
\* executing in one activation; one that was not handed in is nowhere.
Executes(k, i) == stack[k].fn = i
PushedAt(k, i) == msgs[k].op = "push" /\ msgs[k].item.id = i
Executing(i) == \E k \in DOMAIN stack : Executes(k, i)
OnePush(i) == \A j, k \in DOMAIN msgs : PushedAt(j, i) /\ PushedAt(k, i) => j = k
OneItem(i) == \A x, y \in items : x.id = i /\ y.id = i => x = y
OneActivation(i) == \A j, k \in DOMAIN stack : Executes(j, i) /\ Executes(k, i) => j = k
OnePlace ==
  \A i \in Ids :
    /\ OnePush(i) /\ OneItem(i) /\ OneActivation(i)
    /\ Posted(i) => ~InHeap(i) /\ ~Executing(i)
    /\ InHeap(i) => ~Executing(i)
    /\ Pending(i) \/ Executing(i) => i \in used

\* A function of at() that is still pending was not started, one that was not
\* handed in neither.
FirstRuns ==
  /\ ran \subseteq used
  /\ \A i \in Ids :
       /\ Posted(i) => i \notin ran
       /\ \A x \in items : x.id = i /\ x.interval = 0 => i \notin ran

\* A request to remove a function comes after that function and before the next
\* probe of the same client; when it is executed the function of at() is not
\* pending any more, and after a probe that was not nested it does not execute.
RemoveAt(k, i) == msgs[k].op = "remove" /\ msgs[k].id = i
Unpending(i) == ~Posted(i) /\ \A x \in items : x.id = i => x.interval # 0
Repeats(i) == \A k \in DOMAIN stack : Executes(k, i) => stack[k].interval # 0
Over(i) == Unpending(i) /\ Repeats(i)
RemovedAfterPush(i) ==
  \A k \in DOMAIN msgs : RemoveAt(k, i) =>
    i \in used /\ \A j \in DOMAIN msgs : PushedAt(j, i) => j < k
RemovedBeforeProbe(c, i) ==
  \A j, k \in DOMAIN msgs :
    msgs[j].op = "sync" /\ msgs[j].by = c /\ RemoveAt(k, i) => k < j
Removals ==
  /\ \A i \in Ids : RemovedAfterPush(i) /\ (answer[i] # "none" => i \in used)
  /\ \A c \in Clients : \A i \in asked[c] :
       /\ i \in used
       /\ (\E k \in DOMAIN msgs : RemoveAt(k, i)) \/ Unpending(i)
       /\ RemovedBeforeProbe(c, i)
       /\ calls[c] = "done" => Over(i)
  /\ \A i \in settled : i \in used /\ Over(i)

IInv ==
  /\ Activations /\ Callers /\ NothingBehindQuit
  /\ OnePlace /\ FirstRuns /\ RemovedForGood /\ Removals

-----------------------------------------------------------------------------
(* Promised by a comment and not kept. *)

\* "If the function remove() is called when the specified scheduled function is
\* being executed, the callback function is called with the argument "false",
\* but after the scheduled function finishes": the callback has not been called
\* while the function is still executing.
CallbackAfterFunction ==
  [][\A i \in Ids : answer[i] = "none" /\ answer'[i] # "none" => i \notin Running]_vars

\* "useful to ensure,that operation has been removed and it is not executed
\* right now", for repeating functions too.
SyncSettlesAll ==
  \A i \in settled : ~InHeap(i) /\ i \notin Running

\* yield(): "Function returns after all sheduled tasks has been finished".  It
\* does not when clients are inside sync(): a probe that ran nested is posted
\* again, and yield() goes on as long as it finds a message.
YieldReturns == Nested ~> ~Nested

\* "Once this is achieved, the scheduler uninstalls itself as soon as the control
\* is returned to the scheduler's level": a yield() in progress finds its
\* BasicScheduler alive.  It does not when a client drops the last handle
\* meanwhile.
YieldSchedulerAlive == Nested => handles # {}
=============================================================================
