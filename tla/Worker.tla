------------------------------- MODULE Worker -------------------------------
(***************************************************************************)
(* Worker, Worker::DefaultWorker and Worker::SharedDispatcher of worker.h, *)
(* over the Dispatcher of dispatcher.h and the MsgQueue of msgqueue.h.     *)
(*                                                                         *)
(* A Worker variable is a counted handle on one DefaultWorker, held by a   *)
(* client thread or captured in the closure of a task.  The DefaultWorker, *)
(* the pool's detached threads and every call of flush() or run() each     *)
(* hold a counted reference on one SharedDispatcher, which owns the        *)
(* message queue.  The last handle destroys the DefaultWorker, which posts *)
(* one null function - the quit message - and lets its reference go; a     *)
(* thread that pops the quit message posts it again and lets its own       *)
(* reference go; whoever lets the last reference go runs what is left, up  *)
(* to the quit message, in ~SharedDispatcher.                              *)
(***************************************************************************)
EXTENDS Naturals, Sequences, FiniteSets

CONSTANTS
  Threads,    \* threads the DefaultWorker may create
  Clients,    \* other threads of the program
  Tasks,      \* functions handed to dispatch(), each at most once
  Null,       \* the null function: the quit message
  Self,       \* the DefaultWorker as a holder of a SharedDispatcher reference
  None        \* no task, no handle, nobody

Actors == Threads \cup Clients

ASSUME DistinctAssumption ==
  /\ Threads \cap Clients = {}
  /\ Actors \cap Tasks = {}
  /\ Null \notin Tasks
  /\ Self \notin Actors
  /\ None \notin Actors \cup Tasks

VARIABLES
  queue,      \* the dispatcher's MsgQueue<std::function<void()>>
  waiting,    \* threads asleep on its condition variable
  pc,         \* where each thread is
  role,       \* the message loop it is in: "run", "flush", ~SharedDispatcher
              \* ("drain") or "none"
  job,        \* the function it has popped and is executing
  due,        \* the handle it must release before anything else
  handles,    \* the Worker variables that are set, by the client or task they
              \* belong to (a task's captures); their number is the reference
              \* count of the DefaultWorker
  worker,     \* the DefaultWorker: "alive", then in its destructor before
              \* ("dying") and after ("quitted") d->quit(), then "gone"
  killer,     \* the thread executing ~DefaultWorker
  sdrefs,     \* holders of a reference on the SharedDispatcher
  sd,         \* the SharedDispatcher: "live", in its destructor ("draining"),
              \* "freed"
  fate        \* history: what became of each task

vars == <<queue, waiting, pc, role, job, due, handles, worker, killer,
          sdrefs, sd, fate>>

\* The queue as a component: a thread is inside MsgQueue::pop() at "pop".
MQ == INSTANCE MsgQueue WITH
        Actors <- Actors, Msgs <- Tasks \cup {Null}, MaxLen <- Cardinality(Tasks) + 1,
        queue <- queue, waiting <- waiting, silent <- 0,
        call <- [a \in Actors |-> IF pc[a] = "pop" THEN "pop" ELSE "none"]

PCs == {"idle", "off", "check", "pop", "exec", "repost", "release", "free"}

\* Types; and a thread on the condition variable is inside pump().
TypeOK ==
  /\ queue \in Seq(Tasks \cup {Null})
  /\ waiting \subseteq {a \in Actors : pc[a] = "pop"}
  /\ pc \in [Actors -> PCs]
  /\ role \in [Actors -> {"none", "run", "flush", "drain"}]
  /\ job \in [Actors -> Tasks \cup {None}]
  /\ due \in [Actors -> Clients \cup Tasks \cup {None}]
  /\ handles \subseteq Clients \cup Tasks
  /\ worker \in {"alive", "dying", "quitted", "gone"}
  /\ killer \in Actors \cup {None}
  /\ sdrefs \subseteq Actors \cup {Self}
  /\ sd \in {"live", "draining", "freed"}
  /\ fate \in [Tasks -> {"new", "queued", "running", "done", "cleared"}]

\* Where a thread is when it is in no message loop.
Home(a) == IF a \in Clients THEN "idle" ELSE "off"

\* Worker::create(threads): any number of threads is started, none included; the
\* caller holds the one handle.
Create ==
  /\ \E c \in Clients : handles = {c}
  /\ \E started \in SUBSET Threads :
       /\ pc = [a \in Actors |-> IF a \in started THEN "pop" ELSE Home(a)]
       /\ role = [a \in Actors |-> IF a \in started THEN "run" ELSE "none"]
       /\ sdrefs = started \cup {Self}
  /\ queue = <<>>
  /\ fate = [t \in Tasks |-> "new"]

\* Worker::install(): no threads, the caller is in run(), and the one task in
\* the queue is going to receive the only handle.
Install ==
  \E c \in Clients, t \in Tasks :
    /\ handles = {t}
    /\ pc = [a \in Actors |-> IF a = c THEN "pop" ELSE Home(a)]
    /\ role = [a \in Actors |-> IF a = c THEN "run" ELSE "none"]
    /\ sdrefs = {c, Self}
    /\ queue = <<t>>
    /\ fate = [u \in Tasks |-> IF u = t THEN "queued" ELSE "new"]

Init ==
  /\ Create \/ Install
  /\ waiting = {}
  /\ job = [a \in Actors |-> None]
  /\ due = [a \in Actors |-> None]
  /\ worker = "alive"
  /\ killer = None
  /\ sd = "live"

-----------------------------------------------------------------------------
(* Handles. *)

\* a is not in the middle of a destructor.
Free(a) == due[a] = None /\ killer # a

\* The handles a can use: its own variable, and between the start and the end
\* of a task's execution the one the task captured.
Reach(a) ==
  IF Free(a) THEN {h \in handles : \/ h = a /\ pc[a] \in {"idle", "exec"}
                                   \/ h = job[a] /\ pc[a] = "exec"}
             ELSE {}

\* Fault: the reference count is tested before the decrement, one too early.
UnrefEarly(a, h) ==
  /\ handles' = handles \ {h}
  /\ IF Cardinality(handles') <= 1 /\ worker = "alive"
       THEN worker' = "dying" /\ killer' = a
       ELSE UNCHANGED <<worker, killer>>

\* RefCntPtr<AbstractWorker> lets go: the last one deletes the DefaultWorker.
Unref(a, h) ==
  /\ handles' = handles \ {h}
  /\ IF handles' = {}
       THEN worker' = "dying" /\ killer' = a
       ELSE UNCHANGED <<worker, killer>>

\* Fault: dispatch() that wakes nobody.
DispatchSilently(a, t) ==
  /\ Reach(a) # {}
  /\ fate[t] = "new"
  /\ queue' = Append(queue, t)
  /\ fate' = [fate EXCEPT ![t] = "queued"]
  /\ handles' \in {handles, handles \cup {t}}
  /\ UNCHANGED <<waiting, pc, role, job, due, worker, killer, sdrefs, sd>>

\* dispatch(): the task may capture a handle ("enqueued functions are also
\* counted as references").
Dispatch(a, t) ==
  /\ Reach(a) # {}
  /\ fate[t] = "new"
  /\ MQ!Push(t)
  /\ fate' = [fate EXCEPT ![t] = "queued"]
  /\ handles' \in {handles, handles \cup {t}}
  /\ UNCHANGED <<pc, role, job, due, worker, killer, sdrefs, sd>>

\* A copy of the handle goes to another client.
Share(a, c) ==
  /\ Reach(a) # {}
  /\ c \in Clients \ handles
  /\ pc[c] = "idle"
  /\ Free(c)
  /\ handles' = handles \cup {c}
  /\ UNCHANGED <<queue, waiting, pc, role, job, due, worker, killer, sdrefs, sd, fate>>

\* A client's own variable is reset or goes out of scope, also from inside a
\* task the client executes in flush() or run().
Drop(a) ==
  /\ a \in Reach(a)
  /\ Unref(a, a)
  /\ UNCHANGED <<queue, waiting, pc, role, job, due, sdrefs, sd, fate>>

\* Worker::clear(), first half: the queue is replaced under its mutex, with it
\* the closures and the handles they captured.  The second half resets the
\* variable clear() was called on.
Clear(a) ==
  /\ \E h \in Reach(a) : due' = [due EXCEPT ![a] = h]
  /\ MQ!Clear
  /\ fate' = [t \in Tasks |-> IF fate[t] = "queued" THEN "cleared" ELSE fate[t]]
  /\ handles' = {h \in handles : h \in Clients \/ fate[h] # "queued"}
  /\ UNCHANGED <<pc, role, job, worker, killer, sdrefs, sd>>

\* The handle due: clear()'s "wrk = nullptr" or a captured handle that goes
\* with the closure after the execution.
ReleaseHandle(a) ==
  /\ due[a] # None
  /\ Unref(a, due[a])
  /\ due' = [due EXCEPT ![a] = None]
  /\ UNCHANGED <<queue, waiting, pc, role, job, sdrefs, sd, fate>>

-----------------------------------------------------------------------------
(* The SharedDispatcher's references and destructors. *)

\* Fault: ~SharedDispatcher without its run().
UnrefDispatcherNoDrain(a, x) ==
  /\ sdrefs' = sdrefs \ {x}
  /\ IF sdrefs' = {}
       THEN /\ sd' = "draining"
            /\ role' = [role EXCEPT ![a] = "drain"]
            /\ pc' = [pc EXCEPT ![a] = "free"]
       ELSE /\ UNCHANGED sd
            /\ IF x = a
                 THEN /\ role' = [role EXCEPT ![a] = "none"]
                      /\ pc' = [pc EXCEPT ![a] = Home(a)]
                 ELSE UNCHANGED <<role, pc>>

\* Reference x is let go by a; the last one starts ~SharedDispatcher in a.
UnrefDispatcher(a, x) ==
  /\ sdrefs' = sdrefs \ {x}
  /\ IF sdrefs' = {}
       THEN /\ sd' = "draining"
            /\ role' = [role EXCEPT ![a] = "drain"]
            /\ pc' = [pc EXCEPT ![a] = "pop"]
       ELSE /\ UNCHANGED sd
            /\ IF x = a
                 THEN /\ role' = [role EXCEPT ![a] = "none"]
                      /\ pc' = [pc EXCEPT ![a] = Home(a)]
                 ELSE UNCHANGED <<role, pc>>

\* Fault: ~DefaultWorker clears the queue before it quits.
WorkerQuitClearing(a) ==
  /\ killer = a
  /\ worker = "dying"
  /\ queue' = <<Null>>
  /\ MQ!Notify
  /\ worker' = "quitted"
  /\ UNCHANGED <<pc, role, job, due, handles, killer, sdrefs, sd, fate>>

\* ~DefaultWorker: d->quit().
WorkerQuit(a) ==
  /\ killer = a
  /\ worker = "dying"
  /\ MQ!Push(Null)
  /\ worker' = "quitted"
  /\ UNCHANGED <<pc, role, job, due, handles, killer, sdrefs, sd, fate>>

\* ~DefaultWorker: the member d goes.
WorkerGone(a) ==
  /\ killer = a
  /\ worker = "quitted"
  /\ worker' = "gone"
  /\ killer' = None
  /\ UnrefDispatcher(a, Self)
  /\ UNCHANGED <<queue, waiting, job, due, handles, fate>>

\* The end of ~SharedDispatcher: the queue is destroyed with what it holds.
FreeDispatcher(a) ==
  /\ pc[a] = "free"
  /\ sd' = "freed"
  /\ MQ!Clear
  /\ pc' = [pc EXCEPT ![a] = Home(a)]
  /\ role' = [role EXCEPT ![a] = "none"]
  /\ UNCHANGED <<job, due, handles, worker, killer, sdrefs, fate>>

-----------------------------------------------------------------------------
(* The message loops: Dispatcher::run(), DefaultWorker::worker(), flush(). *)

\* Fault: a loop that uses the member d without a reference of its own.
EnterUncounted(c, loop, start) ==
  /\ c \in Clients \cap Reach(c)
  /\ pc[c] = "idle"
  /\ role' = [role EXCEPT ![c] = loop]
  /\ pc' = [pc EXCEPT ![c] = start]
  /\ UNCHANGED <<queue, waiting, job, due, handles, worker, killer, sdrefs, sd, fate>>

\* A client enters a loop with its own reference on the SharedDispatcher.
Enter(c, loop, start) ==
  /\ c \in Clients \cap Reach(c)
  /\ pc[c] = "idle"
  /\ role' = [role EXCEPT ![c] = loop]
  /\ pc' = [pc EXCEPT ![c] = start]
  /\ sdrefs' = sdrefs \cup {c}
  /\ UNCHANGED <<queue, waiting, job, due, handles, worker, killer, sd, fate>>

\* run(): the caller becomes one more thread of the pool.  flush() begins with
\* a look at the queue.
Run(c) == Enter(c, "run", "pop")
Flush(c) == Enter(c, "flush", "check")

\* flush(): while (!sd->empty()).
Check(a) ==
  /\ pc[a] = "check"
  /\ Free(a)
  /\ pc' = [pc EXCEPT ![a] = IF queue = <<>> THEN "release" ELSE "pop"]
  /\ UNCHANGED <<queue, waiting, role, job, due, handles, worker, killer, sdrefs, sd, fate>>

\* pump() on an empty queue: MsgQueue::pop() blocks.
PumpWait(a) ==
  /\ pc[a] = "pop"
  /\ Free(a)
  /\ MQ!Sleep(a)
  /\ UNCHANGED <<pc, role, job, due, handles, worker, killer, sdrefs, sd, fate>>

\* Fault: pump() that executes the null function like any other.
PumpAnything(a) ==
  /\ pc[a] = "pop"
  /\ Free(a)
  /\ MQ!Take(a)
  /\ job' = [job EXCEPT ![a] = Head(queue)]
  /\ pc' = [pc EXCEPT ![a] = "exec"]
  /\ UNCHANGED <<role, due, handles, worker, killer, sdrefs, sd, fate>>

\* pump() gets a function.
PumpTask(a) ==
  /\ pc[a] = "pop"
  /\ Free(a)
  /\ MQ!Take(a)
  /\ Head(queue) # Null
  /\ job' = [job EXCEPT ![a] = Head(queue)]
  /\ pc' = [pc EXCEPT ![a] = "exec"]
  /\ fate' = [fate EXCEPT ![Head(queue)] = "running"]
  /\ UNCHANGED <<role, due, handles, worker, killer, sdrefs, sd>>

\* Fault: a loop that ends on the quit message and does not post it again.
AfterQuitKeeping(a) == IF role[a] = "drain" THEN "free" ELSE "release"

\* A loop ended by the quit message: worker() and flush() are going to post it
\* again, ~SharedDispatcher is not.
AfterQuit(a) == IF role[a] = "drain" THEN "free" ELSE "repost"

\* pump() gets the quit message and returns false.
PumpQuit(a) ==
  /\ pc[a] = "pop"
  /\ Free(a)
  /\ MQ!Take(a)
  /\ Head(queue) = Null
  /\ pc' = [pc EXCEPT ![a] = AfterQuit(a)]
  /\ UNCHANGED <<role, job, due, handles, worker, killer, sdrefs, sd, fate>>

\* The function returns; its closure is destroyed, with the handle it captured;
\* the loop goes on.
Finish(a) ==
  /\ pc[a] = "exec"
  /\ Free(a)
  /\ fate' = [fate EXCEPT ![job[a]] = "done"]
  /\ due' = [due EXCEPT ![a] = IF job[a] \in handles THEN job[a] ELSE None]
  /\ job' = [job EXCEPT ![a] = None]
  /\ pc' = [pc EXCEPT ![a] = IF role[a] = "flush" THEN "check" ELSE "pop"]
  /\ UNCHANGED <<queue, waiting, role, handles, worker, killer, sdrefs, sd>>

\* sd->quit() after the loop has ended on the quit message.
Repost(a) ==
  /\ pc[a] = "repost"
  /\ MQ!Push(Null)
  /\ pc' = [pc EXCEPT ![a] = "release"]
  /\ UNCHANGED <<role, job, due, handles, worker, killer, sdrefs, sd, fate>>

\* The loop's own reference goes: a pool thread ends, a client's call returns.
LeaveLoop(a) ==
  /\ pc[a] = "release"
  /\ UnrefDispatcher(a, a)
  /\ UNCHANGED <<queue, waiting, job, due, handles, worker, killer, fate>>

-----------------------------------------------------------------------------
\* What the program may do, and what a thread does on its own.
Use(a) ==
  \/ \E t \in Tasks : Dispatch(a, t)
  \/ \E c \in Clients : Share(a, c)
  \/ Drop(a) \/ Clear(a) \/ Run(a) \/ Flush(a)

Step(a) ==
  \/ ReleaseHandle(a) \/ WorkerQuit(a) \/ WorkerGone(a) \/ FreeDispatcher(a)
  \/ Check(a) \/ PumpWait(a) \/ PumpTask(a) \/ PumpQuit(a)
  \/ Finish(a) \/ Repost(a) \/ LeaveLoop(a)

Next == \E a \in Actors : Use(a) \/ Step(a)

\* Every thread is scheduled and every function returns; nobody is obliged to
\* dispatch, share, drop, clear, flush or run.
Fairness == \A a \in Actors : WF_vars(Step(a))

Spec == Init /\ [][Next]_vars /\ Fairness

=============================================================================
