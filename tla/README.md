# ondra_shared in TLA+

ondra_shared is a library of C++ headers shared by many programs. This directory
holds TLA+ specifications of its concurrent parts and of those sequential ones
whose state is easy to get wrong, TLC configurations that check them on small
instances, and TLAPS proofs of the invariants for instances of any size.
`PROJECT.json` lists the runs, the mutated operators that each property must
catch, the source lines behind every definition, the hazards and the findings.

## 1. The system

All of it is header code, used by the threads of the including program; there is
no process, no network and, apart from log files, nothing persistent. What makes
it hard is threads: condition variables with predicates, reference counts that
decide which thread runs a destructor, queues served by detached threads, a
signal handler, lock-free lists.

| component | source | state | operations | used by |
|---|---|---|---|---|
| message queue | `msgqueue.h` | queue, mutex, condition variable | push, pop, try_pump, pump, pump_for, pump_until, modifyQueue, clear, empty | dispatcher |
| dispatcher | `dispatcher.h` | one message queue of functions; the null function is the quit message | dispatch, pump, pump_or_wait_*, run, quit, clear, empty | worker, scheduler |
| worker | `worker.h`, `refcnt.h` | counted handles on a DefaultWorker; counted references on its dispatcher | create, install, dispatch, clear, flush, run, release of handles | programs |
| scheduler | `scheduler.h` | dispatcher, heap of timed functions, nesting count, one thread | at, each, immediate, remove, removeAll, yield, sync, clear | programs, `sch2wrk.h` |
| thread pool | `thread_pool.h` | queue, mutex, condition variable, list of threads, stop flag | run, clear, stop, stop_nb, start_thread, stop_thread, `current::*` | programs |
| semaphore | `semaphore.h` | counter, mutex, condition variable | wait, wait_until, wait_for, try_lock, signal/unlock | programs |
| countdown, event | `countdown.h`, `mtcounter.h`, `waitableEvent.h` | counter, mutex, condition variable | inc, dec, wait*, setCounter, setCounterWhen, guard | scheduler (sync, start) |
| futures | `future.h`, `async_future.h` | value or exception, resolved flag, lock-free list of callbacks, waiters | resolve, reject, add a callback, wait | scheduler's ScheduledFuture |
| shared objects | `shared_lockable_ptr.h`, `shared_object.h`, `shared_state.h`, `async_state.h`, `shared_function.h` | reference counts, a readers-writer lock, a control block | share, lock, release, make from this | programs |
| free-list allocator | `fastsharedalloc.h`, `stack.h` | 16 lock-free chains with busy and shutdown flags | alloc, free, gc, shutdown | shared objects |
| child processes | `linux_waitpid.h`, `linux_spawn.h`, `handle.h`, `linux_crash_handler.h` | map of waits, semaphores, signal handler | beginWait, endWait, signal_enter, wait | programs |
| logging | `logOutput.h`, `stdLogOutput.h`, `stdLogFile.h` | current provider, file, day number, rotation count | writeToLog, reopen, rotate | everything |
| callbacks | `signals.h`, `callback.h`, `move_only_function.h`, `iscallable.h`, `virtualMember.h` | list of handlers | connect, call, disconnect | programs |
| containers | `linear_set.h`, `linear_map.h`, `svo_vector.h`, `stringpool.h`, `trailer.h`, `vla.h` | sorted vector, small buffer, pool | insert, find, erase, push, resize | INI configuration |
| configuration | `ini_parser.h`, `ini_config.h`, `cmdline.h`, `default_app.h` | parser state, sections, argument cursor | parse, load, next | programs |
| text | `stringview.h`, `toString.h`, `namedEnum.h`, `streams.h` | none | split, trim, print, look up | everything |

What interacts with what: a `Worker` and a `Scheduler` each own a dispatcher, a
dispatcher owns a message queue; `Scheduler::sync()` blocks on a `Countdown`
that a message decrements; `sch2wrk.h` presents a scheduler as a worker.
`thread_pool` is a later, separate implementation of the same idea as `Worker`.

### What has to be right

* **Message queue.** A message is never left in the queue while all consumers
  sleep; `push()` notifies one thread only, and threads that never slept,
  timeouts, `clear()` and `modifyQueue()` interfere.
* **Worker.** The last handle may go in any thread, also in a pool thread when a
  function's closure is destroyed; from there one quit message has to end every
  thread in turn, and whoever lets the last reference on the dispatcher go runs
  what is left. Nobody may use the dispatcher after that, nothing dispatched may
  be lost, functions start in order.
* **Scheduler.** Not early, not twice, not for ever pending; `remove()` tells the
  truth; `remove()` and `sync()` form a barrier; a function that calls `yield()`
  puts another message loop on top of the one that runs it; the thread ends when
  the last handle goes.
* **Thread pool.** No lost wakeup, order, at most once; `stop()` and the
  destructor return and leave no thread behind.
* **Semaphore, countdown.** Permits are conserved; nobody sleeps beside a free
  permit or a counter at zero.
* **Futures.** A callback attached while another thread resolves is called once,
  by one of them; every waiter uses the semaphore that is notified.
* **Shared pointers and objects.** A control block counts its references and lives
  as long as it has any, also while the object makes a new pointer to itself; a
  writer is alone; the last handle of an `async_state` runs the callback.
* **Allocator, stacks.** A block is in one place although three parties exchange the
  head of the list; shared tails are freed by the last who holds them.
* **Children.** No exit falls between the look and the registration; `spawn()` tells
  what became of the child and neither process waits for an end of a pipe
  it holds itself.
* **Logging.** A line of a day is in the file of that day, also after a restart
  in the middle of a rotation; a line is what was written, wherever it meets the
  end of the buffer; a placeholder is replaced by its argument.
* **Containers, configuration.** The sorted vector agrees with a map; a pooled string
  keeps its characters; a parsed file says what its lines say, with its includes in
  place; each argument is returned once.

## 2. The modules

| module | what it is |
|---|---|
| `MsgQueue` | `msgqueue.h` in the hands of any set of threads; its critical sections are operators the other modules use |
| `MsgQueue_proofs` | types, no lost wakeup |
| `TaskPool` | the abstract promise of a pool of functions: order, at most once, closed pools finish |
| `Worker` | `worker.h` with the dispatcher and an instance of `MsgQueue` |
| `WorkerProps` | its properties, the refinement mapping to `TaskPool`, and the inductive invariant in first-order form |
| `Worker_proofs` | the proof of that invariant and what follows from it, and that `Worker` implements `TaskPool` |
| `Scheduler`, `SchedulerProps` | `scheduler.h`; its properties and the inductive invariant behind them |
| `Scheduler_proofs` | the proof of that invariant, and with it every safety property of the runs |
| `ThreadPool`, `ThreadPoolProps` | `thread_pool.h`, and the refinement mapping to `TaskPool` |
| `ThreadPool_proofs` | types, wakeups match, no thread outlives the pool, it implements `TaskPool` |
| `Semaphore` | `semaphore.h` |
| `Countdown` | `countdown.h`, `waitableEvent.h` |
| `CallbackCell` | the abstract promise of `async_future`: settled once, each callback called once with the outcome |
| `AsyncFuture` | `async_future.h`, with the refinement mapping to `CallbackCell` |
| `Future` | `future.h` |
| `Futures`, `Futures_proofs` | the two beside each other, and what is proved of either |
| `SharedLockable` | `shared_lockable_ptr.h` |
| `SharedObject` | `shared_object.h` |
| `AsyncState` | `async_state.h` |
| `SharedStack` | `stack.h` on `refcnt.h` |
| `FastSharedAlloc` | one chain of `fastsharedalloc.h` |
| `WaitPid` | `linux_waitpid.h` with its signal handler |
| `ExternalProcess` | `linux_spawn.h`, with the kernel's descriptors |
| `LogRotation` | the rotating file of `stdLogFile.h`, with restarts |
| `Shared` | what threads share, side by side: `SharedLockable`, `SharedObject`, `SharedStack`, `AsyncState`, `FastSharedAlloc`, `WaitPid`, `Semaphore` and `Countdown` as instances, and `LogRotation` by its own names |
| `Shared_proofs`, `Semaphore_proofs` | what is proved of these nine: of `Semaphore` in the second, of the others in the first |
| `LogWriter`, `LogPattern` | the buffer of a line (`stdLogOutput.h`, `logOutput.h`) and `logPrint()` |
| `LinearSet`, `StringPool` | `linear_set.h` with `linear_map.h`; `stringpool.h` |
| `IniParser`, `IniConfig`, `CmdArgIter` | `ini_parser.h`, `ini_config.h`, `cmdline.h` |
| `Library` | the parts that nothing else shares, as instances side by side: `LogWriter`, `LogPattern`, `StringPool`, `LinearSet`, `IniParser`, `CmdArgIter`, `ExternalProcess` |
| `Library_proofs` | what is proved of these seven |
| `MCMsgQueue`, `MCWorker`, `MCScheduler`, `MCThreadPool` | the instances of these components |
| `MCFutures` | `Futures`, one of the two at a time |
| `MCShared` | `Shared`: nine parts, one at a time |
| `MCLibrary` | `Library` and `IniConfig`: eight parts, one at a time |

Operators whose comment begins with "Fault" are the mutated forms of the
operator that follows them; no specification uses them.

### MsgQueue

A method is one step, since it holds the mutex from its first line to its return
(or to the unlock before the caller's function). A blocking method gives the
mutex up in `wait`, so it is `Enter`, any number of `Block` (it found the queue
empty and sleeps: the thread joins `waiting`), and `Return`. `Notify` removes one
thread from `waiting` if there is one. `Spurious` is the wakeup the standard
allows. For timed calls `Expire` may come at any moment, asleep or not, and takes
the thread out of `waiting`; the thread still looks once more (`Return`) before
it returns false (`GiveUp`). `ModifyQueue` leaves any content, since the caller's
function may do anything, and notifies once; the ghost `silent` counts the messages
it added beyond that notification while somebody slept, as long as they may be in
the queue. The properties that hold are about the others; `BlocksOnlyIfEmpty` is the
documented promise without it.

### Worker

| variable | in the code |
|---|---|
| `queue`, `waiting` | the `MsgQueue` inside the `SharedDispatcher` |
| `pc`, `role`, `job` | where each thread is: in which loop (`worker()`, `flush()`, `~SharedDispatcher`), at which of its steps, with which function |
| `handles` | the `Worker` variables that are set, by the client or the task that holds them: their number is the count of the `DefaultWorker` |
| `due` | a handle the thread has to let go next: `wrk = nullptr` in `Worker::clear()`, the captured handle of a finished closure |
| `worker`, `killer` | progress of `~DefaultWorker` (it posts the quit message, then its member `d` goes) and the thread inside it |
| `sdrefs`, `sd` | the counted references on the `SharedDispatcher`, and its life |
| `fate` | history of each function |

A client that holds a handle may dispatch (with or without another handle
captured in the function), copy or drop its handle, `clear()`, and enter `run()`
or `flush()`. A function that is being executed may use the handle it captured and,
if a client executes it, that client's. The steps of a pop, of the check in
`flush()`, of the two halves of `clear()` and of the destructor are apart, because
other threads run between them. `install()` starts with one queued function that
holds the only handle; its raw pointer becomes that handle when the function
starts, and no other reference exists before.

### Scheduler

The thread is a stack of activations: the message loop at the bottom, one
`yield()` on top of each function that called it. An activation is pumping or in
`execAllRetired()`, knows the time it read, the function it executes and the
interval to put it back with. The interface only posts messages, so `Receive*` are
where state changes. `clock` is `Clock::now()`; an item's `tp` is computed by the
caller. Equal time points leave the heap in any order. `sync()` is three steps:
post the probe, the probe answers whether it ran nested, return or post again.
The dispatcher has one consumer here, which makes its blocking a guard.

### ThreadPool

A worker's look at `_s` and `_q` is one step under the mutex (`Exit`, `Wait`,
`TakeFn`, `TakeNull`). `owner` is who keeps the mutex across a join:
`start_thread()`. `stop()` takes the thread list under the mutex and joins
afterwards, so two stops may overlap. The header does not compile as it is (a
missing `<algorithm>`, `static` on an out-of-class definition at line 343); the
model is of what it says.

### Semaphore, Countdown

Both follow `MsgQueue`: a critical section is a step, the wait is `Block` and
`Acquire`/`Pass`, timeouts and spurious wakeups may come at any time. Each has a
ghost `silent` for what the code does not tell sleepers about: in `Semaphore` the
permits given back while another one is free (only the step from zero notifies), in
`Countdown` an opening by `setCounter()` below zero (only zero notifies).

### AsyncFuture, Future

`resolved`, `value` and `callbacks` are `_resolved`, `_value`/`_eptr` and the list
behind the atomic `_callbacks`. An adder looks at the flag, pushes (one
compare-and-swap), looks again and, if the future is resolved by then, exchanges the whole
list and runs it; the producer constructs the value, sets the flag, exchanges and
runs. Each atomic operation is a step, so the second look and the exchange of
several threads interleave. There is one producer, as the comment at
async_future.h:82 requires. `AsyncFuture` implements `CallbackCell`: what a callback
saw when it was called is the outcome, or "not ready" if the future was destroyed.

In `Future` a waiter allocates a semaphore, installs it with a compare-and-swap or
uses the one that is there, looks at the flag under its mutex, sleeps;
`resolve()` sets the flag, notifies, and drops the callbacks, as the code does.

### SharedLockable, SharedObject, AsyncState, SharedStack, FastSharedAlloc

Reference counts are decremented in one step, and the thread that reached zero
goes on alone: `pc` "destroy", "delete", "callback". In `SharedLockable` an object is
made with its control block or is a static one whose block `share_from_this()`
installs with a compare-and-swap; the destructor of the object may share it again,
which revives the block. `Careful` restricts `share_from_this()` to who has the
object locked. In `FastSharedAlloc` an allocating thread exchanges the list for the
busy flag (`Grab`), and puts back what it found without the first block
(`PutBack`, `Take`); `Free` pushes; `Shutdown` and `Restart` are the halves of
`gc()`. `Give` hands a block to another thread, which frees it.

### WaitPid, ExternalProcess

The registrations are behind a mutex taken with SIGCHLD blocked, so the handler
(`SignalEnter`) comes between operations; signals of several exits merge in
`pending`. The wait calls take the semaphore and give it back in two steps.
`ExternalProcess` follows parent and child through four `pipe2()`, `fork()`, the
closing of ends, `dup2()`, `exec()` and the error report, with both tables
of descriptors and the rule that a read ends when no write end is left. A read that
would wait may also be ended by a signal: `spawn()` takes that for a program that
has started (in the text of an error, for its end), and the ghost `interrupted`
remembers it.

### LogRotation, LogWriter, LogPattern

A thread has the time of its line before it has the mutex. `Check` reads the first
line of the log; `Rename` is one `rename()`, `Open`, `Header` and `Line` the rest of
`writeToLog()`, and `Restart` may come between any two. `late` remembers that a
line of an earlier day was written behind one of a later day. `LogWriter`
numbers the characters of a line; `Prepare` enlarges the buffer when the window is
full. `LogPattern` is the automaton of `logPrint()`, fed with a pattern made of items;
`meant` collects what each item means when it is chosen, and `out` has to equal it
at the end. Since `curIndex` is not reset for `$(n)`, the ghosts `carried` and `read`
keep the number of the placeholder before and what the pattern means if `$(n)` goes
on from it; `out` is `read` always, and `meant` where no `$(n)` is behind another
placeholder.

### LinearSet, StringPool, IniParser, IniConfig, CmdArgIter

Sequential: the model does what each operation does to the vector, the
buffer or the cursor, and a ghost variable keeps what a map, the caller or the author
of the file would expect. The input of the parsers is chosen while they run.

In `LinearSet` the ghost `map` is what `std::set` or `std::map` would hold, which
keep the element they have when an equal one is inserted, in whatever way; `again`
is the elements of merged ranges that replaced another one in the vector. The
operations on one element are one step each. `insert(first, last)`
is a loop: `RangeInsert` begins it, `InsertNext` inserts one element of a short range,
`TakeOld` and `TakeNew` are the branches of the merge of a long one, `RangeDone` is the
end. `Orders` stands for what `std::sort()` may do with equal elements. In `IniParser`
the author writes a line piece by piece, each piece is fed to the automaton at once, and
`line`, `section` and `escape` say what was meant; a value may hold any character,
written as it is or behind the escape character, and be broken over lines anywhere,
before an empty line too. Where the parser takes something for something else, the
ghost `odd` says what: a section's name that ends with a space, a directive broken
before an escape, a line broken before an empty one. In `IniConfig` `Include` of a
file that is not there throws if the handler is `strict`, in the program's file and
in an included one, and `Unwind` is the `catch` of each `load()` it passes through. In
`CmdArgIter` the arguments are any sequence over `Words`, and `taken` is what the
program was given.

## 3. The runs

Threads, clients, functions and ids are model values; no symmetry is declared,
since liveness is checked in the same runs.

| run | instance | shows |
|---|---|---|
| `queue` | 3 threads, 2 messages, at most 3 queued, any modification | no message beside sleepers without an awake consumer each; sleepers and messages do not coexist for ever; neither of the messages that `modifyQueue()` adds without a notification |
| `worker` | 0 to 2 pool threads or an installed worker, 2 clients, 2 functions | one quit message from `~DefaultWorker` to the end of the dispatcher; nothing abandoned; no use after free; implements `TaskPool` with its fairness; shuts down after the last handle |
| `scheduler` | 1 client, 2 scheduled functions and an immediate one, intervals 0 and 1, times 0 to 2, one level of `yield()` | not twice, not early, `remove()` truthful, `remove()` + `sync()` a barrier for `at()` |
| `scheduler_live` | 2 clients, 1 scheduled function | nothing behind the quit message; due items start, `sync()` returns, the thread ends |
| `pool` | 2 threads at first and a third, 2 clients, 2 functions, at most 2 queued stop requests | wakeups match; functions are run in order, at most once (`TaskPool`); `stop()` and the destructor return; no thread outlives the pool |
| `futures` | 2 adders, 1 earlier callback, value or error; 2 waiters, timed or not, 1 callback | each callback called once and none left behind; implements `CallbackCell`; every waiter uses the notified semaphore; a timed wait returns |
| `shared` | nine parts, see below | counts, locks and completion of shared objects; blocks and nodes conserved; permits conserved, nobody asleep beside a free one but one given back beside another; an open countdown has no sleepers but those `setCounter()` left, and who sleeps on it passes; no exit missed; days apart |
| `library` | eight parts, see below | `spawn()` tells; lines, patterns, files and arguments read as written; the set agrees with a map; strings keep their characters; configuration loaded with its includes |

`worker` starts in every state `create(0)`, `create(1)`, `create(2)` and
`install()` leave behind, so the same run covers a pool with threads, one
served only by `flush()` and `run()`, and the queue drained by the destructor.
In `futures`, `shared` and `library` the variable `part` says which part a behaviour is
about; the others stay where they started.

Runs that end in a counterexample: each states what a comment of the code
says (quoted in the findings) and shows the behaviour that contradicts it.

| run | what happens |
|---|---|
| `worker_flush` | `flush()` blocks when another consumer takes the message its `empty()` saw |
| `pool_start_thread` | `start_thread()` never returns: it joins running threads with the mutex locked |
| `futures_wait` | a thread that looked at the flag of a `Future` sleeps after `resolve()` has notified, for ever |
| `queue_modify` | `modifyQueue()` adds two messages and wakes one of two sleepers |

### Bounds

`MaxLen` (queue length), `MaxTime`,
`MaxMsgs`, `MaxDepth` (clock, messages waiting before a client calls again, nested
activations), `MaxNulls` (queued stop requests), `Least`/`Most` (countdown) bound the
inputs and are in guards of the callers' actions. Three messages and three
threads give every combination of sleeper, awake consumer and thief; two pool
threads are enough for the quit message to be handed on and for it to be missed;
one nested `yield()` is enough for a probe or a removal to be handled inside a
function. The clock stops at `MaxTime`: a repeating item due later stays, which
`Ripe` in `NothingStaysPending` takes into account.

The parts of `shared` (the first nine) and of `library` (the others):

| part | bounds | why enough |
|---|---|---|
| `SharedLockable` | 3 threads, 2 control blocks | one releases, one shares again, one locks; a second block can be installed meanwhile |
| `SharedObject` | 3 threads, 1 cast | two readers and a writer; a wrapper on top of the storage |
| `AsyncState` | 3 threads, 2 handles each | copies, moves and the last release in each order |
| `SharedStack` | 2 threads, 3 nodes | a shared tail of two and a head of one's own |
| `FastSharedAlloc` | 3 threads, 2 blocks | two that took the list and one that frees; a list of two is split |
| `Semaphore` | 4 threads, 2 permits | two holders that give back one after the other, two that sleep or come late |
| `Countdown` | 3 threads, counter -2 to 2, set to any of them | every way to zero and below it |
| `WaitPid` | 2 children, 2 objects | merged signals; two objects for one child; an object made after the exit |
| `LogRotation` | 2 writers, 2 old files, 3 days | a file is dropped; a restart in each step of each rotation |
| `ExternalProcess` | one `spawn()`, descriptors 0 to 11, of which the parent has 0, 1, 2 and 4 | success, each failure, a read interrupted, a program that reads to the end; pipes on both sides of an inherited descriptor |
| `LogWriter` | header 1, growth 2, 14 characters, strings of 1, 2, 3, 7 | a string that fits, fills the window, needs several enlargements |
| `LogPattern` | 12 arguments, numbers 1, 12, 13, 3 items, indexes that wrap at 1000 | one and two digits, unclosed and doubled `$`, a `$(n)` before and behind others, an index that wraps |
| `LinearSet` | keys 1 to 5, 2 values, ranges of 2 and of 5 | ranges below and from 5, where the algorithm changes; keys that the set has, with the same value and another, in either |
| `StringPool` | 2 characters, 7 in the vector, 3 strings | strings before, behind and put together meanwhile |
| `IniParser` | lines up to the first that is misread; section names of 1, keys and values of 3 characters together, out of 6 | section, key, and what the lines before left in the buffer; every special character in every place |
| `IniConfig` | 3 lines in the program's file, 2 in an included one, 2 files that it may include | an include inside a section, one inside that; a directive that throws in the program's file and in an included one, before and behind lines that count |
| `CmdArgIter` | 4 arguments of 8 kinds | groups, long options, values, "-", "--" behind each other |

Deadlock is not checked where the
program may come to rest (everything destroyed, or everybody waiting for a client).

### Fairness

A thread that can take a step in a loop or a blocking call takes it, and functions
return: weak fairness on each thread's own steps. The operating system's scheduler
is all this needs. Nobody is obliged to call anything. In `Scheduler`, `Tick` is weakly
fair, and the return of a function strongly: a function may yield again and
again, but returns in the end. Two properties are conditional on the thread coming
back to its message loop, because `yield()` may not return (`YieldReturns`, section 5).
In `Future` a waiter's steps are strongly fair, since the mutex they need
is taken and given up by others. In `shared`
only the countdown is fair, in that who is awake in a wait goes on; the other parts,
and `library`, have safety properties only.
Mutexes are taken to be fair: a thread's critical section is one step of its own.

## 4. The proofs

All proofs are for every value of the constants under the named assumptions of
the modules (distinct names, finite sets of threads, bounds that are numbers).

* `MsgQueue_proofs`: `TypeOK`; then `NoLostWakeup` is inductive together with it.
  The argument counts: a push adds one message and wakes one sleeper if there is
  one; a consumer that takes a message is one awake consumer and one message less;
  a thread falls asleep only on an empty queue; one that gives up finds it empty;
  a modification wakes one for the first message it adds, and `silent` counts the others.
* `Worker_proofs`: `TypeOK`; then `IInv` in five parts, each preserved by every
  action: `HandleInv` (the DefaultWorker lives exactly while a handle is set; a
  handle due for release is counted and due once), `JobInv` and `QueueInv` (a
  running function is in one thread, a queued one in the queue once),
  `LoopInv` (who is in a loop holds a reference; the destructor runs in one thread
  and only when nobody holds any), `QuitInv` (none before `~DefaultWorker`, then one,
  in a thread's hands or last in the queue, until the dispatcher is freed). The
  strengthening is needed because a step is harmless only by what other
  threads cannot be doing: that the drain finds the quit message, for example,
  follows from `QuitInv` and from `LoopInv`, which says that no other thread can
  have taken it. From it: `QuitIsLast`, `OneQuitMessage` (the count of quit messages,
  by cardinalities), `NothingAbandoned`, `NoUseAfterFree`. The same invariant makes
  every step one of `TaskPool` or a stutter (`RefinesTaskPool`): the abstract queue is
  `queue` without the quit message, which is the last one if it is there, so that
  posting it, taking it and handing it on are invisible; the pool is closed when no
  handle is left. The fairness of `TaskPool` stays with the run.
* `Scheduler_proofs`: `Typed`, then `IInv` of `SchedulerProps`. `Activations` (a function runs
  in the activation whose mode it fits, at a time that is past) gives `NeverEarly`.
  `Callers` (who is in `sync()` has a handle and at most one probe on its way)
  makes `NothingBehindQuit` inductive: the quit message is posted when the last handle
  goes. `OnePlace` (a scheduled function is on its way to the heap, in it, or in
  one activation) and `FirstRuns` give `OneShotRunsOnce`; with `OnePlace` a removal that
  found its function in the heap took the only copy, hence `RemovedForGood`.
  `Removals` is the order of messages that makes `remove()` and `sync()` a barrier: a
  request comes after the message that hands its function in, and before the next
  probe of the same client. When the request is handled the function is not pending,
  and when a probe finds itself in the outermost round no activation executes it.
* `ThreadPool_proofs`: three invariants, each preserved by every action. `PlacesInv`
  (a function is new, once in the queue, with one worker, or over) gives
  `TypeOK`. `WakeInv` says that the functions in front of the first null action
  are a prefix of some length k, and k is at most the number of awake
  workers while anybody sleeps; `run()` adds one and wakes one, `TakeFn`
  removes one of both, and `stop()` wakes all. From it, by cardinalities,
  `WakeupsMatch`. `JoinsInv` says that a thread that has not ended is in the list or
  being joined, that `start_thread()` has the mutex and joins the very list, and
  that the destructor is alone; `NoUseAfterFree` follows.
  `Spec => ImplementsTaskPool`: the abstract queue is what is left of `_q` without its
  null actions. `Pending` says it by rank - the k-th function is the one with k
  functions up to it - because `SelectSeq` is recursive and no fact about it is at
  hand; TLC found both equal on the instance. A push appends to the order, a pop
  takes its head, a null action leaves it alone. `HandsInv` (a worker has a function
  exactly while it executes one) and `PlacesInv` say which functions the abstract pool
  is executing; `JoinsInv` that nobody calls a destroyed pool.
* `Futures_proofs`: `TypeOK`; then `NothingLeftBehind`, and `OnePlace`: a callback is
  not added yet, in the list, in what one thread took, or called. An exchange moves
  all of the list to one thread, so that no other can call the same callback.
  `CalledOnce` follows.
  With `Outcomes` (a value once constructed, nothing seen before a call) every step
  then is one of `CallbackCell` or a stutter: `Spec => Cell!Safety`. `Destroy` of an
  unresolved future settles the cell to "not ready", that of a resolved one stutters.
  `FutureSafe` is inductive with `FutureInv`: the value is there before the flag is
  set, and an adder calls its callback as the first thing it does, so nobody can
  see a flag without a value, and a waiter that finds no semaphore installs its own
  by one compare-and-swap.
* `Semaphore_proofs`: `TypeOK`, `PermitsConserved` and `NoStrandedPermit`, for any
  number of threads and permits. The last counts as that of `MsgQueue` does: a permit
  given back at zero wakes a sleeper if there is one, any other adds to `silent`.
* `Shared_proofs` takes the parts of `Shared` one by one:
  * `LogRotation`, for any number of threads and old files. `DaysApart`
    says nothing of a program that stopped between two renames, so the inductive
    invariant does. Files with a day are ordered by it (`FilesOrdered`); between two lines
    `day_num` is not ahead of the log, and a log without a day, which a stopped
    rotation leaves, comes after all old files and before every line to be
    written (`BetweenLines`); and each step of `writeToLog()` has what the next one
    needs (`WithinLine`). All of this is under `~late`; with a line of yesterday
    it is false.
  * `Countdown`, for any bounds and values: its types, and `OpenMeansAwake`. The counter
    comes to zero by one or is set; below it, nobody sleeps unless `silent` says so.
  * `WaitPid`, for any number of children and objects: its types, then
    `ExitsAreSeen` is inductive with them. A child that exits was running, so
    nobody is signaled for it; the look and the registration of `beginWait()` are one
    step; the handler visits every registration, so merged signals do no harm.
  * `SharedObject`: `ObjectCounted` (the counter is the number of handles, of locks
    held or waited for, of threads that are giving one back, and of the wrappers that
    `cast()` leaves) and `LocksExclude`.
    A thread that brings the counter to zero is then alone.
  * `AsyncState`: `StateCounted` counts the pairs of a thread and a handle and the
    threads letting one go; `OneEnds`: while anything is counted nobody ends the
    state, and after that one thread does.
  * `SharedStack`: each node's counter is the number of heads, of living nodes
    above it and of threads about to release it (`NodesCounted`), and it lives while that
    is not zero (`LiveCounted`).
  * `FastSharedAlloc`: a block is in one place (`OnePlace`, a count over list, heap,
    users and hands) and no list has one twice. Together with `ListOrFlag` (while
    the head is a flag there is no list) an exchange of the head moves all of
    a list to one thread. The two invariants give `NodesConserved`.
  * `SharedLockable`, with `Careful` TRUE (with FALSE it is wrong, section 5):
    `RefsCounted`, by cardinalities of pointers, locks and pending releases;
    `Current` (what anybody refers to is the one living control block); `Alone` (who
    destroys the object, or makes its first control block, finds nobody else at it);
    `DestroyedOnce`; and the mode of the lock. Destruction that shares the object
    again is why `Current` and `Alone` name each phase of a release.
* `Library_proofs` takes the parts of `Library` one by one. Each has an invariant that says
  how far the input was read and what the code holds of it, so that a step is
  compared with what one character, one argument or one element adds to the meaning;
  no induction over the input is needed beyond that over the steps.
  * `LogWriter`, under `0 \notin ViewSizes` (an empty string breaks it, section 5):
    while a line is written the buffer holds the header and all of the line so far,
    and its window has room for one character more (`LineStarts`), whichever way a
    piece met the end of the window; so the writer always gets on, and what it
    commits is as `LinesAsWritten` says.
  * `StringPool`: what `begin_add()` started lies behind every string that was handed
    out (`Behind`), so that `discard_add()` cuts none of them off, and a string reads
    the same in every vector that begins as the old one did (`ReadsSame`). This gives
    `StringsKept`, and the two together are `BuffersKept`.
  * `ExternalProcess`, for any number of descriptors and any that the parent inherits, 0, 1 and 2
    among them, and programs whose input was closed: `ProcessInv` says of both
    tables that an end of a pipe has at most one descriptor, that what was inherited
    stays, and which ends either process has at each of its lines. The end that a read
    waits for is then in one table only, so that nobody waits for himself. What the
    parent knows of the child (`InStep`) holds until a signal interrupts a read; the
    descriptors do not depend on that. It gives `SpawnTells`.
  * `CmdArgIter`, for any words under `NoInnerDash`: `CmdInv` says that what was
    returned covers each argument before the place of the iterator and, inside a
    group, the letters before it, in order (`CmdCover`, `CmdOrder`), and that the iterator stands
    where `NextArg` stops (`StandsAt`). At the end this is `EachArgumentOnce`.
  * `LogPattern`, for any alphabet, arguments and length: `PatInv` names
    the five places in an item the automaton may be at, and for each what is owed:
    behind the last digit of `$n` it is the argument, since its end is only seen at the
    next character. Between items `curIndex` is the number of the last placeholder, which is
    what `carried` says and the next `$(n)` goes on from; where none is behind another one
    it is zero there, and `read` is `meant`. It gives `PlaceholdersReplaced`.
  * `IniParser`, for any alphabet and length: `IniInv` says that, as long as nothing `odd` was
    written, the buffer is that of the line as it was meant, for each kind of line: the
    section with a NUL, the key with a NUL, the value so far, with `sectionSize` and
    `keySize` where these were cut, the state and the state after an escape. The parser is
    a record, so `Fits` says all this of any record, and `Feed` is followed handler by handler.
    It gives `LinesUnderstood`. With the last two it gives `TextUnderstood`.
  * `LinearSet`, for any keys, values and ranges in which no key is twice: `SetInv` says that
    the vector is sorted and, in the middle of `insert(first, last)`, that what the vector has
    to hold is what was taken together with what is left, the range's element where both
    have the key; what was taken is before all that is left (`SetMerge`). Binary search is
    shown to end at the one boundary of a sorted vector (`LowerIs`), so every lookup tells
    what is in it (`LookupsAre`). It gives `SetAgrees`, in which the elements of merged
    ranges may differ from those `std::map` would hold, and `ImplementsSet` where a key
    has one value, as in a `linear_set` whose equal elements are the same.

  The hypotheses that are left (`Careful`, no empty string in a line, no key twice in a
  range, no dash behind the letter of a group, 0, 1 and 2 inherited and the input closed)
  are cases in which the code does something else; section 5 names each, and the runs
  have the same values.

Types and the strengthenings (`IInv` of `WorkerProps` and of `SchedulerProps`, `OnePlace`, those of
`Shared_proofs` and `Library_proofs`) are left to the proofs and are in no run; adding one as INVARIANT to the
component's cfg checks it on its instance.

Only model-checked:

* all liveness (`SleepersDrain`, `Shutdown`, `TimedReturns`, ...): fairness and ENABLED
  are outside the prover. So are the fairness halves of `TaskPool` and `CallbackCell`.
  `ImplementsTaskPool` of `ThreadPoolProps` has no such half and is proved whole;
* `LoadedAsWritten`: what a file with its includes means is defined by recursion over files
  and lines (`Meaning` of `IniConfig`), and induction over data is outside the prover.

## 5. Other divergences met

These have a definition in the module named but no run in the list, because
the code contradicts the comment in a step or two or because the run would only
repeat what the text says. Adding the definition as INVARIANT or PROPERTY to the
component's cfg (`MCShared.cfg` and `MCLibrary.cfg` for their parts) gives the
counterexample.

* `OnlyFlushServes` (`WorkerProps`): a worker without threads is said not to
  process its queue "until the flush() is called"; `~SharedDispatcher` runs it
  (worker.h:122).
* `CallbackAfterFunction` (`SchedulerProps`): the callback of `remove()` is
  called while the function executes, when the function yields.
* `YieldReturns` (`SchedulerProps`): `yield()` and a client's `sync()` keep each
  other busy for ever (scheduler.h:244 and 525).
* `YieldSchedulerAlive` (`SchedulerProps`): the last handle may go while a
  `yield()` is in progress; the `BasicScheduler` is deleted and `yield()` goes
  on reading its `dispatcher`, `queue` and `nestcnt` (scheduler.h:244 to 252).
  The model follows the outcome where that memory is unchanged.
* `StopJoinsAll` (`ThreadPoolProps`): a second, overlapping `stop()` returns
  while threads still run (thread_pool.h:246).
* `StopRemovesQueued` (`ThreadPoolProps`): `stop()` leaves the queue as it is.
* `setCounterWhen()` (countdown.h:130) compares, reports and notifies but never
  stores the new value; `SetCounterWhen` is modelled as written.
* `SyncSettlesAll` (`SchedulerProps`): a repeating function whose `remove()` was
  handled in its own `yield()` is scheduled again, also after `sync()`
  (scheduler.h:313 and 518).
* `OneThreadPerStop` (`ThreadPoolProps`): one `stop_thread()` ends all threads,
  because the null action is never popped (thread_pool.h:267).
* `PermitsAreTaken` (`Semaphore`, with its `Spec` in a cfg of its own): with two permits,
  two unlocks notify once, and a thread sleeps beside a free permit (semaphore.h:55).
* `SleepersReleased` (`Countdown`): a countdown is said to be open "while counter is
  zero or below" (countdown.h:20), but only zero notifies (countdown.h:117): `setCounter(-1)`
  lets who calls `wait()` then pass, and who slept before sleeps on. `OpenMeansAwake` and
  `OpenReleases` are about all other sleepers.
* `ImplementsSet` (`LinearSet`): the class is said to implement `std::set`
  (linear_set.h:21), which keeps the element it has. A range of five or more is merged and
  replaces the elements of the set that are equal to its own (linear_set.h:205); a shorter one
  does not. `SetAgrees` holds but for those (`again`), `ImplementsSet` does not.
* `PlaceholdersAsDocumented` (`LogPattern`): "use $1...$n or $(1)...$(n) as placeholders"
  (logOutput.h:382), but `curIndex` is not reset at `(` (logOutput.h:313): `"$1$(2)"` asks for
  argument 12.
* `BreaksAsDocumented` (`IniParser`): "that new line character is skipped, so reading
  continues on next line" (ini_parser.h:53), but all white space behind it is, further
  new lines included (ini_parser.h:271): a value broken before an empty line takes in the
  key or the section that follows.
* `SectionsAsDocumented` (`IniParser`): a section "can contain any characters excluding
  new line characters and character ]" (ini_parser.h:50), but if its name ends with a space,
  the NUL written behind the trimmed name (ini_parser.h:235) is in the name from the
  second item on. It needs `MaxName = 2` in `MCLibrary.cfg`.
* `SyncMeansOwn` (`AsyncFuture`): a callback may be called with `async` false in a
  thread that did not attach it.
* `CallbacksCalled` (`Future`): callbacks in the list are forgotten at resolution
  (future.h:376). `addCallback()` does not compile when it is used; the model is of
  what it says.
* `ReadersTogether` (`SharedLockable`): two readers of an object that is not const
  exclude each other (shared_lockable_ptr.h:433). With `Careful` FALSE, `LockableSafe`
  fails: `share_from_this()` of an object whose last pointer goes uses a
  deleted control block (line 74).
* `GoesWithTheLast` (`SharedObject`): after `cast()` the storage is never freed.
* `GcSafe`, `CacheRestarts` (`FastSharedAlloc`): `gc()` beside `alloc()` may delete a
  static flag object, or leave the cache off for good.
* `ExitCodeStays` (`WaitPid`): the next SIGCHLD replaces an exit code by ECHILD
  (linux_waitpid.h:105). The handler also changes `errno` of the thread it interrupts.
* `Kept` and `DaysApartAlways` (`LogRotation`): a program stopped between two renames
  loses an old file too many; a late line of yesterday puts today's lines into
  yesterday's log.
* A directive broken over lines before an escape (`odd` of `IniParser`): the parser goes
  on as in a value and reports it as data (ini_parser.h:273).
* Constants that admit what breaks a property: 0 in `ViewSizes` of `LogWriter` (an
  empty string at the beginning of a window sends the window as it is), a key twice in
  one of the `Ranges` of `LinearSet` (those from 5 on are not freed of equal keys),
  `Nested` in `StringPool`, a word with a '-' behind a letter among the `Words` of
  `CmdArgIter` (it is taken for a long option), no 0 in `Inherited` and `ClosesStdin`
  FALSE in `ExternalProcess` (the pipe's end is descriptor 0 already, `dup2()` onto
  itself keeps its close-on-exec flag, and the program has no stdin; `join()` waits for
  a program that reads its input).

Seen while reading, without a definition: `IniParser` never reports a last line that
does not end with a newline; `insert(const &)` of `linear_set` returns an iterator that is
invalid when the vector moved; `getInt()` of `cmdline.h` reads an empty optional and takes
"0xb..." for binary; `sendSignal()` after `join()` signals the caller's process group;
`spawn_cmdline()` never sets its flag; a failed `exec()` leaves a zombie; assignment of `RefCntPtr`
and of the shared pointers releases before it reads the other side; `svo_vector` (swap
and move assignment), `Signal::send()` and the merge of `async_future` do not compile when
used, and `svo_vector::pop_back()` truncates to one element.

## 6. Not modelled

* Function wrappers, text, streams and language helpers have no state worth a
  model or are type erasure. `signals.h` and `svo_vector.h` do not compile where it would
  matter (section 5); `shared_state.h` and `shared_function.h` rename `std::shared_ptr`.
* Exceptions thrown by functions end the program (`pump()` is noexcept). Allocation
  failure is left out.
* `run()` and `flush()` from inside a function, `sync()` from the scheduler's own
  thread (it blocks at once), and `yield()` after the last handle is gone (it uses a
  deleted object) are excluded by guards, each listed as a hazard where it bites;
  `current::start_thread()` would join itself.
* `async_future` has one producer and is neither moved nor merged while it is used, as
  its comment demands.
* Of logging: how numbers, dates and levels are written, the file without
  rotation and its reopening, the choice of a thread's provider. Of child
  processes: the reading and writing of streams, the crash handler. Of
  configuration: conversions of values, `default_app.h`.

## 7. Plan

Done: all of the above. What would add most from here:

1. Proofs: every safety property of the runs is proved but `LoadedAsWritten`. The
   refinement of `IniConfig` by `IniParser`, which feeds it the items, is not stated.
2. `WorkerByScheduler` (`sch2wrk.h`) as a refinement of `TaskPool` by `Scheduler`.
3. `StdLogFile` with its reopening on SIGHUP, and several providers on one file.
4. Number conversion (`toString.h`, `StrView` to number) against a reference
   definition at the limits of each width.

One run per family of components: a new sequential or lock-free part joins
`shared` or `library`, a part with liveness brings a run of its own.
