------------------------------ MODULE Scheduler ------------------------------
(***************************************************************************)
(* SchedulerT and SchedulerT::BasicScheduler of scheduler.h.               *)
(*                                                                         *)
(* One thread owns a Dispatcher and a priority queue of scheduled items.   *)
(* Every operation of the interface - at(), each(), immediate(), remove(), *)
(* removeAll() - only posts a message to the dispatcher; the thread        *)
(* executes the messages and, between them, the items whose time has come. *)
(* A function it executes may call yield(), which does the same work in a  *)
(* nested activation and then returns to the function.  The last SchedulerT*)
(* variable to go deletes the BasicScheduler, which posts the quit message.*)
(*                                                                         *)
(* The dispatcher has a single consumer, so its blocking is a guard here   *)
(* (MsgQueue has the wait set and its proof).                              *)
(***************************************************************************)
EXTENDS Naturals, Sequences, FiniteSets

CONSTANTS
  Clients,    \* threads that use the scheduler
  Ids,        \* scheduled functions, named by the identifier at()/each() returns
  Imms,       \* functions passed to immediate(), each at most once
  Intervals,  \* the intervals of each(); 0 stands for at()
  MaxTime,    \* bound: the clock stops here; no function is scheduled later
  MaxMsgs,    \* bound: a client calls only while fewer messages are waiting
  MaxDepth,   \* bound: nested activations of yield() plus one
  Never,      \* TimePoint::max()
  None

ASSUME TimeAssumption == MaxTime \in Nat /\ Never \notin Nat
ASSUME IntervalsAssumption == Intervals \subseteq Nat
ASSUME BoundsAssumption == {MaxDepth, MaxMsgs} \subseteq Nat \ {0}
ASSUME NamesAssumption ==
  /\ Ids \cap Imms = {}
  /\ None \notin Ids \cup Imms \cup Clients

VARIABLES
  clock,      \* Clock::now()
  msgs,       \* the messages in the dispatcher
  items,      \* SchQueue: the scheduled items
  stack,      \* activations of the scheduler's thread: the message loop at the
              \* bottom and one yield() on top of each function that called it
  handles,    \* clients whose SchedulerT variable is set
  calls,      \* calls[c]: the phase of a sync() the client is in
  used,       \* ids and immediates handed in so far
  ran,        \* history: the functions of at() that were started
  answer,     \* history: what the callback of remove() was told about each id
  asked,      \* history: ids whose remove() a client called before its sync()
  settled     \* history: ids whose remove() was followed by a complete sync()
              \* of the same client

vars == <<clock, msgs, items, stack, handles, calls, used, ran, answer, asked, settled>>

Item == [id : Ids, tp : Nat, interval : Nat]

Msg ==
  [op : {"push"}, item : Item] \cup [op : {"immediate"}, fn : Imms]
    \cup [op : {"remove"}, id : Ids] \cup [op : {"removeAll", "quit"}]
    \cup [op : {"sync"}, by : Clients]

\* An activation: pumping messages or executing retired items as of now; the
\* function it is executing; and, for the message loop, the time point up to
\* which it waits for a message.
Activation == [mode : {"pump", "retire"}, now : Nat, fn : Ids \cup Imms \cup {None},
               interval : Nat, until : Nat \cup {Never}]

\* Types.
TypeOK ==
  /\ clock \in 0..MaxTime
  /\ msgs \in Seq(Msg)
  /\ items \subseteq Item
  /\ stack \in Seq(Activation)
  /\ handles \subseteq Clients
  /\ calls \in [Clients -> {"none", "sync", "nested", "done"}]
  /\ used \subseteq Ids \cup Imms
  /\ ran \subseteq Ids
  /\ answer \in [Ids -> {"none", "true", "false"}]
  /\ asked \in [Clients -> SUBSET Ids]
  /\ settled \subseteq Ids

Loop == [mode |-> "retire", now |-> 0, fn |-> None, interval |-> 0, until |-> Never]

\* create(): the thread has started and is about to enter its loop.
Init ==
  /\ clock = 0
  /\ msgs = <<>>
  /\ items = {}
  /\ stack = <<Loop>>
  /\ \E c \in Clients : handles = {c}
  /\ calls = [c \in Clients |-> "none"]
  /\ used = {}
  /\ ran = {}
  /\ answer = [i \in Ids |-> "none"]
  /\ asked = [c \in Clients |-> {}]
  /\ settled = {}

-----------------------------------------------------------------------------
(* The interface. *)

Depth == Len(stack)
Top == stack[Depth]
Below == SubSeq(stack, 1, Depth - 1)
SetTop(act) == stack' = Append(Below, act)

\* Functions executing now, at whatever depth.
Running == {stack[i].fn : i \in 1..Depth} \ {None}

Nested == Depth > 1

Post(m) == msgs' = Append(msgs, m)

InFunction == Depth > 0 /\ Top.fn # None

\* A call of the interface: by a client that holds a handle and is not inside
\* sync(), or by the function being executed, through that client's handle.
CanCall(c) == c \in handles /\ calls[c] = "none" /\ Len(msgs) < MaxMsgs

\* at() and each(): the time point is computed by the caller, the id is new.
Schedule(c) ==
  /\ CanCall(c)
  /\ \E i \in Ids \ used, interval \in Intervals, tp \in clock..MaxTime :
       /\ interval > 0 => tp = clock + interval
       /\ Post([op |-> "push", item |-> [id |-> i, tp |-> tp, interval |-> interval]])
       /\ used' = used \cup {i}
  /\ UNCHANGED <<clock, items, stack, handles, calls, ran, answer, asked, settled>>

Immediate(c) ==
  /\ CanCall(c)
  /\ \E f \in Imms \ used :
       /\ Post([op |-> "immediate", fn |-> f])
       /\ used' = used \cup {f}
  /\ UNCHANGED <<clock, items, stack, handles, calls, ran, answer, asked, settled>>

\* remove(id), once for each id.
Remove(c) ==
  /\ CanCall(c)
  /\ \E i \in Ids \cap used :
       /\ \A d \in Clients : i \notin asked[d]
       /\ Post([op |-> "remove", id |-> i])
       /\ asked' = [asked EXCEPT ![c] = @ \cup {i}]
  /\ UNCHANGED <<clock, items, stack, handles, calls, used, ran, answer, settled>>

\* Fault: the quit message is posted whenever a variable is reset.
ReleaseQuitting(c, m) ==
  /\ handles' = handles \ {c}
  /\ msgs' = m \o <<[op |-> "quit"]>>

\* A variable is reset: the last one deletes the BasicScheduler, which posts
\* the quit message.
Release(c, m) ==
  /\ handles' = handles \ {c}
  /\ msgs' = IF handles' = {} THEN m \o <<[op |-> "quit"]>> ELSE m

Drop(c) ==
  /\ c \in handles
  /\ calls[c] = "none"
  /\ Release(c, msgs)
  /\ UNCHANGED <<clock, items, stack, calls, used, ran, answer, asked, settled>>

\* SchedulerT::clear(): removeAll(), then the variable is reset.
Clear(c) ==
  /\ CanCall(c)
  /\ Release(c, Append(msgs, [op |-> "removeAll"]))
  /\ UNCHANGED <<clock, items, stack, calls, used, ran, answer, asked, settled>>

Share(c, d) ==
  /\ CanCall(c)
  /\ d \notin handles
  /\ handles' = handles \cup {d}
  /\ UNCHANGED <<clock, msgs, items, stack, calls, used, ran, answer, asked, settled>>

\* sync(): post a probe, wait for it, and again while it ran nested in a yield().
SyncPost(c) ==
  /\ CanCall(c) \/ calls[c] = "nested"
  /\ Post([op |-> "sync", by |-> c])
  /\ calls' = [calls EXCEPT ![c] = "sync"]
  /\ UNCHANGED <<clock, items, stack, handles, used, ran, answer, asked, settled>>

SyncReturn(c) ==
  /\ calls[c] = "done"
  /\ calls' = [calls EXCEPT ![c] = "none"]
  /\ settled' = settled \cup asked[c]
  /\ UNCHANGED <<clock, msgs, items, stack, handles, used, ran, answer, asked>>

-----------------------------------------------------------------------------
(* The scheduler's thread. *)

\* After a message: the message loop reads the clock and executes what is due,
\* yield() looks for the next message.
Pumped(act) ==
  IF Nested THEN [act EXCEPT !.fn = None]
            ELSE [act EXCEPT !.mode = "retire", !.now = clock, !.fn = None, !.interval = 0]

Pumping == Depth > 0 /\ Top.mode = "pump" /\ Top.fn = None

Receive(op) ==
  /\ Pumping
  /\ msgs # <<>>
  /\ Head(msgs).op = op
  /\ msgs' = Tail(msgs)

ReceivePush ==
  /\ Receive("push")
  /\ items' = items \cup {Head(msgs).item}
  /\ SetTop(Pumped(Top))
  /\ UNCHANGED <<clock, handles, calls, used, ran, answer, asked, settled>>

\* Fault: remove() that reports the function being executed as removed, too.
FoundAnywhere(id) == id \in Running \/ \E x \in items : x.id = id

Found(id) == \E x \in items : x.id = id

\* The heap is rebuilt without the item; the callback hears if it was there.
ReceiveRemove ==
  /\ Receive("remove")
  /\ LET id == Head(msgs).id
     IN  /\ items' = {x \in items : x.id # id}
         /\ answer' = [answer EXCEPT ![id] = IF Found(id) THEN "true" ELSE "false"]
  /\ SetTop(Pumped(Top))
  /\ UNCHANGED <<clock, handles, calls, used, ran, asked, settled>>

ReceiveRemoveAll ==
  /\ Receive("removeAll")
  /\ items' = {}
  /\ SetTop(Pumped(Top))
  /\ UNCHANGED <<clock, handles, calls, used, ran, answer, asked, settled>>

\* Faults: a probe that does not look at nested(), and one that releases nobody
\* while it is nested.
ProbeAnswerBlind == "done"
ProbeAnswerLate == IF Nested THEN "sync" ELSE "done"

ProbeAnswer == IF Nested THEN "nested" ELSE "done"

\* sync()'s probe reads nested() and releases the caller.
ReceiveSync ==
  /\ Receive("sync")
  /\ calls' = [calls EXCEPT ![Head(msgs).by] = ProbeAnswer]
  /\ SetTop(Pumped(Top))
  /\ UNCHANGED <<clock, items, handles, used, ran, answer, asked, settled>>

ReceiveImmediate ==
  /\ Receive("immediate")
  /\ SetTop([Top EXCEPT !.fn = Head(msgs).fn, !.interval = 0])
  /\ UNCHANGED <<clock, items, handles, calls, used, ran, answer, asked, settled>>

\* The message loop leaves; heap and dispatcher are destroyed with the stack
\* frame of worker().
ReceiveQuit ==
  /\ ~Nested
  /\ Receive("quit")
  /\ stack' = <<>>
  /\ items' = {}
  /\ UNCHANGED <<clock, handles, calls, used, ran, answer, asked, settled>>

\* Fault: yield() drops the quit message.
YieldQuitDropping ==
  /\ Nested
  /\ Pumping
  /\ msgs # <<>>
  /\ Head(msgs).op = "quit"
  /\ msgs' = Tail(msgs)
  /\ SetTop([Top EXCEPT !.mode = "retire", !.now = clock])
  /\ UNCHANGED <<clock, items, handles, calls, used, ran, answer, asked, settled>>

\* yield() puts the quit message back and stops pumping.  The BasicScheduler is
\* deleted by then (only its destructor posts the message) and yield() still
\* reads its members: the model follows the outcome where their memory is
\* unchanged, and stops at a new call through the deleted object (Yield).
YieldQuit ==
  /\ Nested
  /\ Pumping
  /\ msgs # <<>>
  /\ Head(msgs).op = "quit"
  /\ msgs' = Append(Tail(msgs), Head(msgs))
  /\ SetTop([Top EXCEPT !.mode = "retire", !.now = clock])
  /\ UNCHANGED <<clock, items, handles, calls, used, ran, answer, asked, settled>>

\* yield() found the dispatcher empty.
YieldDrained ==
  /\ Nested
  /\ Pumping
  /\ msgs = <<>>
  /\ SetTop([Top EXCEPT !.mode = "retire", !.now = clock])
  /\ UNCHANGED <<clock, msgs, items, handles, calls, used, ran, answer, asked, settled>>

\* pump_or_wait_until(nx) comes back with no message at time nx.
Timeout ==
  /\ ~Nested
  /\ Pumping
  /\ msgs = <<>>
  /\ Top.until # Never
  /\ clock >= Top.until
  /\ SetTop(Pumped(Top))
  /\ UNCHANGED <<clock, msgs, items, handles, calls, used, ran, answer, asked, settled>>

Retiring == Depth > 0 /\ Top.mode = "retire" /\ Top.fn = None

\* The top of the heap: one of the items with the least time point.
Firsts == {x \in items : \A y \in items : x.tp <= y.tp}

\* Fault: after each message the first item is executed without a look at its
\* time point.
DueAtOnce == Firsts

Due == {x \in Firsts : x.tp <= Top.now}

\* Fault: a repeating item stays in the heap while it executes.
WithoutOneShot(x) == IF x.interval > 0 THEN items ELSE items \ {x}

Without(x) == items \ {x}

\* execAllRetired(): the first item is due; it leaves the heap and runs.
Retire ==
  /\ Retiring
  /\ \E x \in Due :
       /\ items' = Without(x)
       /\ SetTop([Top EXCEPT !.fn = x.id, !.interval = x.interval])
       /\ ran' = IF x.interval = 0 THEN ran \cup {x.id} ELSE ran
  /\ UNCHANGED <<clock, msgs, handles, calls, used, answer, asked, settled>>

\* Fault: the loop always waits for a message.
NextTimeNever == Never

\* What execAllRetired() returns: the time point of the first item that stays.
NextTime == IF items = {} THEN Never ELSE (CHOOSE x \in Firsts : TRUE).tp

\* execAllRetired() returns: the loop waits until the next time point, yield()
\* returns to the function that called it.
Retired ==
  /\ Retiring
  /\ Due = {}
  /\ IF Nested
       THEN stack' = Below
       ELSE SetTop([Top EXCEPT !.mode = "pump", !.until = NextTime])
  /\ UNCHANGED <<clock, msgs, items, handles, calls, used, ran, answer, asked, settled>>

\* Fault: every item goes back to the heap.
AgainAlways ==
  {[id |-> Top.fn, tp |-> Top.now + Top.interval, interval |-> Top.interval]}

\* A repeating item goes back to the heap, its interval counted from the time
\* execAllRetired() was called with.
Again ==
  IF Top.interval > 0
    THEN {[id |-> Top.fn, tp |-> Top.now + Top.interval, interval |-> Top.interval]}
    ELSE {}

FunctionReturns ==
  /\ InFunction
  /\ IF Top.mode = "retire"
       THEN /\ items' = items \cup Again
            /\ SetTop([Top EXCEPT !.fn = None, !.interval = 0])
       ELSE /\ SetTop(Pumped(Top))
            /\ UNCHANGED items
  /\ UNCHANGED <<clock, msgs, handles, calls, used, ran, answer, asked, settled>>

\* The function calls yield(), which reaches the BasicScheduler through the
\* thread-local pointer: only while that object lives.
Yield ==
  /\ InFunction
  /\ handles # {}
  /\ Depth < MaxDepth
  /\ stack' = Append(stack, [Loop EXCEPT !.mode = "pump"])
  /\ UNCHANGED <<clock, msgs, items, handles, calls, used, ran, answer, asked, settled>>

Tick ==
  /\ clock < MaxTime
  /\ clock' = clock + 1
  /\ UNCHANGED <<msgs, items, stack, handles, calls, used, ran, answer, asked, settled>>

-----------------------------------------------------------------------------
Use(c) ==
  \/ Schedule(c) \/ Immediate(c) \/ Remove(c) \/ Drop(c) \/ Clear(c)
  \/ SyncPost(c) \/ SyncReturn(c) \/ \E d \in Clients : Share(c, d)

\* What the thread does besides the functions themselves.
Thread ==
  \/ ReceivePush \/ ReceiveRemove \/ ReceiveRemoveAll \/ ReceiveSync
  \/ ReceiveImmediate \/ ReceiveQuit \/ YieldQuit \/ YieldDrained
  \/ Timeout \/ Retire \/ Retired

Next == (\E c \in Clients : Use(c)) \/ Thread \/ FunctionReturns \/ Yield \/ Tick

\* Time passes, the thread is scheduled, every function returns even if it
\* yields now and then, and a client whose probe is answered goes on.
Fairness ==
  /\ WF_vars(Tick) /\ WF_vars(Thread) /\ SF_vars(FunctionReturns)
  /\ \A c \in Clients :
       WF_vars(SyncReturn(c)) /\ WF_vars(calls[c] = "nested" /\ SyncPost(c))

Spec == Init /\ [][Next]_vars /\ Fairness

=============================================================================
