----------------------------- MODULE AsyncFuture -----------------------------
(***************************************************************************)
(* async_future of async_future.h: a value that is set once, and a         *)
(* lock-free list of callbacks.  Threads attach callbacks while the one    *)
(* producer resolves it; whoever finds the future resolved after pushing   *)
(* takes the whole list and runs it.                                       *)
(***************************************************************************)
EXTENDS Naturals, Sequences

CONSTANTS
  Adders,     \* threads that attach a callback; it is named after its thread
  Early,      \* the callbacks attached before the future was moved to its
              \* place, newest first
  Producer,   \* the thread that resolves the future, tries again, destroys it
  Values      \* values and exceptions

ASSUME NamesAssumption ==
  /\ Producer \notin Adders
  /\ Early \in Seq({Early[i] : i \in DOMAIN Early})
  /\ \A i, j \in DOMAIN Early : Early[i] = Early[j] => i = j
  /\ \A i \in DOMAIN Early : Early[i] \notin Adders
  /\ "none" \notin Values /\ "not ready" \notin Values

Threads == Adders \cup {Producer}
Callbacks == Adders \cup {Early[i] : i \in DOMAIN Early}

VARIABLES
  resolved,   \* _resolved
  value,      \* _value or _eptr, "none" before it is constructed
  callbacks,  \* the list behind _callbacks, newest first
  taken,      \* per thread: what flush_cbs() exchanged out and did not run yet
  pc,         \* per thread: the next step
  calls,      \* per callback: how often it was called
  saw,        \* per callback: what is_ready() and the value were in its call
  how         \* per callback: the thread that called it and the flag async

vars == <<resolved, value, callbacks, taken, pc, calls, saw, how>>

\* Types.
TypeOK ==
  /\ resolved \in BOOLEAN
  /\ value \in Values \cup {"none"}
  /\ callbacks \in Seq(Callbacks)
  /\ taken \in [Threads -> Seq(Callbacks)]
  /\ pc \in [Threads -> {"new", "direct", "push", "recheck", "take", "run", "done",
                         "idle", "mark", "refused", "drain", "gone"}]
  /\ calls \in [Callbacks -> Nat]

\* An async_future with callbacks attached, moved to its final place (the move
\* constructor takes value and list over), or one that starts with a value.
Init ==
  /\ \/ resolved = FALSE /\ value = "none" /\ callbacks = Early
     \/ resolved = TRUE /\ value \in Values /\ callbacks = <<>>
  /\ taken = [t \in Threads |-> <<>>]
  /\ pc = [t \in Threads |-> IF t = Producer THEN "idle" ELSE "new"]
  /\ calls = [c \in Callbacks |-> 0]
  /\ saw = [c \in Callbacks |-> "none"]
  /\ how = [c \in Callbacks |-> <<Producer, FALSE>>]

Goto(t, p) == pc' = [pc EXCEPT ![t] = p]

-----------------------------------------------------------------------------
\* Running callback c in thread t: it may look at the value if is_ready().
Run(c, t, async) ==
  /\ calls' = [calls EXCEPT ![c] = @ + 1]
  /\ saw' = [saw EXCEPT ![c] = IF resolved THEN value ELSE "not ready"]
  /\ how' = [how EXCEPT ![c] = <<t, async>>]

Alive == pc[Producer] \notin {"drain", "gone"}

\* operator>>, addfn1(), addfn2(): is it ready?
Attach(a) ==
  /\ pc[a] = "new" /\ Alive
  /\ Goto(a, IF resolved THEN "direct" ELSE "push")
  /\ UNCHANGED <<resolved, value, callbacks, taken, calls, saw, how>>

CallDirectly(a) ==
  /\ pc[a] = "direct"
  /\ Run(a, a, FALSE)
  /\ Goto(a, "done")
  /\ UNCHANGED <<resolved, value, callbacks, taken>>

\* Fault: the thread does not look again after its push.
PushAndLeave(a) ==
  /\ pc[a] = "push"
  /\ callbacks' = <<a>> \o callbacks
  /\ Goto(a, "done")
  /\ UNCHANGED <<resolved, value, taken, calls, saw, how>>

\* add_cb(): the compare-and-exchange that succeeds.
Push(a) ==
  /\ pc[a] = "push"
  /\ callbacks' = <<a>> \o callbacks
  /\ Goto(a, "recheck")
  /\ UNCHANGED <<resolved, value, taken, calls, saw, how>>

Recheck(a) ==
  /\ pc[a] = "recheck"
  /\ Goto(a, IF resolved THEN "take" ELSE "done")
  /\ UNCHANGED <<resolved, value, callbacks, taken, calls, saw, how>>

-----------------------------------------------------------------------------
\* Fault: the list is read but not emptied.
ReadList(t) ==
  /\ pc[t] = "take"
  /\ taken' = [taken EXCEPT ![t] = callbacks]
  /\ Goto(t, "run")
  /\ UNCHANGED <<resolved, value, callbacks, calls, saw, how>>

\* flush_cbs(): exchange(nullptr) ...
Take(t) ==
  /\ pc[t] = "take"
  /\ taken' = [taken EXCEPT ![t] = callbacks]
  /\ callbacks' = <<>>
  /\ Goto(t, "run")
  /\ UNCHANGED <<resolved, value, calls, saw, how>>

\* ... flush_down(): each element, head first.  mark_resolved() and the
\* destructor pass async = true, add_cb() false.
RunNext(t) ==
  /\ pc[t] \in {"run", "drain"} /\ taken[t] # <<>>
  /\ Run(Head(taken[t]), t, t = Producer)
  /\ taken' = [taken EXCEPT ![t] = Tail(@)]
  /\ UNCHANGED <<resolved, value, callbacks, pc>>

\* The elements are deleted together after the last call.
Flushed(t) ==
  /\ pc[t] \in {"run", "drain"} /\ taken[t] = <<>>
  /\ Goto(t, IF t \in Adders THEN "done" ELSE IF pc[t] = "run" THEN "idle" ELSE "gone")
  /\ UNCHANGED <<resolved, value, callbacks, taken, calls, saw, how>>

-----------------------------------------------------------------------------
\* operator=: async_future_already_resolved is thrown, or the value is
\* constructed, then mark_resolved().
Refuse ==
  /\ pc[Producer] = "idle" /\ resolved
  /\ Goto(Producer, "refused")
  /\ UNCHANGED <<resolved, value, callbacks, taken, calls, saw, how>>

Assign(v) ==
  /\ pc[Producer] = "idle" /\ ~resolved
  /\ value' = v
  /\ Goto(Producer, "mark")
  /\ UNCHANGED <<resolved, callbacks, taken, calls, saw, how>>

MarkResolved ==
  /\ pc[Producer] = "mark"
  /\ resolved' = TRUE
  /\ Goto(Producer, "take")
  /\ UNCHANGED <<value, callbacks, taken, calls, saw, how>>

\* Fault: the destructor deletes the list without running it.
DestroySilently ==
  /\ pc[Producer] \in {"idle", "refused"}
  /\ \A a \in Adders : pc[a] \in {"new", "done"}
  /\ callbacks' = <<>>
  /\ Goto(Producer, "drain")
  /\ UNCHANGED <<resolved, value, taken, calls, saw, how>>

\* The destructor, when nobody else uses the future any more, takes the list.
Destroy ==
  /\ pc[Producer] \in {"idle", "refused"}
  /\ \A a \in Adders : pc[a] \in {"new", "done"}
  /\ taken' = [taken EXCEPT ![Producer] = callbacks]
  /\ callbacks' = <<>>
  /\ Goto(Producer, "drain")
  /\ UNCHANGED <<resolved, value, calls, saw, how>>

-----------------------------------------------------------------------------
\* What a thread inside a call does next.
Step(t) ==
  \/ t \in Adders /\ (CallDirectly(t) \/ Push(t) \/ Recheck(t))
  \/ t = Producer /\ MarkResolved
  \/ Take(t) \/ RunNext(t) \/ Flushed(t)

Next ==
  \/ \E t \in Threads : Step(t)
  \/ \E a \in Adders : Attach(a)
  \/ \E v \in Values : Assign(v)
  \/ Refuse \/ Destroy

\* Calls go on; nobody has to start one.
Fairness == \A t \in Threads : WF_vars(Step(t))

Spec == Init /\ [][Next]_vars /\ Fairness

-----------------------------------------------------------------------------
\* A callback is called at most once, however its thread, the producer and
\* other threads that push interleave between the push and the second look
\* (async_future.h:510), and none is called before there is an outcome.
CalledOnce ==
  \A c \in Callbacks : calls[c] <= 1 /\ (calls[c] = 1 => resolved \/ ~Alive)

\* A callback that is in the list of a resolved future has somebody who will
\* take it: a thread that looks again, or one on its way to the exchange
\* (async_future.h:494 and 511).
NothingLeftBehind ==
  resolved /\ callbacks # <<>> => \E t \in Threads : pc[t] \in {"recheck", "take"}

\* Where a callback is: with its thread, in the list, in what one thread took,
\* or called.  Inductive; the two properties above follow from it.
Holds(s, c) == \E i \in DOMAIN s : s[i] = c
Unique(s) == \A i, j \in DOMAIN s : s[i] = s[j] => i = j
Loose(c) == ~Holds(callbacks, c) /\ \A t \in Threads : ~Holds(taken[t], c)
Lists == Unique(callbacks) /\ \A t \in Threads : Unique(taken[t])
Counted(c) ==
  /\ calls[c] <= 1
  /\ calls[c] = 1 => Loose(c) /\ (resolved \/ ~Alive)
  /\ \A t, u \in Threads : Holds(taken[t], c) =>
       ~Holds(callbacks, c) /\ (t # u => ~Holds(taken[u], c))
NotAdded(a) == pc[a] \in {"new", "direct", "push"} => calls[a] = 0 /\ Loose(a)
Position(t) ==
  /\ pc[t] \notin {"run", "drain"} => taken[t] = <<>>
  /\ pc[t] \in {"direct", "take", "run"} => resolved
  /\ pc[t] = "drain" => t = Producer
OnePlace ==
  /\ Lists
  /\ \A c \in Callbacks : Counted(c)
  /\ \A a \in Adders : NotAdded(a)
  /\ \A t \in Threads : Position(t)

\* The future is a single-assignment cell that calls each attached callback,
\* once, with the outcome: the value, or "not ready" if it is destroyed.
Outcome == IF resolved THEN value ELSE IF Alive THEN "none" ELSE "not ready"
Known(c) ==
  IF c \in Adders THEN pc[c] # "new"
  ELSE Holds(callbacks, c) \/ calls[c] # 0 \/ \E t \in Threads : Holds(taken[t], c)
Attached == {c \in Callbacks : Known(c)}

Cell == INSTANCE CallbackCell WITH
  Outcomes <- Values \cup {"not ready"},
  NoOutcome <- "none",
  outcome <- Outcome, attached <- Attached, seen <- saw
ImplementsCell == Cell!Spec

\* "The synchronous call means in context of this function, which also means,
\* that callback is called immediately after attach" (async_future.h:221).
\* Not so: a thread that flushes the list after its own push calls the others'
\* callbacks with async = false as well.
SyncMeansOwn == \A c \in Callbacks : calls[c] > 0 /\ ~how[c][2] => how[c][1] = c
=============================================================================
