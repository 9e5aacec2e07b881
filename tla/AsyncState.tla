----------------------------- MODULE AsyncState -----------------------------
(***************************************************************************)
(* async_state.h: a state with a mutex and a callback, shared by counted   *)
(* handles; whoever lets the last handle go runs the callback on the state *)
(* and deletes it.                                                         *)
(***************************************************************************)
EXTENDS Naturals, FiniteSets

CONSTANTS Threads, MaxHandles, Null

VARIABLES
  handles,    \* per thread: the async_state_t variables it has
  shareCount, \* _shareCount
  owner,      \* who has locked _mx, or Null
  pc,         \* per thread: "idle", "release", "callback", "delete"
  callback,   \* _callback is set
  finished,   \* how often the callback was called
  deleted

vars == <<handles, shareCount, owner, pc, callback, finished, deleted>>

Init ==
  /\ \E t0 \in Threads : handles = [t \in Threads |-> IF t = t0 THEN 1 ELSE 0]
  /\ shareCount = 1 /\ owner = Null
  /\ pc = [t \in Threads |-> "idle"]
  /\ callback = FALSE /\ finished = 0 /\ deleted = FALSE

Has(t) == pc[t] = "idle" /\ handles[t] > 0

\* The copy constructor: a handle for u from one of t.
Copy(t, u) ==
  /\ Has(t) /\ handles[u] < MaxHandles
  /\ handles' = [handles EXCEPT ![u] = @ + 1] /\ shareCount' = shareCount + 1
  /\ UNCHANGED <<owner, pc, callback, finished, deleted>>

\* The move constructor.
Move(t, u) ==
  /\ Has(t) /\ t # u /\ handles[u] < MaxHandles /\ (owner = t => handles[t] > 1)
  /\ handles' = [handles EXCEPT ![t] = @ - 1, ![u] = @ + 1]
  /\ UNCHANGED <<shareCount, owner, pc, callback, finished, deleted>>

\* onFinish(), operator>>, by the only holder.
OnFinish(t) ==
  /\ Has(t) /\ shareCount = 1 /\ ~callback
  /\ callback' = TRUE
  /\ UNCHANGED <<handles, shareCount, owner, pc, finished, deleted>>

\* lock(), try_lock(), unlock(); who locks keeps a handle until it unlocks.
Lock(t) ==
  /\ Has(t) /\ owner = Null
  /\ owner' = t
  /\ UNCHANGED <<handles, shareCount, pc, callback, finished, deleted>>
Unlock(t) ==
  /\ owner = t /\ owner' = Null
  /\ UNCHANGED <<handles, shareCount, pc, callback, finished, deleted>>

\* release(), the destructor, and the first half of an assignment: the handle
\* is gone and its reference is let go next.
Release(t) ==
  /\ Has(t) /\ (owner = t => handles[t] > 1)
  /\ handles' = [handles EXCEPT ![t] = @ - 1]
  /\ pc' = [pc EXCEPT ![t] = "release"]
  /\ UNCHANGED <<shareCount, owner, callback, finished, deleted>>

\* Fault: the last reference is recognised by a second look at the counter.
DecrementAndLook(t) ==
  \/ /\ pc[t] = "release"
     /\ shareCount' = shareCount - 1
     /\ pc' = [pc EXCEPT ![t] = "look"]
     /\ UNCHANGED <<handles, owner, callback, finished, deleted>>
  \/ /\ pc[t] = "look"
     /\ pc' = [pc EXCEPT ![t] = IF shareCount # 0 THEN "idle" ELSE IF callback THEN "callback" ELSE "delete"]
     /\ UNCHANGED <<handles, shareCount, owner, callback, finished, deleted>>

\* holder_t::release(): one atomic fetch_sub.
Decrement(t) ==
  /\ pc[t] = "release"
  /\ shareCount' = shareCount - 1
  /\ pc' = [pc EXCEPT ![t] = IF shareCount # 1 THEN "idle" ELSE IF callback THEN "callback" ELSE "delete"]
  /\ UNCHANGED <<handles, owner, callback, finished, deleted>>

RunCallback(t) ==
  /\ pc[t] = "callback"
  /\ finished' = finished + 1 /\ pc' = [pc EXCEPT ![t] = "delete"]
  /\ UNCHANGED <<handles, shareCount, owner, callback, deleted>>

Delete(t) ==
  /\ pc[t] = "delete"
  /\ deleted' = TRUE /\ pc' = [pc EXCEPT ![t] = "idle"]
  /\ UNCHANGED <<handles, shareCount, owner, callback, finished>>

Step(t) == Decrement(t) \/ RunCallback(t) \/ Delete(t)

Next == \E t \in Threads :
  \/ Step(t) \/ OnFinish(t) \/ Lock(t) \/ Unlock(t) \/ Release(t)
  \/ \E u \in Threads : Copy(t, u) \/ Move(t, u)

-----------------------------------------------------------------------------
\* The callback runs once, in one thread, after the last handle and before the
\* state is deleted; nobody has a handle or the mutex then; and a state without
\* handles is deleted by the one who let the last go (async_state.h:136).
FinishedLast ==
  /\ finished <= 1 /\ (deleted /\ callback => finished = 1)
  /\ (deleted \/ \E t \in Threads : pc[t] \in {"callback", "delete"}) =>
       owner = Null /\ \A t \in Threads : handles[t] = 0 /\ pc[t] # "release"
  /\ Cardinality({t \in Threads : pc[t] \in {"callback", "delete"}}) <= 1
  /\ deleted <=> \A t \in Threads : handles[t] = 0 /\ pc[t] = "idle"
=============================================================================
