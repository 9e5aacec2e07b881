---------------------------- MODULE SharedObject ----------------------------
(***************************************************************************)
(* shared_object.h: an object in a counted Storage with a readers-writer   *)
(* lock; Lock objects keep the storage alive; cast() wraps the storage in  *)
(* another one that forwards to it.                                        *)
(***************************************************************************)
EXTENDS Naturals, FiniteSets

CONSTANTS Threads, MaxCasts

VARIABLES
  handle,     \* per thread: its SharedObject: "none", "direct", "cast"
  lock,       \* per thread: its Lock: "none", "shared", "exclusive"
  want,       \* per thread: the lock it waits for, or "none"
  counter,    \* the counter of the Storage
  wrappers,   \* the storages S that cast() made and that are not deleted
  pc,         \* per thread: "idle", or "release": a reference to give back
  alive       \* the Storage exists

vars == <<handle, lock, want, counter, wrappers, pc, alive>>

\* make().
Init ==
  /\ \E t0 \in Threads : handle = [t \in Threads |-> IF t = t0 THEN "direct" ELSE "none"]
  /\ lock = [t \in Threads |-> "none"] /\ want = [t \in Threads |-> "none"]
  /\ counter = 1 /\ wrappers = 0
  /\ pc = [t \in Threads |-> "idle"] /\ alive = TRUE

\* A copy of t's SharedObject for u; a copy of a cast one counts, through the
\* wrapper's addRef(), on the same Storage.
Copy(t, u) ==
  /\ pc[t] = "idle" /\ pc[u] = "idle" /\ handle[t] # "none" /\ handle[u] = "none"
  /\ handle' = [handle EXCEPT ![u] = handle[t]]
  /\ counter' = counter + 1
  /\ UNCHANGED <<lock, want, wrappers, pc, alive>>

\* cast(), dynamicCast(): t's handle becomes a cast one.  The wrapper's src
\* counts, and so does the new handle; the old handle is then released.
Cast(t) ==
  /\ pc[t] = "idle" /\ handle[t] = "direct" /\ wrappers < MaxCasts
  /\ handle' = [handle EXCEPT ![t] = "cast"]
  /\ wrappers' = wrappers + 1 /\ counter' = counter + 2
  /\ pc' = [pc EXCEPT ![t] = "release"]
  /\ UNCHANGED <<lock, want, alive>>

\* release(), the destructor.
Drop(t) ==
  /\ pc[t] = "idle" /\ handle[t] # "none"
  /\ handle' = [handle EXCEPT ![t] = "none"]
  /\ pc' = [pc EXCEPT ![t] = "release"]
  /\ UNCHANGED <<lock, want, counter, wrappers, alive>>

\* lock(): the Lock takes a reference of its own, then the lock.
StartLock(t) ==
  /\ pc[t] = "idle" /\ handle[t] # "none" /\ lock[t] = "none" /\ want[t] = "none"
  /\ \E m \in {"shared", "exclusive"} : want' = [want EXCEPT ![t] = m]
  /\ counter' = counter + 1
  /\ UNCHANGED <<handle, lock, wrappers, pc, alive>>

\* Fault: a reader does not look for a writer.
AcquireFreely(t) ==
  /\ want[t] # "none"
  /\ want[t] = "exclusive" => \A u \in Threads : lock[u] = "none"
  /\ lock' = [lock EXCEPT ![t] = want[t]] /\ want' = [want EXCEPT ![t] = "none"]
  /\ UNCHANGED <<handle, counter, wrappers, pc, alive>>

Acquire(t) ==
  /\ want[t] # "none"
  /\ \A u \in Threads : lock[u] = "none" \/ (want[t] = "shared" /\ lock[u] = "shared")
  /\ lock' = [lock EXCEPT ![t] = want[t]] /\ want' = [want EXCEPT ![t] = "none"]
  /\ UNCHANGED <<handle, counter, wrappers, pc, alive>>

\* ~Lock(), Lock::release(): unlock, then the reference goes.  The holder may
\* have let its SharedObject go before.
Unlock(t) ==
  /\ pc[t] = "idle" /\ lock[t] # "none"
  /\ lock' = [lock EXCEPT ![t] = "none"]
  /\ pc' = [pc EXCEPT ![t] = "release"]
  /\ UNCHANGED <<handle, want, counter, wrappers, alive>>

\* RefCntPtr gives a reference back; a wrapper forwards to the Storage's count,
\* and a wrapper is deleted only with the last reference.
Release(t) ==
  /\ pc[t] = "release"
  /\ counter' = counter - 1
  /\ alive' = (counter > 1)
  /\ pc' = [pc EXCEPT ![t] = "idle"]
  /\ UNCHANGED <<handle, lock, want, wrappers>>

Next == \E t \in Threads :
  \/ Cast(t) \/ Drop(t) \/ StartLock(t) \/ Acquire(t) \/ Unlock(t) \/ Release(t)
  \/ \E u \in Threads : Copy(t, u)

-----------------------------------------------------------------------------
Users == Cardinality({t \in Threads : handle[t] # "none"})
  + Cardinality({t \in Threads : lock[t] # "none" \/ want[t] # "none"})
  + Cardinality({t \in Threads : pc[t] = "release"})

\* A writer is alone and readers exclude writers; the Storage is there while
\* anybody has a handle or a lock, or waits for one, also after the handle it
\* was taken through is gone; without casts it goes with the last of them.
ObjectSafe ==
  /\ \A t, u \in Threads : lock[t] = "exclusive" /\ t # u => lock[u] = "none"
  /\ Users > 0 => alive
  /\ alive /\ wrappers = 0 => Users > 0
  /\ alive => counter = Users + wrappers

\* "The object itself is release once the last reference is destroyed"
\* (shared_object.h:24).  Not so
\* after a cast: the wrapper's own reference keeps the Storage, and with it the
\* wrapper, for ever.
GoesWithTheLast == alive => Users > 0
=============================================================================
