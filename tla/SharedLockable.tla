--------------------------- MODULE SharedLockable ---------------------------
(***************************************************************************)
(* shared_lockable_ptr.h: one object shared through counted references to  *)
(* a control block that also holds its readers-writer lock.  The object    *)
(* is made with its control block, or is a static one whose control block  *)
(* share_from_this() allocates when it is first needed.                    *)
(***************************************************************************)
EXTENDS Naturals, FiniteSets

CONSTANTS
  Threads,    \* each has one shared_lockable_ptr and one locked_pointer
  Ctrls,      \* addresses of control blocks
  Null,
  Careful     \* share_from_this() is called only by who has the object locked,
              \* or when nobody has any pointer and nobody else calls it

VARIABLES
  kind,       \* "made" or "static"
  _cntr,      \* the object's member enable_share_lockable_from_this::_cntr
  refs,       \* per control block: _refs
  ctl,        \* per control block: "unborn", "live", "destroying", "deleted"
  ptr,        \* per thread: the control block its pointer refers to
  locked,     \* per thread: the control block its locked_pointer refers to
  mode,       \* per thread: the lock it has: "none", "shared", "exclusive"
  pc,         \* per thread: the next step
  releasing,  \* per thread: the control block it is releasing
  destroyed,  \* how often the object of make() was destroyed
  broken      \* a deleted control block, or a null one, was used

vars == <<kind, _cntr, refs, ctl, ptr, locked, mode, pc, releasing, destroyed, broken>>
access == <<ptr, locked, mode>>

\* make() or make_shared_lockable() in thread t, or a static object.
Init ==
  \E first \in Ctrls, t0 \in Threads :
    /\ kind \in {"made", "static"}
    /\ _cntr = IF kind = "made" THEN first ELSE Null
    /\ refs = [c \in Ctrls |-> IF c = _cntr THEN 1 ELSE 0]
    /\ ctl = [c \in Ctrls |-> IF c = _cntr THEN "live" ELSE "unborn"]
    /\ ptr = [t \in Threads |-> IF t = t0 THEN _cntr ELSE Null]
    /\ locked = [t \in Threads |-> Null] /\ mode = [t \in Threads |-> "none"]
    /\ pc = [t \in Threads |-> "idle"] /\ releasing = [t \in Threads |-> Null]
    /\ destroyed = 0 /\ broken = FALSE

Goto(t, p) == pc' = [pc EXCEPT ![t] = p]
AddRef(c) == refs' = [refs EXCEPT ![c] = @ + 1]
Gone(c) == c = Null \/ ctl[c] \in {"unborn", "deleted"}

-----------------------------------------------------------------------------
\* The copy constructor and operator=(const &): thread t's empty pointer
\* becomes a copy of u's.
Copy(t, u) ==
  /\ t # u /\ pc[t] = "idle" /\ pc[u] = "idle" /\ ptr[t] = Null /\ ptr[u] # Null
  /\ ptr' = [ptr EXCEPT ![t] = ptr[u]] /\ AddRef(ptr[u])
  /\ UNCHANGED <<kind, _cntr, ctl, locked, mode, pc, releasing, destroyed, broken>>

\* The move constructor and operator=(&&), from u's pointer to t's empty one.
Move(t, u) ==
  /\ t # u /\ pc[t] = "idle" /\ pc[u] = "idle" /\ ptr[t] = Null /\ ptr[u] # Null
  /\ ptr' = [ptr EXCEPT ![t] = ptr[u], ![u] = Null]
  /\ UNCHANGED <<kind, _cntr, refs, ctl, locked, mode, pc, releasing, destroyed, broken>>

\* The destructor, or the assignment of an empty pointer.
Drop(t) ==
  /\ pc[t] = "idle" /\ ptr[t] # Null
  /\ ptr' = [ptr EXCEPT ![t] = Null] /\ releasing' = [releasing EXCEPT ![t] = ptr[t]]
  /\ Goto(t, "release")
  /\ UNCHANGED <<kind, _cntr, refs, ctl, locked, mode, destroyed, broken>>

\* Fault: release_ref() destroys at zero, without a reference of its own.
ReleaseAtZero(t) ==
  LET c == releasing[t] IN
  /\ pc[t] = "release"
  /\ refs' = [refs EXCEPT ![c] = @ - 1]
  /\ ctl' = IF refs[c] = 1 THEN [ctl EXCEPT ![c] = "destroying"] ELSE ctl
  /\ Goto(t, IF refs[c] = 1 THEN "destroy" ELSE "idle")
  /\ UNCHANGED <<kind, _cntr, access, releasing, destroyed, broken>>

\* release_ref(): who takes the count to zero takes a reference back, so that
\* the destructor may share the object, then destroys it.
Release(t) ==
  LET c == releasing[t] IN
  /\ pc[t] = "release"
  /\ refs' = [refs EXCEPT ![c] = IF @ = 1 THEN 1 ELSE @ - 1]
  /\ ctl' = IF refs[c] = 1 THEN [ctl EXCEPT ![c] = "destroying"] ELSE ctl
  /\ Goto(t, IF refs[c] = 1 THEN "destroy" ELSE "idle")
  /\ UNCHANGED <<kind, _cntr, access, releasing, destroyed, broken>>

\* The destructor of T calls share_from_this(): its pointer comes and goes.
ShareInDestructor(t) ==
  LET c == releasing[t] IN
  /\ pc[t] = "destroy" /\ kind = "made"
  /\ Goto(t, "reshared") /\ AddRef(c)
  /\ UNCHANGED <<kind, _cntr, ctl, access, releasing, destroyed, broken>>
EndReshare(t) ==
  LET c == releasing[t] IN
  /\ pc[t] = "reshared"
  /\ refs' = [refs EXCEPT ![c] = @ - 1]
  /\ destroyed' = destroyed + IF refs[c] = 1 THEN 1 ELSE 0
  /\ Goto(t, "destroy")
  /\ UNCHANGED <<kind, _cntr, ctl, access, releasing, broken>>

\* destroy(): the object, or its link to the control block; delete this.
Destroy(t) ==
  /\ pc[t] = "destroy"
  /\ IF kind = "made" THEN destroyed' = destroyed + 1 /\ UNCHANGED _cntr
                      ELSE _cntr' = Null /\ UNCHANGED destroyed
  /\ Goto(t, "delete")
  /\ UNCHANGED <<kind, refs, ctl, access, releasing, broken>>
Delete(t) ==
  /\ pc[t] = "delete"
  /\ ctl' = [ctl EXCEPT ![releasing[t]] = "deleted"]
  /\ refs' = [refs EXCEPT ![releasing[t]] = 0]
  /\ releasing' = [releasing EXCEPT ![t] = Null]
  /\ Goto(t, "idle")
  /\ UNCHANGED <<kind, _cntr, access, destroyed, broken>>

-----------------------------------------------------------------------------
\* share_from_this(): looks for a control block, makes one if there is none
\* (set_control_object() exchanges it only for objects shared by a constructor),
\* then makes a pointer from what _cntr is by then.
MayShare(t) ==
  \/ ~Careful \/ locked[t] # Null
  \/ \A u \in Threads : ptr[u] = Null /\ locked[u] = Null /\ pc[u] = "idle"
ShareFromThis(t) ==
  /\ pc[t] = "idle" /\ ptr[t] = Null /\ destroyed = 0 /\ MayShare(t)
  /\ Goto(t, IF _cntr = Null THEN "new" ELSE "make")
  /\ UNCHANGED <<kind, _cntr, refs, ctl, access, releasing, destroyed, broken>>
NewControl(t) ==
  /\ pc[t] = "new"
  /\ \E c \in Ctrls :
       /\ ctl[c] \in {"unborn", "deleted"}
       /\ _cntr' = c /\ ctl' = [ctl EXCEPT ![c] = "live"] /\ refs' = [refs EXCEPT ![c] = 0]
  /\ Goto(t, "make")
  /\ UNCHANGED <<kind, access, releasing, destroyed, broken>>
MakePointer(t) ==
  /\ pc[t] = "make"
  /\ IF Gone(_cntr) THEN broken' = TRUE /\ UNCHANGED <<ptr, refs>>
                    ELSE ptr' = [ptr EXCEPT ![t] = _cntr] /\ AddRef(_cntr) /\ UNCHANGED broken
  /\ Goto(t, "idle")
  /\ UNCHANGED <<kind, _cntr, ctl, locked, mode, releasing, destroyed>>

-----------------------------------------------------------------------------
\* lock(), lock_shared(): a reference, then the mutex.  Both lock exclusively a
\* T, and shared a const T.
Lock(t) ==
  /\ pc[t] = "idle" /\ ptr[t] # Null /\ locked[t] = Null
  /\ locked' = [locked EXCEPT ![t] = ptr[t]] /\ AddRef(ptr[t])
  /\ \E p \in {"lock", "lock_shared", "lock_const"} : Goto(t, p)
  /\ UNCHANGED <<kind, _cntr, ctl, ptr, mode, releasing, destroyed, broken>>

Acquire(t) ==
  LET c == locked[t] IN
  /\ pc[t] \in {"lock", "lock_shared", "lock_const"}
  /\ \A u \in Threads \ {t} : locked[u] = c =>
       mode[u] = "none" \/ (pc[t] = "lock_const" /\ mode[u] = "shared")
  /\ mode' = [mode EXCEPT ![t] = IF pc[t] = "lock_const" THEN "shared" ELSE "exclusive"]
  /\ Goto(t, "idle")
  /\ UNCHANGED <<kind, _cntr, refs, ctl, ptr, locked, releasing, destroyed, broken>>

\* ~locked_pointer(), release(): the mutex, then the reference.
Unlock(t) ==
  /\ pc[t] = "idle" /\ mode[t] # "none"
  /\ mode' = [mode EXCEPT ![t] = "none"]
  /\ locked' = [locked EXCEPT ![t] = Null] /\ releasing' = [releasing EXCEPT ![t] = locked[t]]
  /\ Goto(t, "release")
  /\ UNCHANGED <<kind, _cntr, refs, ctl, ptr, destroyed, broken>>

Step(t) ==
  \/ Release(t) \/ EndReshare(t) \/ Destroy(t) \/ Delete(t)
  \/ NewControl(t) \/ MakePointer(t) \/ Acquire(t)

Next ==
  \E t \in Threads :
    \/ Step(t) \/ Drop(t) \/ ShareInDestructor(t) \/ ShareFromThis(t) \/ Lock(t) \/ Unlock(t)
    \/ \E u \in Threads : Copy(t, u) \/ Move(t, u)

-----------------------------------------------------------------------------
\* References to control block c: pointers, locked pointers, those being given
\* back, and the one the destroying thread holds.
References(c) ==
  Cardinality({t \in Threads : ptr[t] = c}) + Cardinality({t \in Threads : locked[t] = c})
  + Cardinality({t \in Threads : releasing[t] = c /\ pc[t] \in {"release", "destroy", "delete", "reshared"}})
  + Cardinality({t \in Threads : releasing[t] = c /\ pc[t] = "reshared"})

\* A control block counts its references and lives while it has any; the object
\* is destroyed once, also if its destructor shares it (shared_lockable_ptr.h:76);
\* a writer is alone, and whoever has a lock has it on a live object.
LockableSafe ==
  /\ \A c \in Ctrls : refs[c] = References(c) /\ (refs[c] > 0 => ~Gone(c))
  /\ destroyed <= 1 /\ ~broken
  /\ \A t, u \in Threads :
       mode[t] = "exclusive" /\ t # u /\ locked[u] = locked[t] => mode[u] = "none"
  /\ \A t \in Threads : mode[t] # "none" => ctl[locked[t]] = "live"

\* "Lock the object and receive shared access" (shared_lockable_ptr.h:433).  Not
\* so for an object that is not const: the second reader waits for the first.
ReadersTogether ==
  [][\A t \in Threads : pc[t] = "lock_shared" /\ pc'[t] = "idle" => mode'[t] = "shared"]_vars
=============================================================================
