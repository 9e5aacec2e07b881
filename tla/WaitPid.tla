------------------------------ MODULE WaitPid ------------------------------
(***************************************************************************)
(* linux_waitpid.h: objects that wait for child processes; the handler of  *)
(* SIGCHLD looks at every child somebody waits for and posts the           *)
(* semaphores of those that exited.  The registrations are behind a mutex, *)
(* taken with SIGCHLD blocked, so the handler runs between the operations. *)
(***************************************************************************)
EXTENDS Naturals

CONSTANTS
  Children,   \* process ids
  Objects     \* WaitPid objects; each is used by one thread

VARIABLES
  child,      \* per child: "running", "zombie", "reaped"
  pending,    \* SIGCHLD is pending, once for any number of exits
  pid,        \* per object: the child it waits for
  status,     \* per object: the status in its registration, "none" without one,
              \* "unset" for the -1 it begins with
  sem,        \* per object: the value of its semaphore
  pc          \* per object: "absent", "idle", "wait", "wait_for", "woken"

vars == <<child, pending, pid, status, sem, pc>>

Init ==
  /\ child = [c \in Children |-> "running"] /\ pending = FALSE
  /\ pid \in [Objects -> Children]
  /\ status = [o \in Objects |-> "none"] /\ sem = [o \in Objects |-> 0]
  /\ pc = [o \in Objects |-> "absent"]

Goto(o, p) == pc' = [pc EXCEPT ![o] = p]

\* A child exits and its parent is sent a signal.
Exit(c) ==
  /\ child[c] = "running"
  /\ child' = [child EXCEPT ![c] = "zombie"] /\ pending' = TRUE
  /\ UNCHANGED <<pid, status, sem, pc>>

\* waitpid(c, WNOHANG): nothing yet, the status, or ECHILD.
Reaped(c) == IF child[c] = "zombie" THEN "reaped" ELSE child[c]
Answer(c) == IF child[c] = "zombie" THEN "exit_code" ELSE "ECHILD"
Registered(o) == status[o] # "none"

-----------------------------------------------------------------------------
\* Fault: the registration is made after the mutex was given up.
BeginWaitLate(o) ==
  \/ /\ pc[o] = "absent" /\ child[pid[o]] = "running"
     /\ Goto(o, "emplace")
     /\ UNCHANGED <<child, pending, pid, status, sem>>
  \/ /\ pc[o] = "emplace"
     /\ status' = [status EXCEPT ![o] = "unset"] /\ Goto(o, "idle")
     /\ UNCHANGED <<child, pending, pid, sem>>

\* The constructors, with beginWait(): one look at the child.  If it is gone,
\* the status is that of another object for the same child - whatever is there -
\* and the new object is signaled at once.
BeginWait(o) ==
  LET c == pid[o]
      others == {p \in Objects : Registered(p) /\ pid[p] = c}
  IN
  /\ pc[o] = "absent"
  /\ child' = [child EXCEPT ![c] = Reaped(c)]
  /\ \/ child[c] = "running" /\ status' = [status EXCEPT ![o] = "unset"] /\ UNCHANGED sem
     \/ /\ child[c] # "running"
        /\ IF others = {}
             THEN status' = [status EXCEPT ![o] = IF child[c] = "zombie" THEN "exit_code" ELSE "unset"]
             ELSE \E p \in others : status' = [status EXCEPT ![o] = status[p]]
        /\ sem' = [sem EXCEPT ![o] = @ + 1]
  /\ Goto(o, "idle")
  /\ UNCHANGED <<pending, pid>>

\* The destructor, with endWait(); the object may be made again for any child.
EndWait(o) ==
  /\ pc[o] = "idle"
  /\ status' = [status EXCEPT ![o] = "none"] /\ sem' = [sem EXCEPT ![o] = 0]
  /\ \E c \in Children : pid' = [pid EXCEPT ![o] = c]
  /\ Goto(o, "absent")
  /\ UNCHANGED <<child, pending>>

\* The handler looks at each child once, reaps it, writes what it was told - an
\* errno for a child that was reaped before - to all its registrations and posts
\* their semaphores, also if they are signaled.
SignalEnter ==
  LET hit == {o \in Objects : Registered(o) /\ child[pid[o]] # "running"} IN
  /\ pending /\ pending' = FALSE
  /\ child' = [c \in Children |-> IF \E o \in hit : pid[o] = c THEN "reaped" ELSE child[c]]
  /\ status' = [o \in Objects |-> IF o \in hit THEN Answer(pid[o]) ELSE status[o]]
  /\ sem' = [o \in Objects |-> sem[o] + IF o \in hit THEN 1 ELSE 0]
  /\ UNCHANGED <<pid, pc>>

-----------------------------------------------------------------------------
\* wait(), wait_for() and trywait() take the semaphore and give it back; EINTR
\* is tried again.
Wait(o) ==
  /\ pc[o] = "idle"
  /\ \E p \in {"wait", "wait_for"} : Goto(o, p)
  /\ UNCHANGED <<child, pending, pid, status, sem>>

Wake(o) ==
  /\ pc[o] \in {"wait", "wait_for"} /\ sem[o] > 0
  /\ sem' = [sem EXCEPT ![o] = @ - 1] /\ Goto(o, "woken")
  /\ UNCHANGED <<child, pending, pid, status>>

TryWait(o) ==
  /\ pc[o] = "idle" /\ sem[o] > 0
  /\ sem' = [sem EXCEPT ![o] = @ - 1] /\ Goto(o, "woken")
  /\ UNCHANGED <<child, pending, pid, status>>

\* Fault: the semaphore is not given back.
WakeOnce(o) ==
  /\ pc[o] = "woken"
  /\ Goto(o, "idle")
  /\ UNCHANGED <<child, pending, pid, status, sem>>

PostBack(o) ==
  /\ pc[o] = "woken"
  /\ sem' = [sem EXCEPT ![o] = @ + 1] /\ Goto(o, "idle")
  /\ UNCHANGED <<child, pending, pid, status>>

TimeOut(o) ==
  /\ pc[o] = "wait_for" /\ sem[o] = 0
  /\ Goto(o, "idle")
  /\ UNCHANGED <<child, pending, pid, status, sem>>

Next ==
  \/ \E c \in Children : Exit(c)
  \/ SignalEnter
  \/ \E o \in Objects :
       \/ BeginWait(o) \/ EndWait(o) \/ Wait(o) \/ Wake(o) \/ TryWait(o)
       \/ PostBack(o) \/ TimeOut(o)

Spec == Init /\ [][Next]_vars

-----------------------------------------------------------------------------
\* A registration is there while its object is, and a semaphore only then.
TypeOK ==
  /\ child \in [Children -> {"running", "zombie", "reaped"}] /\ pending \in BOOLEAN
  /\ pid \in [Objects -> Children] /\ sem \in [Objects -> Nat]
  /\ status \in [Objects -> {"none", "unset", "exit_code", "ECHILD"}]
  /\ pc \in [Objects -> {"absent", "idle", "wait", "wait_for", "woken"}]
  /\ \A o \in Objects : (Registered(o) <=> pc[o] # "absent") /\ (pc[o] = "absent" => sem[o] = 0)

Signaled(o) == sem[o] > 0 \/ pc[o] = "woken"

\* An object is signaled, and stays so, exactly when its child has exited and the
\* signal was handled or the object was made later: no exit is missed between
\* the look and the registration, none is announced early, and signals of
\* several children that merge into one lose nobody (linux_waitpid.h:45, 86).
ExitsAreSeen ==
  \A o \in Objects : Registered(o) =>
    /\ Signaled(o) => child[pid[o]] = "reaped"
    /\ child[pid[o]] # "running" /\ ~pending => Signaled(o)

\* "Returns exit code of exited child" (linux_waitpid.h:176).  Not so: the next
\* signal replaces it by ECHILD.
ExitCodeStays == [][\A o \in Objects :
  status[o] = "exit_code" => status'[o] \in {"exit_code", "none"}]_vars
=============================================================================
