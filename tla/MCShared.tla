------------------------------ MODULE MCShared ------------------------------
(***************************************************************************)
(* What threads share, with a small instance each: `part` says which one a *)
(* behaviour is about, the others stay in their initial states.  Names     *)
(* without a prefix, Init and Next among them, are those of LogRotation.   *)
(***************************************************************************)
EXTENDS Shared, TLC
CONSTANTS t1, t2, t3, t4, c1, c2, n1, n2, n3, o1, o2, w1, w2

VARIABLE part

Three == {t1, t2, t3}
Four == {t1, t2, t3, t4}
TwoThreads == {t1, t2}
TwoCtrls == {c1, c2}
ThreeNodes == {n1, n2, n3}
TwoBlocks == {n1, n2}
TwoObjects == {o1, o2}
TwoWriters == {w1, w2}
MinusTwo == -2
SomeSettings == -2..2

\* Initial states differ only in the part in question.
MCInit ==
  /\ part \in {"lockable", "object", "stack", "state", "alloc", "semaphore", "countdown", "waitpid", "rotation"}
  /\ L!Init /\ (part # "lockable" => kind = "made" /\ _cntr = c1 /\ ptr[t1] = c1)
  /\ O!Init /\ (part # "object" => handle[t1] = "direct")
  /\ K!Init /\ A!Init /\ Sem!Init /\ C!Init
  /\ S!Init /\ (part # "state" => handles[t1] = 1)
  /\ Wait!Init /\ (part # "waitpid" => pid = [o \in {o1, o2} |-> c1])
  /\ Init

\* Only countdown is checked for what must happen: who is awake inside a wait goes on.
Counting(step) ==
  part = "countdown" /\ step /\ UNCHANGED <<part, lvars, ovars, kvars, svars, avars, sems, waits, vars>>

MCNext ==
  \/ part = "lockable" /\ L!Next /\ UNCHANGED <<part, ovars, kvars, svars, avars, sems, counts, waits, vars>>
  \/ part = "object" /\ O!Next /\ UNCHANGED <<part, lvars, kvars, svars, avars, sems, counts, waits, vars>>
  \/ part = "stack" /\ K!Next /\ UNCHANGED <<part, lvars, ovars, svars, avars, sems, counts, waits, vars>>
  \/ part = "state" /\ S!Next /\ UNCHANGED <<part, lvars, ovars, kvars, avars, sems, counts, waits, vars>>
  \/ part = "alloc" /\ A!Next /\ UNCHANGED <<part, lvars, ovars, kvars, svars, sems, counts, waits, vars>>
  \/ part = "semaphore" /\ Sem!Next
     /\ UNCHANGED <<part, lvars, ovars, kvars, svars, avars, counts, waits, vars>>
  \/ Counting(C!Next)
  \/ part = "waitpid" /\ Wait!Next /\ UNCHANGED <<part, lvars, ovars, kvars, svars, avars, sems, counts, vars>>
  \/ part = "rotation" /\ Next /\ UNCHANGED <<part, lvars, ovars, kvars, svars, avars, sems, counts, waits>>

mcvars == <<part, lvars, ovars, kvars, svars, avars, sems, counts, waits, vars>>
MCSpec ==
  /\ MCInit /\ [][MCNext]_mcvars
  /\ \A t \in Three :
       /\ WF_mcvars(Counting(C!Pass(t))) /\ WF_mcvars(Counting(C!Expire(t)))
       /\ WF_mcvars(Counting(C!GiveUp(t)))
=============================================================================
