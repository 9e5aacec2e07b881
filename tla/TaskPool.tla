------------------------------ MODULE TaskPool ------------------------------
(***************************************************************************)
(* What a Worker promises its users, without queue, threads or reference   *)
(* counts: functions start in the order they were submitted, each at most  *)
(* once; while the pool is open its users may submit and may discard what  *)
(* has not started; a closed pool starts and finishes everything it has.   *)
(***************************************************************************)
EXTENDS Naturals, Sequences

CONSTANT Tasks

VARIABLES
  fresh,      \* tasks never submitted
  pending,    \* submitted, not started, oldest first
  running,    \* started, not finished
  open        \* somebody can still submit

vars == <<fresh, pending, running, open>>

Init ==
  /\ running = {}
  /\ open = TRUE
  /\ \/ fresh = Tasks /\ pending = <<>>
     \/ \E t \in Tasks : fresh = Tasks \ {t} /\ pending = <<t>>

Submit(t) ==
  /\ open
  /\ t \in fresh
  /\ fresh' = fresh \ {t}
  /\ pending' = Append(pending, t)
  /\ UNCHANGED <<running, open>>

Start ==
  /\ pending # <<>>
  /\ running' = running \cup {Head(pending)}
  /\ pending' = Tail(pending)
  /\ UNCHANGED <<fresh, open>>

FinishOne(t) ==
  /\ t \in running
  /\ running' = running \ {t}
  /\ UNCHANGED <<fresh, pending, open>>

Discard ==
  /\ open
  /\ pending' = <<>>
  /\ UNCHANGED <<fresh, running, open>>

Close ==
  /\ open
  /\ open' = FALSE
  /\ UNCHANGED <<fresh, pending, running>>

Next ==
  \/ \E t \in Tasks : Submit(t) \/ FinishOne(t)
  \/ Start \/ Discard \/ Close

\* What has started finishes; what is pending in a closed pool starts.
Fairness ==
  /\ WF_vars(~open /\ Start)
  /\ \A t \in Tasks : WF_vars(FinishOne(t))

Safety == Init /\ [][Next]_vars

Spec == Safety /\ Fairness
=============================================================================
