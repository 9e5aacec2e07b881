---------------------------- MODULE CallbackCell ----------------------------
(***************************************************************************)
(* What async_future promises to those who attach callbacks: the cell is   *)
(* settled at most once (it gets its value, or is destroyed without one;   *)
(* it may start with a value), and each attached callback is then called,  *)
(* once, with what the cell was settled to.                                *)
(***************************************************************************)
CONSTANTS Callbacks, Outcomes, NoOutcome

VARIABLES
  outcome,    \* NoOutcome until the cell is settled
  attached,   \* the callbacks attached so far
  seen        \* what each callback was called with, NoOutcome before

vars == <<outcome, attached, seen>>

Init ==
  /\ outcome \in {NoOutcome} \cup Outcomes
  /\ attached \in SUBSET Callbacks
  /\ seen = [c \in Callbacks |-> NoOutcome]

Attach(c) ==
  /\ c \notin attached
  /\ attached' = attached \cup {c}
  /\ UNCHANGED <<outcome, seen>>

Settle(o) ==
  /\ outcome = NoOutcome
  /\ outcome' = o
  /\ UNCHANGED <<attached, seen>>

Call(c) ==
  /\ outcome # NoOutcome
  /\ c \in attached /\ seen[c] = NoOutcome
  /\ seen' = [seen EXCEPT ![c] = outcome]
  /\ UNCHANGED <<outcome, attached>>

Next ==
  \/ \E c \in Callbacks : Attach(c) \/ Call(c)
  \/ \E o \in Outcomes : Settle(o)

Safety == Init /\ [][Next]_vars

Spec == Safety /\ \A c \in Callbacks : WF_vars(Call(c))
=============================================================================
