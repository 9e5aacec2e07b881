----------------------------- MODULE MCFutures -----------------------------
(***************************************************************************)
(* async_future and Future, each on its own: `part` says which one a       *)
(* behaviour is about, the other stays in its initial state.               *)
(***************************************************************************)
EXTENDS Futures, TLC
CONSTANTS a1, a2, e1, p, w1, w2, b1
VARIABLE part

TwoAdders == {a1, a2}
OneEarly == <<e1>>
ValueOrError == {"value", "error"}
TwoWaiters == {w1, w2}
OneAdder == {b1}

mcvars == <<part, vars, fvars>>

MCInit ==
  /\ Init /\ F!Init
  /\ \/ part = "async_future" /\ timed = {}
     \/ part = "Future" /\ ~resolved

AsyncPart(A) == part = "async_future" /\ A /\ UNCHANGED <<part, fvars>>
FuturePart(A) == part = "Future" /\ A /\ UNCHANGED <<part, vars>>

MCNext == AsyncPart(Next) \/ FuturePart(F!Next)

MCSpec ==
  /\ MCInit /\ [][MCNext]_mcvars
  /\ \A t \in Threads : WF_mcvars(AsyncPart(Step(t)))
  /\ \A w \in TwoWaiters : SF_mcvars(FuturePart(F!WaiterStep(w))) /\ WF_mcvars(FuturePart(F!Expire(w)))
  /\ \A b \in OneAdder : WF_mcvars(FuturePart(F!AdderStep(b)))
  /\ WF_mcvars(FuturePart(F!ResolverStep))
=============================================================================
