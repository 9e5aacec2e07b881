---------------------------- MODULE MCMsgQueue ----------------------------
(* MsgQueue with three threads and two messages. *)
EXTENDS MsgQueue, TLC

CONSTANTS a1, a2, a3, m1, m2

MCActors == {a1, a2, a3}
MCMsgs == {m1, m2}
=============================================================================
