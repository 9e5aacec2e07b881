---------------------------- MODULE MCScheduler ----------------------------
EXTENDS SchedulerProps, TLC

CONSTANTS c1, c2, i1, i2, f1

OneClient == {c1}
TwoClients == {c1, c2}
OneId == {i1}
TwoIds == {i1, i2}
NoImms == {}
OneImm == {f1}
Mixed == {0, 1}
=============================================================================
