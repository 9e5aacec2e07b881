----------------------------- MODULE MCWorker -----------------------------
EXTENDS WorkerProps, TLC

CONSTANTS w1, w2, c1, c2, t1, t2

OneThread == {w1}
TwoThreads == {w1, w2}
TwoClients == {c1, c2}
TwoTasks == {t1, t2}
=============================================================================
