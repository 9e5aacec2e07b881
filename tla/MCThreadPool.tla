--------------------------- MODULE MCThreadPool ---------------------------
EXTENDS ThreadPoolProps, TLC

CONSTANTS c1, c2, w1, w2, w3, f1, f2

OneClient == {c1}
TwoClients == {c1, c2}
TwoThreads == {w1, w2}
ThreeThreads == {w1, w2, w3}
TwoFns == {f1, f2}
=============================================================================
