CONSTANTS
  a1 = a1
  a2 = a2
  a3 = a3
  m1 = m1
  m2 = m2
  Actors <- MCActors
  Msgs <- MCMsgs
  MaxLen = 3
SPECIFICATION Spec
INVARIANTS NoLostWakeup
PROPERTIES SleepersDrain
