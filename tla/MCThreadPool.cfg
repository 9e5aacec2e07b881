CONSTANTS
  c1 = c1
  c2 = c2
  w1 = w1
  w2 = w2
  w3 = w3
  f1 = f1
  f2 = f2
  Null = Null
  None = None
  Clients <- TwoClients
  Threads <- ThreeThreads
  First <- TwoThreads
  Fns <- TwoFns
  MaxNulls = 2
SPECIFICATION Spec
INVARIANTS NoUseAfterFree WakeupsMatch
PROPERTIES ImplementsTaskPool FnsAreRun StopEnds
CHECK_DEADLOCK FALSE
