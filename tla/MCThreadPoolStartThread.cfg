CONSTANTS
  c1 = c1
  c2 = c2
  w1 = w1
  w2 = w2
  w3 = w3
  f1 = f1
  f2 = f2
  Null = Null
  None = None
  Clients <- OneClient
  Threads <- ThreeThreads
  First <- TwoThreads
  Fns <- TwoFns
  MaxNulls = 1
SPECIFICATION Spec
PROPERTY StartThreadReturns
CHECK_DEADLOCK FALSE
