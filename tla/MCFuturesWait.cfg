CONSTANTS
  a1 = a1
  a2 = a2
  e1 = e1
  p = p
  w1 = w1
  w2 = w2
  b1 = b1
  Adders <- TwoAdders
  Early <- OneEarly
  Producer = p
  Values <- ValueOrError
  FutureWaiters <- TwoWaiters
  FutureAdders <- OneAdder
  NoSem = NoSem
SPECIFICATION MCSpec
CHECK_DEADLOCK FALSE
PROPERTY WaitReturns
