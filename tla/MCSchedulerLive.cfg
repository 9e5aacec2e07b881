CONSTANTS
  c1 = c1
  c2 = c2
  i1 = i1
  i2 = i2
  f1 = f1
  None = None
  Never = Never
  Clients <- TwoClients
  Ids <- OneId
  Imms <- NoImms
  Intervals <- Mixed
  MaxTime = 2
  MaxMsgs = 2
  MaxDepth = 2
SPECIFICATION Spec
INVARIANT NothingBehindQuit
CHECK_DEADLOCK FALSE
PROPERTIES NothingStaysPending SyncReturns ShutdownEnds
