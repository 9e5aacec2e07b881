CONSTANTS
  c1 = c1
  c2 = c2
  i1 = i1
  i2 = i2
  f1 = f1
  None = None
  Never = Never
  Clients <- OneClient
  Ids <- TwoIds
  Imms <- OneImm
  Intervals <- Mixed
  MaxTime = 2
  MaxMsgs = 3
  MaxDepth = 2
SPECIFICATION Spec
INVARIANTS OneShotRunsOnce RemovedForGood SyncSettlesOneShots
CHECK_DEADLOCK FALSE
PROPERTY NeverEarly
