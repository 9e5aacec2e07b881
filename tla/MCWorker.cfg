CONSTANTS
  w1 = w1
  w2 = w2
  c1 = c1
  c2 = c2
  t1 = t1
  t2 = t2
  Null = Null
  Self = Self
  None = None
  Threads <- TwoThreads
  Clients <- TwoClients
  Tasks <- TwoTasks
SPECIFICATION Spec
INVARIANTS OneQuitMessage NothingAbandoned NoUseAfterFree
PROPERTIES ImplementsTaskPool Shutdown
CHECK_DEADLOCK FALSE
