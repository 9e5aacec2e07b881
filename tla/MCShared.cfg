\* Each part with the bounds that MCShared gives it.
CONSTANTS
  t1 = t1 t2 = t2 t3 = t3 t4 = t4 n1 = n1 n2 = n2 n3 = n3 Null = Null
  c1 = c1 c2 = c2 o1 = o1 o2 = o2 w1 = w1 w2 = w2
  Threads <- Three StackThreads <- TwoThreads Ctrls <- TwoCtrls Nodes <- ThreeNodes Blocks <- TwoBlocks
  MaxCasts = 1 MaxHandles = 2 Children <- TwoCtrls Objects <- TwoObjects
  SemThreads <- Four Permits = 2
  Initially = 1 Least <- MinusTwo Most = 2 Settings <- SomeSettings
  Writers <- TwoWriters rotate_count = 2 MaxDay = 3
SPECIFICATION MCSpec
INVARIANTS
  LockableSafe ObjectSafe FinishedLast NodesConserved PermitsConserved NoStrandedPermit OpenMeansAwake ExitsAreSeen DaysApart
PROPERTY OpenReleases
\* Every part comes to an end.
CHECK_DEADLOCK FALSE
