\* Each part with the bounds that MCLibrary gives it.
CONSTANTS
  HeaderSize = 1 MaxLine = 14 ViewSizes = {1, 2, 3, 7} Growth = 2
  Chars = {1, 2} MaxPool = 7 MaxStrings = 3
  Args = 12 Plain = {1, 13} Indexes = {1, 12, 13} Wrap = 1000 MaxItems = 3
  FileChars <- SomeChars MaxName = 1 MaxText = 3
  Words <- SomeWords MaxArgs = 4
  MaxKey = 5 Values = {1, 2} Ranges <- SomeRanges MaxOther = 1
  MaxFd = 11 Inherited = {0, 1, 2, 4} ClosesStdin = TRUE
SPECIFICATION MCSpec
INVARIANTS SpawnTells BuffersKept SetAgrees  LoadedAsWritten
\* Every part comes to an end.
CHECK_DEADLOCK FALSE
