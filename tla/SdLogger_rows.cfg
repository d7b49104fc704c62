SPECIFICATION Spec
CONSTANTS
  a = a
  b = b
  Ids = {1, 2}
  Columns = {a, b}
  Intervals = {1}
  Formats = {"simple", "toa5"}
  Days = {1}
  QueueLen = 2
  PositionLen = 0
  MaxGroups = 1
  SignatureLen = 2
  Grace = 0
  InitialVars <- TwoTogether
  MaxTime = 2
  MaxGeneration = 2
  MaxResults = 3
INVARIANTS PendingConsistent  FilesInOrder
PROPERTIES LedgerSpec
CHECK_DEADLOCK FALSE
