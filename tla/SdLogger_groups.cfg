SPECIFICATION LiveSpec
CONSTANTS
  a = a
  b = b
  Ids = {1, 2}
  Columns = {a}
  Intervals = {1, 2}
  Formats = {"long", "simple"}
  Days = {1}
  QueueLen = 1
  PositionLen = 1
  MaxGroups = 1
  SignatureLen = 2
  Grace = 0
  InitialVars <- TwoTogether
  MaxTime = 2
  MaxGeneration = 1
  MaxResults = 3
INVARIANTS TypeOK
PROPERTIES LedgerSpec RowsFlushed
CHECK_DEADLOCK FALSE
