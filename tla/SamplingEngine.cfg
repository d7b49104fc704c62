SPECIFICATION Spec
CONSTANTS
  sdi12 = sdi12
  i2c = i2c
  sd = sd
  mqtt = mqtt
  Ids = {1, 2}
  Buses = {sdi12}
  Defs <- EditDefs
  Sinks = {sd}
  Responsive = {sdi12}
  QueueSize = 1
  SinkSize = 1
  InitialVars <- OneVar
  MaxTime = 2
  MaxEdits = 2
  Files <- SomeFiles
  MaxSamples = 2
INVARIANTS TypeOK WindowsInOrder
PROPERTIES LedgerSpec FreshSampleFolded RebuildKeepsWindows LabelsAreCurrent
CHECK_DEADLOCK FALSE
