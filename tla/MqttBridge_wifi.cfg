SPECIFICATION LiveSpec
CONSTANTS
  brokerA = brokerA
  brokerB = brokerB
  NoHost = NoHost
  Settings <- AllModes
  Transport = "wifi"
  QueueLen = 1
  MaxBatchItems = 2
  Backoff = 2
  ConnectTimeout = 2
  ConnectTicks = 1
  MaxGeneration = 1
  MaxSamples = 3
  MaxReports = 2
  MaxFaults = 2
INVARIANTS TypeOK ClientMatchesSettings ReportsInOrder
PROPERTIES LedgerSpec LinkRestored
CHECK_DEADLOCK FALSE
