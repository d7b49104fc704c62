SPECIFICATION LiveSpec
CONSTANTS
  brokerA = brokerA
  brokerB = brokerB
  NoHost = NoHost
  Settings <- AllModes
  Transport = "cellular"
  QueueLen = 1
  MaxBatchItems = 1
  Backoff = 2
  ConnectTimeout = 2
  ConnectTicks = 1
  MaxGeneration = 1
  MaxSamples = 1
  MaxReports = 1
  MaxFaults = 2
PROPERTIES LinkRestored BatchesSent
CHECK_DEADLOCK FALSE
