SPECIFICATION LiveSpec
CONSTANTS
  brokerA = brokerA
  brokerB = brokerB
  NoHost = NoHost
  Settings <- BatchModes
  Transport = "wifi"
  QueueLen = 1
  MaxBatchItems = 2
  Backoff = 2
  ConnectTimeout = 2
  ConnectTicks = 2
  MaxGeneration = 1
  MaxSamples = 1
  MaxReports = 0
  MaxFaults = 0
PROPERTIES BatchesSent
CHECK_DEADLOCK FALSE
