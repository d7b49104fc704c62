SPECIFICATION LiveSpec
CONSTANTS
  sdi12 = sdi12
  i2c = i2c
  sd = sd
  mqtt = mqtt
  Ids = {1, 2, 3}
  Buses = {sdi12, i2c}
  Defs <- BusDefs
  Sinks = {sd}
  Responsive = {sdi12}
  QueueSize = 1
  SinkSize = 1
  InitialVars <- ThreeVars
  MaxTime = 2
  MaxEdits = 0
  Files = {}
  MaxSamples = 2
PROPERTIES WindowsClose BusesAreIndependent
CHECK_DEADLOCK FALSE
