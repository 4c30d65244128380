SPECIFICATION Spec
CONSTANTS
  Jobs = {j1}
  NoJob = NoJob
  Workers = 1
  QueueCapacity = 4
  CounterModulus = 16
  LimitLowerings = 0
  MaxEntries = 0
  ArchiverEnabled = FALSE
  CancelTargets = {j1}
  MaxStops = 0
  MaxCrashes = 0
  MaxFaults = 0
PROPERTIES CancelledIsFinal
CHECK_DEADLOCK FALSE
