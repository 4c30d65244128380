SPECIFICATION Spec
CONSTANTS
  Jobs = {j1}
  NoJob = NoJob
  Workers = 1
  QueueCapacity = 4
  CounterModulus = 16
  LimitLowerings = 0
  MaxEntries = 0
  ArchiverEnabled = TRUE
  CancelTargets = {}
  MaxStops = 1
  MaxCrashes = 0
  MaxFaults = 0
INVARIANTS PublishedOnce
CHECK_DEADLOCK FALSE
