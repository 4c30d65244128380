SPECIFICATION Spec
CONSTANTS
  Jobs = {j1, j2}
  NoJob = NoJob
  Workers = 1
  QueueCapacity = 4
  CounterModulus = 16
  LimitLowerings = 0
  MaxEntries = 1
  ArchiverEnabled = FALSE
  CancelTargets = {}
  MaxStops = 0
  MaxCrashes = 0
  MaxFaults = 0
INVARIANTS WaitingCountsQueue
CHECK_DEADLOCK FALSE
