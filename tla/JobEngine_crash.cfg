SPECIFICATION Spec
CONSTANTS
  Jobs = {j1, j2}
  NoJob = NoJob
  Workers = 1
  QueueCapacity = 4
  CounterModulus = 16
  LimitLowerings = 0
  MaxEntries = 1
  ArchiverEnabled = TRUE
  CancelTargets = {j1}
  MaxStops = 0
  MaxCrashes = 2
  MaxFaults = 0
INVARIANTS PermitsAccounted NoZombies NoStrandedJob
PROPERTIES SettledIsFinal RecordingsKept KeepsPromise
CHECK_DEADLOCK FALSE
