SPECIFICATION Spec
CONSTANTS
  Jobs = {j1, j2}
  NoJob = NoJob
  Workers = 1
  QueueCapacity = 2
  CounterModulus = 16
  LimitLowerings = 0
  MaxEntries = 0
  ArchiverEnabled = TRUE
  CancelTargets = {j1}
  MaxStops = 1
  MaxCrashes = 0
  MaxFaults = 1
INVARIANTS TypeOK PermitsAccounted OneTaskPerJob TasksHaveTokens NoStrandedJob WaitingCountsQueue NoZombies
PROPERTIES SettledIsFinal RecordingsKept
CHECK_DEADLOCK FALSE
