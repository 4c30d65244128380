SPECIFICATION FairSpec
CONSTANTS
  Jobs = {j1}
  NoJob = NoJob
  Workers = 1
  QueueCapacity = 4
  CounterModulus = 16
  LimitLowerings = 1
  MaxEntries = 0
  ArchiverEnabled = FALSE
  CancelTargets = {j1}
  MaxStops = 2
  MaxCrashes = 0
  MaxFaults = 2
INVARIANTS PublishedOnce
PROPERTIES EveryJobSettles ShutdownEnds
CHECK_DEADLOCK FALSE
