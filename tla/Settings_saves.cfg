SPECIFICATION FairSpec
CONSTANTS
  Saves = {s1, s2}
  MaxWorkers = 2
  Postings = {p, q}
  Unset = Unset
  MaxSaves = 2
  MaxFaults = 2
INVARIANTS TypeOK PoolAccounted SavedIsRunning
PROPERTIES PoolConverges
