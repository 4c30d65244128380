CONSTANTS
  Jobs = {j1}
  Old = {}
  CacheMax = 0
  MaxRestarts = 2
  MaxFaults = 1
SPECIFICATION Spec
INVARIANTS TypeOK FilesThere RecordingCarried NothingLeft
CHECK_DEADLOCK FALSE
