CONSTANTS
  j1 = j1
  j2 = j2
  Jobs = {j1, j2}
  Wishes <- MixedWishes
  Attempts = 2
  Tiers = {1, 3}
  None = None
  MaxChanges = 1
SPECIFICATION FairSpec
INVARIANTS TypeOK MessagesAccounted OriginalKept SizeNeverFails
PROPERTIES PublishEnds
CHECK_DEADLOCK FALSE
