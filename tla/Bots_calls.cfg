SPECIFICATION FairSpec
CONSTANTS
  Calls = {c1, c2, c3}
  None = None
  MaxDrops = 1
INVARIANTS TypeOK NoStrayBot BotFollowsRow
PROPERTIES CallsEnd
CHECK_DEADLOCK FALSE
