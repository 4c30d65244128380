SPECIFICATION Spec
CONSTANTS
  Home = home
  Usable = usable
  Unusable = unusable
  Keep = 1
  MaxEdits = 1
  MaxMoments = 3
INVARIANTS RolledBack
