SPECIFICATION FairSpec
CONSTANTS
  Home = home
  Usable = usable
  Unusable = unusable
  Keep = 1
  MaxEdits = 1
  MaxMoments = 5
INVARIANTS TypeOK ReceiptTells SafetyStands StrandedOnlyByFaults
PROPERTIES RestoreEnds
