SPECIFICATION FairSpec
CONSTANTS
  Threshold = 5
  ResetAfter = 6
INVARIANTS TypeOK RefusesExactlyInOutage
PROPERTY RecoversAfterOutage
