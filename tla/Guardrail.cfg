SPECIFICATION FairSpec
CONSTANTS
  Workers = {w1, w2, w3}
  TokenCounts = {1, 2}
  MaxTokens = 2
  HighestLimit = 1
  DefaultLimit = 1
  LastPeriod = 1
  MaxBilled = 9
INVARIANTS TypeOK OvershootBounded NoUpdateLost
PROPERTIES KillSwitchStops SwitchHolds
