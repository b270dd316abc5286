SPECIFICATION FairSpec
CONSTANTS
  Jobs = {j1}
  Workers = {w1}
  Msgs = {m1, m2}
  NoJob = NoJob
  NoMsg = NoMsg
  ScanPage = {j1}
  Staleness = 2
  LambdaTimeout = 1
  IntakeTimeout = 1
  ReaperTimeout = 1
  Visibility = 2
  MaxAttempts = 2
  MaxReceive = 2
  ReaperMaySend = TRUE
  ReadsLag = TRUE
  MaxFaults = 3
PROPERTY EventuallyClosed
