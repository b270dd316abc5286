SPECIFICATION Spec
CONSTANTS
  Jobs = {j1}
  Workers = {w1, w2}
  Msgs = {m1, m2}
  NoJob = NoJob
  NoMsg = NoMsg
  ScanPage = {j1}
  Staleness = 2
  LambdaTimeout = 1
  IntakeTimeout = 1
  ReaperTimeout = 1
  Visibility = 2
  MaxAttempts = 3
  MaxReceive = 2
  ReaperMaySend = TRUE
  ReadsLag = TRUE
  MaxFaults = 3
SYMMETRY Interchangeable
INVARIANTS
  TypeOK
  AtMostOneAnswer
  SingleHolder
  LiveLeaseNeverStale
  NoWorkAfterIntent
  StaleAbandonSparesHolders
  IntakeHasItAlone
PROPERTIES
  ClosedStaysClosed
  WorkWithinAttempts
  BilledOncePerExchange
  KeepsPromise
