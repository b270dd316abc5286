SPECIFICATION Spec
CONSTANTS
  Threshold = 2
  ResetAfter = 1
  SlackTimeout = 1
  McpTimeout = 1
  InferenceTimeout = 2
  Budget = 3
  LambdaTimeout = 13
  MaxRetries = 2
  RetryBase = 1
  RetryCap = 1
  RetryAfters = {0, 1}
  Interval = 2
  JoinMargin = 1
INVARIANTS TypeOK OnlyScannedLeaves TurnedDownUnspent NeverTrimmedSilently PaidForIsPosted NoBeatAfterVerdict NeverTimedOut
PROPERTIES GivesOneVerdict
