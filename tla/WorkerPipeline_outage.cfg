SPECIFICATION Spec
CONSTANTS
  Threshold = 5
  ResetAfter = 6
  SlackTimeout = 1
  McpTimeout = 1
  InferenceTimeout = 1
  Budget = 3
  LambdaTimeout = 10
  MaxRetries = 0
  RetryBase = 0
  RetryCap = 1
  RetryAfters = {0}
  Interval = 2
  JoinMargin = 1
INVARIANT BreakerOpensInOutage
