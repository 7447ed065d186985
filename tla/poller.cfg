SPECIFICATION FairPollSpec
CONSTANTS
  Interval = 2
  Spacing = 2
  RetryInitial = 2
  RetryMax = 3
  MaxDuration = 3
  Timeout = 1
  Recheck = 1
  ShutdownTimeout = 1
  Holds = {2}
  MaxFailures = 2
  MaxByHand = 1
PROPERTIES
  RetryAfterIsRespected
  BackoffIsExact
  LoopGoesOn
  StopEnds
