SPECIFICATION FairSpec
CONSTANTS
  r1 = r1
  r2 = r2
  r3 = r3
  w1 = w1
  w2 = w2
  NoWorker = NoWorker
  Connectors = {"slack", "calendar.google"}
  Bounded = {"slack"}
  Workers = {w1}
  Requests = {r1, r2}
  Params = {"all"}
  InitialWindow = 4
  MaxWindow = 4
  Overlap = 1
  MinSplit = 2
  Lease = 1
  RetryInitial = 1
  RetryMax = 2
  MaxDelay = 0
  MaxTime = 2
  MaxAttempts = 2
  MaxCalls = 1
INVARIANTS
  OneActive
PROPERTIES
  ImplementsLedger
  LeaseRecovery
