SPECIFICATION ControlSpec
CONSTANTS
  r1 = r1
  r2 = r2
  w1 = w1
  all = all
  team = team
  NoWorker = NoWorker
  NoParams = NoParams
  Connectors = {"github"}
  Bounded = {}
  Shared = {"github"}
  Workers = {w1}
  Requests = {r1}
  Params = {all, team}
  InitialWindow = 2
  MaxWindow = 2
  Overlap = 1
  MinSplit = 2
  Lease = 1
  RetryInitial = 1
  RetryMax = 1
  MaxDelay = 0
  MaxTime = 0
  MaxAttempts = 1
  MaxCalls = 1
  MaxEmits = 1
  MaxEdits = 1
SYMMETRY Symmetry
INVARIANTS
  DirectHasNoRequest
