SPECIFICATION PartsSpec
CONSTANTS
  Polls = {p1, p2}
  Scopes = {s1, s2}
  Connected = {s1}
  NoScope = none
  MaxCommands = 2
  MaxDeaths = 1
  MaxItems = 2
  MaxFetch = 1
  TimelineOverlap = 1
  Lag = 1
  Refresh = 1
  HintAge = 0
  PollTimeout = 1
  MaxMissing = 2
  MaxChanges = 1
  MaxHead = 2
  MaxRun = 1
  MaxMoves = 1
  Runs = {p1, p2}
  Declared = {"a"}
  NewSlug = "b"
  MaxRows = 3
  GateRuns = {p1, p2}
  MinSample = 1
  Required = 30
  MaxResults = 3
  MaxDecisions = 4
  WorkUnits = {u1}
  LLMRuns = {p1, p2}
  MaxTasks = 2
  MaxClaims = 2
  MaxJoins = 1
  Fragments = 3
  Inner = {2}
  Tokens = 2
  MaxSends = 6
  Objects = {1, 2}
  Walks = {p1, p2}
  SearchPage = 1
  NotionOverlap = 0
  SearchLag = 0
  MaxInstant = 2
  MaxEdits = 1
  Talks = {t1}
  Clerks = {p1, p2}
  Ids = {1, 2, 3}
  Times = {0, 1}
SYMMETRY Alike
CHECK_DEADLOCK FALSE
INVARIANTS
  NothingIsPassedBy
  EventsTellReadiness
  OneCurrent
  PauseIsRecorded
  AnsweredOnce
  SnapshotIsWhole
  PassedIsCaptured
  RecordsHold
PROPERTIES
  HintIsHonoured
  
  UserLinkStands
