SPECIFICATION CommandsSpec
CONSTANTS
  Homes = {h1}
  Pids = {p1, p2}
  Commands = {p1, p2}
  MaxBegun = 3
  NoPid = none
  Sessions = {p1, p2}
  NoSession = none
  MaxReboots = 1
  Actors = {p1, p2}
  MaxGrants = 2
  PullRequests <- TwoPullRequests
  Searches <- TwoSearches
  Captures = {p1, p2}
  Overlap = 1
  Bootstrap = 2
  SearchCap = 2
  MinWindow = 1
  IndexLag = 1
  Timeout = 1
  LastTime = 4
  MaxUpdates = 2
  PageSize = 3
  MaxPosts = 5
  MaxRestarts = 1
  Paths = {"a", "b"}
  Names = {"n"}
  NameOf <- OneName
  Crowded = {"b"}
  Pairs = {"e"}
  Signals <- JustAPair
  Watcher = watcher
  Users = {u1}
  PathEvents = 1
  NameEvents = 1
  NamePaths = 2
  MaxNow = 1
  MaxCommands = 3
  Root = "root"
  Dirs = {"root", "a", "b"}
  Parent <- Nested
  WatchLimit = 5
  Pause = 1
  MaxMade = 6
  MaxWrites = 6
  MaxHead = 2
  MaxRun = 2
  MaxMoves = 1
  MaxMarks = 1
  Callers = {r1}
  Nobody = none
  Editors = {e1}
  Profiles = {"a", "v"}
  NoProfile = "none"
  Kinds = {"bridge", "remote"}
  CallUnits = {"u"}
  SourceOf <- OneSource
  Wording <- Said
  Builtin = {"token"}
  FirstFiles <- Written
  Policies <- Managements
  MaxEdits = 1
  MaxGrowth = 1
  MaxCalls = 2
SYMMETRY AlikeCommands
CHECK_DEADLOCK FALSE
INVARIANTS
  CallsKeepConsent
  
  StatusIsTrue
  
  ForgottenIsRevoked
  CursorPassesNothing
  KnownThreadsAreHeard
  WatchIsCurrent
  WaitingIsListed
  DoneHidesOneEpisode
PROPERTIES
  RowsMoveForward
  SnoozeIsKept
  DecisionsStand
