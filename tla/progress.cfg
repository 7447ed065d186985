SPECIFICATION ProgressSpec
CONSTANTS
  Polls = {p1, p2}
  Scopes = {s1, s2}
  Connected = {s1}
  NoScope = none
  MaxCommands = 1
  MaxDeaths = 1
  MaxItems = 2
  MaxFetch = 1
  TimelineOverlap = 0
  Lag = 0
  Refresh = 1
  HintAge = 0
  PollTimeout = 1
  MaxMissing = 2
  MaxChanges = 1
  Actors = {a1, a2}
  MaxGrants = 1
PROPERTIES
  FenceHeals
  FeedbackArrives
  DisconnectSucceeds
