SPECIFICATION FenceSpec
CONSTANTS
  Polls = {p1}
  Scopes = {s1}
  Connected = {s1}
  NoScope = none
  MaxCommands = 2
  MaxDeaths = 0
INVARIANT
  DisconnectLeavesNothing
