SPECIFICATION Spec
CONSTANTS
  btc = btc
  eth = eth
  v1 = v1
  v2 = v2
  None = None
  Symbol = {btc}
  Version = {v1, v2}
  Bar <- ThreeBars
  Roster = {sleeve}
  Window = 2
  Durable = FALSE
  MaxClock = 3
  MaxFailures = 2
  MaxCrashes = 0
  MaxReplays = 2
PROPERTIES ExactReplayIsSilent
CHECK_DEADLOCK FALSE
