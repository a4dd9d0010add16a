SPECIFICATION Spec
CONSTANTS
  btc = btc
  eth = eth
  v1 = v1
  v2 = v2
  None = None
  Symbol = {btc}
  Version = {v1, v2}
  Bar <- ThreeBars
  Roster = {sleeve}
  Window = 2
  Durable = TRUE
  MaxClock = 3
  MaxFailures = 1
  MaxCrashes = 1
  MaxReplays = 1
INVARIANT TypeOK
PROPERTIES OneOutcomePerBar
CHECK_DEADLOCK FALSE
