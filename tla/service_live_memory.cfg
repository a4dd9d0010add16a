SPECIFICATION FairSpec
CONSTANTS
  btc = btc
  eth = eth
  v1 = v1
  v2 = v2
  None = None
  Symbol = {btc, eth}
  Version = {v1, v2}
  Bar <- TwoSymbolBars
  Roster = {sleeve}
  Window = 2
  Durable = FALSE
  MaxClock = 3
  MaxFailures = 2
  MaxCrashes = 0
  MaxReplays = 1
PROPERTIES EveryBarAnswered
CHECK_DEADLOCK FALSE
