SPECIFICATION FairSpec
CONSTANTS
  btc = btc
  eth = eth
  v1 = v1
  v2 = v2
  None = None
  Symbol = {btc}
  Version = {v1, v2}
  Bar <- TwoAndConflict
  Roster = {sleeve}
  Window = 2
  Durable = TRUE
  MaxClock = 2
  MaxFailures = 0
  MaxCrashes = 2
  MaxReplays = 1
INVARIANTS SoundWindow
PROPERTIES AnalysisMovesForward EveryBarAnswered
CHECK_DEADLOCK FALSE
