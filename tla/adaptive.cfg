CONSTANTS
  HourRows = 3
  CrashRows = 5
  ShockReach = 7
  FirstRetest = 2
  LastRetest = 4
  Raw <- TrendAndRange
  Histories <- Settled
  MaxRows = 8
  MaxShocks = 2
SPECIFICATION Spec
INVARIANTS TypeOK OneAttemptPerShock CalmBeforeRegime CooldownEnds ReachIsExact
CHECK_DEADLOCK FALSE
