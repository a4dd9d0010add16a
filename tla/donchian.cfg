SPECIFICATION Spec
CONSTANTS
  Closes <- DailyCloses
  Horizons <- FewHorizons
  Lookback = 2
  Models <- ModelWeights
  Band = 1
  Scale = 5
  MaxDays = 8
INVARIANTS TypeOK StopsAreExplained ExitsAreExplained FlatMeansInactive
PROPERTIES StopsOnlyRise SignalsMoveWeight
CHECK_DEADLOCK FALSE
