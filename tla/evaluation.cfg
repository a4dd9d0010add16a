SPECIFICATION LiveSpec
CONSTANTS
  FiveMinutes = 2
  QuarterHour = 3
  Hour = 4
  FourHours = 8
  Rules <- RegisteredRules
  Windows <- WindowSizes
  Configurations <- ScaledConfigurations
  Markets <- SomeMarkets
  Starts <- FirstMinutes
  OutageLengths <- Lengths
  LullLength = 5
  Disturbances = 1
  MaxMinute = 28
INVARIANTS SleevesTypeOK QuietIsInformed WarmupIsExact RegisteredMinimumSuffices
INVARIANTS VerdictMatchesGenerator LiveIsResearch GapIsolation ReceiptTellsBatch RefusalsAreExplained
PROPERTIES DecisionsAreFinal EvaluatorSpec
CHECK_DEADLOCK FALSE
