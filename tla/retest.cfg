SPECIFICATION Spec
CONSTANTS
  long = long
  short = short
  None = None
  Side <- Sides
  SetupWindow = 2
  RequiredPrior = 1
  HourBuckets = 2
  HourLookback = 1
  MaxBucket = 7
INVARIANTS TypeOK EvidenceAccepted OneLifecycleAtATime ResolvedInTime HourIsFresh
CHECK_DEADLOCK FALSE
