SPECIFICATION Spec
CONSTANTS
  Enabled <- EnabledStrategies
  Anchors <- SomeAnchors
  MaxVersion = 1
INVARIANT RestoredSourceIsInstalled
CHECK_DEADLOCK FALSE
