SPECIFICATION Spec
CONSTANTS
  Evaluation = {first, second}
  Rules <- TwoRules
  Minimums <- TwoMinimums
  Contexts <- SavedContexts
  Loads <- LoadedWindows
  Intents <- SomeIntents
INVARIANTS TypeOK ResultsAreFrozen ResultsAreCausal ResultsAreInformed
CHECK_DEADLOCK FALSE
