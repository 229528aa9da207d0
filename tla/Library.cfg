CONSTANTS
  NumParts = 2
  Banks = 1
  Slots = 3
  Setups <- Playing
SPECIFICATION FairSpec
CHECK_DEADLOCK FALSE
INVARIANTS ShownIsLoaded
PROPERTIES PendingLoadIsNotLost KeptCopySurvives SettlesInTheEnd
