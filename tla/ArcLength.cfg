SPECIFICATION FairSpec
CONSTANTS
  Attributes <- TwoMetaSteps
  MaxSteps = 6
INVARIANTS StartsFromEquilibrium FullAfterTrouble OldModeBack LengthInRange
PROPERTY StepEnds
CHECK_DEADLOCK FALSE
