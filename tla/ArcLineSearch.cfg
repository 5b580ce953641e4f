SPECIFICATION Spec
CONSTANTS
  Attributes <- Searching
  MaxSteps = 2
INVARIANT TotalIsSum
CHECK_DEADLOCK FALSE
