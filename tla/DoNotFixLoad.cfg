\* The first metastep does not fix the load it has reached.
SPECIFICATION Spec
CONSTANTS
  MetaSteps <- NotFixed
  Reference <- TwoLoads
  Increments <- OneOrTwo
  Torn = Torn
  Every = 0
  MaxRuns = 1
INVARIANT NewReference
CHECK_DEADLOCK FALSE
