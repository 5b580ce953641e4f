\* Seven steps in three metasteps; contexts within and at the end of metasteps; three runs.
SPECIFICATION FairSpec
CONSTANTS
  MetaSteps <- ThreeMetaSteps
  Reference <- ThreeLoads
  Increments <- OneOrTwo
  Torn = Torn
  Every = 2
  MaxRuns = 3
INVARIANTS StepInMetaStep LoadsFollow LevelsFollow ContextHoldsLoad
PROPERTIES AnalysisEnds
CHECK_DEADLOCK FALSE
