CONSTANTS
  Rank = {0, 1}
  Group = {"solid", "flow"}
  Classes = {"zero", "small", "large", "huge", "nan"}
  Increments = {1, 2}
  Etas = {1, 2}
  NsMax = 2
  LsMax = 3
  Configs <- LoadControl
SPECIFICATION FairSpec
INVARIANTS CallsMatch VerdictsAgree
PROPERTIES StepEnds
CHECK_DEADLOCK FALSE
