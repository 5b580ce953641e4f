CONSTANTS
  Rank = {0, 1}
  Group = {"solid", "flow"}
  Classes = {"zero", "small", "large"}
  Increments = {2, 4}
  Etas = {1, 2}
  NsMax = 2
  LsMax = 3
  Configs <- OnlyMaxInc
SPECIFICATION Spec
INVARIANTS SharedValueAgrees
CHECK_DEADLOCK FALSE
