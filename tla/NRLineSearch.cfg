CONSTANTS
  Rank = {0}
  Group = {"solid", "flow"}
  Classes = {"zero", "small", "large"}
  Increments = {1}
  Etas = {1, 2}
  NsMax = 2
  LsMax = 3
  Configs <- OnlySearch
SPECIFICATION Spec
INVARIANTS TotalMovesByIncrement
CHECK_DEADLOCK FALSE
