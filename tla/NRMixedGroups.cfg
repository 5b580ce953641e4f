CONSTANTS
  Rank = {0, 1}
  Group = {"solid", "flow"}
  Classes = {"zero", "small", "large"}
  Increments = {1}
  Etas = {1, 2}
  NsMax = 2
  LsMax = 3
  Configs <- OnlyMixed
SPECIFICATION Spec
INVARIANTS SkippedGroupsAreZero
CHECK_DEADLOCK FALSE
