CONSTANTS
  Rank = {0, 1}
  Group = {"solid", "flow"}
  Classes = {"zero", "small", "large", "huge", "nan"}
  Increments = {1}
  Etas = {1, 2}
  NsMax = 2
  LsMax = 3
  Configs <- OnlyPlain
SPECIFICATION Spec
INVARIANTS ConvergedIsEquilibrium
CHECK_DEADLOCK FALSE
