CONSTANTS
  Rank = {0}
  Group = {"solid", "flow"}
  Classes = {"zero", "small", "large", "huge", "nan"}
  Increments = {1, 2}
  Etas = {1, 2}
  NsMax = 2
  LsMax = 3
  Configs <- Search
SPECIFICATION Spec
INVARIANTS SearchConsistent VerdictOnLastIterate
CHECK_DEADLOCK FALSE
