CONSTANTS
  Proc <- Ranks
  Node <- Nodes
  Meshes <- Supported
  MaxIter = 1
  MaxSolves = 1
SPECIFICATION Spec
INVARIANT NeverAborts
CHECK_DEADLOCK FALSE
