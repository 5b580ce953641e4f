CONSTANTS
  Proc <- Ranks
  Node <- Nodes
  Meshes <- Partitions
  MaxIter = 1
  MaxSolves = 2
SPECIFICATION Spec
INVARIANT GradientFresh
CHECK_DEADLOCK FALSE
