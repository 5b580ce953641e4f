CONSTANTS
  Proc <- Ranks
  Node <- Nodes
  Meshes <- Partitions
  MaxIter = 2
  MaxSolves = 2
SPECIFICATION FairSpec
INVARIANTS BarriersMatch MessagesMeant MessagesFit MultipliersJoin ModesRight
PROPERTIES SolveEnds
CHECK_DEADLOCK FALSE
