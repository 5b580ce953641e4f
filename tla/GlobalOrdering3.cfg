CONSTANTS
  Rank = {0, 1, 2}
  Node = {1, 2}
  Dofs <- SmallDofs
SPECIFICATION FairSpec
INVARIANTS SharersAgree NumbersDense BlocksFit NormCountsOnce
PROPERTIES OrderingEnds
CHECK_DEADLOCK FALSE
