CONSTANTS
  Rank = {0, 1}
  Node = {1, 2}
  Dofs <- SmallDofs
SPECIFICATION Spec
INVARIANTS GroupNormCountsOnce
CHECK_DEADLOCK FALSE
