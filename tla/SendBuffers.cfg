CONSTANTS
  Rank = {0, 1, 2}
  Node = {1, 2}
  Dofs <- SmallDofs
SPECIFICATION Spec
INVARIANTS SendBufferKept
CHECK_DEADLOCK FALSE
