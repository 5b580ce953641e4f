SPECIFICATION Spec
CONSTANTS
  Proc = {0, 1, 2}
  Elem = {1, 2, 3}
  Meshes <- MirroredSlaves
  Owners <- Started
  Plans <- Assigned
  MaxRounds = 1
CHECK_DEADLOCK FALSE
INVARIANT NumbersRight
