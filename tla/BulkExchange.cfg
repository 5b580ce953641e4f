CONSTANTS
  Rank = {0, 1, 2}
  MaxPackets = 1
  MaxRound = 2
SPECIFICATION Spec
INVARIANT RoundsApart
CHECK_DEADLOCK FALSE
