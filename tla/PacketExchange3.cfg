CONSTANTS
  Rank = {0, 1, 2}
  MaxPackets = 1
  Long = {}
  MaxRound = 2
  EagerSends = TRUE
SPECIFICATION Spec
INVARIANTS QuietAfterBarrier
CHECK_DEADLOCK FALSE
