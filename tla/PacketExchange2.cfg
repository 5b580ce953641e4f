CONSTANTS
  Rank = {0, 1}
  MaxPackets = 2
  Long = {0}
  MaxRound = 3
  EagerSends = TRUE
SPECIFICATION FairSpec
INVARIANTS PacketsHeldOnce NoReuseInFlight MessageIntegrity QuietAfterBarrier
PROPERTIES ImplementsBulk Termination
CHECK_DEADLOCK FALSE
