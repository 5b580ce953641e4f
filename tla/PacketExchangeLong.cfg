CONSTANTS
  Rank = {0, 1}
  MaxPackets = 2
  Long = {0, 1}
  MaxRound = 2
  EagerSends = FALSE
SPECIFICATION FairSpec
INVARIANTS PacketsHeldOnce NoReuseInFlight MessageIntegrity QuietAfterBarrier
PROPERTIES ImplementsBulk Termination
CHECK_DEADLOCK FALSE
