SPECIFICATION FairSpec
CONSTANTS
  Proc = {0, 1, 2}
  Elem = {1, 2, 3}
  Meshes <- Balanced
  Owners <- Started
  Plans <- Assigned
  MaxRounds = 2
INVARIANTS ElementsOnce EntitiesAvailable ListsExact NumbersRight MirrorsExact MapsMatch
PROPERTY MigrationEnds
CHECK_DEADLOCK FALSE
