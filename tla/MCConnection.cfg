SPECIFICATION FairSpec
CONSTANTS
  maxMissedPongs = 1
  MaxPings = 4
  MaxPongs = 2
INVARIANT MissesInARow
PROPERTY SilenceIsNoticed
CHECK_DEADLOCK FALSE
