SPECIFICATION FairSpec
CONSTANT
  MaxSockets = 3
INVARIANTS WaitIsReal NoOrphans MatchOfThisWait
PROPERTY DroppedAreClosed
