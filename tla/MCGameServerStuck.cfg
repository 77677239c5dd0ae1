SPECIFICATION Spec
CONSTANTS
  MaxMatches = 2
  MaxFaults = 1
INVARIANT ExecutorStopped
