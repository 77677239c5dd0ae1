SPECIFICATION FairSpec
CONSTANTS
  MaxMatches = 3
  MaxFaults = 2
INVARIANTS AcceptedJobAnswered ResultIsGenuine QuietBetweenMatches
PROPERTIES KeepsMatchOutcome ShutdownEnds ExitedJobAnswered
