SPECIFICATION FairSpec
CONSTANTS
  User = {u1}
  PlayersPerRoom = 1
  Socket = {s1}
  Login <- OneLogin
  Call = {c1}
  MaxMatches = 1
PROPERTY MatchEndsTheWait
CHECK_DEADLOCK FALSE
