SPECIFICATION LobbySpec
CONSTANTS
  WorkerCount = 1
  ResultChanSize = 1
  MaxPingRetries = 0
  MaxMatches = 2
  MaxFaults = 1
  User = {u1, u2}
  PlayersPerRoom = 2
  MaxDbFaults = 1
SYMMETRY UserSymmetry
CONSTRAINT OneFailure
INVARIANTS MatchedUserServed ActiveMatchServed TokensAgree
PROPERTY KeepsUserWaits
