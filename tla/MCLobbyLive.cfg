CONSTANTS
  MaxPingRetries = 0
  WorkerCount = 1
  ResultChanSize = 1
  MaxMatches = 2
  MaxFaults = 0
  User = {u1, u2}
  PlayersPerRoom = 2
  MaxDbFaults = 1
SPECIFICATION LobbyFairSpec
PROPERTIES PlayersReleased QueueServed
