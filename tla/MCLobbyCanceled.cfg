CONSTANTS
  MaxPingRetries = 0
  WorkerCount = 1
  ResultChanSize = 1
  MaxMatches = 1
  MaxFaults = 1
  User = {u1, u2}
  PlayersPerRoom = 2
  MaxDbFaults = 0
SPECIFICATION LobbySpec
PROPERTY PlayedIsNotCanceled
