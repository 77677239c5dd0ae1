SPECIFICATION FairSpec
CONSTANTS
  User = {u1}
  PlayersPerRoom = 1
  Socket = {s1, s2}
  Login <- OneLogin
  Call = {c1}
  MaxMatches = 2
INVARIANTS RegistryExact QueuedHasOwner NewestIsQueued ToldOwnMatch
PROPERTIES ReplacedByNewer PollNotices
CHECK_DEADLOCK FALSE
