---------------------------- MODULE Lobby_proofs ----------------------------
(***************************************************************************)
(* Proofs about Lobby, for every number of users, of players per room, of  *)
(* workers, matches and faults.                                            *)
(***************************************************************************)
EXTENDS Lobby, WorkerManager_proofs

-----------------------------------------------------------------------------
(* The manager inside the lobby. *)

\* Every step of the lobby is a step of the manager or leaves it alone.
LEMMA ManagerStep ==
  ASSUME [LobbyNext]_lobbyVars
  PROVE  [Next]_vars
<1>1. CASE StartRound \/ FailRound
  BY <1>1 DEF StartRound, FailRound, Next, Caller
<1>2. CASE CreateMatch \/ AssignMatch
  BY <1>2 DEF CreateMatch, AssignMatch, Next, Caller
<1>3. CASE GatherMatchPlayers \/ GenerateAuthTokens \/ AddMatch \/ AddMatchFail
  BY <1>3 DEF GatherMatchPlayers, GenerateAuthTokens, AddMatch, AddMatchFail
<1>4. CASE Managing
  BY <1>4 DEF Managing, Next, Save
<1>5. CASE ReleasePlayers \/ SaveResults
  BY <1>5 DEF ReleasePlayers, SaveResults, Next, Save
<1>6. CASE \E u \in User : ApiUpdate(u) \/ QueueLapses(u)
  BY <1>6 DEF ApiUpdate, QueueLapses
<1>7. CASE UNCHANGED lobbyVars
  BY <1>7 DEF lobbyVars
<1> QED  BY <1>1, <1>2, <1>3, <1>4, <1>5, <1>6, <1>7 DEF LobbyNext, Matchmaking

\* What was proved of the manager holds in the composition: the lobby contains
\* a manager that runs its own goroutines, with the matchmaker as its caller.
THEOREM LobbyKeepsManager == LobbySpec => Spec
<1>1. LobbyInit => Init
  BY DEF LobbyInit
<1>2. [LobbyNext]_lobbyVars => [Next]_vars
  BY ManagerStep
<1> QED  BY <1>1, <1>2, PTL DEF LobbySpec, Spec

\* The manager's invariant holds in the lobby.
LEMMA ManagerInvariance == LobbySpec => []Inv
  BY LobbyKeepsManager, Invariance, PTL

USE ConstantsAssumption, LobbyAssumption
    DEF Match, NoMatch, managerVars, brokerVars, historyVars, tables, cleanups,
        DB!Null, DB!Inactive

\* What the loops of the manager do to the matchmaker's goroutine and to the
\* variables its rounds depend on: at most they wake it.
LEMMA ManagingFacts ==
  ASSUME Managing
  PROVE  /\ UNCHANGED <<tables, round, configs, dbFaults, cleanups>>
         /\ UNCHANGED <<matchSeq, assigned, processed>>
         /\ caller'.pc = caller.pc \/ (caller.pc = "waiting" /\ caller'.pc = "woken")
         /\ saveLoop' = saveLoop \/ saveLoop'.pc = "removeStatus"
<1>1. UNCHANGED <<tables, round, configs, dbFaults, cleanups>>
  BY DEF Managing
<1>2. CASE HandleResults
  BY <1>1, <1>2 DEF HandleResults, GetResult, AckResult, AckFail, SendResult, FreeMatchWorker,
       Signal, Outside
<1>3. CASE HealthCheck
  BY <1>1, <1>3 DEF HealthCheck, PingWorkers, HealthLock, CheckHealthy, CheckUnhealthy,
       HealthUnlock
<1>4. CASE \E r \in restarts : RestartWorker(r)
  BY <1>1, <1>4 DEF RestartWorker, RestartContainer, RestartFail, RestartReturn, Signal, Outside
<1>5. CASE \E w \in Workers : RestartDeadline(w)
  BY <1>1, <1>5 DEF RestartDeadline
<1>6. CASE ReceiveResult
  BY <1>1, <1>6 DEF ReceiveResult
<1>7. CASE GameServers
  BY <1>1, <1>7 DEF GameServers, PublishResult, PublishCancelAfterResult
<1> QED  BY <1>2, <1>3, <1>4, <1>5, <1>6, <1>7 DEF Managing

\* The steps of the matchmaker inside the manager.
LEMMA CallerFacts ==
  ASSUME StartRound \/ FailRound \/ CreateMatch \/ AssignMatch
  PROVE  UNCHANGED <<users, matches, cleanups, saveLoop, processed>>
  BY DEF StartRound, FailRound, CreateMatch, AssignMatch, WaitForFreeWorker, GiveUpRound,
         AssignBegin, AssignNoFreeWorker, AssignSend, AssignFail, AssignReturn

-----------------------------------------------------------------------------
(* The inductive invariant. *)

\* The round stays in step with the matchmaker's goroutine in the manager.
LEMMA RoundStep ==
  ASSUME Inv, LobbyInv, [LobbyNext]_lobbyVars
  PROVE  RoundFollowsCaller'
<1>0. RoundFollowsCaller /\ LobbyTypeOK /\ TypeOK
  BY DEF LobbyInv, Inv
<1>1. CASE StartRound
  BY <1>0, <1>1 DEF StartRound, WaitForFreeWorker, Outside, NoRound, RoundFollowsCaller
<1>2. CASE FailRound
  BY <1>0, <1>2 DEF FailRound, GiveUpRound, Outside, NoRound, RoundFollowsCaller
<1>3. CASE CreateMatch
  BY <1>0, <1>3 DEF CreateMatch, AssignBegin, AssignNoFreeWorker, Outside, NoRound,
       RoundFollowsCaller, LobbyTypeOK
<1>4. CASE AssignMatch
  <2>1. caller.match = matchSeq
    BY <1>4 DEF Inv, LockAndSequence, AssignMatch, AssignSend, AssignFail, AssignReturn
  <2>2. round.pc = "assign"
    BY <1>0, <1>4 DEF AssignMatch, AssignSend, AssignFail, AssignReturn, RoundFollowsCaller,
         LobbyTypeOK
  <2> QED
    BY <1>0, <1>4, <2>1, <2>2 DEF AssignMatch, AssignSend, AssignFail, AssignReturn, Outside,
       NoRound, RoundFollowsCaller, LobbyTypeOK, TypeOK, CallerState
<1>5. CASE GatherMatchPlayers \/ GenerateAuthTokens \/ AddMatch \/ AddMatchFail
  BY <1>0, <1>5 DEF GatherMatchPlayers, GenerateAuthTokens, AddMatch, AddMatchFail, NoRound,
     RoundFollowsCaller, LobbyTypeOK, vars
<1>6. CASE Managing
  BY <1>0, <1>6, ManagingFacts DEF RoundFollowsCaller
<1>7. CASE ReleasePlayers \/ SaveResults
  BY <1>0, <1>7 DEF ReleasePlayers, SaveResults, RemoveMatchStatus, SaveMatchResults,
     RoundFollowsCaller
<1>8. CASE (\E u \in User : ApiUpdate(u) \/ QueueLapses(u)) \/ UNCHANGED lobbyVars
  BY <1>0, <1>8 DEF ApiUpdate, QueueLapses, lobbyVars, vars, RoundFollowsCaller
<1> QED  BY <1>1, <1>2, <1>3, <1>4, <1>5, <1>6, <1>7, <1>8 DEF LobbyNext, Matchmaking

\* The statements of the API, and the clock, move only users that are in no
\* match, and leave their tokens alone.
LEMMA ApiFacts ==
  ASSUME LobbyTypeOK, NEW u \in User, ApiUpdate(u) \/ QueueLapses(u)
  PROVE  /\ UNCHANGED <<vars, matches, round, configs, dbFaults, cleanups>>
         /\ users' \in [User -> DB!UserRow]
         /\ \A v \in User :
              /\ users'[v].match_id = users[v].match_id
              /\ users'[v].match_auth_token = users[v].match_auth_token
              /\ users[v].match_id # DB!Null /\ users[v].queued_until = "null"
                   => users'[v].queued_until = "null"
<1>0. users \in [User -> DB!UserRow]
  BY DEF LobbyTypeOK
<1>1. CASE ApiUpdate(u)
  BY <1>0, <1>1 DEF ApiUpdate, DB!UserRow, DB!setQueueStatus, DB!extendQueueStatus,
     DB!removeQueueStatus
<1>2. CASE QueueLapses(u)
  BY <1>0, <1>2 DEF QueueLapses, DB!UserRow
<1> QED  BY <1>1, <1>2

\* saveLoop works on a match: its report came through the channel.
LEMMA SaveLoopMatch ==
  ASSUME TypeOK, ReleasePlayers \/ SaveResults
  PROVE  saveLoop.res \in Result /\ saveLoop.res.MatchID \in Match
  BY DEF TypeOK, SaveLoopState, ReleasePlayers, SaveResults, RemoveMatchStatus,
         SaveMatchResults, Result

\* A row stays a row when its token, or its match, is set.
LEMMA RowUpdates ==
  ASSUME NEW row \in DB!UserRow
  PROVE  /\ \A t \in Nat : [row EXCEPT !.match_auth_token = t] \in DB!UserRow
         /\ \A m \in Match :
              [row EXCEPT !.match_id = m, !.queued_until = "null"] \in DB!UserRow
  BY DEF DB!UserRow

\* Types.
LEMMA LobbyTypeStep ==
  ASSUME Inv, LobbyInv, [LobbyNext]_lobbyVars
  PROVE  LobbyTypeOK'
<1>0. LobbyTypeOK /\ TypeOK /\ RoundPlayers
  BY DEF LobbyInv, Inv
<1>1. CASE StartRound
  BY <1>0, <1>1 DEF StartRound, NoRound, LobbyTypeOK
<1>2. CASE FailRound
  BY <1>0, <1>2 DEF FailRound, NoRound, LobbyTypeOK, DbFault
<1>3. CASE CreateMatch
  <2>1. matchSeq + 1 \in Nat
    BY <1>0 DEF TypeOK
  <2>2. configs' \in [Match -> [players : SUBSET User, token : Nat]]
    BY <1>0, <1>3, <2>1 DEF CreateMatch, LobbyTypeOK
  <2> QED  BY <1>0, <1>3, <2>2 DEF CreateMatch, NoRound, LobbyTypeOK
<1>4. CASE AssignMatch
  <2>1. round' = round \/ round' = NoRound("wait") \/ round' = [round EXCEPT !.pc = "add"]
    BY <1>4 DEF AssignMatch
  <2>2. round' \in [pc : {"wait", "gather", "tokens", "create", "assign", "add"},
                    players : SUBSET User]
    BY <1>0, <2>1 DEF NoRound, LobbyTypeOK
  <2>3. UNCHANGED <<tables, configs, dbFaults, cleanups>>
    BY <1>4 DEF AssignMatch
  <2> QED  BY <1>0, <2>2, <2>3 DEF LobbyTypeOK
<1>5. CASE GatherMatchPlayers
  BY <1>0, <1>5 DEF GatherMatchPlayers, DB!GatherMatchPlayers, DB!Waiting, LobbyTypeOK
<1>6. CASE GenerateAuthTokens
  <2>1. matchSeq + 1 \in Nat
    BY <1>0 DEF TypeOK
  <2>2. \A u \in User : [users[u] EXCEPT !.match_auth_token = matchSeq + 1] \in DB!UserRow
    BY <1>0, <2>1, RowUpdates DEF LobbyTypeOK
  <2>3. users' \in [User -> DB!UserRow]
    BY <1>0, <1>6, <2>2 DEF GenerateAuthTokens, DB!GenerateAuthTokens, LobbyTypeOK
  <2> QED  BY <1>0, <1>6, <2>3 DEF GenerateAuthTokens, LobbyTypeOK
<1>7. CASE AddMatch
  <2>1. matchSeq \in Match
    BY <1>0, <1>7 DEF AddMatch, RoundPlayers
  <2>2. users' \in [User -> DB!UserRow]
    <3>1. \A u \in User :
            [users[u] EXCEPT !.match_id = matchSeq, !.queued_until = "null"] \in DB!UserRow
      BY <1>0, <2>1, RowUpdates DEF LobbyTypeOK
    <3> QED  BY <1>0, <1>7, <3>1 DEF AddMatch, DB!AddMatchUsers, LobbyTypeOK
  <2>3. matches' \in [Match -> DB!MatchRow]
    BY <1>0, <1>7, <2>1 DEF AddMatch, DB!AddMatchRow, DB!MatchRow, LobbyTypeOK
  <2> QED  BY <1>0, <1>7, <2>2, <2>3 DEF AddMatch, NoRound, LobbyTypeOK
<1>8. CASE AddMatchFail
  BY <1>0, <1>8 DEF AddMatchFail, NoRound, LobbyTypeOK, DbFault
<1>9. CASE Managing
  BY <1>0, <1>9 DEF Managing, LobbyTypeOK
<1>10. CASE ReleasePlayers
  <2>1. saveLoop.res.MatchID \in Match
    BY <1>0, <1>10, SaveLoopMatch
  <2>2. users' \in [User -> DB!UserRow]
    BY <1>0, <1>10 DEF ReleasePlayers, DB!RemoveMatchStatus, DB!UserRow, LobbyTypeOK
  <2>3. dbFaults' \in 0 .. MaxDbFaults
    BY <1>0, <1>10 DEF ReleasePlayers, DbFault, LobbyTypeOK
  <2> QED  BY <1>0, <1>10, <2>1, <2>2, <2>3 DEF ReleasePlayers, LobbyTypeOK
<1>11. CASE SaveResults
  <2>1. saveLoop.res.MatchID \in Match
    BY <1>0, <1>11, SaveLoopMatch
  <2>2. matches' \in [Match -> DB!MatchRow]
    BY <1>0, <1>11, <2>1 DEF SaveResults, DB!SaveMatchResults, DB!MatchRow, LobbyTypeOK
  <2>3. dbFaults' \in 0 .. MaxDbFaults
    BY <1>0, <1>11 DEF SaveResults, DbFault, LobbyTypeOK
  <2> QED  BY <1>0, <1>11, <2>1, <2>2, <2>3 DEF SaveResults, LobbyTypeOK
<1>12. CASE \E u \in User : ApiUpdate(u) \/ QueueLapses(u)
  BY <1>0, <1>12, ApiFacts DEF LobbyTypeOK
<1>13. CASE UNCHANGED lobbyVars
  BY <1>0, <1>13 DEF lobbyVars, LobbyTypeOK
<1> QED  BY <1>1, <1>2, <1>3, <1>4, <1>5, <1>6, <1>7, <1>8, <1>9, <1>10, <1>11, <1>12, <1>13
         DEF LobbyNext, Matchmaking

\* The next match id is new: nothing was assigned or recorded under it.
LEMMA NextMatchFresh ==
  ASSUME Inv, LobbyInv, matchSeq < MaxMatches
  PROVE  /\ matchSeq + 1 \in Match
         /\ matches[matchSeq + 1] = "none"
<1>1. matchSeq \in 0 .. MaxMatches /\ assigned \subseteq 1 .. matchSeq
  BY DEF Inv, TypeOK, LockAndSequence
<1>2. matchSeq + 1 \in Match /\ matchSeq + 1 \notin assigned
  BY <1>1
<1> QED  BY <1>2 DEF LobbyInv, RowsFollowAssignments

\* The players of the round stay out of every other match, and their token stays
\* the one of the round.
LEMMA RoundPlayersStep ==
  ASSUME Inv, LobbyInv, [LobbyNext]_lobbyVars
  PROVE  RoundPlayers'
<1>0. /\ RoundPlayers /\ RoundFollowsCaller /\ LobbyTypeOK /\ TypeOK
      /\ users \in [User -> DB!UserRow]
      /\ round.players \subseteq User
      /\ round.pc \in {"wait", "gather", "tokens", "create", "assign", "add"}
  BY DEF LobbyInv, Inv, LobbyTypeOK
<1>1. CASE StartRound \/ FailRound
  <2>1. /\ round'.players = {}
        /\ round'.pc \notin {"create", "assign", "add"}
    BY <1>1 DEF StartRound, FailRound, NoRound
  <2> QED  BY <2>1 DEF RoundPlayers
<1>2. CASE CreateMatch
  <2>0. matchSeq < MaxMatches /\ matchSeq' = matchSeq + 1 /\ UNCHANGED tables
    BY <1>2 DEF CreateMatch, AssignBegin, AssignNoFreeWorker
  <2>1. matchSeq + 1 \in Match /\ matches[matchSeq + 1] = "none"
    BY <2>0, NextMatchFresh
  <2>2. round.pc = "create"
    BY <1>2 DEF CreateMatch
  <2>3. CASE round' = NoRound("wait")
    BY <2>3 DEF NoRound, RoundPlayers
  <2>4. CASE round' = [round EXCEPT !.pc = "assign"]
    <3>1. round'.pc = "assign" /\ round'.players = round.players
      BY <2>4, <1>0 DEF LobbyTypeOK
    <3>2. configs'[matchSeq + 1] = [players |-> round.players, token |-> matchSeq + 1]
      BY <1>0, <1>2, <2>1 DEF CreateMatch, LobbyTypeOK
    <3> QED  BY <1>0, <2>0, <2>1, <2>2, <3>1, <3>2 DEF RoundPlayers
  <2> QED  BY <1>2, <2>3, <2>4 DEF CreateMatch
<1>3. CASE AssignMatch
  <2>1. /\ UNCHANGED <<tables, configs, matchSeq>>
        /\ \/ UNCHANGED round
           \/ round' = NoRound("wait")
           \/ round' = [round EXCEPT !.pc = "add"]
    BY <1>3 DEF AssignMatch, AssignSend, AssignFail, AssignReturn
  <2>2. round.pc = "assign"
    BY <1>0, <1>3 DEF AssignMatch, AssignSend, AssignFail, AssignReturn, RoundFollowsCaller
  <2>3. CASE UNCHANGED round
    BY <1>0, <2>1, <2>3 DEF RoundPlayers
  <2>4. CASE round' = NoRound("wait")
    BY <2>4 DEF NoRound, RoundPlayers
  <2>5. CASE round' = [round EXCEPT !.pc = "add"]
    <3>1. round'.pc = "add" /\ round'.players = round.players
      BY <2>5, <1>0 DEF LobbyTypeOK
    <3> QED  BY <1>0, <2>1, <2>2, <3>1 DEF RoundPlayers
  <2> QED  BY <2>1, <2>3, <2>4, <2>5
<1>4. CASE GatherMatchPlayers
  <2>1. /\ UNCHANGED users
        /\ round'.pc = "tokens"
        /\ \A u \in round'.players : u \in User /\ users[u].match_id = DB!Null
    BY <1>4 DEF GatherMatchPlayers, DB!GatherMatchPlayers, DB!Waiting
  <2> QED  BY <2>1 DEF RoundPlayers
<1>5. CASE GenerateAuthTokens
  <2>1. round'.pc = "create" /\ round'.players = round.players /\ matchSeq' = matchSeq
    BY <1>0, <1>5 DEF GenerateAuthTokens, LobbyTypeOK, vars
  <2>2. \A u \in round.players : /\ users'[u].match_id = users[u].match_id
                                 /\ users'[u].match_auth_token = matchSeq + 1
    BY <1>0, <1>5 DEF GenerateAuthTokens, DB!GenerateAuthTokens, DB!UserRow
  <2> QED  BY <1>0, <2>1, <2>2 DEF RoundPlayers
<1>6. CASE AddMatch \/ AddMatchFail
  BY <1>6 DEF AddMatch, AddMatchFail, NoRound, RoundPlayers
<1>7. CASE Managing
  BY <1>0, <1>7, ManagingFacts DEF RoundPlayers
<1>8. CASE ReleasePlayers
  <2>1. saveLoop.res.MatchID \in Match
    BY <1>0, <1>8, SaveLoopMatch
  <2>2. \A u \in User : users[u].match_id = DB!Null => users'[u] = users[u]
    BY <1>0, <1>8, <2>1 DEF ReleasePlayers, DB!RemoveMatchStatus
  <2>3. UNCHANGED <<matches, round, configs, matchSeq>>
    BY <1>8 DEF ReleasePlayers, RemoveMatchStatus
  <2> QED  BY <1>0, <2>2, <2>3 DEF RoundPlayers
<1>9. CASE SaveResults
  <2>1. UNCHANGED <<users, round, configs, matchSeq>>
    BY <1>9 DEF SaveResults, SaveMatchResults
  <2>2. saveLoop.res.MatchID \in Match
    BY <1>0, <1>9, SaveLoopMatch
  <2>3. \A m \in Match : matches[m] = "none" => matches'[m] = "none"
    BY <1>0, <1>9, <2>2 DEF SaveResults, DB!SaveMatchResults, LobbyTypeOK
  <2> QED  BY <1>0, <2>1, <2>3 DEF RoundPlayers
<1>10. CASE \E u \in User : ApiUpdate(u) \/ QueueLapses(u)
  <2>1. /\ UNCHANGED <<matches, round, configs, matchSeq>>
        /\ \A v \in User : /\ users'[v].match_id = users[v].match_id
                           /\ users'[v].match_auth_token = users[v].match_auth_token
    BY <1>0, <1>10, ApiFacts DEF vars
  <2> QED  BY <1>0, <2>1 DEF RoundPlayers
<1>11. CASE UNCHANGED lobbyVars
  BY <1>0, <1>11 DEF lobbyVars, vars, RoundPlayers
<1> QED  BY <1>1, <1>2, <1>3, <1>4, <1>5, <1>6, <1>7, <1>8, <1>9, <1>10, <1>11
         DEF LobbyNext, Matchmaking

\* Rows come from assigned matches, and a cleaned match has no users left.
LEMMA RowsStep ==
  ASSUME Inv, LobbyInv, [LobbyNext]_lobbyVars
  PROVE  RowsFollowAssignments'
<1>0. /\ RowsFollowAssignments /\ RoundFollowsCaller /\ RoundPlayers /\ LobbyTypeOK /\ TypeOK
      /\ users \in [User -> DB!UserRow] /\ matches \in [Match -> DB!MatchRow]
      /\ cleaned \subseteq Match
  BY DEF LobbyInv, Inv, LobbyTypeOK
<1>1. CASE StartRound \/ FailRound \/ CreateMatch \/ AssignMatch
  <2>1. assigned \subseteq assigned'
    BY <1>1 DEF StartRound, FailRound, CreateMatch, AssignMatch, WaitForFreeWorker,
       GiveUpRound, AssignBegin, AssignNoFreeWorker, AssignSend, AssignFail, AssignReturn
  <2> QED  BY <1>0, <1>1, <2>1, CallerFacts DEF RowsFollowAssignments
<1>2. CASE GatherMatchPlayers \/ AddMatchFail
  BY <1>0, <1>2 DEF GatherMatchPlayers, AddMatchFail, vars, RowsFollowAssignments
<1>3. CASE GenerateAuthTokens
  <2>1. \A u \in User : users'[u].match_id = users[u].match_id
    BY <1>0, <1>3 DEF GenerateAuthTokens, DB!GenerateAuthTokens, DB!UserRow
  <2> QED  BY <1>0, <1>3, <2>1 DEF GenerateAuthTokens, vars, RowsFollowAssignments
<1>4. CASE AddMatch
  <2>1. matchSeq \in Match /\ matchSeq \in assigned /\ matches[matchSeq] = "none"
    BY <1>0, <1>4 DEF AddMatch, RoundFollowsCaller, RoundPlayers
  <2>2. \A u \in User : \/ users'[u].match_id = users[u].match_id
                        \/ users'[u].match_id = matchSeq
    BY <1>0, <1>4 DEF AddMatch, DB!AddMatchUsers, DB!UserRow
  <2>3. /\ \A m \in Match : m # matchSeq => matches'[m] = matches[m]
        /\ matches'[matchSeq] = "active"
    BY <1>0, <1>4, <2>1 DEF AddMatch, DB!AddMatchRow
  <2>4. matchSeq \notin cleaned
    BY <1>0, <2>1 DEF RowsFollowAssignments
  <2>5. UNCHANGED <<assigned, cleaned>>
    BY <1>4 DEF AddMatch, vars
  <2> QED  BY <1>0, <2>1, <2>2, <2>3, <2>4, <2>5 DEF RowsFollowAssignments
<1>5. CASE Managing
  BY <1>0, <1>5, ManagingFacts DEF RowsFollowAssignments
<1>6. CASE ReleasePlayers
  <2> DEFINE m == saveLoop.res.MatchID
  <2>1. m \in Match
    BY <1>0, <1>6, SaveLoopMatch
  <2>2. UNCHANGED <<matches, assigned>>
    BY <1>6 DEF ReleasePlayers, RemoveMatchStatus
  <2>3. CASE UNCHANGED <<users, cleaned>>
    BY <1>0, <2>2, <2>3 DEF RowsFollowAssignments
  <2>4. CASE /\ users' = DB!RemoveMatchStatus(users, m)
             /\ \/ UNCHANGED cleaned
                \/ cleaned' = cleaned \cup {m} /\ matches[m] # "none"
    <3>1. \A u \in User : /\ users'[u].match_id # m
                          /\ \/ users'[u].match_id = DB!Null
                             \/ users'[u].match_id = users[u].match_id
      BY <1>0, <2>1, <2>4 DEF DB!RemoveMatchStatus
    <3>2. DB!Null \notin Match
      OBVIOUS
    <3> QED  BY <1>0, <2>1, <2>2, <2>4, <3>1, <3>2 DEF RowsFollowAssignments
  <2> QED  BY <1>6, <2>3, <2>4 DEF ReleasePlayers
<1>7. CASE SaveResults
  <2>1. UNCHANGED <<users, assigned, cleaned>>
    BY <1>7 DEF SaveResults, SaveMatchResults
  <2>2. saveLoop.res.MatchID \in Match
    BY <1>0, <1>7, SaveLoopMatch
  <2>3. \A m \in Match : matches[m] = "none" <=> matches'[m] = "none"
    BY <1>0, <1>7, <2>2 DEF SaveResults, DB!SaveMatchResults
  <2> QED  BY <1>0, <2>1, <2>3 DEF RowsFollowAssignments
<1>8. CASE \E u \in User : ApiUpdate(u) \/ QueueLapses(u)
  <2>1. /\ UNCHANGED <<matches, assigned, cleaned>>
        /\ \A v \in User : users'[v].match_id = users[v].match_id
    BY <1>0, <1>8, ApiFacts DEF vars
  <2> QED  BY <1>0, <2>1 DEF RowsFollowAssignments
<1>9. CASE UNCHANGED lobbyVars
  BY <1>0, <1>9 DEF lobbyVars, vars, RowsFollowAssignments
<1> QED  BY <1>1, <1>2, <1>3, <1>4, <1>5, <1>6, <1>7, <1>8, <1>9 DEF LobbyNext, Matchmaking

\* What saveLoop has done stays on record, also when AddMatch comes after it.
LEMMA RecordStep ==
  ASSUME Inv, LobbyInv, [LobbyNext]_lobbyVars
  PROVE  SaveLoopRecorded'
<1>0. /\ SaveLoopRecorded /\ RowsFollowAssignments /\ RoundPlayers /\ LobbyTypeOK /\ TypeOK
      /\ matches \in [Match -> DB!MatchRow]
      /\ saveLoop \in SaveLoopState /\ processed \subseteq Result
  BY DEF LobbyInv, Inv, LobbyTypeOK, TypeOK
<1>1. CASE StartRound \/ FailRound \/ CreateMatch \/ AssignMatch
  BY <1>0, <1>1, CallerFacts DEF SaveLoopRecorded
<1>2. CASE GatherMatchPlayers \/ GenerateAuthTokens \/ AddMatchFail
  BY <1>0, <1>2 DEF GatherMatchPlayers, GenerateAuthTokens, AddMatchFail, vars,
     SaveLoopRecorded
<1>3. CASE AddMatch
  <2>1. matchSeq \in Match /\ matchSeq \notin cleaned
    BY <1>0, <1>3 DEF AddMatch, RoundPlayers, RowsFollowAssignments
  <2>2. \A m \in Match : m # matchSeq => matches'[m] = matches[m]
    BY <1>0, <1>3, <2>1 DEF AddMatch, DB!AddMatchRow
  <2>3. UNCHANGED <<saveLoop, processed, cleanups>>
    BY <1>3 DEF AddMatch, vars
  <2>4. \A r \in processed : r.MatchID \in Match
    BY <1>0 DEF Result
  <2> QED  BY <1>0, <2>1, <2>2, <2>3, <2>4 DEF SaveLoopRecorded
<1>4. CASE Managing
  <2>1. UNCHANGED <<matches, cleanups, processed>>
    BY <1>4, ManagingFacts
  <2>2. saveLoop' = saveLoop \/ saveLoop'.pc = "removeStatus"
    BY <1>4, ManagingFacts
  <2> QED  BY <1>0, <2>1, <2>2 DEF SaveLoopRecorded
<1>5. CASE ReleasePlayers
  <2>1. /\ saveLoop'.res = saveLoop.res
        /\ UNCHANGED <<matches, processed>>
    BY <1>0, <1>5 DEF ReleasePlayers, RemoveMatchStatus, SaveLoopState
  <2>2. /\ cleaned \subseteq cleaned' /\ overtaken \subseteq overtaken'
        /\ failed \subseteq failed'
        /\ saveLoop.res.MatchID \in cleaned' \cup overtaken' \cup failed'
    BY <1>5 DEF ReleasePlayers
  <2> QED  BY <1>0, <2>1, <2>2 DEF SaveLoopRecorded
<1>6. CASE SaveResults
  <2> DEFINE m == saveLoop.res.MatchID
  <2>1. m \in Match
    BY <1>0, <1>6, SaveLoopMatch
  <2>2. /\ saveLoop'.pc = "receive"
        /\ processed' = processed \cup {saveLoop.res}
        /\ saveLoop.pc = "saveResults"
        /\ UNCHANGED <<cleaned, overtaken>> /\ failed \subseteq failed'
    BY <1>6 DEF SaveResults, SaveMatchResults
  <2>3. m \in cleaned \cup overtaken \cup failed
    BY <1>0, <2>2 DEF SaveLoopRecorded
  <2>4. matches'[m] = "active" => m \in failed'
    BY <1>0, <1>6, <2>1 DEF SaveResults, DB!SaveMatchResults
  <2>5. \A n \in Match : matches'[n] = "active" => matches[n] = "active"
    BY <1>0, <1>6, <2>1 DEF SaveResults, DB!SaveMatchResults
  <2>6. \A r \in processed : r.MatchID \in Match
    BY <1>0 DEF Result
  <2> QED  BY <1>0, <2>2, <2>3, <2>4, <2>5, <2>6 DEF SaveLoopRecorded
<1>7. CASE \E u \in User : ApiUpdate(u) \/ QueueLapses(u)
  <2>1. UNCHANGED <<matches, saveLoop, processed, cleanups>>
    BY <1>0, <1>7, ApiFacts DEF vars
  <2> QED  BY <1>0, <2>1 DEF SaveLoopRecorded
<1>8. CASE UNCHANGED lobbyVars
  BY <1>0, <1>8 DEF lobbyVars, vars, SaveLoopRecorded
<1> QED  BY <1>1, <1>2, <1>3, <1>4, <1>5, <1>6, <1>7, <1>8 DEF LobbyNext, Matchmaking

\* AddMatch and the API never leave a user in a match and in the queue.
LEMMA NotQueuedStep ==
  ASSUME Inv, LobbyInv, [LobbyNext]_lobbyVars
  PROVE  MatchedUserNotQueued'
<1>0. /\ MatchedUserNotQueued /\ LobbyTypeOK /\ TypeOK
      /\ users \in [User -> DB!UserRow]
  BY DEF LobbyInv, Inv, LobbyTypeOK
<1>1. CASE StartRound \/ FailRound \/ CreateMatch \/ AssignMatch
  BY <1>0, <1>1, CallerFacts DEF MatchedUserNotQueued
<1>2. CASE GatherMatchPlayers \/ AddMatchFail \/ Managing \/ SaveResults
           \/ UNCHANGED lobbyVars
  BY <1>0, <1>2 DEF GatherMatchPlayers, AddMatchFail, Managing, SaveResults, lobbyVars,
     MatchedUserNotQueued
<1>3. CASE GenerateAuthTokens
  <2>1. \A u \in User : /\ users'[u].match_id = users[u].match_id
                        /\ users'[u].queued_until = users[u].queued_until
    BY <1>0, <1>3 DEF GenerateAuthTokens, DB!GenerateAuthTokens, DB!UserRow
  <2> QED  BY <1>0, <2>1 DEF MatchedUserNotQueued
<1>4. CASE AddMatch
  <2>1. \A u \in User : \/ users'[u] = users[u]
                        \/ users'[u].queued_until = "null"
    BY <1>0, <1>4 DEF AddMatch, DB!AddMatchUsers, DB!UserRow
  <2> QED  BY <1>0, <2>1 DEF MatchedUserNotQueued
<1>5. CASE ReleasePlayers
  <2>1. \A u \in User : users'[u] = users[u] \/ users'[u] = DB!Inactive
    BY <1>0, <1>5 DEF ReleasePlayers, DB!RemoveMatchStatus
  <2> QED  BY <1>0, <2>1 DEF MatchedUserNotQueued
<1>6. CASE \E u \in User : ApiUpdate(u) \/ QueueLapses(u)
  <2>1. \A v \in User :
          /\ users'[v].match_id = users[v].match_id
          /\ users[v].match_id # DB!Null /\ users[v].queued_until = "null"
               => users'[v].queued_until = "null"
    BY <1>0, <1>6, ApiFacts
  <2> QED  BY <1>0, <2>1 DEF MatchedUserNotQueued
<1> QED  BY <1>1, <1>2, <1>3, <1>4, <1>5, <1>6 DEF LobbyNext, Matchmaking

\* The token of a user in a match stays the one in the match's config.
LEMMA TokensStep ==
  ASSUME Inv, LobbyInv, [LobbyNext]_lobbyVars
  PROVE  TokensAgree'
<1>0. /\ TokensAgree /\ RoundPlayers /\ LobbyTypeOK /\ TypeOK
      /\ users \in [User -> DB!UserRow] /\ matches \in [Match -> DB!MatchRow]
      /\ \A u \in User : users[u].match_id \in Match \cup {DB!Null}
  BY DEF LobbyInv, Inv, LobbyTypeOK, DB!UserRow
<1>1. CASE StartRound \/ FailRound \/ AssignMatch
  <2>1. UNCHANGED configs
    BY <1>1 DEF StartRound, FailRound, AssignMatch
  <2> QED  BY <1>0, <1>1, <2>1, CallerFacts DEF TokensAgree
<1>2. CASE CreateMatch
  <2>1. matches[matchSeq + 1] = "none"
    <3>1. matchSeq < MaxMatches
      BY <1>2 DEF CreateMatch, AssignBegin, AssignNoFreeWorker
    <3> QED  BY <3>1, NextMatchFresh
  <2>2. \A m \in Match : m # matchSeq + 1 => configs'[m] = configs[m]
    BY <1>0, <1>2 DEF CreateMatch, LobbyTypeOK
  <2>3. UNCHANGED <<users, matches>>
    BY <1>2, CallerFacts
  <2> QED  BY <1>0, <2>1, <2>2, <2>3 DEF TokensAgree
<1>3. CASE GatherMatchPlayers \/ AddMatchFail \/ Managing \/ UNCHANGED lobbyVars
  BY <1>0, <1>3 DEF GatherMatchPlayers, AddMatchFail, Managing, lobbyVars, TokensAgree
<1>4. CASE GenerateAuthTokens
  <2>1. \A u \in User : /\ users'[u].match_id = users[u].match_id
                        /\ users[u].match_id # DB!Null => users'[u] = users[u]
    BY <1>0, <1>4 DEF GenerateAuthTokens, DB!GenerateAuthTokens, DB!UserRow, RoundPlayers
  <2> QED  BY <1>0, <1>4, <2>1 DEF GenerateAuthTokens, TokensAgree
<1>5. CASE AddMatch
  <2>1. /\ matchSeq \in Match
        /\ \A u \in round.players : users[u].match_auth_token = matchSeq
        /\ configs[matchSeq] = [players |-> round.players, token |-> matchSeq]
    BY <1>0, <1>5 DEF AddMatch, RoundPlayers
  <2>2. \A u \in User \ round.players : users'[u] = users[u]
    BY <1>0, <1>5 DEF AddMatch, DB!AddMatchUsers
  <2>3. \A u \in User \cap round.players :
          /\ users'[u].match_id = matchSeq
          /\ users'[u].match_auth_token = users[u].match_auth_token
    BY <1>0, <1>5 DEF AddMatch, DB!AddMatchUsers, DB!UserRow
  <2>4. /\ \A m \in Match : m # matchSeq => matches'[m] = matches[m]
        /\ matches'[matchSeq] = "active"
    BY <1>0, <1>5, <2>1 DEF AddMatch, DB!AddMatchRow
  <2>5. UNCHANGED configs
    BY <1>5 DEF AddMatch
  <2> QED  BY <1>0, <2>1, <2>2, <2>3, <2>4, <2>5 DEF TokensAgree
<1>6. CASE ReleasePlayers
  <2>1. \A u \in User : users'[u] = users[u] \/ users'[u] = DB!Inactive
    BY <1>0, <1>6 DEF ReleasePlayers, DB!RemoveMatchStatus
  <2> QED  BY <1>0, <1>6, <2>1 DEF ReleasePlayers, TokensAgree
<1>7. CASE SaveResults
  <2>1. UNCHANGED <<users, configs>>
    BY <1>7 DEF SaveResults
  <2>2. saveLoop.res.MatchID \in Match
    BY <1>0, <1>7, SaveLoopMatch
  <2>3. \A m \in Match : matches[m] # "none" => matches'[m] # "none"
    BY <1>0, <1>7, <2>2 DEF SaveResults, DB!SaveMatchResults
  <2> QED  BY <1>0, <2>1, <2>3 DEF TokensAgree
<1>8. CASE \E u \in User : ApiUpdate(u) \/ QueueLapses(u)
  <2>1. /\ UNCHANGED <<matches, configs>>
        /\ \A v \in User : /\ users'[v].match_id = users[v].match_id
                           /\ users'[v].match_auth_token = users[v].match_auth_token
    BY <1>0, <1>8, ApiFacts
  <2> QED  BY <1>0, <2>1 DEF TokensAgree
<1> QED  BY <1>1, <1>2, <1>3, <1>4, <1>5, <1>6, <1>7, <1>8 DEF LobbyNext, Matchmaking

\* The server manager starts with a database in which nobody waits or plays.
LEMMA LobbyInitially ==
  ASSUME LobbyInit
  PROVE  LobbyInv
<1>1. /\ users = [u \in User |-> DB!Inactive]
      /\ matches = [m \in Match |-> "none"]
      /\ round = [pc |-> "wait", players |-> {}]
      /\ configs = [m \in Match |-> [players |-> {}, token |-> DB!Null]]
      /\ dbFaults = 0 /\ cleaned = {} /\ overtaken = {} /\ failed = {}
  BY DEF LobbyInit, NoRound
<1>2. caller.pc = "away" /\ saveLoop.pc = "receive" /\ processed = {}
  BY DEF LobbyInit, Init, Outside
<1>3. LobbyTypeOK
  BY <1>1 DEF LobbyTypeOK, DB!UserRow, DB!MatchRow
<1> QED  BY <1>1, <1>2, <1>3 DEF LobbyInv, RoundFollowsCaller, RoundPlayers,
         RowsFollowAssignments, SaveLoopRecorded, MatchedUserNotQueued, TokensAgree

\* The inductive invariant of the lobby.
LEMMA LobbyInvariance == LobbySpec => []LobbyInv
<1>1. LobbyInit => LobbyInv
  BY LobbyInitially
<1>2. Inv /\ LobbyInv /\ [LobbyNext]_lobbyVars => LobbyInv'
  BY LobbyTypeStep, RoundStep, RoundPlayersStep, RowsStep, RecordStep, NotQueuedStep,
     TokensStep DEF LobbyInv
<1>3. LobbySpec => []Inv
  BY ManagerInvariance
<1> QED  BY <1>1, <1>2, <1>3, PTL DEF LobbySpec

-----------------------------------------------------------------------------
(* The properties. *)

\* No user is in a match and in the queue: for every order of the matchmaker's,
\* saveLoop's and the API's statements.
THEOREM LobbyMatchedUserNotQueued == LobbySpec => []MatchedUserNotQueued
<1>1. LobbyInv => MatchedUserNotQueued
  BY DEF LobbyInv
<1> QED  BY <1>1, LobbyInvariance, PTL

\* A user in a match has the token the match's game server was sent.
THEOREM LobbyTokensAgree == LobbySpec => []TokensAgree
<1>1. LobbyInv => TokensAgree
  BY DEF LobbyInv
<1> QED  BY <1>1, LobbyInvariance, PTL

\* A reported match waits for saveLoop's calls, or has gone through them.
LEMMA ReportedMatch ==
  ASSUME Inv, LobbyInv, NEW m \in Reported
  PROVE  \/ ReleasePending(m)
         \/ saveLoop.pc = "saveResults" /\ saveLoop.res.MatchID = m
         \/ \E r \in processed : r.MatchID = m
<1>1. PICK r \in Reports : r.MatchID = m
  BY DEF Reported
<1>2. CASE r \in ToSet(saveResultChan)
  BY <1>1, <1>2 DEF ReleasePending
<1>3. CASE r \in processed
  BY <1>1, <1>3
<1>4. CASE saveLoop.pc # "receive" /\ r = saveLoop.res
  <2>1. saveLoop.pc \in {"receive", "removeStatus", "saveResults"}
    BY DEF Inv, TypeOK, SaveLoopState
  <2> QED  BY <1>1, <1>4, <2>1 DEF ReleasePending
<1> QED  BY <1>1, <1>2, <1>3, <1>4 DEF Reports

\* A row exists only of a match that is held, or whose report is under way or
\* was recorded.
LEMMA RowServed ==
  ASSUME Inv, LobbyInv, NEW m \in Match, matches[m] # "none"
  PROVE  \/ HoldersOf(m) # {}
         \/ ReleasePending(m)
         \/ saveLoop.pc = "saveResults" /\ saveLoop.res.MatchID = m
         \/ \E r \in processed : r.MatchID = m
<1>1. m \in assigned
  BY DEF LobbyInv, RowsFollowAssignments
<1>2. HoldersOf(m) # {} \/ m \in Reported
  BY <1>1 DEF Inv, NoMatchForgotten
<1> QED  BY <1>2, ReportedMatch

\* A user shown a match is shown a live one, or one about to be taken away.
THEOREM LobbyMatchedUserServed == LobbySpec => []MatchedUserServed
<1>1. ASSUME Inv, LobbyInv PROVE MatchedUserServed
  <2> SUFFICES ASSUME NEW u \in User, users[u].match_id # DB!Null
               PROVE  LET m == users[u].match_id IN
                      /\ m \notin cleaned
                      /\ \/ HoldersOf(m) # {}
                         \/ ReleasePending(m)
                         \/ m \in overtaken \cup failed
    BY DEF MatchedUserServed
  <2> DEFINE m == users[u].match_id
  <2>1. m \in Match /\ matches[m] # "none" /\ m \notin cleaned
    BY <1>1 DEF LobbyInv, LobbyTypeOK, DB!UserRow, TokensAgree, RowsFollowAssignments
  <2>2. \/ HoldersOf(m) # {}
        \/ ReleasePending(m)
        \/ saveLoop.pc = "saveResults" /\ saveLoop.res.MatchID = m
        \/ \E r \in processed : r.MatchID = m
    BY <1>1, <2>1, RowServed
  <2>3. ASSUME \/ saveLoop.pc = "saveResults" /\ saveLoop.res.MatchID = m
               \/ \E r \in processed : r.MatchID = m
        PROVE  m \in cleaned \cup overtaken \cup failed
    BY <1>1, <2>3 DEF LobbyInv, SaveLoopRecorded
  <2> QED  BY <2>1, <2>2, <2>3
<1> QED  BY <1>1, ManagerInvariance, LobbyInvariance, PTL

\* A row that says active is of a match whose outcome is still to come.
THEOREM LobbyActiveMatchServed == LobbySpec => []ActiveMatchServed
<1>1. ASSUME Inv, LobbyInv PROVE ActiveMatchServed
  <2> SUFFICES ASSUME NEW m \in Match, matches[m] = "active"
               PROVE  HoldersOf(m) # {} \/ SavePending(m) \/ m \in overtaken \cup failed
    BY DEF ActiveMatchServed
  <2>1. \/ HoldersOf(m) # {}
        \/ ReleasePending(m)
        \/ saveLoop.pc = "saveResults" /\ saveLoop.res.MatchID = m
        \/ \E r \in processed : r.MatchID = m
    BY <1>1, RowServed
  <2>2. ASSUME \E r \in processed : r.MatchID = m
        PROVE  m \in overtaken \cup failed
    BY <1>1, <2>2 DEF LobbyInv, SaveLoopRecorded
  <2> QED  BY <2>1, <2>2 DEF SavePending
<1> QED  BY <1>1, ManagerInvariance, LobbyInvariance, PTL

-----------------------------------------------------------------------------
(* The contract with the API. *)

\* A round that has players has as many as a room takes.
RoundSize ==
  round.pc \in {"tokens", "create", "assign", "add"} => Cardinality(round.players) = PlayersPerRoom

\* Each instance has a Cardinality of its own.
LEMMA SameCardinality ==
  \A S : DB!Cardinality(S) = Cardinality(S) /\ Shared!Cardinality(S) = Cardinality(S)
<1>1. \A S : DB!Cardinality(S) = Cardinality(S) BY DEF DB!Cardinality, Cardinality
<1>2. \A S : Shared!Cardinality(S) = Cardinality(S) BY DEF Shared!Cardinality, Cardinality
<1> QED BY <1>1, <1>2

LEMMA RoundSizeStep ==
  ASSUME LobbyInv, RoundSize, [LobbyNext]_lobbyVars
  PROVE  RoundSize'
<1>0. LobbyTypeOK /\ RoundFollowsCaller
  BY DEF LobbyInv
<1>1. CASE round' = round
  BY <1>1 DEF RoundSize
<1>2. ASSUME NEW pc \in {"wait", "gather"}, round' = NoRound(pc) PROVE RoundSize'
  BY <1>2 DEF NoRound, RoundSize
<1>3. ASSUME NEW pc \in {"create", "assign", "add"}, round' = [round EXCEPT !.pc = pc],
             round.pc \in {"tokens", "create", "assign"}
      PROVE  RoundSize'
  BY <1>0, <1>3 DEF RoundSize, LobbyTypeOK
<1>4. CASE StartRound \/ FailRound \/ AddMatch \/ AddMatchFail
  BY <1>2, <1>4 DEF StartRound, FailRound, AddMatch, AddMatchFail
<1>5. CASE GatherMatchPlayers
  BY <1>5, SameCardinality DEF GatherMatchPlayers, DB!GatherMatchPlayers, RoundSize
<1>6. CASE GenerateAuthTokens \/ CreateMatch
  BY <1>2, <1>3, <1>6 DEF GenerateAuthTokens, CreateMatch
<1>7. CASE AssignMatch
  <2>1. round.pc = "assign"
    BY <1>0, <1>7 DEF AssignMatch, AssignSend, AssignFail, AssignReturn, RoundFollowsCaller,
         LobbyTypeOK
  <2> QED BY <1>1, <1>2, <1>3, <1>7, <2>1 DEF AssignMatch
<1>8. CASE Managing \/ ReleasePlayers \/ SaveResults
           \/ (\E u \in User : ApiUpdate(u) \/ QueueLapses(u)) \/ UNCHANGED lobbyVars
  BY <1>1, <1>8 DEF Managing, ReleasePlayers, SaveResults, ApiUpdate, QueueLapses, lobbyVars
<1> QED  BY <1>4, <1>5, <1>6, <1>7, <1>8 DEF LobbyNext, Matchmaking

\* A step that leaves queue, matches and made rounds alone.
LEMMA ViewsKept ==
  ASSUME \A u \in User : /\ users'[u].match_id = users[u].match_id
                         /\ users'[u].queued_until # "null" <=> users[u].queued_until # "null",
         \A m \in Match : /\ matches'[m] = "none" <=> matches[m] = "none"
                          /\ matches[m] # "none" => configs'[m] = configs[m]
  PROVE  UNCHANGED Shared!vars
<1>1. WaitingView' = WaitingView BY DEF WaitingView
<1>2. PlayingView' = PlayingView BY DEF PlayingView
<1>3. PlayersView' = PlayersView BY DEF PlayersView
<1> QED BY <1>1, <1>2, <1>3 DEF Shared!vars

\* The matchmaker's steps but AddMatch touch none of that.
LEMMA MatchmakerKeeps ==
  ASSUME Inv, LobbyInv,
         \/ StartRound \/ FailRound \/ CreateMatch \/ AssignMatch
         \/ GatherMatchPlayers \/ GenerateAuthTokens \/ AddMatchFail
  PROVE  UNCHANGED Shared!vars
<1>0. /\ LobbyTypeOK /\ TypeOK /\ users \in [User -> DB!UserRow]
      /\ configs \in [Match -> [players : SUBSET User, token : Nat]]
  BY DEF LobbyInv, Inv, LobbyTypeOK
<1>1. CASE StartRound \/ FailRound \/ AssignMatch
  <2>1. UNCHANGED <<users, matches, configs>>
    BY <1>1, CallerFacts DEF StartRound, FailRound, AssignMatch
  <2> QED BY <2>1, ViewsKept
<1>2. CASE CreateMatch
  <2>1. matches[matchSeq + 1] = "none"
    <3>1. matchSeq < MaxMatches
      BY <1>2 DEF CreateMatch, AssignBegin, AssignNoFreeWorker
    <3> QED  BY <3>1, NextMatchFresh
  <2>2. \A m \in Match : m # matchSeq + 1 => configs'[m] = configs[m]
    BY <1>0, <1>2 DEF CreateMatch
  <2>3. UNCHANGED <<users, matches>>
    BY <1>2, CallerFacts
  <2> QED  BY <2>1, <2>2, <2>3, ViewsKept
<1>3. CASE GatherMatchPlayers \/ AddMatchFail
  BY <1>3, ViewsKept DEF GatherMatchPlayers, AddMatchFail
<1>4. CASE GenerateAuthTokens
  <2>1. \A u \in User : /\ users'[u].match_id = users[u].match_id
                        /\ users'[u].queued_until = users[u].queued_until
    BY <1>0, <1>4 DEF GenerateAuthTokens, DB!GenerateAuthTokens, DB!UserRow
  <2>2. UNCHANGED <<matches, configs>>
    BY <1>4 DEF GenerateAuthTokens
  <2> QED BY <2>1, <2>2, ViewsKept
<1> QED  BY <1>1, <1>2, <1>3, <1>4

\* AddMatch makes a match of the round: of as many users as a room takes, who are
\* in no other one, under an id above all that have been used.
LEMMA AddMatchMakes ==
  ASSUME Inv, LobbyInv, RoundSize, AddMatch
  PROVE  Shared!Next
<1>0. /\ LobbyTypeOK /\ RoundPlayers /\ RowsFollowAssignments
      /\ users \in [User -> DB!UserRow] /\ matches \in [Match -> DB!MatchRow]
      /\ round.players \in SUBSET User
      /\ assigned \subseteq 1 .. matchSeq /\ matchSeq \in 0 .. MaxMatches
  BY DEF LobbyInv, Inv, LobbyTypeOK, TypeOK, LockAndSequence
<1>1. /\ round.pc = "add" /\ UNCHANGED configs
      /\ matches' = DB!AddMatchRow(matches, matchSeq)
      /\ users' = DB!AddMatchUsers(users, round.players, matchSeq)
  BY DEF AddMatch
<1>2. /\ matchSeq \in Match /\ matches[matchSeq] = "none"
      /\ configs[matchSeq] = [players |-> round.players, token |-> matchSeq]
  BY <1>0, <1>1 DEF RoundPlayers
<1>3. \A m \in Match : matches'[m] = IF m = matchSeq THEN "active" ELSE matches[m]
  BY <1>0, <1>1, <1>2 DEF DB!AddMatchRow
<1>4. \A u \in User :
        /\ users'[u].match_id = IF u \in round.players THEN matchSeq ELSE users[u].match_id
        /\ users'[u].queued_until = IF u \in round.players THEN "null" ELSE users[u].queued_until
  BY <1>0, <1>1 DEF DB!AddMatchUsers, DB!UserRow
<1>5. PlayersView' = [PlayersView EXCEPT ![matchSeq] = round.players]
  <2>1. configs[matchSeq].players = round.players BY <1>2
  <2>2. PlayersView' = [m \in Match |-> IF m = matchSeq THEN round.players ELSE PlayersView[m]]
    BY <1>1, <1>3, <2>1 DEF PlayersView
  <2> QED BY <2>2 DEF PlayersView
<1>6. PlayingView' = [u \in User |-> IF u \in round.players THEN matchSeq ELSE PlayingView[u]]
  BY <1>4 DEF PlayingView
<1>7. WaitingView' = WaitingView \ round.players
  BY <1>4 DEF WaitingView
<1>8. \A l \in Match : PlayersView[l] # {} => l < matchSeq
  <2> SUFFICES ASSUME NEW l \in Match, PlayersView[l] # {} PROVE l < matchSeq
    OBVIOUS
  <2>1. matches[l] # "none" BY DEF PlayersView
  <2>2. l \in assigned /\ l # matchSeq BY <1>0, <1>2, <2>1 DEF RowsFollowAssignments
  <2> QED BY <1>0, <2>2
<1>9. \A u \in round.players : PlayingView[u] = Shared!NoMatch
  BY <1>0 DEF RoundPlayers, PlayingView, Shared!NoMatch
<1>10. Shared!Cardinality(round.players) = PlayersPerRoom
  BY <1>1, SameCardinality DEF RoundSize
<1>11. Shared!MakeMatch(matchSeq, round.players)
  BY <1>5, <1>6, <1>7, <1>8, <1>9, <1>10 DEF Shared!MakeMatch
<1> QED BY <1>0, <1>2, <1>11 DEF Shared!Next

\* saveLoop releases all players of a match, or fails to; the row it saves exists
\* as before.
LEMMA SaveLoopReleases ==
  ASSUME Inv, LobbyInv, ReleasePlayers \/ SaveResults
  PROVE  [Shared!Next]_(Shared!vars)
<1>0. /\ LobbyTypeOK /\ TypeOK /\ MatchedUserNotQueued
      /\ saveLoop.res.MatchID \in Match /\ matches \in [Match -> DB!MatchRow]
  BY SaveLoopMatch DEF LobbyInv, Inv, LobbyTypeOK
<1>1. CASE ReleasePlayers
  <2> DEFINE m == saveLoop.res.MatchID
  <2>1. UNCHANGED <<matches, configs>>
    BY <1>1 DEF ReleasePlayers
  <2>2. CASE users' = users
    BY <2>1, <2>2, ViewsKept
  <2>3. CASE users' = DB!RemoveMatchStatus(users, m)
    <3>1. \A u \in User : users'[u] = IF users[u].match_id = m THEN DB!Inactive ELSE users[u]
      BY <2>3 DEF DB!RemoveMatchStatus
    <3>2. PlayingView' = [u \in User |-> IF PlayingView[u] = m THEN Shared!NoMatch ELSE PlayingView[u]]
      BY <3>1 DEF PlayingView, Shared!NoMatch
    <3>3. WaitingView' = WaitingView BY <1>0, <3>1 DEF WaitingView, MatchedUserNotQueued
    <3>4. PlayersView' = PlayersView BY <2>1 DEF PlayersView
    <3> QED BY <1>0, <3>2, <3>3, <3>4 DEF Shared!Next, Shared!Release
  <2> QED BY <1>1, <2>2, <2>3 DEF ReleasePlayers
<1>2. CASE SaveResults
  <2>1. UNCHANGED <<users, configs>>
    BY <1>2 DEF SaveResults
  <2>2. \A m \in Match : matches'[m] = "none" <=> matches[m] = "none"
    BY <1>0, <1>2 DEF SaveResults, DB!SaveMatchResults
  <2> QED BY <2>1, <2>2, ViewsKept
<1> QED BY <1>1, <1>2

\* The API queues or unqueues a user, or changes no more than a time.
LEMMA ApiQueues ==
  ASSUME LobbyInv, NEW u \in User, ApiUpdate(u) \/ QueueLapses(u)
  PROVE  [Shared!Next]_(Shared!vars)
<1>0. users \in [User -> DB!UserRow]
  BY DEF LobbyInv, LobbyTypeOK
<1>1. UNCHANGED <<matches, configs>>
  BY DEF ApiUpdate, QueueLapses
<1>2. PlayersView' = PlayersView BY <1>1 DEF PlayersView
<1>3. ASSUME NEW q \in {"null", "ahead", "past"}, users' = [users EXCEPT ![u].queued_until = q]
      PROVE  \A v \in User : /\ users'[v].match_id = users[v].match_id
                             /\ users'[v].queued_until = IF v = u THEN q ELSE users[v].queued_until
  BY <1>0, <1>3 DEF DB!UserRow
<1>4. CASE users' = users
  BY <1>1, <1>4, ViewsKept
<1>5. CASE users[u].match_id = DB!Null /\ users' = [users EXCEPT ![u].queued_until = "ahead"]
  <2>1. PlayingView' = PlayingView BY <1>3, <1>5 DEF PlayingView
  <2>2. WaitingView' = WaitingView \cup {u} BY <1>3, <1>5 DEF WaitingView
  <2>3. PlayingView[u] = Shared!NoMatch BY <1>5 DEF PlayingView, Shared!NoMatch
  <2> QED BY <1>2, <2>1, <2>2, <2>3 DEF Shared!Next, Shared!Queue
<1>6. CASE users[u].match_id = DB!Null /\ users' = [users EXCEPT ![u].queued_until = "null"]
  <2>1. PlayingView' = PlayingView BY <1>3, <1>6 DEF PlayingView
  <2>2. WaitingView' = WaitingView \ {u} BY <1>3, <1>6 DEF WaitingView
  <2>3. PlayingView[u] = Shared!NoMatch BY <1>6 DEF PlayingView, Shared!NoMatch
  <2> QED BY <1>2, <2>1, <2>2, <2>3 DEF Shared!Next, Shared!Unqueue
<1>7. CASE ApiUpdate(u)
  BY <1>4, <1>5, <1>6, <1>7 DEF ApiUpdate, DB!setQueueStatus, DB!extendQueueStatus,
     DB!removeQueueStatus
<1>8. CASE QueueLapses(u)
  <2>1. users[u].queued_until = "ahead" /\ users' = [users EXCEPT ![u].queued_until = "past"]
    BY <1>8 DEF QueueLapses
  <2> QED BY <1>1, <1>3, <2>1, ViewsKept
<1> QED BY <1>7, <1>8

LEMMA SharedStep ==
  ASSUME Inv, LobbyInv, RoundSize, [LobbyNext]_lobbyVars
  PROVE  [Shared!Next]_(Shared!vars)
<1>1. CASE Managing \/ UNCHANGED lobbyVars
  BY <1>1, ViewsKept DEF Managing, lobbyVars
<1> QED
  BY <1>1, MatchmakerKeeps, AddMatchMakes, SaveLoopReleases, ApiQueues DEF LobbyNext, Matchmaking

\* The manager implements UserWaits with the API in its environment: whatever
\* rounds fail, and however reports and AddMatch overtake each other, it makes
\* matches of users that are in none, and takes all of their players out at once.
THEOREM LobbyKeepsUserWaits == LobbySpec => KeepsUserWaits
<1>1. LobbyInit => RoundSize /\ Shared!Init
  BY DEF LobbyInit, RoundSize, NoRound, Shared!Init, Shared!NoMatch, WaitingView, PlayingView,
         PlayersView
<1>2. Inv /\ LobbyInv /\ RoundSize /\ [LobbyNext]_lobbyVars
        => RoundSize' /\ [Shared!Next]_(Shared!vars)
  BY RoundSizeStep, SharedStep
<1> QED  BY <1>1, <1>2, ManagerInvariance, LobbyInvariance, PTL
         DEF LobbySpec, KeepsUserWaits, Shared!Spec

\* What follows from the contract alone, whoever keeps to it.
SharedInv ==
  /\ PlayingView \in [User -> Match \cup {Shared!NoMatch}]
  /\ PlayersView \in [Match -> SUBSET User]
  /\ Shared!PlayersTogether

LEMMA SharedInvStep ==
  ASSUME SharedInv, [Shared!Next]_(Shared!vars)
  PROVE  /\ SharedInv'
         /\ Shared!OnlyLeft
<1> USE DEF Shared!NoMatch
<1> DEFINE Kept == \A m \in Match :
                     PlayersView[m] # {} =>
                       /\ PlayersView'[m] = PlayersView[m]
                       /\ Shared!PlayersIn(m)' \subseteq Shared!PlayersIn(m)
<1>0. \A m \in Match : m # Shared!NoMatch
  OBVIOUS
<1>1. ASSUME UNCHANGED <<PlayingView, PlayersView>> PROVE SharedInv' /\ Kept
  BY <1>1 DEF SharedInv, Shared!PlayersTogether, Shared!PlayersIn
<1>2. ASSUME NEW u \in User, Shared!Queue(u) \/ Shared!Unqueue(u) PROVE SharedInv' /\ Kept
  BY <1>1, <1>2 DEF Shared!Queue, Shared!Unqueue
<1>3. ASSUME NEW m \in Match, NEW room \in SUBSET User, Shared!MakeMatch(m, room)
      PROVE  SharedInv' /\ Kept
  <2>1. /\ \A l \in Match : PlayersView[l] # {} => l < m
        /\ \A u \in room : PlayingView[u] = Shared!NoMatch
        /\ PlayersView' = [PlayersView EXCEPT ![m] = room]
        /\ PlayingView' = [u \in User |-> IF u \in room THEN m ELSE PlayingView[u]]
    BY <1>3 DEF Shared!MakeMatch
  <2>2. PlayersView[m] = {} BY <2>1
  <2>3. Shared!PlayersIn(m) = {} BY <2>2 DEF SharedInv, Shared!PlayersTogether
  <2>4. Shared!PlayersIn(m)' = room BY <2>1, <2>3 DEF Shared!PlayersIn
  <2>5. ASSUME NEW l \in Match, l # m
        PROVE  /\ Shared!PlayersIn(l)' = Shared!PlayersIn(l)
               /\ PlayersView'[l] = PlayersView[l]
    BY <1>0, <2>1, <2>5 DEF Shared!PlayersIn, SharedInv
  <2>6. PlayersView'[m] = room BY <2>1 DEF SharedInv
  <2>7. Shared!PlayersTogether'
    BY <2>4, <2>5, <2>6 DEF SharedInv, Shared!PlayersTogether
  <2>8. /\ PlayingView' \in [User -> Match \cup {Shared!NoMatch}]
        /\ PlayersView' \in [Match -> SUBSET User]
    BY <2>1 DEF SharedInv
  <2> QED BY <2>2, <2>5, <2>7, <2>8 DEF SharedInv
<1>4. ASSUME NEW m \in Match, Shared!Release(m) PROVE SharedInv' /\ Kept
  <2>1. /\ PlayingView' = [u \in User |-> IF PlayingView[u] = m THEN Shared!NoMatch ELSE PlayingView[u]]
        /\ PlayersView' = PlayersView
    BY <1>4 DEF Shared!Release
  <2>2. Shared!PlayersIn(m)' = {} BY <1>0, <2>1 DEF Shared!PlayersIn
  <2>3. \A l \in Match : l # m => Shared!PlayersIn(l)' = Shared!PlayersIn(l)
    BY <1>0, <2>1 DEF Shared!PlayersIn
  <2>4. PlayingView' \in [User -> Match \cup {Shared!NoMatch}]
    BY <2>1 DEF SharedInv
  <2> QED BY <2>1, <2>2, <2>3, <2>4 DEF SharedInv, Shared!PlayersTogether
<1>5. ASSUME Shared!Setup PROVE SharedInv' /\ Kept
  <2>1. PlayingView' = [u \in User |-> Shared!NoMatch] /\ PlayersView' = PlayersView
    BY <1>5 DEF Shared!Setup
  <2>2. \A l \in Match : Shared!PlayersIn(l)' = {}
    BY <1>0, <2>1 DEF Shared!PlayersIn
  <2> QED BY <2>1, <2>2 DEF SharedInv, Shared!PlayersTogether
<1>6. ASSUME UNCHANGED Shared!vars PROVE SharedInv' /\ Kept
  BY <1>1, <1>6 DEF Shared!vars
<1>7. SharedInv' /\ Kept
  BY <1>2, <1>3, <1>4, <1>5, <1>6 DEF Shared!Next
<1> QED BY <1>7 DEF Shared!OnlyLeft

LEMMA SharedInvariance == Shared!Spec => []SharedInv
<1>1. Shared!Init => SharedInv
  BY DEF Shared!Init, SharedInv, Shared!PlayersTogether, Shared!PlayersIn, Shared!NoMatch
<1>2. SharedInv /\ [Shared!Next]_(Shared!vars) => SharedInv'
  BY SharedInvStep
<1> QED BY <1>1, <1>2, PTL DEF Shared!Spec

\* The players of a match are in it together: early releases, failed rounds and
\* API statements in between never split them.
THEOREM PlayersStayTogether == LobbySpec => []Shared!PlayersTogether
<1>1. SharedInv => Shared!PlayersTogether
  BY DEF SharedInv
<1> QED BY <1>1, LobbyKeepsUserWaits, SharedInvariance, PTL DEF KeepsUserWaits

\* A match that was left is not entered again, by anybody.
THEOREM MatchesAreEnteredOnce == LobbySpec => Shared!EnteredOnce
<1>1. SharedInv /\ [Shared!Next]_(Shared!vars) => [Shared!OnlyLeft]_(Shared!vars)
  BY SharedInvStep
<1> QED BY <1>1, LobbyKeepsUserWaits, SharedInvariance, PTL
        DEF KeepsUserWaits, Shared!Spec, Shared!EnteredOnce

\* Types, for every instance.
THEOREM LobbyTypes == LobbySpec => []LobbyTypeOK
<1>1. LobbyInv => LobbyTypeOK
  BY DEF LobbyInv
<1> QED  BY <1>1, LobbyInvariance, PTL
=============================================================================
