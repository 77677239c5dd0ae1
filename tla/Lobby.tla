-------------------------------- MODULE Lobby --------------------------------
(***************************************************************************)
(* The server manager as a whole: the matchmaker of app/matchmaker.go with *)
(* the WorkerManager, both working on the database that the API changes as *)
(* well.  Every step of WorkerManager is a step of this module, joined     *)
(* with what it does to the database and to the matchmaker's round.        *)
(*                                                                         *)
(* The matchmaker, saveLoop and the API each have a connection of their    *)
(* own: their statements interleave.                                       *)
(***************************************************************************)
EXTENDS WorkerManager, FiniteSets

CONSTANTS User, PlayersPerRoom,
          MaxDbFaults       \* bound: database calls that fail

ASSUME LobbyAssumption ==
  /\ PlayersPerRoom \in Nat \ {0, 1}
  /\ MaxDbFaults \in Nat

DB == INSTANCE MatchDatabase

VARIABLES
  users,       \* the table users
  matches,     \* the table matches
  round,       \* the matchmaker's iteration: where it is, with which players
  configs,     \* the players and their token in the config of each match
  dbFaults,    \* failed database calls so far
  \* history
  cleaned,     \* matches whose users RemoveMatchStatus released, after AddMatch
  overtaken,   \* matches saveLoop released before AddMatch
  failed       \* matches with a failed call of saveLoop

tables == <<users, matches>>
cleanups == <<cleaned, overtaken, failed>>
lobbyVars == <<vars, tables, round, configs, dbFaults, cleanups>>

DbFault == dbFaults < MaxDbFaults /\ dbFaults' = dbFaults + 1

\* A round that has no players yet.
NoRound(pc) == [pc |-> pc, players |-> {}]

LobbyInit ==
  /\ Init
  /\ users = [u \in User |-> DB!Inactive]
  /\ matches = [m \in Match |-> "none"]
  /\ round = NoRound("wait")
  /\ configs = [m \in Match |-> [players |-> {}, token |-> DB!Null]]
  /\ dbFaults = 0
  /\ cleaned = {} /\ overtaken = {} /\ failed = {}

-----------------------------------------------------------------------------
(* matchmakingLoop *)

\* WaitForFreeWorker; the round starts when it returns.
StartRound ==
  /\ round.pc = "wait"
  /\ WaitForFreeWorker
  /\ round' = NoRound(IF caller'.pc = "ready" THEN "gather" ELSE "wait")
  /\ UNCHANGED <<tables, configs, dbFaults, cleanups>>

\* waitForEnoughPlayers: polls until there are enough.
GatherMatchPlayers ==
  /\ round.pc = "gather"
  /\ \E players \in DB!GatherMatchPlayers(users) :
       round' = [pc |-> "tokens", players |-> players]
  /\ UNCHANGED <<vars, tables, configs, dbFaults, cleanups>>

\* The token is random; numbering it by the round's match id keeps apart the
\* tokens of different matches.
GenerateAuthTokens ==
  /\ round.pc = "tokens"
  /\ users' = DB!GenerateAuthTokens(users, round.players, matchSeq + 1)
  /\ round' = [round EXCEPT !.pc = "create"]
  /\ UNCHANGED <<vars, matches, configs, dbFaults, cleanups>>

\* GatherMatchPlayers, GenerateAuthTokens or GetNextMatchId failed.
FailRound ==
  /\ round.pc \in {"gather", "tokens", "create"}
  /\ GiveUpRound
  /\ DbFault
  /\ round' = NoRound("wait")
  /\ UNCHANGED <<tables, configs, cleanups>>

\* createMatch: GetNextMatchId, then AssignMatch up to its blocking calls.
CreateMatch ==
  /\ round.pc = "create"
  /\ \/ AssignBegin /\ round' = [round EXCEPT !.pc = "assign"]
     \/ AssignNoFreeWorker /\ round' = NoRound("wait")
  /\ configs' = [configs EXCEPT ![matchSeq + 1] =
                   [players |-> round.players, token |-> matchSeq + 1]]
  /\ UNCHANGED <<tables, dbFaults, cleanups>>

AssignMatch ==
  /\ \/ AssignSend /\ UNCHANGED round
     \/ AssignFail /\ round' = NoRound("wait")
     \/ AssignReturn /\ round' = [round EXCEPT !.pc = "add"]
  /\ UNCHANGED <<tables, configs, dbFaults, cleanups>>

AddMatch ==
  /\ round.pc = "add"
  /\ matches' = DB!AddMatchRow(matches, matchSeq)
  /\ users' = DB!AddMatchUsers(users, round.players, matchSeq)
  /\ round' = NoRound("wait")
  /\ UNCHANGED <<vars, configs, dbFaults, cleanups>>

\* AddMatch fails and is rolled back: the job stays with the game server.
AddMatchFail ==
  /\ round.pc = "add"
  /\ DbFault
  /\ round' = NoRound("wait")
  /\ UNCHANGED <<vars, tables, configs, cleanups>>

-----------------------------------------------------------------------------
(* saveLoop *)

\* RemoveMatchStatus(res.MatchID): an error is logged and otherwise ignored.
ReleasePlayers ==
  LET m == saveLoop.res.MatchID IN
  /\ RemoveMatchStatus
  /\ \/ /\ users' = DB!RemoveMatchStatus(users, m)
        /\ IF matches[m] = "none"
           THEN overtaken' = overtaken \cup {m} /\ UNCHANGED cleaned
           ELSE cleaned' = cleaned \cup {m} /\ UNCHANGED overtaken
        /\ UNCHANGED <<dbFaults, failed>>
     \/ /\ DbFault
        /\ failed' = failed \cup {m}
        /\ UNCHANGED <<users, cleaned, overtaken>>
  /\ UNCHANGED <<matches, round, configs>>

\* SaveMatchResults(res), whose error is logged only.
SaveResults ==
  /\ SaveMatchResults
  /\ \/ /\ matches' = DB!SaveMatchResults(matches, saveLoop.res)
        /\ UNCHANGED <<dbFaults, failed>>
     \/ /\ DbFault
        /\ failed' = failed \cup {saveLoop.res.MatchID}
        /\ UNCHANGED matches
  /\ UNCHANGED <<users, round, configs, cleaned, overtaken>>

-----------------------------------------------------------------------------
(* The API, on behalf of a user, and the clock. *)

\* A connection is opened, stays open, or is closed.
ApiUpdate(u) ==
  /\ users' \in {DB!setQueueStatus(users, u), DB!extendQueueStatus(users, u),
                 DB!removeQueueStatus(users, u)}
  /\ UNCHANGED <<vars, matches, round, configs, dbFaults, cleanups>>

\* queued_until is not extended in time.
QueueLapses(u) ==
  /\ users[u].queued_until = "ahead"
  /\ users' = [users EXCEPT ![u].queued_until = "past"]
  /\ UNCHANGED <<vars, matches, round, configs, dbFaults, cleanups>>

-----------------------------------------------------------------------------
Matchmaking ==
  \/ StartRound \/ GatherMatchPlayers \/ GenerateAuthTokens \/ FailRound
  \/ CreateMatch \/ AssignMatch \/ AddMatch \/ AddMatchFail

\* The steps of the manager that touch neither the database nor the round.
Managing ==
  /\ \/ HandleResults
     \/ HealthCheck
     \/ \E r \in restarts : RestartWorker(r)
     \/ \E w \in Workers : RestartDeadline(w)
     \/ ReceiveResult
     \/ GameServers
  /\ UNCHANGED <<tables, round, configs, dbFaults, cleanups>>

LobbyNext ==
  \/ Matchmaking
  \/ Managing
  \/ ReleasePlayers
  \/ SaveResults
  \/ \E u \in User : ApiUpdate(u) \/ QueueLapses(u)

LobbySpec == LobbyInit /\ [][LobbyNext]_lobbyVars

\* The goroutines keep running as long as no worker fails (MaxFaults = 0): then
\* resultLoop is the channel's only sender, and a health check always lets go of
\* mu, so that strong fairness is due to those only that compete with it for mu.
\* That a health check takes place is not assumed.  Users owe nothing, nor does
\* the API that acts for them.
LobbyFairSpec ==
  /\ LobbySpec
  /\ WF_vars(GetResult \/ AckResult \/ SendResult)
  /\ SF_vars(FreeMatchWorker)
  /\ WF_vars(CheckHealthy \/ HealthUnlock)
  /\ WF_vars(Save)
  /\ WF_lobbyVars(\/ GatherMatchPlayers \/ GenerateAuthTokens \/ AssignMatch
                  \/ AddMatch \/ AddMatchFail)
  /\ SF_lobbyVars(StartRound \/ CreateMatch)

-----------------------------------------------------------------------------
(* Correctness. *)

LobbyTypeOK ==
  /\ users \in [User -> DB!UserRow]
  /\ matches \in [Match -> DB!MatchRow]
  /\ round \in [pc : {"wait", "gather", "tokens", "create", "assign", "add"},
                players : SUBSET User]
  /\ configs \in [Match -> [players : SUBSET User, token : Nat]]
  /\ dbFaults \in 0 .. MaxDbFaults
  /\ cleaned \subseteq Match /\ overtaken \subseteq Match /\ failed \subseteq Match

\* A report of m has yet to go through both calls of saveLoop, or the second.
ReleasePending(m) ==
  \/ m \in {r.MatchID : r \in ToSet(saveResultChan)}
  \/ saveLoop.pc = "removeStatus" /\ saveLoop.res.MatchID = m
SavePending(m) == \/ ReleasePending(m)
                  \/ saveLoop.pc = "saveResults" /\ saveLoop.res.MatchID = m

\* A user shown a match is shown one that a worker holds or that saveLoop is
\* about to take the user out of.  The exceptions are the two the code has: the
\* release came before AddMatch, or it failed.
MatchedUserServed ==
  \A u \in User : LET m == users[u].match_id IN
    m # DB!Null => /\ m \notin cleaned
                   /\ \/ HoldersOf(m) # {}
                      \/ ReleasePending(m)
                      \/ m \in overtaken \cup failed

\* The same of the row: active means that the outcome is still to come.
ActiveMatchServed ==
  \A m \in Match :
    matches[m] = "active" => HoldersOf(m) # {} \/ SavePending(m) \/ m \in overtaken \cup failed

\* A user is in a match or in the queue, never both: AddMatch takes the user out
\* of the queue, and no statement of the API puts a user into it during a match.
MatchedUserNotQueued ==
  \A u \in User : users[u].match_id # DB!Null => users[u].queued_until = "null"

\* A user in a match has the token that the game server of that match was sent,
\* whatever rounds were started, given up and repeated meanwhile.
TokensAgree ==
  \A u \in User : LET m == users[u].match_id IN
    m # DB!Null => /\ u \in configs[m].players
                   /\ users[u].match_auth_token = configs[m].token
                   /\ matches[m] # "none"

\* The rows of users as the API and the server manager share them.
WaitingView == {u \in User : users[u].queued_until # "null"}
PlayingView == [u \in User |-> users[u].match_id]
PlayersView == [m \in Match |-> IF matches[m] = "none" THEN {} ELSE configs[m].players]

Shared == INSTANCE UserWaits
  WITH waiting <- WaitingView, playing <- PlayingView, players <- PlayersView

\* However rounds fail and reports arrive, the manager keeps to what the API
\* expects.
KeepsUserWaits == Shared!Spec

-----------------------------------------------------------------------------
(* What those invariants rest on. *)

\* The matchmaker's goroutine is where its round says.
RoundFollowsCaller ==
  /\ round.pc = "wait" => caller.pc \in {"away", "waiting", "woken"}
  /\ round.pc \in {"gather", "tokens", "create"} => caller.pc = "ready"
  /\ round.pc = "assign" => caller.pc \in {"getPort", "request"}
  /\ round.pc = "add" => caller.pc = "away" /\ matchSeq \in assigned

\* The players of a round are in no match, and have the token of its config.
RoundPlayers ==
  /\ \A u \in round.players : users[u].match_id = DB!Null
  /\ round.pc = "create" =>
       \A u \in round.players : users[u].match_auth_token = matchSeq + 1
  /\ round.pc \in {"assign", "add"} =>
       /\ matchSeq \in Match
       /\ \A u \in round.players : users[u].match_auth_token = matchSeq
       /\ configs[matchSeq] = [players |-> round.players, token |-> matchSeq]
       /\ matches[matchSeq] = "none"

\* Only matches AssignMatch returned for get a row, and only those with a row
\* were cleaned, of all their users.
RowsFollowAssignments ==
  /\ \A m \in Match : matches[m] # "none" => m \in assigned
  /\ \A m \in cleaned : matches[m] # "none"
  /\ \A u \in User : users[u].match_id \notin cleaned

\* What saveLoop has done is on record.
SaveLoopRecorded ==
  /\ saveLoop.pc = "saveResults" =>
       saveLoop.res.MatchID \in cleaned \cup overtaken \cup failed
  /\ \A r \in processed :
       /\ r.MatchID \in cleaned \cup overtaken \cup failed
       /\ matches[r.MatchID] = "active" => r.MatchID \in overtaken \cup failed

\* The inductive invariant of the lobby, on top of the manager's.
LobbyInv ==
  /\ LobbyTypeOK
  /\ RoundFollowsCaller
  /\ RoundPlayers
  /\ RowsFollowAssignments
  /\ SaveLoopRecorded
  /\ MatchedUserNotQueued
  /\ TokensAgree

-----------------------------------------------------------------------------
(* Liveness. *)

\* Published results take their players out of the match: time and again nobody
\* is in a match that has one, but for the two exceptions on record.
PlayersReleased ==
  []<>(\A m \in Match : Published(m) # {} =>
         m \in overtaken \cup failed \/ \A u \in User : users[u].match_id # m)

\* As long as enough users wait, every match id is used in the end, unless the
\* workers are busy for good.  With fewer workers than ids the matchmaker waits on
\* the condition variable for a worker that plays an earlier match: neither a lost
\* wakeup nor a failed round ends the matchmaking.
QueueServed ==
  <>[](Cardinality(DB!Waiting(users)) >= PlayersPerRoom)
    => <>(matchSeq = MaxMatches) \/ <>[](FreeWorkers = {})

-----------------------------------------------------------------------------
(* What the documentation says, and the code does not do. *)

\* saveLoop clears the status of every user of a finished match: nobody stays in
\* a match that no worker holds, unless the database call itself failed.
NobodyStuck ==
  \A u \in User : LET m == users[u].match_id IN
    m # DB!Null => HoldersOf(m) # {} \/ ReleasePending(m) \/ m \in failed

\* The matchmaker assigns users of the queue: an inactive user stays inactive.
OnlyQueuedAreMatched ==
  [][\A u \in User :
       users[u].match_id = DB!Null /\ users'[u].match_id # DB!Null
         => u \in DB!Waiting(users)]_lobbyVars

\* A match that was played to completion is not shown as canceled.
PlayedIsNotCanceled ==
  [][\A m \in Match : matches[m] = "played" => matches'[m] # "canceled"]_lobbyVars
=============================================================================
