---------------------------- MODULE MatchDatabase ----------------------------
(***************************************************************************)
(* The statements server-manager/adapters/db.go and api/src/lib/db.js      *)
(* execute on the tables users and matches of init.sql, as functions from  *)
(* the tables to the tables.  Each is one statement or one transaction.    *)
(*                                                                         *)
(* queued_until is abstracted to what the statements tell apart: NULL, a   *)
(* time ahead and a time gone by.  A match row is abstracted to whether it *)
(* exists and what active and canceled say.                                *)
(***************************************************************************)
EXTENDS Integers, FiniteSets

CONSTANTS User,            \* the logins
          Match,           \* the match ids: positive numbers
          PlayersPerRoom   \* config.PlayersPerRoom

\* NULL in the columns match_id and match_auth_token.
Null == 0

UserRow == [match_id : Match \cup {Null}, queued_until : {"null", "ahead", "past"},
            match_auth_token : Nat]
Inactive == [match_id |-> Null, queued_until |-> "null", match_auth_token |-> Null]

MatchRow == {"none", "active", "played", "canceled"}

\* WHERE queued_until > NOW() AND match_id IS NULL
Waiting(users) ==
  {u \in User : users[u].queued_until = "ahead" /\ users[u].match_id = Null}

\* GatherMatchPlayers: the sets it may return; none is ErrDBNotEnoughPlayers.
GatherMatchPlayers(users) ==
  {players \in SUBSET Waiting(users) : Cardinality(players) = PlayersPerRoom}

GenerateAuthTokens(users, players, token) ==
  [u \in User |-> IF u \in players
                  THEN [users[u] EXCEPT !.match_auth_token = token]
                  ELSE users[u]]

\* AddMatch: the row it inserts and the users it updates, whatever their state.
AddMatchRow(matches, m) == [matches EXCEPT ![m] = "active"]
AddMatchUsers(users, players, m) ==
  [u \in User |-> IF u \in players
                  THEN [users[u] EXCEPT !.match_id = m, !.queued_until = "null"]
                  ELSE users[u]]

\* Broken variant: active is left as it is.
SaveMatchResultsKeepsActive(matches, res) == matches

\* SaveMatchResults: with no such row it changes nothing (ErrDBMatchNotFound).
SaveMatchResults(matches, res) ==
  IF matches[res.MatchID] = "none"
  THEN matches
  ELSE [matches EXCEPT ![res.MatchID] = IF res.Success THEN "played" ELSE "canceled"]

\* Broken variant: WHERE queued_until IS NOT NULL as well.
RemoveMatchStatusOfQueued(users, m) ==
  [u \in User |-> IF users[u].match_id = m /\ users[u].queued_until # "null"
                  THEN Inactive
                  ELSE users[u]]

RemoveMatchStatus(users, m) ==
  [u \in User |-> IF users[u].match_id = m THEN Inactive ELSE users[u]]

\* Broken variant: the users keep their matches.
SetupUsersNothing(users) == users

\* SetupMatchmaking: users are in no match and not queued, and what is active is
\* canceled.
SetupUsers(users) == [u \in User |-> Inactive]
SetupMatches(matches) ==
  [m \in Match |-> IF matches[m] = "active" THEN "canceled" ELSE matches[m]]

-----------------------------------------------------------------------------
(* The statements of the API on one user. *)

\* Broken variant: a user in a match is queued as well.
setQueueStatusAnyway(users, u) == [users EXCEPT ![u].queued_until = "ahead"]

\* setQueueStatus and extendQueueStatuses: only of users that are in no match,
\* the latter only of users whose queued_until is set, gone by or not.
setQueueStatus(users, u) ==
  IF users[u].match_id = Null
  THEN [users EXCEPT ![u].queued_until = "ahead"]
  ELSE users

extendQueueStatus(users, u) ==
  IF users[u].match_id = Null /\ users[u].queued_until # "null"
  THEN [users EXCEPT ![u].queued_until = "ahead"]
  ELSE users

\* Broken variant: the token goes as well.
removeQueueStatusAndToken(users, u) ==
  IF users[u].match_id = Null
  THEN [users EXCEPT ![u] = Inactive]
  ELSE users

removeQueueStatus(users, u) ==
  IF users[u].match_id = Null
  THEN [users EXCEPT ![u].queued_until = "null"]
  ELSE users

=============================================================================
