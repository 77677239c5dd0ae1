------------------------------ MODULE UserWaits ------------------------------
(***************************************************************************)
(* What the API and the server manager promise each other about the table  *)
(* users, which is all they share: the API queues and unqueues users that  *)
(* are in no match, the server manager puts users into matches and takes   *)
(* them out again.  ConnectionServer and Lobby are shown to implement it,  *)
(* each with the other one as its environment.                             *)
(***************************************************************************)
EXTENDS Integers, FiniteSets

CONSTANTS User, Match, PlayersPerRoom

NoMatch == 0

VARIABLES
  waiting,   \* users whose queued_until is set, gone by or not
  playing,   \* the match_id of each user
  players    \* the players each match was made for

vars == <<waiting, playing, players>>

Init ==
  /\ waiting = {}
  /\ playing = [u \in User |-> NoMatch]
  /\ players = [m \in Match |-> {}]

PlayersIn(m) == {u \in User : playing[u] = m}

-----------------------------------------------------------------------------
(* The API *)

Queue(u) ==
  /\ playing[u] = NoMatch
  /\ waiting' = waiting \cup {u}
  /\ UNCHANGED <<playing, players>>

Unqueue(u) ==
  /\ playing[u] = NoMatch
  /\ waiting' = waiting \ {u}
  /\ UNCHANGED <<playing, players>>

-----------------------------------------------------------------------------
(* The server manager *)

\* Match ids are handed out once and grow.  The players are in no other match,
\* but they may have left the queue since they were gathered.
MakeMatch(m, room) ==
  /\ \A l \in Match : players[l] # {} => l < m
  /\ Cardinality(room) = PlayersPerRoom
  /\ \A u \in room : playing[u] = NoMatch
  /\ players' = [players EXCEPT ![m] = room]
  /\ playing' = [u \in User |-> IF u \in room THEN m ELSE playing[u]]
  /\ waiting' = waiting \ room

Release(m) ==
  /\ playing' = [u \in User |-> IF playing[u] = m THEN NoMatch ELSE playing[u]]
  /\ UNCHANGED <<waiting, players>>

\* The manager starts: whoever waits or plays does so no more.
Setup ==
  /\ waiting' = {}
  /\ playing' = [u \in User |-> NoMatch]
  /\ UNCHANGED players

-----------------------------------------------------------------------------
Next ==
  \/ \E u \in User : Queue(u) \/ Unqueue(u)
  \/ \E m \in Match :
       \/ \E room \in SUBSET User : MakeMatch(m, room)
       \/ Release(m)
  \/ Setup

Spec == Init /\ [][Next]_vars

-----------------------------------------------------------------------------
\* The players of a match are in it together: all those it was made for, or none.
PlayersTogether == \A m \in Match : PlayersIn(m) \in {{}, players[m]}

\* Nobody comes into a match but in the step that makes it, and its players are
\* never others: a match that was left is not entered again.
OnlyLeft ==
  \A m \in Match :
    players[m] # {} => players'[m] = players[m] /\ PlayersIn(m)' \subseteq PlayersIn(m)

EnteredOnce == [][OnlyLeft]_vars
=============================================================================
