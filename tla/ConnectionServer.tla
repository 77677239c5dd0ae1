-------------------------- MODULE ConnectionServer --------------------------
(***************************************************************************)
(* The matchmaking endpoint of the API (api/src/lib/server/server.js): the *)
(* class ConnectionServer with its registry Connections, and the           *)
(* statements on users it executes.                                        *)
(*                                                                         *)
(* A step is what JavaScript runs without an await.  A statement is sent   *)
(* to the database in one step, takes effect in a second and is answered   *)
(* in a third.  The database is reached through a pool of connections, so  *)
(* that statements take effect in any order.  Statements may fail at any   *)
(* time.                                                                   *)
(*                                                                         *)
(* A websocket is a member of Socket; its Connection object is seen        *)
(* through its State.  The server manager appears as the statements of     *)
(* MatchDatabase it executes on the same rows.                             *)
(***************************************************************************)
EXTENDS Integers, FiniteSets

CONSTANTS User, PlayersPerRoom,
          Socket,           \* bound: the websockets upgraded
          Login,            \* the login of each, by its session cookie
          Call,             \* bound: runs of the two timers at one time
          MaxMatches        \* bound: matches the server manager makes

ASSUME ConnectionServerAssumption ==
  /\ PlayersPerRoom \in Nat \ {0}
  /\ MaxMatches \in Nat
  /\ Login \in [Socket -> User]

Match == 1 .. MaxMatches

DB == INSTANCE MatchDatabase

VARIABLES
  state,            \* this.#state of the server
  socket,           \* where onConnection is with a websocket, then its State
  websocketId,      \* the id setQueueStatus allocated to it
  gone,             \* websockets that are no longer open: their client or the network closed them
  code,             \* the code the server closed a websocket with
  told,             \* the match a websocket was sent the details of
  connections,      \* this.#connections: the websockets in the registry
  calls,            \* the runs of extendQueues and onPull
  removals,         \* removeQueueStatus statements under way
  \* the database, and the server manager
  users,
  lastWebsocketId,  \* the column last_websocket_id
  round,            \* the players gathered for the next match
  playersOf,        \* the players of each match made
  matchSeq,         \* matches made
  \* history
  since,            \* matches made when a websocket got its id
  missed,           \* open websockets whose user's match, or wait, came and went
  leaked            \* websockets whose queue status nobody will remove

serverVars == <<state, socket, websocketId, gone, code, told, connections, calls, removals>>
databaseVars == <<users, lastWebsocketId>>
managerVars == <<round, playersOf, matchSeq>>
history == <<since, missed, leaked>>
vars == <<serverVars, databaseVars, managerVars, history>>

\* A timer's run that does not take place.
Idle == [pc |-> "idle", queued |-> {}, ids |-> [u \in User |-> 0],
         matches |-> [u \in User |-> DB!Null]]

Init ==
  /\ state = "OPEN"
  /\ socket = [s \in Socket |-> "none"]
  /\ websocketId = [s \in Socket |-> 0]
  /\ gone = {}
  /\ code = [s \in Socket |-> "none"]
  /\ told = [s \in Socket |-> DB!Null]
  /\ connections = {}
  /\ calls = [c \in Call |-> Idle]
  /\ removals = {}
  /\ users = [u \in User |-> DB!Inactive]
  /\ lastWebsocketId = [u \in User |-> 0]
  /\ round = {}
  /\ playersOf = [m \in Match |-> {}]
  /\ matchSeq = 0
  /\ since = [s \in Socket |-> 0]
  /\ missed = {}
  /\ leaked = {}

Newest(s) == websocketId[s] = lastWebsocketId[Login[s]]
Open == {s \in Socket : socket[s] = "OPEN"}

\* Connections.get(login), as the set of the connection or of none.
Registered(u) == {s \in connections : Login[s] = u}

-----------------------------------------------------------------------------
(* Closing connections *)

\* Broken variant: the registry forgets whatever the login has.
UntrackLogin(registry, S) == {s \in registry : Login[s] \notin {Login[t] : t \in S}}

\* Connections.delete of the registry: by login, if the id is that of the
\* websocket.
Untrack(registry, S) == registry \ S

\* Broken variant: the registry sends no statement.
UnqueueNobody(registry, S) == {}

\* The connections whose queue status is removed with them.
Unqueue(registry, S) == S \cap registry

\* Connection.close of the open websockets of S, each with its code.  The close
\* event takes it out of the registry and sends its removeQueueStatus, unless it
\* was replaced there before.
CloseConnections(S, registry, closeCode) ==
  /\ connections' = Untrack(registry, S)
  /\ removals' = removals \cup Unqueue(registry, S)
  /\ socket' = [s \in Socket |-> IF s \in S THEN "CLOSED" ELSE socket[s]]
  /\ code' = [s \in Socket |-> IF s \in S THEN closeCode[s] ELSE code[s]]

Same(c) == [s \in Socket |-> c]

\* ws.close before there is a Connection, or of one that was never opened.
Reject(s, c) ==
  /\ socket' = [socket EXCEPT ![s] = "CLOSED"]
  /\ code' = [code EXCEPT ![s] = c]

-----------------------------------------------------------------------------
(* onConnection *)

\* Up to getLoginFromToken; the cookie may be missing or malformed.
OnConnection(s) ==
  /\ socket[s] = "none"
  /\ \/ state = "OPEN" /\ socket' = [socket EXCEPT ![s] = "authenticating"] /\ UNCHANGED code
     \/ state = "OPEN" /\ Reject(s, "4401")
     \/ state # "OPEN" /\ Reject(s, "1001")
  /\ UNCHANGED <<state, websocketId, gone, told, connections, calls, removals,
                 databaseVars, managerVars, history>>

\* getLoginFromToken returns: a login, none, or an error.
Authenticated(s) ==
  /\ socket[s] = "authenticating"
  /\ \/ socket' = [socket EXCEPT ![s] = "queueing"] /\ UNCHANGED code
     \/ Reject(s, "4401")
     \/ Reject(s, "1011")
  /\ UNCHANGED <<state, websocketId, gone, told, connections, calls, removals,
                 databaseVars, managerVars, history>>

\* Broken variant: a user in a match may queue.
MayQueueAlways(u) == TRUE

\* WHERE match_id IS NULL
MayQueue(u) == users[u].match_id = DB!Null

\* setQueueStatus takes effect.
SetQueueStatus(s) ==
  LET u == Login[s] IN
  /\ socket[s] = "queueing"
  /\ \/ /\ MayQueue(u)
        /\ users' = DB!setQueueStatus(users, u)
        /\ lastWebsocketId' = [lastWebsocketId EXCEPT ![u] = @ + 1]
        /\ websocketId' = [websocketId EXCEPT ![s] = lastWebsocketId[u] + 1]
        /\ since' = [since EXCEPT ![s] = matchSeq]
        /\ socket' = [socket EXCEPT ![s] = "queued"]
     \/ /\ ~ MayQueue(u)
        /\ socket' = [socket EXCEPT ![s] = "refused"]
        /\ UNCHANGED <<databaseVars, websocketId, since>>
  /\ UNCHANGED <<state, gone, code, told, connections, calls, removals, managerVars,
                 missed, leaked>>

\* setQueueStatus fails, before or after it took effect.
SetQueueStatusFails(s) ==
  /\ socket[s] \in {"queueing", "queued", "refused"}
  /\ Reject(s, "1011")
  /\ leaked' = IF socket[s] = "queued" THEN leaked \cup {s} ELSE leaked
  /\ UNCHANGED <<state, websocketId, gone, told, connections, calls, removals,
                 databaseVars, managerVars, since, missed>>

\* setQueueStatus returned null.
RejectInMatch(s) ==
  /\ socket[s] = "refused"
  /\ Reject(s, "4000")
  /\ UNCHANGED <<state, websocketId, gone, told, connections, calls, removals,
                 databaseVars, managerVars, history>>

\* setQueueStatus returned the id after the server was closed: the queue status
\* stays.
RejectClosed(s) ==
  /\ socket[s] = "queued"
  /\ state # "OPEN"
  /\ Reject(s, "1001")
  /\ leaked' = leaked \cup {s}
  /\ UNCHANGED <<state, websocketId, gone, told, connections, calls, removals,
                 databaseVars, managerVars, since, missed>>

\* Broken variant: whoever comes last wins.
NewerRegisteredNever(s) == FALSE

NewerRegistered(s) == \E t \in Registered(Login[s]) : websocketId[t] > websocketId[s]

\* Connections.set of a websocket that is not the newest one.
RejectOlder(s) ==
  /\ socket[s] = "queued"
  /\ state = "OPEN"
  /\ NewerRegistered(s)
  /\ Reject(s, "4001")
  /\ UNCHANGED <<state, websocketId, gone, told, connections, calls, removals,
                 databaseVars, managerVars, history>>

\* Connections.set: the websocket takes the place of the older one, which is
\* closed, and is opened, or closed if its client has left.
Register(s) ==
  LET older == Registered(Login[s])
      registry == (connections \ older) \cup {s}
      closing == older \cup ({s} \cap gone) IN
  /\ socket[s] = "queued"
  /\ state = "OPEN"
  /\ ~ NewerRegistered(s)
  /\ connections' = Untrack(registry, closing)
  /\ removals' = removals \cup Unqueue(registry, closing)
  /\ socket' = [t \in Socket |-> IF t \in closing THEN "CLOSED"
                                 ELSE IF t = s THEN "OPEN" ELSE socket[t]]
  /\ code' = [t \in Socket |-> IF t \in older THEN "4001"
                               ELSE IF t \in closing THEN "1000" ELSE code[t]]
  /\ UNCHANGED <<state, websocketId, gone, told, calls, databaseVars, managerVars, history>>

-----------------------------------------------------------------------------
(* The client *)

\* The client closes the websocket, or its TCP connection breaks.  One that is
\* unreachable without that ends with Terminated.
Leave(s) ==
  /\ socket[s] \notin {"none", "CLOSED"}
  /\ s \notin gone
  /\ gone' = gone \cup {s}
  /\ UNCHANGED <<state, socket, websocketId, code, told, connections, calls, removals,
                 databaseVars, managerVars, history>>

\* The close event of the websocket, or sendPing that finds it closed.
SocketClosed(s) ==
  /\ s \in Open \cap gone
  /\ CloseConnections({s}, connections, Same("1000"))
  /\ UNCHANGED <<state, websocketId, gone, told, calls, databaseVars, managerVars, history>>

\* The watchdog of the connection: too many pings without a pong in time.
Terminated(s) ==
  /\ s \in Open
  /\ CloseConnections({s}, connections, Same("1006"))
  /\ UNCHANGED <<state, websocketId, gone, told, calls, databaseVars, managerVars, history>>

\* Broken variant: whatever the id, the user is no longer queued.
RemovesAlways(s) == TRUE

\* WHERE last_websocket_id = websocketId
Removes(s) == Newest(s)

\* removeQueueStatus takes effect.
RemoveQueueStatus(s) ==
  /\ s \in removals
  /\ removals' = removals \ {s}
  /\ users' = IF Removes(s) THEN DB!removeQueueStatus(users, Login[s]) ELSE users
  /\ UNCHANGED <<state, socket, websocketId, gone, code, told, connections, calls,
                 lastWebsocketId, managerVars, history>>

\* removeQueueStatus fails, which is logged, or the process exits before it is
\* sent.
RemoveQueueStatusFails(s) ==
  /\ s \in removals
  /\ removals' = removals \ {s}
  /\ leaked' = leaked \cup {s}
  /\ UNCHANGED <<state, socket, websocketId, gone, code, told, connections, calls,
                 databaseVars, managerVars, since, missed>>

-----------------------------------------------------------------------------
(* The timers *)

Start(c, pc) ==
  /\ state = "OPEN"
  /\ calls[c] = Idle
  /\ connections \cap Open # {}
  /\ calls' = [calls EXCEPT ![c] = [Idle EXCEPT !.pc = pc, !.queued = connections \cap Open]]
  /\ UNCHANGED <<state, socket, websocketId, gone, code, told, connections, removals,
                 databaseVars, managerVars, history>>

\* extendQueues, and onPull, up to their statement; without a queued connection
\* neither sends one.
ExtendQueues(c) == Start(c, "extend")
OnPull(c) == Start(c, "poll")

\* The statement fails, or its answer is lost.
CallFails(c) ==
  /\ calls[c] # Idle
  /\ calls' = [calls EXCEPT ![c] = Idle]
  /\ UNCHANGED <<state, socket, websocketId, gone, code, told, connections, removals,
                 databaseVars, managerVars, history>>

\* extendQueueStatuses takes effect, on the users whose last_websocket_id still
\* is that of the connection.
ExtendQueueStatuses(c) ==
  /\ calls[c].pc = "extend"
  /\ users' = [u \in User |->
       IF \E s \in calls[c].queued : Login[s] = u /\ Newest(s)
       THEN DB!extendQueueStatus(users, u)[u]
       ELSE users[u]]
  /\ calls' = [calls EXCEPT ![c] = Idle]
  /\ UNCHANGED <<state, socket, websocketId, gone, code, told, connections, removals,
                 lastWebsocketId, managerVars, history>>

\* getConnectionStatuses reads the rows.
GetConnectionStatuses(c) ==
  /\ calls[c].pc = "poll"
  /\ calls' = [calls EXCEPT ![c] =
       [pc |-> "answered", queued |-> calls[c].queued, ids |-> lastWebsocketId,
        matches |-> [u \in User |-> users[u].match_id]]]
  /\ UNCHANGED <<state, socket, websocketId, gone, code, told, connections, removals,
                 databaseVars, managerVars, history>>

\* Broken variant: the id in the database is not looked at.
ReplacedNever(c) == {}

\* The connections of a poll that have an id out of date, and those with a match.
\* A connection closed since ignores both.
Replaced(c) ==
  {s \in calls[c].queued \cap Open : calls[c].ids[Login[s]] # websocketId[s]}
Matched(c) ==
  {s \in (calls[c].queued \cap Open) \ Replaced(c) : calls[c].matches[Login[s]] # DB!Null}

\* The rest of onPull.  A connection is closed whether or not its match could be
\* sent.
PullFinished(c) ==
  /\ calls[c].pc = "answered"
  /\ CloseConnections(Replaced(c) \cup Matched(c), connections,
       [s \in Socket |-> IF s \in Replaced(c) THEN "4001" ELSE "1000"])
  /\ \E sent \in SUBSET (Matched(c) \ gone) :
       told' = [s \in Socket |-> IF s \in sent THEN calls[c].matches[Login[s]] ELSE told[s]]
  /\ calls' = [calls EXCEPT ![c] = Idle]
  /\ UNCHANGED <<state, websocketId, gone, databaseVars, managerVars, history>>

\* ConnectionServer.close; what was sent to the database is still answered.
Close ==
  /\ state = "OPEN"
  /\ state' = "CLOSED"
  /\ CloseConnections(connections, connections, Same("1000"))
  /\ UNCHANGED <<websocketId, gone, told, calls, databaseVars, managerVars, history>>

-----------------------------------------------------------------------------
(* The server manager and the clock.  Tokens are those of TokensAgree in   *)
(* Lobby and left out.                                                     *)

GatherMatchPlayers ==
  /\ round = {}
  /\ matchSeq < MaxMatches
  /\ round' \in DB!GatherMatchPlayers(users)
  /\ UNCHANGED <<serverVars, databaseVars, playersOf, matchSeq, history>>

AddMatch ==
  /\ round # {}
  /\ matchSeq' = matchSeq + 1
  /\ users' = DB!AddMatchUsers(users, round, matchSeq + 1)
  /\ playersOf' = [playersOf EXCEPT ![matchSeq + 1] = round]
  /\ round' = {}
  /\ UNCHANGED <<serverVars, lastWebsocketId, history>>

RemoveMatchStatus(m) ==
  /\ \E u \in User : users[u].match_id = m
  /\ users' = DB!RemoveMatchStatus(users, m)
  /\ missed' = missed \cup
       {s \in Socket : socket[s] \in {"queued", "OPEN"} /\ users[Login[s]].match_id = m}
  /\ UNCHANGED <<serverVars, lastWebsocketId, managerVars, since, leaked>>

\* The manager is started again: what its last life had gathered is forgotten, and
\* every user is taken out of match and queue.
SetupMatchmaking ==
  /\ users' = DB!SetupUsers(users)
  /\ round' = {}
  /\ missed' = missed \cup {s \in Socket : socket[s] \in {"queued", "OPEN"}}
  /\ UNCHANGED <<serverVars, lastWebsocketId, playersOf, matchSeq, since, leaked>>

QueueLapses(u) ==
  /\ users[u].queued_until = "ahead"
  /\ users' = [users EXCEPT ![u].queued_until = "past"]
  /\ UNCHANGED <<serverVars, lastWebsocketId, managerVars, history>>

-----------------------------------------------------------------------------
Accept(s) ==
  \/ OnConnection(s) \/ Authenticated(s) \/ SetQueueStatus(s) \/ SetQueueStatusFails(s)
  \/ RejectInMatch(s) \/ RejectClosed(s) \/ RejectOlder(s) \/ Register(s)

Next ==
  \/ \E s \in Socket :
       \/ Accept(s)
       \/ Leave(s) \/ SocketClosed(s) \/ Terminated(s)
       \/ RemoveQueueStatus(s) \/ RemoveQueueStatusFails(s)
  \/ \E c \in Call :
       \/ ExtendQueues(c) \/ ExtendQueueStatuses(c)
       \/ OnPull(c) \/ GetConnectionStatuses(c) \/ PullFinished(c)
       \/ CallFails(c)
  \/ Close
  \/ GatherMatchPlayers \/ AddMatch \/ SetupMatchmaking
  \/ \E m \in Match : RemoveMatchStatus(m)
  \/ \E u \in User : QueueLapses(u)

Spec == Init /\ [][Next]_vars

\* Every statement is answered, the poll timer fires again and again, its
\* statement does not fail for ever, and a lost websocket is noticed.  Clients and
\* the server manager owe nothing.
Fairness ==
  /\ \A c \in Call :
       /\ WF_vars(ExtendQueueStatuses(c) \/ CallFails(c))
       /\ SF_vars(OnPull(c))
       /\ SF_vars(GetConnectionStatuses(c))
       /\ SF_vars(PullFinished(c))
  /\ \A s \in Socket : WF_vars(SocketClosed(s))

FairSpec == Spec /\ Fairness

-----------------------------------------------------------------------------
(* Correctness. *)

Phase == {"none", "authenticating", "queueing", "queued", "refused", "OPEN", "CLOSED"}
CloseCode == {"none", "1000", "1001", "1006", "1011", "4000", "4001", "4401"}
CallState ==
  [pc : {"idle", "extend", "poll", "answered"}, queued : SUBSET Socket,
   ids : [User -> Nat], matches : [User -> Match \cup {DB!Null}]]

TypeOK ==
  /\ state \in {"OPEN", "CLOSED"}
  /\ socket \in [Socket -> Phase]
  /\ websocketId \in [Socket -> Nat]
  /\ gone \subseteq Socket
  /\ code \in [Socket -> CloseCode]
  /\ told \in [Socket -> Match \cup {DB!Null}]
  /\ connections \subseteq Socket
  /\ calls \in [Call -> CallState]
  /\ removals \subseteq Socket
  /\ users \in [User -> DB!UserRow]
  /\ lastWebsocketId \in [User -> Nat]
  /\ round \subseteq User
  /\ playersOf \in [Match -> SUBSET User]
  /\ matchSeq \in 0 .. MaxMatches
  /\ since \in [Socket -> 0 .. MaxMatches]
  /\ missed \subseteq Socket
  /\ leaked \subseteq Socket
  \* whatever the server has given up it has closed with a code
  /\ \A s \in Socket : socket[s] = "CLOSED" <=> code[s] # "none"

\* The registry holds exactly the open connections, and one per login: neither a
\* late answer, an overlapping poll nor a stale close event leaves an open
\* connection that the timers do not see, or keeps a closed one.
RegistryExact ==
  /\ connections = Open
  /\ \A s, t \in connections : Login[s] = Login[t] => s = t

\* A queued user has someone to take the user out of the queue again: the
\* websocket with the newest id, while it is open or on its way there, or its
\* removeQueueStatus.  The exceptions are the three leaks of the code: that
\* statement fails, setQueueStatus fails after it took effect, or the server is
\* closed while it is under way.
QueuedHasOwner ==
  \A u \in User :
    users[u].queued_until # "null" =>
      \E s \in Socket :
        /\ Login[s] = u /\ Newest(s)
        /\ socket[s] \in {"queued", "OPEN"} \/ s \in removals \cup leaked

\* A connection that is open with the newest id has its user in the queue or in a
\* match: a stale connection does not unqueue a newer one.  The exceptions are a
\* match that was over before a poll saw it, and a restart of the server manager,
\* which ends every wait: extendQueueStatuses brings neither back.
NewestIsQueued ==
  \A s \in Socket :
    /\ socket[s] \in {"queued", "OPEN"}
    /\ Newest(s)
    /\ s \notin missed
    => LET row == users[Login[s]] IN
         row.queued_until # "null" \/ row.match_id # DB!Null

\* A websocket is told a match of its own user that was made after it was queued,
\* never one of an earlier wait: setQueueStatus and onPull check the row in
\* different statements, and a poll works on rows it has read before.
ToldOwnMatch ==
  \A s \in Socket : told[s] # DB!Null => Login[s] \in playersOf[told[s]] /\ told[s] > since[s]

\* In the registry a connection is replaced by a newer one only.
ReplacedByNewer ==
  [][\A s \in connections, t \in connections' :
       Login[s] = Login[t] /\ s # t => websocketId[t] > websocketId[s]]_vars

\* A poll has something to do for an open connection: its user is in a match, or
\* its id is out of date, which it stays.
IsDue(s) == s \in Open /\ (users[Login[s]].match_id # DB!Null \/ ~ Newest(s))

\* Such a connection is closed, unless the match is over before.
PollNotices == \A s \in Socket : IsDue(s) ~> ~ IsDue(s)

\* The rows of users as the API and the server manager share them.
WaitingView == {u \in User : users[u].queued_until # "null"}
PlayingView == [u \in User |-> users[u].match_id]

Shared == INSTANCE UserWaits
  WITH waiting <- WaitingView, playing <- PlayingView, players <- playersOf

\* However its statements interleave, the API keeps to what the manager expects.
KeepsUserWaits == Shared!Spec

-----------------------------------------------------------------------------
(* What the documentation says, and the code does not do *)

\* Once a match is assigned to a queued user, the server sends the match and then
\* closes the connection.
MatchEndsTheWait ==
  \A s \in Socket : s \in Open /\ Newest(s) /\ users[Login[s]].match_id # DB!Null ~> s \notin Open
=============================================================================
