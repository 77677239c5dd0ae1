----------------------- MODULE ConnectionServer_proofs ----------------------
(***************************************************************************)
(* Proofs about ConnectionServer, for every number of users, websockets,   *)
(* overlapping timers and matches.                                         *)
(***************************************************************************)
EXTENDS ConnectionServer, TLAPS

\* The ids setQueueStatus allocates: a websocket has one from then on, none has
\* that of another of its login, and only what has one can be removed.
Ids ==
  /\ \A s \in Socket : websocketId[s] <= lastWebsocketId[Login[s]]
  /\ \A s \in Socket : socket[s] \in {"none", "authenticating", "queueing", "refused"}
                         => websocketId[s] = 0
  /\ \A s \in Socket : socket[s] \in {"queued", "OPEN"} => websocketId[s] > 0
  /\ \A s, t \in Socket :
       Login[s] = Login[t] /\ websocketId[s] = websocketId[t] /\ websocketId[s] > 0 => s = t
  /\ \A s \in removals \cup leaked : socket[s] = "CLOSED" /\ websocketId[s] > 0

\* A user in a match is not queued.
MatchedNotQueued ==
  \A u \in User : users[u].match_id # DB!Null => users[u].queued_until = "null"

\* A user shown in a match is one of its players, and was queued by the newest
\* websocket before it was made.
MatchesOfRows ==
  /\ \A s \in Socket : since[s] <= matchSeq
  /\ \A u \in User :
       users[u].match_id # DB!Null =>
         /\ users[u].match_id <= matchSeq
         /\ u \in playersOf[users[u].match_id]
         /\ \A s \in Socket :
              Login[s] = u /\ Newest(s) /\ websocketId[s] > 0 => users[u].match_id > since[s]
  /\ round # {} => matchSeq < MaxMatches

\* What a poll was answered about a websocket that was the newest one: if that is
\* a match, then it is one of the user's, made after the websocket was queued.
Answers ==
  \A c \in Call : \A s \in calls[c].queued :
    /\ websocketId[s] > 0
    /\ LET m == calls[c].matches[Login[s]] IN
         calls[c].pc = "answered" /\ calls[c].ids[Login[s]] = websocketId[s] /\ m # DB!Null =>
           m <= matchSeq /\ Login[s] \in playersOf[m] /\ m > since[s]

ToldBefore ==
  \A s \in Socket : told[s] # DB!Null => told[s] <= matchSeq /\ websocketId[s] > 0

ServerInv ==
  /\ TypeOK /\ Ids /\ RegistryExact /\ QueuedHasOwner /\ NewestIsQueued
  /\ MatchedNotQueued /\ MatchesOfRows /\ Answers /\ ToldBefore /\ ToldOwnMatch

\* The steps that close open connections of the registry and change nothing else
\* but polls.
Closing ==
  /\ \E S \in SUBSET Open : \E closeCode \in [Socket -> CloseCode \ {"none"}] :
       CloseConnections(S, connections, closeCode)
  /\ UNCHANGED <<websocketId, gone, databaseVars, managerVars, history>>

USE ConnectionServerAssumption DEF DB!Null, DB!Inactive, Match, databaseVars, managerVars, history

-----------------------------------------------------------------------------
\* A row keeps its type under the statements.
LEMMA RowUpdates ==
  ASSUME NEW row \in DB!UserRow
  PROVE  /\ \A q \in {"null", "ahead", "past"} : [row EXCEPT !.queued_until = q] \in DB!UserRow
         /\ \A m \in Match : [row EXCEPT !.match_id = m, !.queued_until = "null"] \in DB!UserRow
         /\ DB!Inactive \in DB!UserRow
BY DEF DB!UserRow

\* What the statements do to each row.
LEMMA Statements ==
  ASSUME TypeOK, NEW u \in User, NEW v \in User
  PROVE  /\ users[u].match_id = DB!Null =>
              DB!setQueueStatus(users, u)[v] =
                IF v = u THEN [users[v] EXCEPT !.queued_until = "ahead"] ELSE users[v]
         /\ DB!removeQueueStatus(users, u)[v] =
              IF v = u /\ users[v].match_id = DB!Null
              THEN [users[v] EXCEPT !.queued_until = "null"] ELSE users[v]
         /\ DB!extendQueueStatus(users, u)[u] =
              IF users[u].match_id = DB!Null /\ users[u].queued_until # "null"
              THEN [users[u] EXCEPT !.queued_until = "ahead"] ELSE users[u]
         /\ DB!setQueueStatus(users, u) \in [User -> DB!UserRow]
         /\ DB!removeQueueStatus(users, u) \in [User -> DB!UserRow]
<1>0. users \in [User -> DB!UserRow] BY DEF TypeOK
<1>1. \A w \in User : [users[w] EXCEPT !.queued_until = "ahead"] \in DB!UserRow
  BY <1>0, RowUpdates
<1>2. \A w \in User : [users[w] EXCEPT !.queued_until = "null"] \in DB!UserRow
  BY <1>0, RowUpdates
<1> QED BY <1>0, <1>1, <1>2 DEF DB!setQueueStatus, DB!removeQueueStatus, DB!extendQueueStatus

\* The columns of a row with a new queue status.
LEMMA RowColumns ==
  ASSUME NEW row \in DB!UserRow, NEW q, NEW m
  PROVE  /\ [row EXCEPT !.queued_until = q].match_id = row.match_id
         /\ [row EXCEPT !.queued_until = q].queued_until = q
         /\ [row EXCEPT !.match_id = m, !.queued_until = q].match_id = m
         /\ [row EXCEPT !.match_id = m, !.queued_until = q].queued_until = q
BY DEF DB!UserRow

\* The steps that close open connections.
LEMMA ClosingSteps ==
  ASSUME ServerInv,
         \/ \E s \in Socket : SocketClosed(s) \/ Terminated(s)
         \/ \E c \in Call : PullFinished(c)
         \/ Close
  PROVE  Closing
<1>0. RegistryExact BY DEF ServerInv
<1>1. ASSUME NEW s \in Socket, SocketClosed(s) \/ Terminated(s) PROVE Closing
  <2>1. {s} \in SUBSET Open BY <1>1 DEF SocketClosed, Terminated
  <2>2. Same("1000") \in [Socket -> CloseCode \ {"none"}] /\ Same("1006") \in [Socket -> CloseCode \ {"none"}]
    BY DEF Same, CloseCode
  <2>3. CASE SocketClosed(s) BY <2>1, <2>2, <2>3 DEF SocketClosed, Closing
  <2>4. CASE Terminated(s) BY <2>1, <2>2, <2>4 DEF Terminated, Closing
  <2> QED BY <1>1, <2>3, <2>4
<1>2. ASSUME NEW c \in Call, PullFinished(c) PROVE Closing
  <2>1. Replaced(c) \cup Matched(c) \in SUBSET Open BY DEF Replaced, Matched
  <2>2. [s \in Socket |-> IF s \in Replaced(c) THEN "4001" ELSE "1000"]
          \in [Socket -> CloseCode \ {"none"}]
    BY DEF CloseCode
  <2> QED BY <1>2, <2>1, <2>2 DEF PullFinished, Closing
<1>3. CASE Close
  <2>1. connections \in SUBSET Open BY <1>0 DEF RegistryExact
  <2>2. Same("1000") \in [Socket -> CloseCode \ {"none"}] BY DEF Same, CloseCode
  <2> QED BY <1>3, <2>1, <2>2 DEF Close, Closing
<1> QED BY <1>1, <1>2, <1>3

\* What a closing step does to the registry: whatever it closes leaves the
\* registry, and leaves a removeQueueStatus behind.
LEMMA ClosingFacts ==
  ASSUME ServerInv, Closing
  PROVE  \E S \in SUBSET Open :
           /\ connections' = connections \ S
           /\ removals' = removals \cup S
           /\ socket' = [s \in Socket |-> IF s \in S THEN "CLOSED" ELSE socket[s]]
           /\ UNCHANGED <<websocketId, gone, databaseVars, managerVars, history>>
<1>1. connections = Open BY DEF ServerInv, RegistryExact
<1> QED BY <1>1 DEF Closing, CloseConnections, Untrack, Unqueue

\* What registering does: the websocket is newer than the one it replaces, if
\* there is one.
LEMMA RegisterFacts ==
  ASSUME ServerInv, NEW s \in Socket, Register(s)
  PROVE  /\ socket[s] = "queued"
         /\ \A t \in connections : Login[t] = Login[s] => websocketId[t] < websocketId[s]
         /\ LET older == Registered(Login[s])
                closing == older \cup ({s} \cap gone) IN
              /\ connections' = ((connections \ older) \cup {s}) \ ({s} \cap gone)
              /\ removals' = removals \cup ({s} \cap gone)
              /\ socket' = [t \in Socket |-> IF t \in closing THEN "CLOSED"
                                             ELSE IF t = s THEN "OPEN" ELSE socket[t]]
         /\ UNCHANGED <<websocketId, gone, databaseVars, managerVars, history>>
<1>0. /\ websocketId \in [Socket -> Nat] /\ connections \subseteq Socket
      /\ connections = Open /\ Ids
  BY DEF ServerInv, TypeOK, RegistryExact
<1>1. socket[s] = "queued" /\ ~ NewerRegistered(s) BY DEF Register
<1>2. s \notin connections BY <1>0, <1>1 DEF Open
<1>3. ASSUME NEW t \in connections, Login[t] = Login[s] PROVE websocketId[t] < websocketId[s]
  <2>1. websocketId[t] <= websocketId[s] BY <1>0, <1>1, <1>3 DEF NewerRegistered, Registered
  <2>2. websocketId[s] > 0 BY <1>0, <1>1 DEF Ids
  <2>3. websocketId[t] # websocketId[s] BY <1>0, <1>2, <1>3, <2>2 DEF Ids
  <2> QED BY <1>0, <1>3, <2>1, <2>3
<1>4. s \notin Registered(Login[s]) BY <1>2 DEF Registered
<1> QED BY <1>1, <1>2, <1>3, <1>4 DEF Register, Untrack, Unqueue

-----------------------------------------------------------------------------
\* Ids are allocated once and never taken back.
LEMMA IdsStep == ASSUME ServerInv, [Next]_vars PROVE Ids'
<1>0. /\ Ids
      /\ socket \in [Socket -> Phase] /\ websocketId \in [Socket -> Nat]
      /\ lastWebsocketId \in [User -> Nat]
      /\ removals \subseteq Socket /\ leaked \subseteq Socket
      /\ Login \in [Socket -> User]
  BY DEF ServerInv, TypeOK
<1>1. ASSUME NEW s \in Socket, NEW p \in {"authenticating", "queueing", "refused", "CLOSED"},
             socket' = [socket EXCEPT ![s] = p],
             p # "CLOSED" => socket[s] \in {"none", "authenticating", "queueing"},
             leaked' = leaked \/ (leaked' = leaked \cup {s} /\ socket[s] = "queued" /\ p = "CLOSED"),
             UNCHANGED <<websocketId, lastWebsocketId, removals>>
      PROVE  Ids'
  <2>1. \A t \in Socket : socket'[t] = IF t = s THEN p ELSE socket[t] BY <1>0, <1>1
  <2> QED BY <1>0, <1>1, <2>1 DEF Ids
<1>2. ASSUME NEW s \in Socket, OnConnection(s) \/ Authenticated(s) PROVE Ids'
  BY <1>1, <1>2 DEF OnConnection, Authenticated, Reject
<1>3. ASSUME NEW s \in Socket, SetQueueStatus(s) PROVE Ids'
  <2>1. CASE MayQueue(Login[s])
    <3>1. /\ socket[s] = "queueing"
          /\ lastWebsocketId' = [lastWebsocketId EXCEPT ![Login[s]] = @ + 1]
          /\ websocketId' = [websocketId EXCEPT ![s] = lastWebsocketId[Login[s]] + 1]
          /\ socket' = [socket EXCEPT ![s] = "queued"]
          /\ UNCHANGED <<removals, leaked>>
      BY <1>3, <2>1 DEF SetQueueStatus
    <3>2. \A t \in Socket : /\ socket'[t] = IF t = s THEN "queued" ELSE socket[t]
                            /\ websocketId'[t] = IF t = s THEN lastWebsocketId[Login[s]] + 1 ELSE websocketId[t]
      BY <1>0, <3>1
    <3>3. \A u \in User : lastWebsocketId'[u] = IF u = Login[s] THEN lastWebsocketId[u] + 1 ELSE lastWebsocketId[u]
      BY <1>0, <3>1
    <3> QED BY <1>0, <3>1, <3>2, <3>3 DEF Ids
  <2>2. CASE ~ MayQueue(Login[s])
    BY <1>1, <1>3, <2>2 DEF SetQueueStatus
  <2> QED BY <2>1, <2>2
<1>4. ASSUME NEW s \in Socket, SetQueueStatusFails(s) \/ RejectInMatch(s) \/ RejectClosed(s) \/ RejectOlder(s)
      PROVE  Ids'
  BY <1>1, <1>4 DEF SetQueueStatusFails, RejectInMatch, RejectClosed, RejectOlder, Reject
<1>5. ASSUME NEW s \in Socket, Register(s) PROVE Ids'
  <2>1. /\ socket[s] = "queued"
        /\ removals' = removals \cup ({s} \cap gone)
        /\ UNCHANGED <<websocketId, lastWebsocketId, leaked>>
    BY <1>5, RegisterFacts
  <2>2. \A t \in Socket : /\ t # s => socket'[t] = socket[t] \/ (socket'[t] = "CLOSED" /\ socket[t] = "OPEN")
                          /\ socket'[s] = "OPEN" \/ socket'[s] = "CLOSED"
                          /\ s \in gone => socket'[s] = "CLOSED"
    BY <1>5, RegisterFacts DEF Registered, ServerInv, RegistryExact, Open
  <2> QED BY <1>0, <2>1, <2>2 DEF Ids
<1>6. CASE Closing
  BY <1>0, <1>6, ClosingFacts DEF Ids, Open
<1>7. ASSUME NEW s \in Socket, RemoveQueueStatus(s) \/ RemoveQueueStatusFails(s) PROVE Ids'
  BY <1>0, <1>7 DEF RemoveQueueStatus, RemoveQueueStatusFails, Ids
<1>8. CASE UNCHANGED <<socket, websocketId, lastWebsocketId, removals, leaked>>
  BY <1>0, <1>8 DEF Ids
<1> QED
  BY <1>2, <1>3, <1>4, <1>5, <1>6, <1>7, <1>8, ClosingSteps
  DEF Next, Accept, Leave, ExtendQueues, OnPull, Start, ExtendQueueStatuses, GetConnectionStatuses,
      CallFails, GatherMatchPlayers, AddMatch, RemoveMatchStatus, SetupMatchmaking, QueueLapses, serverVars, vars

\* The registry stays exact.
LEMMA RegistryStep == ASSUME ServerInv, [Next]_vars PROVE RegistryExact'
<1>0. /\ RegistryExact /\ Ids
      /\ socket \in [Socket -> Phase] /\ connections \subseteq Socket
  BY DEF ServerInv, TypeOK
<1>1. ASSUME NEW s \in Socket, NEW p \in Phase \ {"OPEN"}, socket[s] # "OPEN",
             socket' = [socket EXCEPT ![s] = p], connections' = connections
      PROVE  RegistryExact'
  BY <1>0, <1>1 DEF RegistryExact, Open
<1>2. ASSUME NEW s \in Socket, OnConnection(s) \/ Authenticated(s) \/ SetQueueStatus(s)
      PROVE  RegistryExact'
  BY <1>1, <1>2 DEF OnConnection, Authenticated, SetQueueStatus, Reject, Phase
<1>3. ASSUME NEW s \in Socket, SetQueueStatusFails(s) \/ RejectInMatch(s) \/ RejectClosed(s) \/ RejectOlder(s)
      PROVE  RegistryExact'
  BY <1>1, <1>3 DEF SetQueueStatusFails, RejectInMatch, RejectClosed, RejectOlder, Reject, Phase
<1>4. ASSUME NEW s \in Socket, Register(s) PROVE RegistryExact'
  <2> DEFINE older == Registered(Login[s])
             closing == older \cup ({s} \cap gone)
  <2>1. /\ socket[s] = "queued"
        /\ connections' = ((connections \ older) \cup {s}) \ ({s} \cap gone)
        /\ socket' = [t \in Socket |-> IF t \in closing THEN "CLOSED"
                                       ELSE IF t = s THEN "OPEN" ELSE socket[t]]
    BY <1>4, RegisterFacts
  <2>2. older = {t \in connections : Login[t] = Login[s]} BY DEF Registered
  <2>3. connections' = Open' BY <1>0, <2>1, <2>2 DEF RegistryExact, Open
  <2>4. \A t, v \in connections' : Login[t] = Login[v] => t = v
    BY <1>0, <2>1, <2>2 DEF RegistryExact
  <2> QED BY <2>3, <2>4 DEF RegistryExact
<1>5. CASE Closing
  BY <1>0, <1>5, ClosingFacts DEF RegistryExact, Open
<1>6. CASE UNCHANGED <<socket, connections>>
  BY <1>0, <1>6 DEF RegistryExact, Open
<1> QED
  BY <1>2, <1>3, <1>4, <1>5, <1>6, ClosingSteps
  DEF Next, Accept, Leave, RemoveQueueStatus, RemoveQueueStatusFails, ExtendQueues, OnPull, Start,
      ExtendQueueStatuses, GetConnectionStatuses, CallFails, GatherMatchPlayers, AddMatch,
      RemoveMatchStatus, SetupMatchmaking, QueueLapses, serverVars, vars

\* What the steps do to the columns of users: a user is queued by SetQueueStatus
\* only, and is unqueued by the removeQueueStatus of the newest websocket, by
\* AddMatch or by SetupMatchmaking.
LEMMA RowsStep ==
  ASSUME ServerInv, [Next]_vars, NEW u \in User
  PROVE  \/ /\ users'[u].match_id = users[u].match_id
            /\ users'[u].queued_until # "null" <=> users[u].queued_until # "null"
         \/ \E s \in Socket : /\ SetQueueStatus(s) /\ MayQueue(u) /\ Login[s] = u
                              /\ users'[u].match_id = DB!Null /\ users'[u].queued_until = "ahead"
         \/ \E s \in Socket : /\ RemoveQueueStatus(s) /\ Newest(s) /\ Login[s] = u
                              /\ users[u].match_id = DB!Null
                              /\ users'[u].match_id = DB!Null /\ users'[u].queued_until = "null"
         \/ /\ AddMatch /\ u \in round
            /\ users'[u].match_id = matchSeq + 1 /\ users'[u].queued_until = "null"
         \/ \E m \in Match : /\ RemoveMatchStatus(m) /\ users[u].match_id = m
                             /\ users'[u].match_id = DB!Null /\ users'[u].queued_until = "null"
         \/ /\ SetupMatchmaking
            /\ users'[u].match_id = DB!Null /\ users'[u].queued_until = "null"
<1> DEFINE Kept == /\ users'[u].match_id = users[u].match_id
                   /\ users'[u].queued_until # "null" <=> users[u].queued_until # "null"
<1>0. /\ TypeOK /\ users \in [User -> DB!UserRow] /\ users[u] \in DB!UserRow
      /\ Login \in [Socket -> User]
  BY DEF ServerInv, TypeOK
<1>r. /\ \A q \in {"null", "ahead", "past"} :
           /\ [users[u] EXCEPT !.queued_until = q].match_id = users[u].match_id
           /\ [users[u] EXCEPT !.queued_until = q].queued_until = q
      /\ [users[u] EXCEPT !.match_id = matchSeq + 1, !.queued_until = "null"].match_id = matchSeq + 1
      /\ [users[u] EXCEPT !.match_id = matchSeq + 1, !.queued_until = "null"].queued_until = "null"
  BY <1>0, RowColumns
<1>1. ASSUME NEW s \in Socket, SetQueueStatus(s)
      PROVE  \/ Kept
             \/ /\ MayQueue(u) /\ Login[s] = u
                /\ users'[u].match_id = DB!Null /\ users'[u].queued_until = "ahead"
  <2>1. CASE MayQueue(Login[s])
    <3>1. users' = DB!setQueueStatus(users, Login[s]) /\ users[Login[s]].match_id = DB!Null
      BY <1>1, <2>1 DEF SetQueueStatus, MayQueue
    <3>2. users'[u] = IF u = Login[s] THEN [users[u] EXCEPT !.queued_until = "ahead"] ELSE users[u]
      BY <1>0, <3>1, Statements
    <3> QED BY <1>r, <2>1, <3>1, <3>2
  <2>2. CASE ~ MayQueue(Login[s]) BY <1>1, <2>2 DEF SetQueueStatus
  <2> QED BY <2>1, <2>2
<1>2. ASSUME NEW s \in Socket, RemoveQueueStatus(s)
      PROVE  \/ Kept
             \/ /\ Newest(s) /\ Login[s] = u /\ users[u].match_id = DB!Null
                /\ users'[u].match_id = DB!Null /\ users'[u].queued_until = "null"
  <2>1. CASE Newest(s)
    <3>1. users' = DB!removeQueueStatus(users, Login[s])
      BY <1>2, <2>1 DEF RemoveQueueStatus, Removes
    <3>2. users'[u] = IF u = Login[s] /\ users[u].match_id = DB!Null
                      THEN [users[u] EXCEPT !.queued_until = "null"] ELSE users[u]
      BY <1>0, <3>1, Statements
    <3> QED BY <1>r, <2>1, <3>2
  <2>2. CASE ~ Newest(s) BY <1>2, <2>2 DEF RemoveQueueStatus, Removes
  <2> QED BY <2>1, <2>2
<1>3. ASSUME NEW c \in Call, ExtendQueueStatuses(c) PROVE Kept
  <2>1. users'[u] = users[u] \/ users'[u] = DB!extendQueueStatus(users, u)[u]
    BY <1>3 DEF ExtendQueueStatuses
  <2>2. \/ users'[u] = users[u]
        \/ users[u].queued_until # "null" /\ users'[u] = [users[u] EXCEPT !.queued_until = "ahead"]
    BY <1>0, <2>1, Statements
  <2> QED BY <1>r, <2>2
<1>4. CASE AddMatch
  <2>1. users'[u] = IF u \in round
                    THEN [users[u] EXCEPT !.match_id = matchSeq + 1, !.queued_until = "null"]
                    ELSE users[u]
    BY <1>4 DEF AddMatch, DB!AddMatchUsers
  <2> QED BY <1>r, <1>4, <2>1
<1>5. ASSUME NEW m \in Match, RemoveMatchStatus(m)
      PROVE  \/ Kept
             \/ /\ users[u].match_id = m
                /\ users'[u].match_id = DB!Null /\ users'[u].queued_until = "null"
  BY <1>0, <1>5 DEF RemoveMatchStatus, DB!RemoveMatchStatus
<1>6. ASSUME NEW v \in User, QueueLapses(v) PROVE Kept
  <2>1. users' = [users EXCEPT ![v] = [users[v] EXCEPT !.queued_until = "past"]]
    BY <1>6 DEF QueueLapses
  <2> QED BY <1>0, <1>6, <2>1, RowColumns DEF QueueLapses
<1>7. CASE users' = users BY <1>7
<1>8. CASE Closing BY <1>7, <1>8 DEF Closing
<1>9. CASE SetupMatchmaking
  BY <1>9 DEF SetupMatchmaking, DB!SetupUsers
<1> QED
  BY <1>1, <1>2, <1>3, <1>4, <1>5, <1>6, <1>7, <1>8, <1>9, ClosingSteps
  DEF Next, Accept, OnConnection, Authenticated, SetQueueStatusFails, RejectInMatch, RejectClosed,
      RejectOlder, Register, Leave, RemoveQueueStatusFails, ExtendQueues, OnPull, Start,
      GetConnectionStatuses, CallFails, GatherMatchPlayers, vars

LEMMA MatchedNotQueuedStep == ASSUME ServerInv, [Next]_vars PROVE MatchedNotQueued'
<1>0. MatchedNotQueued BY DEF ServerInv
<1> SUFFICES ASSUME NEW u \in User, users'[u].match_id # DB!Null PROVE users'[u].queued_until = "null"
  BY DEF MatchedNotQueued
<1> QED BY <1>0, RowsStep DEF MatchedNotQueued

\* A queued user always has a websocket or a statement that ends its wait.
LEMMA QueuedHasOwnerStep == ASSUME ServerInv, [Next]_vars PROVE QueuedHasOwner'
<1>0. /\ TypeOK /\ Ids /\ RegistryExact /\ QueuedHasOwner /\ MatchedNotQueued
      /\ socket \in [Socket -> Phase] /\ websocketId \in [Socket -> Nat]
      /\ lastWebsocketId \in [User -> Nat] /\ Login \in [Socket -> User]
      /\ removals \subseteq Socket /\ leaked \subseteq Socket
      /\ users \in [User -> DB!UserRow]
  BY DEF ServerInv, TypeOK
<1> DEFINE Owns(s) == socket[s] \in {"queued", "OPEN"} \/ s \in removals \cup leaked
<1> SUFFICES ASSUME NEW u \in User, users'[u].queued_until # "null"
             PROVE  \E s \in Socket : (Login[s] = u /\ Newest(s) /\ Owns(s))'
  BY DEF QueuedHasOwner
<1>1. ASSUME NEW t \in Socket, SetQueueStatus(t), MayQueue(Login[t]), Login[t] = u
      PROVE  \E s \in Socket : (Login[s] = u /\ Newest(s) /\ Owns(s))'
  BY <1>0, <1>1 DEF SetQueueStatus, Newest
<1>2. CASE users[u].queued_until # "null"
  <2>1. PICK s \in Socket : Login[s] = u /\ Newest(s) /\ Owns(s)
    BY <1>0, <1>2 DEF QueuedHasOwner
  <2>2. socket[s] \in {"queued", "OPEN", "CLOSED"} BY <1>0, <2>1 DEF Ids
  <2>3. ASSUME UNCHANGED <<websocketId, lastWebsocketId>>, Owns(s)'
        PROVE  \E v \in Socket : (Login[v] = u /\ Newest(v) /\ Owns(v))'
    BY <2>1, <2>3 DEF Newest
  <2>4. ASSUME NEW t \in Socket, OnConnection(t) \/ Authenticated(t) \/ RejectInMatch(t)
        PROVE  Owns(s)' /\ UNCHANGED <<websocketId, lastWebsocketId>>
    BY <1>0, <2>1, <2>2, <2>4 DEF OnConnection, Authenticated, RejectInMatch, Reject
  <2>5. ASSUME NEW t \in Socket, SetQueueStatus(t)
        PROVE  \E v \in Socket : (Login[v] = u /\ Newest(v) /\ Owns(v))'
    <3>1. CASE MayQueue(Login[t]) /\ Login[t] = u BY <1>1, <2>5, <3>1
    <3>2. CASE ~ (MayQueue(Login[t]) /\ Login[t] = u)
      <4>1. s # t BY <2>2, <2>5 DEF SetQueueStatus
      <4>2. websocketId'[s] = websocketId[s] /\ lastWebsocketId'[u] = lastWebsocketId[u]
        BY <1>0, <2>1, <2>5, <3>2, <4>1 DEF SetQueueStatus
      <4>3. Owns(s)' BY <1>0, <2>1, <2>5, <4>1 DEF SetQueueStatus
      <4> QED BY <2>1, <4>2, <4>3 DEF Newest
    <3> QED BY <3>1, <3>2
  <2>6. ASSUME NEW t \in Socket, SetQueueStatusFails(t) \/ RejectClosed(t)
        PROVE  Owns(s)' /\ UNCHANGED <<websocketId, lastWebsocketId>>
    BY <1>0, <2>1, <2>2, <2>6 DEF SetQueueStatusFails, RejectClosed, Reject
  <2>7. ASSUME NEW t \in Socket, RejectOlder(t)
        PROVE  Owns(s)' /\ UNCHANGED <<websocketId, lastWebsocketId>>
    <3>1. PICK v \in Socket : Login[v] = Login[t] /\ websocketId[v] > websocketId[t]
      BY <1>0, <2>7 DEF RejectOlder, NewerRegistered, Registered, RegistryExact, Open
    <3>2. s # t BY <1>0, <2>1, <3>1 DEF Ids, Newest
    <3> QED BY <1>0, <2>1, <2>7, <3>2 DEF RejectOlder, Reject
  <2>8. ASSUME NEW t \in Socket, Register(t)
        PROVE  Owns(s)' /\ UNCHANGED <<websocketId, lastWebsocketId>>
    <3>1. UNCHANGED <<websocketId, lastWebsocketId, leaked>> BY <2>8, RegisterFacts
    <3>2. CASE s = t
      BY <1>0, <2>8, <3>1, <3>2, RegisterFacts DEF Registered, RegistryExact, Open
    <3>3. CASE s # t
      <4>1. s \notin Registered(Login[t])
        <5>1. SUFFICES ASSUME s \in connections, Login[s] = Login[t] PROVE FALSE
          BY DEF Registered
        <5>2. websocketId[s] < websocketId[t] BY <2>8, <5>1, RegisterFacts
        <5> QED BY <1>0, <2>1, <5>1, <5>2 DEF Ids, Newest
      <4> QED BY <1>0, <2>1, <2>8, <3>1, <3>3, <4>1, RegisterFacts
    <3> QED BY <3>2, <3>3
  <2>9. CASE Closing
    <3>1. Owns(s)' /\ UNCHANGED <<websocketId, lastWebsocketId>>
      BY <1>0, <2>1, <2>9, ClosingFacts
    <3> QED BY <2>3, <3>1
  <2>10. ASSUME NEW t \in Socket, RemoveQueueStatus(t)
         PROVE  Owns(s)' /\ UNCHANGED <<websocketId, lastWebsocketId>>
    <3>1. s # t
      <4>1. SUFFICES ASSUME s = t PROVE FALSE OBVIOUS
      <4>2. users' = DB!removeQueueStatus(users, u)
        BY <2>1, <2>10, <4>1 DEF RemoveQueueStatus, Removes
      <4>3. users[u].match_id = DB!Null BY <1>0, <1>2 DEF MatchedNotQueued
      <4>4. users'[u] = [users[u] EXCEPT !.queued_until = "null"]
        BY <1>0, <4>2, <4>3, Statements
      <4> QED BY <1>0, <4>4, RowColumns
    <3> QED BY <1>0, <2>1, <2>10, <3>1 DEF RemoveQueueStatus
  <2>11. ASSUME NEW t \in Socket, RemoveQueueStatusFails(t)
         PROVE  Owns(s)' /\ UNCHANGED <<websocketId, lastWebsocketId>>
    BY <1>0, <2>1, <2>11 DEF RemoveQueueStatusFails
  <2>12. CASE UNCHANGED <<socket, websocketId, lastWebsocketId, removals, leaked>>
    BY <2>1, <2>3, <2>12
  <2> QED
    BY <2>3, <2>4, <2>5, <2>6, <2>7, <2>8, <2>9, <2>10, <2>11, <2>12, ClosingSteps
    DEF Next, Accept, Leave, ExtendQueues, OnPull, Start, ExtendQueueStatuses, GetConnectionStatuses,
        CallFails, GatherMatchPlayers, AddMatch, RemoveMatchStatus, SetupMatchmaking, QueueLapses, serverVars, vars
<1> QED BY <1>1, <1>2, RowsStep

-----------------------------------------------------------------------------
\* Ids are given to websockets once, by SetQueueStatus, and with them the matches
\* they can be told.
LEMMA IdsKept ==
  ASSUME ServerInv, [Next]_vars, NEW s \in Socket
  PROVE  \/ /\ SetQueueStatus(s) /\ MayQueue(Login[s])
            /\ websocketId[s] = 0 /\ socket[s] = "queueing" /\ since'[s] = matchSeq
         \/ /\ websocketId'[s] = websocketId[s] /\ since'[s] = since[s]
            /\ Newest(s)' /\ websocketId[s] > 0 => Newest(s)
            /\ socket'[s] \in {"queued", "OPEN"} => socket[s] \in {"queued", "OPEN"}
<1> DEFINE Kept == /\ websocketId'[s] = websocketId[s] /\ since'[s] = since[s]
                   /\ Newest(s)' /\ websocketId[s] > 0 => Newest(s)
                   /\ socket'[s] \in {"queued", "OPEN"} => socket[s] \in {"queued", "OPEN"}
<1>0. /\ Ids /\ RegistryExact
      /\ socket \in [Socket -> Phase] /\ websocketId \in [Socket -> Nat]
      /\ lastWebsocketId \in [User -> Nat] /\ Login \in [Socket -> User]
      /\ since \in [Socket -> 0 .. MaxMatches]
  BY DEF ServerInv, TypeOK
<1>1. ASSUME UNCHANGED <<websocketId, lastWebsocketId, since>>,
             socket'[s] \in {"queued", "OPEN"} => socket[s] \in {"queued", "OPEN"}
      PROVE  Kept
  BY <1>1 DEF Newest
<1>2. ASSUME NEW t \in Socket, SetQueueStatus(t)
      PROVE  Kept \/ /\ SetQueueStatus(s) /\ MayQueue(Login[s])
                     /\ websocketId[s] = 0 /\ socket[s] = "queueing" /\ since'[s] = matchSeq
  <2>1. CASE MayQueue(Login[t])
    <3>1. /\ socket[t] = "queueing"
          /\ lastWebsocketId' = [lastWebsocketId EXCEPT ![Login[t]] = @ + 1]
          /\ websocketId' = [websocketId EXCEPT ![t] = lastWebsocketId[Login[t]] + 1]
          /\ since' = [since EXCEPT ![t] = matchSeq]
          /\ socket' = [socket EXCEPT ![t] = "queued"]
      BY <1>2, <2>1 DEF SetQueueStatus
    <3>2. CASE s = t BY <1>0, <1>2, <2>1, <3>1, <3>2 DEF Ids
    <3>3. CASE s # t
      <4>1. websocketId'[s] = websocketId[s] /\ since'[s] = since[s] /\ socket'[s] = socket[s]
        BY <1>0, <3>1, <3>3
      <4>2. lastWebsocketId'[Login[s]] >= lastWebsocketId[Login[s]]
        BY <1>0, <3>1
      <4>3. websocketId[s] <= lastWebsocketId[Login[s]] BY <1>0 DEF Ids
      <4>4. Newest(s)' => Newest(s) BY <1>0, <3>1, <4>1, <4>2, <4>3 DEF Newest
      <4> QED BY <4>1, <4>4
    <3> QED BY <3>2, <3>3
  <2>2. CASE ~ MayQueue(Login[t])
    BY <1>0, <1>1, <1>2, <2>2 DEF SetQueueStatus
  <2> QED BY <2>1, <2>2
<1>3. ASSUME NEW t \in Socket, OnConnection(t) \/ Authenticated(t) \/ SetQueueStatusFails(t)
                               \/ RejectInMatch(t) \/ RejectClosed(t) \/ RejectOlder(t)
      PROVE  Kept
  BY <1>0, <1>1, <1>3 DEF OnConnection, Authenticated, SetQueueStatusFails, RejectInMatch,
     RejectClosed, RejectOlder, Reject
<1>4. ASSUME NEW t \in Socket, Register(t) PROVE Kept
  BY <1>0, <1>1, <1>4, RegisterFacts
<1>5. CASE Closing BY <1>0, <1>1, <1>5, ClosingFacts
<1>6. CASE UNCHANGED <<socket, websocketId, lastWebsocketId, since>> BY <1>1, <1>6
<1> QED
  BY <1>2, <1>3, <1>4, <1>5, <1>6, ClosingSteps
  DEF Next, Accept, Leave, RemoveQueueStatus, RemoveQueueStatusFails, ExtendQueues, OnPull, Start,
      ExtendQueueStatuses, GetConnectionStatuses, CallFails, GatherMatchPlayers, AddMatch,
      RemoveMatchStatus, SetupMatchmaking, QueueLapses, serverVars, vars

\* A waiting websocket with the newest id has its user queued or in a match.
LEMMA NewestIsQueuedStep == ASSUME ServerInv, [Next]_vars PROVE NewestIsQueued'
<1>0. /\ TypeOK /\ Ids /\ NewestIsQueued /\ MatchesOfRows
      /\ Login \in [Socket -> User] /\ matchSeq \in Nat /\ websocketId \in [Socket -> Nat]
  BY DEF ServerInv, TypeOK
<1> SUFFICES ASSUME NEW s \in Socket, socket'[s] \in {"queued", "OPEN"}, Newest(s)', s \notin missed',
                    users'[Login[s]].queued_until = "null", users'[Login[s]].match_id = DB!Null
             PROVE  FALSE
  BY DEF NewestIsQueued
<1>1. missed \subseteq missed'
  BY DEF Next, Accept, OnConnection, Authenticated, SetQueueStatus, SetQueueStatusFails,
     RejectInMatch, RejectClosed, RejectOlder, Register, Leave, SocketClosed, Terminated,
     RemoveQueueStatus, RemoveQueueStatusFails, ExtendQueues, OnPull, Start, ExtendQueueStatuses,
     GetConnectionStatuses, PullFinished, CallFails, Close, GatherMatchPlayers, AddMatch,
     RemoveMatchStatus, SetupMatchmaking, QueueLapses, vars
<1>2. Login[s] \in User BY <1>0
<1>3. CASE SetQueueStatus(s) /\ MayQueue(Login[s])
  <2>1. users' = DB!setQueueStatus(users, Login[s]) /\ users[Login[s]].match_id = DB!Null
    BY <1>3 DEF SetQueueStatus, MayQueue
  <2>2. users'[Login[s]] = [users[Login[s]] EXCEPT !.queued_until = "ahead"]
    BY <1>0, <1>2, <2>1, Statements
  <2>3. users[Login[s]] \in DB!UserRow BY <1>0, <1>2 DEF TypeOK
  <2> QED BY <2>2, <2>3, RowColumns
<1>4. CASE ~ (SetQueueStatus(s) /\ MayQueue(Login[s]))
  <2>1. websocketId'[s] = websocketId[s] /\ socket[s] \in {"queued", "OPEN"} /\ Newest(s)
    BY <1>0, <1>4, IdsKept DEF Ids
  <2>2. users[Login[s]].queued_until # "null" \/ users[Login[s]].match_id # DB!Null
    BY <1>0, <1>1, <2>1 DEF NewestIsQueued
  <2>3. ASSUME NEW t \in Socket, RemoveQueueStatus(t), Newest(t), Login[t] = Login[s] PROVE FALSE
    <3>1. t \in removals /\ socket[t] = "CLOSED" /\ websocketId[t] > 0
      BY <1>0, <2>3 DEF RemoveQueueStatus, Ids
    <3>2. s = t BY <1>0, <2>1, <2>3, <3>1 DEF Ids, Newest
    <3> QED BY <2>1, <3>1, <3>2
  <2>4. ASSUME NEW m \in Match, RemoveMatchStatus(m), users[Login[s]].match_id = m PROVE FALSE
    BY <2>1, <2>4 DEF RemoveMatchStatus
  <2>5. CASE SetupMatchmaking BY <2>1, <2>5 DEF SetupMatchmaking
  <2> QED BY <1>0, <1>2, <2>2, <2>3, <2>4, <2>5, RowsStep
<1> QED BY <1>3, <1>4

\* Matches are numbered in the order they are made in.
LEMMA MatchSeqStep ==
  ASSUME ServerInv, [Next]_vars
  PROVE  \/ AddMatch
         \/ UNCHANGED <<matchSeq, playersOf>> /\ (round' # {} => matchSeq < MaxMatches)
<1>1. round # {} => matchSeq < MaxMatches BY DEF ServerInv, MatchesOfRows
<1>2. CASE UNCHANGED managerVars BY <1>1, <1>2
<1> QED
  BY <1>1, <1>2
  DEF Next, Accept, OnConnection, Authenticated, SetQueueStatus, SetQueueStatusFails,
     RejectInMatch, RejectClosed, RejectOlder, Register, Leave, SocketClosed, Terminated,
     RemoveQueueStatus, RemoveQueueStatusFails, ExtendQueues, OnPull, Start, ExtendQueueStatuses,
     GetConnectionStatuses, PullFinished, CallFails, Close, GatherMatchPlayers,
     RemoveMatchStatus, SetupMatchmaking, QueueLapses, vars

\* A row's match is newer than the websocket that waits for it.
LEMMA MatchesOfRowsStep == ASSUME ServerInv, [Next]_vars PROVE MatchesOfRows'
<1>0. /\ TypeOK /\ Ids /\ MatchesOfRows
      /\ Login \in [Socket -> User] /\ matchSeq \in 0 .. MaxMatches /\ MaxMatches \in Nat
      /\ websocketId \in [Socket -> Nat] /\ since \in [Socket -> 0 .. MaxMatches]
      /\ playersOf \in [Match -> SUBSET User] /\ users \in [User -> DB!UserRow]
  BY DEF ServerInv, TypeOK
<1>1. \A u \in User : users[u].match_id \in Match \cup {DB!Null} BY <1>0 DEF DB!UserRow
<1>2. CASE AddMatch
  <2>1. /\ matchSeq' = matchSeq + 1 /\ round' = {} /\ matchSeq < MaxMatches
        /\ playersOf' = [playersOf EXCEPT ![matchSeq + 1] = round]
        /\ UNCHANGED <<websocketId, lastWebsocketId, since>>
    BY <1>0, <1>2 DEF AddMatch, MatchesOfRows, serverVars
  <2>2. matchSeq + 1 \in Match /\ \A m \in Match : playersOf'[m] = IF m = matchSeq + 1 THEN round ELSE playersOf[m]
    BY <1>0, <2>1
  <2>3. \A s \in Socket : since[s] <= matchSeq /\ since[s] \in Nat BY <1>0 DEF MatchesOfRows
  <2>4. ASSUME NEW u \in User, users'[u].match_id # DB!Null
        PROVE  /\ users'[u].match_id <= matchSeq'
               /\ u \in playersOf'[users'[u].match_id]
               /\ \A s \in Socket :
                    (Login[s] = u /\ Newest(s) /\ websocketId[s] > 0)' => users'[u].match_id > since'[s]
    <3>1. CASE u \in round
      <4>1. users'[u] = [users[u] EXCEPT !.match_id = matchSeq + 1, !.queued_until = "null"]
        BY <1>2, <3>1 DEF AddMatch, DB!AddMatchUsers
      <4>2. users'[u].match_id = matchSeq + 1 BY <1>0, <4>1, RowColumns
      <4> QED BY <1>0, <2>1, <2>2, <2>3, <3>1, <4>2
    <3>2. CASE u \notin round
      <4>1. users'[u] = users[u] BY <1>2, <3>2 DEF AddMatch, DB!AddMatchUsers
      <4>2. users[u].match_id # matchSeq + 1 /\ users[u].match_id \in Match
        BY <1>0, <1>1, <2>4, <4>1 DEF MatchesOfRows
      <4> QED BY <1>0, <2>1, <2>2, <2>4, <4>1, <4>2 DEF MatchesOfRows, Newest
    <3> QED BY <3>1, <3>2
  <2> QED BY <1>0, <2>1, <2>3, <2>4 DEF MatchesOfRows
<1>3. CASE ~ AddMatch
  <2>1. UNCHANGED <<matchSeq, playersOf>> /\ (round' # {} => matchSeq < MaxMatches)
    BY <1>3, MatchSeqStep
  <2>2. \A s \in Socket : since'[s] <= matchSeq'
    BY <1>0, <2>1, IdsKept DEF MatchesOfRows
  <2>3. ASSUME NEW u \in User, users'[u].match_id # DB!Null
        PROVE  users'[u].match_id = users[u].match_id
    BY <1>3, <2>3, RowsStep
  <2>4. ASSUME NEW u \in User, users'[u].match_id # DB!Null, NEW s \in Socket,
               Login[s] = u, Newest(s)', websocketId'[s] > 0
        PROVE  users'[u].match_id > since'[s]
    <3>1. ~ (SetQueueStatus(s) /\ MayQueue(Login[s]))
      BY <2>3, <2>4 DEF MayQueue
    <3> QED BY <1>0, <2>3, <2>4, <3>1, IdsKept DEF MatchesOfRows
  <2> QED BY <1>0, <2>1, <2>2, <2>3, <2>4 DEF MatchesOfRows
<1> QED BY <1>2, <1>3

\* The runs of the timers: a run begins with the open connections of the
\* registry, and a poll is answered with the rows as they are.
LEMMA CallsStep ==
  ASSUME ServerInv, [Next]_vars, NEW c \in Call
  PROVE  /\ calls'[c] \in CallState
         /\ \/ calls'[c] = calls[c]
            \/ calls'[c].queued = {}
            \/ calls'[c].queued \subseteq Open /\ calls'[c].pc # "answered"
            \/ /\ calls'[c].queued = calls[c].queued
               /\ calls'[c].ids = lastWebsocketId
               /\ calls'[c].matches = [u \in User |-> users[u].match_id]
               /\ UNCHANGED <<websocketId, since, playersOf, matchSeq>>
<1> DEFINE P == /\ calls'[c] \in CallState
                /\ \/ calls'[c] = calls[c]
                   \/ calls'[c].queued = {}
                   \/ calls'[c].queued \subseteq Open /\ calls'[c].pc # "answered"
                   \/ /\ calls'[c].queued = calls[c].queued
                      /\ calls'[c].ids = lastWebsocketId
                      /\ calls'[c].matches = [u \in User |-> users[u].match_id]
                      /\ UNCHANGED <<websocketId, since, playersOf, matchSeq>>
<1>0. /\ calls \in [Call -> CallState] /\ connections \subseteq Socket
      /\ lastWebsocketId \in [User -> Nat] /\ users \in [User -> DB!UserRow]
  BY DEF ServerInv, TypeOK
<1>1. CASE calls'[c] = calls[c] BY <1>0, <1>1
<1>2. Idle \in CallState /\ Idle.queued = {} BY DEF Idle, CallState
<1>3. CASE calls' = [calls EXCEPT ![c] = Idle] BY <1>0, <1>2, <1>3
<1>4. ASSUME NEW d \in Call, calls' = [calls EXCEPT ![d] = Idle] PROVE P
  BY <1>0, <1>1, <1>3, <1>4
<1>5. ASSUME NEW d \in Call, NEW pc \in {"extend", "poll"}, Start(d, pc) PROVE P
  <2>1. CASE c = d
    <3>1. calls'[c] = [Idle EXCEPT !.pc = pc, !.queued = connections \cap Open]
      BY <1>0, <1>5, <2>1 DEF Start
    <3>2. calls'[c] = [pc |-> pc, queued |-> connections \cap Open, ids |-> Idle.ids, matches |-> Idle.matches]
      BY <3>1 DEF Idle
    <3>3. Idle.ids \in [User -> Nat] /\ Idle.matches \in [User -> Match \cup {DB!Null}]
      BY <1>2 DEF CallState
    <3>4. calls'[c] \in CallState BY <1>0, <3>2, <3>3 DEF CallState
    <3> QED BY <3>2, <3>4
  <2>2. CASE c # d BY <1>0, <1>1, <1>5, <2>2 DEF Start
  <2> QED BY <2>1, <2>2
<1>6. ASSUME NEW d \in Call, GetConnectionStatuses(d) PROVE P
  <2>1. CASE c = d
    <3>1. calls'[c] = [pc |-> "answered", queued |-> calls[c].queued, ids |-> lastWebsocketId,
                       matches |-> [u \in User |-> users[u].match_id]]
      BY <1>0, <1>6, <2>1 DEF GetConnectionStatuses
    <3>2. calls[c].queued \in SUBSET Socket BY <1>0 DEF CallState
    <3>3. [u \in User |-> users[u].match_id] \in [User -> Match \cup {DB!Null}]
      BY <1>0 DEF DB!UserRow
    <3>4. calls'[c] \in CallState BY <1>0, <3>1, <3>2, <3>3 DEF CallState
    <3> QED BY <1>6, <3>1, <3>4 DEF GetConnectionStatuses
  <2>2. CASE c # d BY <1>0, <1>1, <1>6, <2>2 DEF GetConnectionStatuses
  <2> QED BY <2>1, <2>2
<1>7. CASE UNCHANGED calls BY <1>1, <1>7
<1> QED
  BY <1>4, <1>5, <1>6, <1>7
  DEF Next, Accept, OnConnection, Authenticated, SetQueueStatus, SetQueueStatusFails,
     RejectInMatch, RejectClosed, RejectOlder, Register, Leave, SocketClosed, Terminated,
     RemoveQueueStatus, RemoveQueueStatusFails, ExtendQueues, OnPull, ExtendQueueStatuses,
     PullFinished, CallFails, Close, GatherMatchPlayers, AddMatch,
     RemoveMatchStatus, SetupMatchmaking, QueueLapses, serverVars, vars

\* A match keeps its number and its players.
LEMMA MatchesKept ==
  ASSUME ServerInv, [Next]_vars, NEW m \in Match, m <= matchSeq
  PROVE  m <= matchSeq' /\ playersOf'[m] = playersOf[m]
<1>0. matchSeq \in 0 .. MaxMatches /\ MaxMatches \in Nat /\ playersOf \in [Match -> SUBSET User]
  BY DEF ServerInv, TypeOK
<1>1. CASE AddMatch
  <2>1. matchSeq' = matchSeq + 1 /\ playersOf' = [playersOf EXCEPT ![matchSeq + 1] = round]
    BY <1>1 DEF AddMatch
  <2> QED BY <1>0, <2>1
<1>2. CASE ~ AddMatch BY <1>2, MatchSeqStep
<1> QED BY <1>1, <1>2

LEMMA AnswersStep == ASSUME ServerInv, [Next]_vars PROVE Answers'
<1>0. /\ TypeOK /\ Ids /\ MatchesOfRows /\ Answers
      /\ Login \in [Socket -> User] /\ websocketId \in [Socket -> Nat]
      /\ users \in [User -> DB!UserRow] /\ calls \in [Call -> CallState]
  BY DEF ServerInv, TypeOK
<1> SUFFICES ASSUME NEW c \in Call, NEW s \in calls'[c].queued
             PROVE  /\ websocketId'[s] > 0
                    /\ LET m == calls'[c].matches[Login[s]] IN
                         calls'[c].pc = "answered" /\ calls'[c].ids[Login[s]] = websocketId'[s]
                         /\ m # DB!Null =>
                           m <= matchSeq' /\ Login[s] \in playersOf'[m] /\ m > since'[s]
  BY DEF Answers
<1>1. s \in Socket /\ calls'[c].matches[Login[s]] \in Match \cup {DB!Null}
  BY <1>0, CallsStep DEF CallState
<1>2. ASSUME websocketId[s] > 0
      PROVE  websocketId'[s] = websocketId[s] /\ since'[s] = since[s]
  BY <1>0, <1>1, <1>2, IdsKept
<1>3. CASE calls'[c] = calls[c]
  <2>1. websocketId[s] > 0 BY <1>0, <1>3 DEF Answers
  <2> QED BY <1>0, <1>1, <1>2, <1>3, <2>1, MatchesKept DEF Answers
<1>4. CASE calls'[c].queued \subseteq Open /\ calls'[c].pc # "answered"
  BY <1>0, <1>1, <1>2, <1>4 DEF Ids, Open
<1>5. CASE /\ calls'[c].queued = calls[c].queued
           /\ calls'[c].ids = lastWebsocketId
           /\ calls'[c].matches = [u \in User |-> users[u].match_id]
           /\ UNCHANGED <<websocketId, since, playersOf, matchSeq>>
  <2>1. websocketId[s] > 0 BY <1>0, <1>5 DEF Answers
  <2>2. Login[s] \in User BY <1>0, <1>1
  <2>3. calls'[c].ids[Login[s]] = websocketId'[s] => Newest(s) BY <1>5 DEF Newest
  <2>4. calls'[c].matches[Login[s]] = users[Login[s]].match_id BY <1>5, <2>2
  <2> QED BY <1>0, <1>1, <1>5, <2>1, <2>2, <2>3, <2>4 DEF MatchesOfRows
<1> QED BY <1>3, <1>4, <1>5, CallsStep

\* A websocket is told what the poll was answered about it.
LEMMA ToldStep ==
  ASSUME ServerInv, [Next]_vars, NEW s \in Socket, told'[s] # told[s]
  PROVE  /\ told'[s] \in Match /\ told'[s] <= matchSeq
         /\ websocketId[s] > 0
         /\ Login[s] \in playersOf[told'[s]] /\ told'[s] > since[s]
<1>0. /\ Answers /\ Ids /\ Login \in [Socket -> User] /\ calls \in [Call -> CallState]
  BY DEF ServerInv, TypeOK
<1>1. PICK c \in Call : PullFinished(c)
  BY DEF Next, Accept, OnConnection, Authenticated, SetQueueStatus, SetQueueStatusFails,
     RejectInMatch, RejectClosed, RejectOlder, Register, Leave, SocketClosed, Terminated,
     RemoveQueueStatus, RemoveQueueStatusFails, ExtendQueues, OnPull, Start, ExtendQueueStatuses,
     GetConnectionStatuses, CallFails, Close, GatherMatchPlayers, AddMatch,
     RemoveMatchStatus, SetupMatchmaking, QueueLapses, serverVars, vars
<1>2. /\ calls[c].pc = "answered" /\ s \in Matched(c)
      /\ told'[s] = calls[c].matches[Login[s]]
  BY <1>1 DEF PullFinished
<1>3. /\ s \in calls[c].queued /\ calls[c].ids[Login[s]] = websocketId[s]
      /\ calls[c].matches[Login[s]] # DB!Null
  BY <1>2 DEF Matched, Replaced
<1>4. calls[c].matches[Login[s]] \in Match \cup {DB!Null} BY <1>0 DEF CallState
<1> QED BY <1>0, <1>2, <1>3, <1>4 DEF Answers

\* What a websocket was told stays true of it.
LEMMA ToldOwnMatchStep == ASSUME ServerInv, [Next]_vars PROVE ToldBefore' /\ ToldOwnMatch'
<1>0. /\ ToldBefore /\ ToldOwnMatch /\ told \in [Socket -> Match \cup {DB!Null}]
      /\ websocketId \in [Socket -> Nat]
  BY DEF ServerInv, TypeOK
<1> SUFFICES ASSUME NEW s \in Socket, told'[s] # DB!Null
             PROVE  /\ told'[s] <= matchSeq' /\ websocketId'[s] > 0
                    /\ Login[s] \in playersOf'[told'[s]] /\ told'[s] > since'[s]
  BY DEF ToldBefore, ToldOwnMatch
<1>1. /\ told'[s] \in Match /\ told'[s] <= matchSeq
      /\ websocketId[s] > 0
      /\ Login[s] \in playersOf[told'[s]] /\ told'[s] > since[s]
  <2>1. CASE told'[s] = told[s] BY <1>0, <2>1 DEF ToldBefore, ToldOwnMatch
  <2>2. CASE told'[s] # told[s] BY <2>2, ToldStep
  <2> QED BY <2>1, <2>2
<1>2. websocketId'[s] = websocketId[s] /\ since'[s] = since[s] BY <1>0, <1>1, IdsKept
<1> QED BY <1>1, <1>2, MatchesKept

-----------------------------------------------------------------------------
(* Types *)

\* The rows of users.
LEMMA UsersType == ASSUME ServerInv, [Next]_vars PROVE users' \in [User -> DB!UserRow]
<1>0. /\ TypeOK /\ users \in [User -> DB!UserRow] /\ Login \in [Socket -> User]
      /\ matchSeq \in 0 .. MaxMatches /\ MaxMatches \in Nat /\ MatchesOfRows
  BY DEF ServerInv, TypeOK
<1>1. ASSUME NEW s \in Socket, SetQueueStatus(s) \/ RemoveQueueStatus(s)
      PROVE  users' \in [User -> DB!UserRow]
  <2>1. Login[s] \in User BY <1>0
  <2>2. /\ DB!setQueueStatus(users, Login[s]) \in [User -> DB!UserRow]
        /\ DB!removeQueueStatus(users, Login[s]) \in [User -> DB!UserRow]
    BY <1>0, <2>1, Statements
  <2>3. CASE SetQueueStatus(s) BY <1>0, <2>2, <2>3 DEF SetQueueStatus
  <2>4. CASE RemoveQueueStatus(s) BY <1>0, <2>2, <2>4 DEF RemoveQueueStatus
  <2> QED BY <1>1, <2>3, <2>4
<1>2. ASSUME NEW c \in Call, ExtendQueueStatuses(c) PROVE users' \in [User -> DB!UserRow]
  <2>1. \A u \in User : DB!extendQueueStatus(users, u)[u] \in DB!UserRow
    <3>1. \A u \in User : [users[u] EXCEPT !.queued_until = "ahead"] \in DB!UserRow
      BY <1>0, RowUpdates
    <3>2. \A u \in User : DB!extendQueueStatus(users, u)[u] =
            IF users[u].match_id = DB!Null /\ users[u].queued_until # "null"
            THEN [users[u] EXCEPT !.queued_until = "ahead"] ELSE users[u]
      BY <1>0, Statements
    <3> QED BY <1>0, <3>1, <3>2
  <2> QED BY <1>0, <1>2, <2>1 DEF ExtendQueueStatuses
<1>3. CASE AddMatch
  <2>1. matchSeq + 1 \in Match BY <1>0, <1>3 DEF MatchesOfRows, AddMatch
  <2>2. \A u \in User : [users[u] EXCEPT !.match_id = matchSeq + 1, !.queued_until = "null"] \in DB!UserRow
    BY <1>0, <2>1, RowUpdates
  <2> QED BY <1>0, <1>3, <2>2 DEF AddMatch, DB!AddMatchUsers
<1>4. ASSUME NEW m \in Match, RemoveMatchStatus(m) PROVE users' \in [User -> DB!UserRow]
  <2>1. DB!Inactive \in DB!UserRow BY DEF DB!UserRow
  <2> QED BY <1>0, <1>4, <2>1 DEF RemoveMatchStatus, DB!RemoveMatchStatus
<1>5. ASSUME NEW u \in User, QueueLapses(u) PROVE users' \in [User -> DB!UserRow]
  <2>1. users' = [users EXCEPT ![u] = [users[u] EXCEPT !.queued_until = "past"]]
    BY <1>5 DEF QueueLapses
  <2>2. [users[u] EXCEPT !.queued_until = "past"] \in DB!UserRow BY <1>0, RowUpdates
  <2> QED BY <1>0, <2>1, <2>2
<1>6. CASE users' = users BY <1>0, <1>6
<1>7. CASE SetupMatchmaking
  <2>1. DB!Inactive \in DB!UserRow BY DEF DB!UserRow
  <2> QED BY <1>7, <2>1 DEF SetupMatchmaking, DB!SetupUsers
<1> QED
  BY <1>1, <1>2, <1>3, <1>4, <1>5, <1>6, <1>7
  DEF Next, Accept, OnConnection, Authenticated, SetQueueStatusFails, RejectInMatch, RejectClosed,
      RejectOlder, Register, Leave, SocketClosed, Terminated, RemoveQueueStatusFails, ExtendQueues,
      OnPull, Start, GetConnectionStatuses, PullFinished, CallFails, Close, CloseConnections,
      GatherMatchPlayers, vars

\* The websockets, each closed with a code or not closed.
SocketsType ==
  /\ socket \in [Socket -> Phase]
  /\ code \in [Socket -> CloseCode]
  /\ \A s \in Socket : socket[s] = "CLOSED" <=> code[s] # "none"

LEMMA SocketsTypeStep == ASSUME ServerInv, [Next]_vars PROVE SocketsType'
<1>0. /\ SocketsType /\ connections = Open
      /\ socket \in [Socket -> Phase] /\ code \in [Socket -> CloseCode]
  BY DEF ServerInv, TypeOK, SocketsType, RegistryExact
<1>1. ASSUME NEW s \in Socket, NEW c \in CloseCode \ {"none"}, Reject(s, c) PROVE SocketsType'
  BY <1>0, <1>1 DEF Reject, SocketsType, Phase
<1>2. ASSUME NEW s \in Socket, NEW p \in Phase \ {"CLOSED"}, socket[s] # "CLOSED",
             socket' = [socket EXCEPT ![s] = p], code' = code
      PROVE  SocketsType'
  BY <1>0, <1>2 DEF SocketsType
<1>3. ASSUME NEW s \in Socket, OnConnection(s) \/ Authenticated(s) \/ SetQueueStatus(s)
      PROVE  SocketsType'
  BY <1>1, <1>2, <1>3 DEF OnConnection, Authenticated, SetQueueStatus, Phase, CloseCode
<1>4. ASSUME NEW s \in Socket, SetQueueStatusFails(s) \/ RejectInMatch(s) \/ RejectClosed(s) \/ RejectOlder(s)
      PROVE  SocketsType'
  BY <1>1, <1>4 DEF SetQueueStatusFails, RejectInMatch, RejectClosed, RejectOlder, CloseCode
<1>5. ASSUME NEW s \in Socket, Register(s) PROVE SocketsType'
  <2> DEFINE older == Registered(Login[s])
             closing == older \cup ({s} \cap gone)
  <2>1. /\ socket[s] = "queued" /\ older \subseteq Open
        /\ socket' = [t \in Socket |-> IF t \in closing THEN "CLOSED"
                                       ELSE IF t = s THEN "OPEN" ELSE socket[t]]
        /\ code' = [t \in Socket |-> IF t \in older THEN "4001"
                                     ELSE IF t \in closing THEN "1000" ELSE code[t]]
    BY <1>0, <1>5 DEF Register, Registered
  <2>2. socket' \in [Socket -> Phase] BY <1>0, <2>1 DEF Phase
  <2>3. code' \in [Socket -> CloseCode] BY <1>0, <2>1 DEF CloseCode
  <2>4. \A t \in Socket : socket'[t] = "CLOSED" <=> code'[t] # "none"
    BY <1>0, <2>1 DEF SocketsType
  <2> QED BY <2>2, <2>3, <2>4 DEF SocketsType
<1>6. CASE Closing
  <2>1. PICK S \in SUBSET Open, closeCode \in [Socket -> CloseCode \ {"none"}] :
          CloseConnections(S, connections, closeCode)
    BY <1>6 DEF Closing
  <2>2. socket' \in [Socket -> Phase] /\ code' \in [Socket -> CloseCode]
    BY <1>0, <2>1 DEF CloseConnections, Phase
  <2>3. \A t \in Socket : socket'[t] = "CLOSED" <=> code'[t] # "none"
    BY <1>0, <2>1 DEF CloseConnections, SocketsType
  <2> QED BY <2>2, <2>3 DEF SocketsType
<1>7. CASE UNCHANGED <<socket, code>> BY <1>0, <1>7 DEF SocketsType
<1> QED
  BY <1>3, <1>4, <1>5, <1>6, <1>7, ClosingSteps
  DEF Next, Accept, Leave, RemoveQueueStatus, RemoveQueueStatusFails, ExtendQueues, OnPull, Start,
      ExtendQueueStatuses, GetConnectionStatuses, CallFails, GatherMatchPlayers, AddMatch,
      RemoveMatchStatus, SetupMatchmaking, QueueLapses, serverVars, vars

\* The counters and what is kept of a websocket's past.
LEMMA HistoryType ==
  ASSUME ServerInv, [Next]_vars
  PROVE  /\ websocketId' \in [Socket -> Nat] /\ lastWebsocketId' \in [User -> Nat]
         /\ since' \in [Socket -> 0 .. MaxMatches]
         /\ matchSeq' \in 0 .. MaxMatches
         /\ round' \subseteq User /\ playersOf' \in [Match -> SUBSET User]
<1>0. /\ websocketId \in [Socket -> Nat] /\ lastWebsocketId \in [User -> Nat]
      /\ since \in [Socket -> 0 .. MaxMatches]
      /\ matchSeq \in 0 .. MaxMatches /\ MaxMatches \in Nat
      /\ round \subseteq User /\ playersOf \in [Match -> SUBSET User]
      /\ Login \in [Socket -> User] /\ MatchesOfRows
  BY DEF ServerInv, TypeOK
<1>1. ASSUME NEW s \in Socket, SetQueueStatus(s)
      PROVE  /\ websocketId' \in [Socket -> Nat] /\ lastWebsocketId' \in [User -> Nat]
             /\ since' \in [Socket -> 0 .. MaxMatches]
             /\ UNCHANGED <<matchSeq, round, playersOf>>
  <2>1. CASE MayQueue(Login[s])
    <3>1. /\ lastWebsocketId' = [lastWebsocketId EXCEPT ![Login[s]] = lastWebsocketId[Login[s]] + 1]
          /\ websocketId' = [websocketId EXCEPT ![s] = lastWebsocketId[Login[s]] + 1]
          /\ since' = [since EXCEPT ![s] = matchSeq]
          /\ UNCHANGED managerVars
      BY <1>1, <2>1 DEF SetQueueStatus
    <3>2. lastWebsocketId[Login[s]] + 1 \in Nat BY <1>0
    <3> QED BY <1>0, <3>1, <3>2
  <2>2. CASE ~ MayQueue(Login[s]) BY <1>0, <1>1, <2>2 DEF SetQueueStatus
  <2> QED BY <2>1, <2>2
<1>2. CASE AddMatch
  <2>1. matchSeq < MaxMatches BY <1>0, <1>2 DEF AddMatch, MatchesOfRows
  <2> QED BY <1>0, <1>2, <2>1 DEF AddMatch, serverVars
<1>3. CASE GatherMatchPlayers
  BY <1>0, <1>3 DEF GatherMatchPlayers, DB!GatherMatchPlayers, DB!Waiting, serverVars
<1>4. CASE SetupMatchmaking
  BY <1>0, <1>4 DEF SetupMatchmaking, serverVars
<1>5. CASE UNCHANGED <<websocketId, lastWebsocketId, since, matchSeq, round, playersOf>>
  BY <1>0, <1>5
<1> QED
  BY <1>0, <1>1, <1>2, <1>3, <1>4, <1>5
  DEF Next, Accept, OnConnection, Authenticated, SetQueueStatusFails, RejectInMatch, RejectClosed,
      RejectOlder, Register, Leave, SocketClosed, Terminated, RemoveQueueStatus,
      RemoveQueueStatusFails, ExtendQueues, OnPull, Start, ExtendQueueStatuses,
      GetConnectionStatuses, PullFinished, CallFails, Close, CloseConnections,
      RemoveMatchStatus, SetupMatchmaking, QueueLapses, serverVars, vars

\* The sets of websockets.
LEMMA SetsType ==
  ASSUME ServerInv, [Next]_vars
  PROVE  /\ state' \in {"OPEN", "CLOSED"} /\ gone' \subseteq Socket /\ connections' \subseteq Socket
         /\ removals' \subseteq Socket /\ missed' \subseteq Socket /\ leaked' \subseteq Socket
<1>0. /\ state \in {"OPEN", "CLOSED"} /\ gone \subseteq Socket /\ connections \subseteq Socket
      /\ removals \subseteq Socket /\ missed \subseteq Socket /\ leaked \subseteq Socket
  BY DEF ServerInv, TypeOK
<1>1. state' \in {"OPEN", "CLOSED"}
  BY <1>0
  DEF Next, Accept, OnConnection, Authenticated, SetQueueStatus, SetQueueStatusFails,
     RejectInMatch, RejectClosed, RejectOlder, Register, Leave, SocketClosed, Terminated,
     RemoveQueueStatus, RemoveQueueStatusFails, ExtendQueues, OnPull, Start, ExtendQueueStatuses,
     GetConnectionStatuses, PullFinished, CallFails, Close, GatherMatchPlayers, AddMatch,
     RemoveMatchStatus, SetupMatchmaking, QueueLapses, serverVars, vars
<1>2. CASE Closing
  BY <1>0, <1>1, <1>2, ClosingFacts DEF Open
<1>3. ASSUME NEW s \in Socket, Accept(s) \/ Leave(s) \/ RemoveQueueStatus(s) \/ RemoveQueueStatusFails(s)
      PROVE  /\ gone' \subseteq Socket /\ connections' \subseteq Socket
             /\ removals' \subseteq Socket /\ missed' \subseteq Socket /\ leaked' \subseteq Socket
  <2>1. CASE Register(s) BY <1>0, <2>1, RegisterFacts
  <2>2. CASE ~ Register(s)
    BY <1>0, <1>3, <2>2
    DEF Accept, OnConnection, Authenticated, SetQueueStatus, SetQueueStatusFails,
       RejectInMatch, RejectClosed, RejectOlder, Leave, RemoveQueueStatus, RemoveQueueStatusFails
  <2> QED BY <2>1, <2>2
<1>4. ASSUME NEW m \in Match, RemoveMatchStatus(m) PROVE missed' \subseteq Socket
  BY <1>0, <1>4 DEF RemoveMatchStatus
<1>5. CASE SetupMatchmaking BY <1>0, <1>5 DEF SetupMatchmaking, serverVars
<1> QED
  BY <1>0, <1>1, <1>2, <1>3, <1>4, <1>5, ClosingSteps
  DEF Next, ExtendQueues, OnPull, Start, ExtendQueueStatuses, GetConnectionStatuses, CallFails,
      GatherMatchPlayers, AddMatch, RemoveMatchStatus, SetupMatchmaking, QueueLapses, serverVars, vars

LEMMA TypeStep == ASSUME ServerInv, [Next]_vars PROVE TypeOK'
<1>0. /\ calls \in [Call -> CallState] /\ told \in [Socket -> Match \cup {DB!Null}]
  BY DEF ServerInv, TypeOK
<1>1. calls' \in [Call -> CallState]
  <2>1. \A c \in Call : calls'[c] \in CallState BY CallsStep
  <2>2. \E f : calls' = [c \in Call |-> f[c]]
    <3>1. calls = [c \in Call |-> calls[c]] BY <1>0
    <3>2. calls' = calls \/ \E d \in Call : \E r : calls' = [calls EXCEPT ![d] = r]
      BY DEF Next, Accept, OnConnection, Authenticated, SetQueueStatus, SetQueueStatusFails,
         RejectInMatch, RejectClosed, RejectOlder, Register, Leave, SocketClosed, Terminated,
         RemoveQueueStatus, RemoveQueueStatusFails, ExtendQueues, OnPull, Start, ExtendQueueStatuses,
         GetConnectionStatuses, PullFinished, CallFails, Close, GatherMatchPlayers, AddMatch,
         RemoveMatchStatus, SetupMatchmaking, QueueLapses, serverVars, vars
    <3> QED BY <1>0, <3>1, <3>2
  <2> QED BY <2>1, <2>2
<1>2. told' \in [Socket -> Match \cup {DB!Null}]
  <2>1. \A s \in Socket : told'[s] \in Match \cup {DB!Null} BY <1>0, ToldStep
  <2>2. told' = told \/ \E f : told' = [s \in Socket |-> f[s]]
    <3>1. ASSUME NEW c \in Call, PullFinished(c) PROVE told' = [s \in Socket |-> told'[s]]
      BY <3>1 DEF PullFinished
    <3> QED
      BY <3>1
      DEF Next, Accept, OnConnection, Authenticated, SetQueueStatus, SetQueueStatusFails,
         RejectInMatch, RejectClosed, RejectOlder, Register, Leave, SocketClosed, Terminated,
         RemoveQueueStatus, RemoveQueueStatusFails, ExtendQueues, OnPull, Start, ExtendQueueStatuses,
         GetConnectionStatuses, CallFails, Close, GatherMatchPlayers, AddMatch,
         RemoveMatchStatus, SetupMatchmaking, QueueLapses, serverVars, vars
  <2> QED BY <1>0, <2>1, <2>2
<1> QED BY <1>1, <1>2, UsersType, SocketsTypeStep, HistoryType, SetsType DEF TypeOK, SocketsType

-----------------------------------------------------------------------------
(* Theorems *)

\* Initially nobody is queued and nothing is connected.
LEMMA Initially == Init => ServerInv
<1> SUFFICES ASSUME Init PROVE ServerInv
  OBVIOUS
<1>0. PlayersPerRoom \in Nat \ {0} /\ MaxMatches \in Nat /\ Login \in [Socket -> User]
  OBVIOUS
<1>1. DB!Inactive \in DB!UserRow /\ Idle \in CallState
  BY DEF DB!UserRow, Idle, CallState
<1>2. TypeOK
  <2>1. users \in [User -> DB!UserRow] /\ calls \in [Call -> CallState] BY <1>1 DEF Init
  <2> QED BY <1>0, <2>1 DEF Init, TypeOK, Phase, CloseCode
<1>3. Ids /\ RegistryExact /\ Answers /\ ToldBefore /\ ToldOwnMatch
  BY <1>0 DEF Init, Ids, RegistryExact, Open, Answers, Idle, ToldBefore, ToldOwnMatch
<1>4. QueuedHasOwner /\ NewestIsQueued /\ MatchedNotQueued /\ MatchesOfRows
  BY <1>0 DEF Init, QueuedHasOwner, NewestIsQueued, MatchedNotQueued, MatchesOfRows
<1> QED BY <1>2, <1>3, <1>4 DEF ServerInv

\* The inductive invariant the following theorems are read off.
THEOREM ServerInvariance == Spec => []ServerInv
<1>1. ASSUME ServerInv, [Next]_vars PROVE ServerInv'
  BY <1>1, TypeStep, IdsStep, RegistryStep, QueuedHasOwnerStep, NewestIsQueuedStep,
     MatchedNotQueuedStep, MatchesOfRowsStep, AnswersStep, ToldOwnMatchStep DEF ServerInv
<1> QED BY <1>1, Initially, PTL DEF Spec

\* The manager there: it gathers a round of users that are in no match, and the
\* matches it has not made have no players.
Rounds ==
  /\ round # {} => Cardinality(round) = PlayersPerRoom
  /\ \A u \in round : users[u].match_id = DB!Null
  /\ \A m \in Match : playersOf[m] # {} => m <= matchSeq

\* Each instance has a Cardinality of its own.
LEMMA SameCardinality ==
  \A S : DB!Cardinality(S) = Cardinality(S) /\ Shared!Cardinality(S) = Cardinality(S)
<1>1. \A S : DB!Cardinality(S) = Cardinality(S) BY DEF DB!Cardinality, Cardinality
<1>2. \A S : Shared!Cardinality(S) = Cardinality(S) BY DEF Shared!Cardinality, Cardinality
<1> QED BY <1>1, <1>2

LEMMA RoundsStep == ASSUME ServerInv, Rounds, [Next]_vars PROVE Rounds'
<1>0. /\ TypeOK /\ round \subseteq User /\ playersOf \in [Match -> SUBSET User]
      /\ matchSeq \in 0 .. MaxMatches /\ MaxMatches \in Nat
  BY DEF ServerInv, TypeOK
<1>1. CASE AddMatch
  <2>1. /\ round' = {} /\ matchSeq' = matchSeq + 1
        /\ playersOf' = [playersOf EXCEPT ![matchSeq + 1] = round]
    BY <1>1 DEF AddMatch
  <2> QED BY <1>0, <2>1 DEF Rounds
<1>2. CASE GatherMatchPlayers
  <2>1. /\ round' \in DB!GatherMatchPlayers(users)
        /\ UNCHANGED <<users, playersOf, matchSeq>>
    BY <1>2 DEF GatherMatchPlayers
  <2>2. /\ Cardinality(round') = PlayersPerRoom
        /\ \A u \in round' : users[u].match_id = DB!Null
    BY <2>1, SameCardinality DEF DB!GatherMatchPlayers, DB!Waiting
  <2> QED BY <2>1, <2>2 DEF Rounds
<1>3. CASE SetupMatchmaking
  BY <1>3 DEF SetupMatchmaking, Rounds
<1>4. CASE UNCHANGED managerVars
  <2>1. ~ AddMatch BY <1>0, <1>4 DEF AddMatch
  <2>2. \A u \in round : users'[u].match_id = DB!Null
    <3>1. SUFFICES ASSUME NEW u \in round PROVE users'[u].match_id = DB!Null
      OBVIOUS
    <3>2. u \in User /\ users[u].match_id = DB!Null BY <1>0 DEF Rounds
    <3> QED BY <2>1, <3>2, RowsStep
  <2> QED BY <1>4, <2>2 DEF Rounds
<1> QED
  BY <1>1, <1>2, <1>3, <1>4
  DEF Next, Accept, OnConnection, Authenticated, SetQueueStatus, SetQueueStatusFails,
     RejectInMatch, RejectClosed, RejectOlder, Register, Leave, SocketClosed, Terminated,
     RemoveQueueStatus, RemoveQueueStatusFails, ExtendQueues, OnPull, Start, ExtendQueueStatuses,
     GetConnectionStatuses, PullFinished, CallFails, Close,
     RemoveMatchStatus, QueueLapses, vars

\* A step that leaves queue and matches alone.
LEMMA ViewsKept ==
  ASSUME \A u \in User : /\ users'[u].match_id = users[u].match_id
                         /\ users'[u].queued_until # "null" <=> users[u].queued_until # "null",
         UNCHANGED playersOf
  PROVE  UNCHANGED Shared!vars
<1>1. WaitingView' = WaitingView BY DEF WaitingView
<1>2. PlayingView' = PlayingView BY DEF PlayingView
<1> QED BY <1>1, <1>2 DEF Shared!vars

\* Each step is one of the contract or changes nothing it speaks of.
LEMMA SharedStep == ASSUME ServerInv, Rounds, [Next]_vars PROVE [Shared!Next]_(Shared!vars)
<1>0. /\ TypeOK /\ users \in [User -> DB!UserRow] /\ Login \in [Socket -> User]
      /\ MatchedNotQueued /\ MatchesOfRows
      /\ round \subseteq User /\ playersOf \in [Match -> SUBSET User]
      /\ matchSeq \in 0 .. MaxMatches /\ MaxMatches \in Nat
      /\ \A u \in User : users[u].match_id \in Match \cup {DB!Null}
  BY DEF ServerInv, TypeOK, DB!UserRow
<1>r. ASSUME NEW u \in User
      PROVE  /\ \A q \in {"null", "ahead", "past"} :
                  /\ [users[u] EXCEPT !.queued_until = q].match_id = users[u].match_id
                  /\ [users[u] EXCEPT !.queued_until = q].queued_until = q
             /\ [users[u] EXCEPT !.match_id = matchSeq + 1, !.queued_until = "null"].match_id
                  = matchSeq + 1
             /\ [users[u] EXCEPT !.match_id = matchSeq + 1, !.queued_until = "null"].queued_until
                  = "null"
  BY <1>0, RowColumns
<1>1. ASSUME NEW s \in Socket, SetQueueStatus(s), MayQueue(Login[s]) PROVE Shared!Next
  <2>1. users' = DB!setQueueStatus(users, Login[s]) /\ users[Login[s]].match_id = DB!Null
    BY <1>1 DEF SetQueueStatus, MayQueue
  <2>2. \A u \in User : users'[u] = IF u = Login[s] THEN [users[u] EXCEPT !.queued_until = "ahead"]
                                    ELSE users[u]
    BY <1>0, <2>1, Statements
  <2>3. UNCHANGED playersOf BY <1>1 DEF SetQueueStatus
  <2>v. \A u \in User : /\ users'[u].match_id = users[u].match_id
                        /\ users'[u].queued_until =
                             IF u = Login[s] THEN "ahead" ELSE users[u].queued_until
    BY <1>r, <2>2
  <2>4. PlayingView' = PlayingView BY <2>v DEF PlayingView
  <2>5. WaitingView' = WaitingView \cup {Login[s]} BY <1>0, <2>v DEF WaitingView
  <2>6. PlayingView[Login[s]] = Shared!NoMatch BY <1>0, <2>1 DEF PlayingView, Shared!NoMatch
  <2> QED BY <1>0, <2>3, <2>4, <2>5, <2>6 DEF Shared!Next, Shared!Queue
<1>2. ASSUME NEW s \in Socket, RemoveQueueStatus(s), Newest(s), users[Login[s]].match_id = DB!Null
      PROVE  Shared!Next
  <2>1. users' = DB!removeQueueStatus(users, Login[s])
    BY <1>2 DEF RemoveQueueStatus, Removes
  <2>2. \A u \in User : users'[u] = IF u = Login[s] /\ users[u].match_id = DB!Null
                                    THEN [users[u] EXCEPT !.queued_until = "null"] ELSE users[u]
    BY <1>0, <2>1, Statements
  <2>3. UNCHANGED playersOf BY <1>2 DEF RemoveQueueStatus
  <2>v. \A u \in User : /\ users'[u].match_id = users[u].match_id
                        /\ users'[u].queued_until =
                             IF u = Login[s] THEN "null" ELSE users[u].queued_until
    <3> SUFFICES ASSUME NEW u \in User
                 PROVE  /\ users'[u].match_id = users[u].match_id
                        /\ users'[u].queued_until =
                             IF u = Login[s] THEN "null" ELSE users[u].queued_until
      OBVIOUS
    <3>1. CASE u = Login[s]
      <4>1. users'[u] = [users[u] EXCEPT !.queued_until = "null"] BY <1>2, <2>2, <3>1
      <4> QED BY <1>r, <3>1, <4>1
    <3>2. CASE u # Login[s] BY <2>2, <3>2
    <3> QED BY <3>1, <3>2
  <2>4. PlayingView' = PlayingView BY <2>v DEF PlayingView
  <2>5. WaitingView' = WaitingView \ {Login[s]} BY <1>0, <2>v DEF WaitingView
  <2>6. PlayingView[Login[s]] = Shared!NoMatch BY <1>0, <1>2 DEF PlayingView, Shared!NoMatch
  <2> QED BY <1>0, <2>3, <2>4, <2>5, <2>6 DEF Shared!Next, Shared!Unqueue
<1>3. ASSUME NEW s \in Socket, RemoveQueueStatus(s), ~ Newest(s) \/ users[Login[s]].match_id # DB!Null
      PROVE  UNCHANGED Shared!vars
  <2>1. \A u \in User : users'[u] = users[u]
    <3>1. CASE ~ Newest(s) BY <1>3, <3>1 DEF RemoveQueueStatus, Removes
    <3>2. CASE users[Login[s]].match_id # DB!Null
      BY <1>0, <1>3, <3>2, Statements DEF RemoveQueueStatus
    <3> QED BY <1>3, <3>1, <3>2
  <2>2. UNCHANGED playersOf BY <1>3 DEF RemoveQueueStatus
  <2> QED BY <2>1, <2>2, ViewsKept
<1>4. ASSUME NEW c \in Call, ExtendQueueStatuses(c) PROVE UNCHANGED Shared!vars
  <2>1. \A u \in User : users'[u] = users[u] \/ users'[u] = DB!extendQueueStatus(users, u)[u]
    BY <1>4 DEF ExtendQueueStatuses
  <2>2. \A u \in User : \/ users'[u] = users[u]
                         \/ /\ users[u].queued_until # "null"
                            /\ users'[u] = [users[u] EXCEPT !.queued_until = "ahead"]
    BY <1>0, <2>1, Statements
  <2>3. UNCHANGED playersOf BY <1>4 DEF ExtendQueueStatuses
  <2> QED BY <1>r, <2>2, <2>3, ViewsKept
<1>5. CASE AddMatch
  <2>1. /\ round # {} /\ playersOf' = [playersOf EXCEPT ![matchSeq + 1] = round]
        /\ users' = DB!AddMatchUsers(users, round, matchSeq + 1)
    BY <1>5 DEF AddMatch
  <2>2. matchSeq + 1 \in Match BY <1>0, <2>1 DEF MatchesOfRows
  <2>3. \A u \in User :
          users'[u] = IF u \in round
                      THEN [users[u] EXCEPT !.match_id = matchSeq + 1, !.queued_until = "null"]
                      ELSE users[u]
    BY <2>1 DEF DB!AddMatchUsers
  <2>4. PlayingView' = [u \in User |-> IF u \in round THEN matchSeq + 1 ELSE PlayingView[u]]
    BY <1>r, <2>3 DEF PlayingView
  <2>5. WaitingView' = WaitingView \ round BY <1>0, <1>r, <2>3 DEF WaitingView
  <2>6. \A u \in round : PlayingView[u] = Shared!NoMatch
    BY <1>0 DEF Rounds, PlayingView, Shared!NoMatch
  <2>7. \A l \in Match : playersOf[l] # {} => l < matchSeq + 1 BY <1>0 DEF Rounds
  <2>8. Shared!Cardinality(round) = PlayersPerRoom BY <2>1, SameCardinality DEF Rounds
  <2>9. Shared!MakeMatch(matchSeq + 1, round)
    BY <2>1, <2>4, <2>5, <2>6, <2>7, <2>8 DEF Shared!MakeMatch
  <2> QED BY <1>0, <2>2, <2>9 DEF Shared!Next
<1>6. ASSUME NEW m \in Match, RemoveMatchStatus(m) PROVE Shared!Next
  <2>1. \A u \in User : users'[u] = IF users[u].match_id = m THEN DB!Inactive ELSE users[u]
    BY <1>6 DEF RemoveMatchStatus, DB!RemoveMatchStatus
  <2>2. PlayingView' = [u \in User |-> IF PlayingView[u] = m THEN Shared!NoMatch ELSE PlayingView[u]]
    BY <2>1 DEF PlayingView, Shared!NoMatch
  <2>3. WaitingView' = WaitingView BY <1>0, <2>1 DEF WaitingView, MatchedNotQueued
  <2>4. UNCHANGED playersOf BY <1>6 DEF RemoveMatchStatus
  <2> QED BY <2>2, <2>3, <2>4 DEF Shared!Next, Shared!Release
<1>7. CASE SetupMatchmaking
  <2>1. \A u \in User : users'[u] = DB!Inactive BY <1>7 DEF SetupMatchmaking, DB!SetupUsers
  <2>2. PlayingView' = [u \in User |-> Shared!NoMatch] /\ WaitingView' = {}
    BY <2>1 DEF PlayingView, WaitingView, Shared!NoMatch
  <2>3. UNCHANGED playersOf BY <1>7 DEF SetupMatchmaking
  <2> QED BY <2>2, <2>3 DEF Shared!Next, Shared!Setup
<1>8. ASSUME NEW v \in User, QueueLapses(v) PROVE UNCHANGED Shared!vars
  <2>1. /\ users[v].queued_until = "ahead"
        /\ users' = [users EXCEPT ![v] = [users[v] EXCEPT !.queued_until = "past"]]
        /\ UNCHANGED playersOf
    BY <1>8 DEF QueueLapses, managerVars
  <2>2. \A u \in User : users'[u] = IF u = v THEN [users[v] EXCEPT !.queued_until = "past"]
                                    ELSE users[u]
    BY <1>0, <2>1
  <2> QED BY <1>r, <2>1, <2>2, ViewsKept
<1>9. ASSUME UNCHANGED <<users, playersOf>> PROVE UNCHANGED Shared!vars
  BY <1>9, ViewsKept
<1>10. CASE Closing BY <1>9, <1>10 DEF Closing
<1>11. ASSUME NEW s \in Socket, SetQueueStatus(s), ~ MayQueue(Login[s])
       PROVE  UNCHANGED <<users, playersOf>>
  BY <1>11 DEF SetQueueStatus
<1> QED
  BY <1>1, <1>2, <1>3, <1>4, <1>5, <1>6, <1>7, <1>8, <1>9, <1>10, <1>11, ClosingSteps
  DEF Next, Accept, OnConnection, Authenticated, SetQueueStatusFails, RejectInMatch, RejectClosed,
      RejectOlder, Register, Leave, RemoveQueueStatusFails, ExtendQueues, OnPull, Start,
      GetConnectionStatuses, CallFails, GatherMatchPlayers, vars

\* The API implements UserWaits with the server manager in its environment: late
\* answers, overlapping timers and stale close events never change the row of a
\* user in a match.
THEOREM ServerKeepsUserWaits == Spec => KeepsUserWaits
<1>1. Init => Shared!Init
  BY DEF Init, Shared!Init, Shared!NoMatch, WaitingView, PlayingView
<1>2. Init => Rounds
  BY DEF Init, Rounds
<1>3. ServerInv /\ Rounds /\ [Next]_vars => Rounds' /\ [Shared!Next]_(Shared!vars)
  BY RoundsStep, SharedStep
<1> QED BY <1>1, <1>2, <1>3, ServerInvariance, PTL DEF Spec, KeepsUserWaits, Shared!Spec

\* The registry is the set of the open connections, one per login, however
\* answers, polls and close events interleave.
THEOREM RegistryIsExact == Spec => []RegistryExact
<1>1. ServerInv => RegistryExact BY DEF ServerInv
<1> QED BY <1>1, ServerInvariance, PTL

\* Nobody is left in the queue without a websocket or a statement that ends the
\* wait, but for the leaks on record.
THEOREM QueuedUsersHaveOwners == Spec => []QueuedHasOwner
<1>1. ServerInv => QueuedHasOwner BY DEF ServerInv
<1> QED BY <1>1, ServerInvariance, PTL

\* The removeQueueStatus of a stale connection does not unqueue a newer one.
THEOREM NewestWebsocketsAreQueued == Spec => []NewestIsQueued
<1>1. ServerInv => NewestIsQueued BY DEF ServerInv
<1> QED BY <1>1, ServerInvariance, PTL

\* However late a poll is answered, a websocket is told a match of its own user
\* and of its own wait.
THEOREM WebsocketsAreToldTheirMatch == Spec => []ToldOwnMatch
<1>1. ServerInv => ToldOwnMatch BY DEF ServerInv
<1> QED BY <1>1, ServerInvariance, PTL

\* Type correctness; whatever is given up is closed with a code.
THEOREM ServerTypes == Spec => []TypeOK
<1>1. ServerInv => TypeOK BY DEF ServerInv
<1> QED BY <1>1, ServerInvariance, PTL

\* In the registry an older websocket never takes the place of a newer one.
THEOREM NewerWebsocketsWin == Spec => ReplacedByNewer
<1>1. ASSUME ServerInv, [Next]_vars, NEW s \in connections, NEW t \in connections',
             Login[s] = Login[t], s # t
      PROVE  websocketId[t] > websocketId[s]
  <2>0. RegistryExact /\ connections \subseteq Socket BY <1>1 DEF ServerInv, TypeOK
  <2>1. t \notin connections BY <1>1, <2>0 DEF RegistryExact
  <2>2. PICK v \in Socket : Register(v)
    <3>1. CASE Closing BY <1>1, <2>1, <3>1, ClosingFacts
    <3> QED
      BY <1>1, <2>1, <3>1, ClosingSteps
      DEF Next, Accept, OnConnection, Authenticated, SetQueueStatus, SetQueueStatusFails,
          RejectInMatch, RejectClosed, RejectOlder, Leave, RemoveQueueStatus, RemoveQueueStatusFails,
          ExtendQueues, OnPull, Start, ExtendQueueStatuses, GetConnectionStatuses, CallFails,
          GatherMatchPlayers, AddMatch, RemoveMatchStatus, SetupMatchmaking, QueueLapses, serverVars, vars
  <2>3. t = v BY <1>1, <2>1, <2>2, RegisterFacts
  <2>4. websocketId[s] < websocketId[v] BY <1>1, <2>2, <2>3, RegisterFacts
  <2>5. websocketId \in [Socket -> Nat] BY <1>1 DEF ServerInv, TypeOK
  <2> QED BY <2>0, <2>3, <2>4, <2>5
<1>2. ServerInv /\ [Next]_vars =>
        [\A s \in connections, t \in connections' :
           Login[s] = Login[t] /\ s # t => websocketId[t] > websocketId[s]]_vars
  BY <1>1
<1> QED BY <1>2, ServerInvariance, PTL DEF Spec, ReplacedByNewer
=============================================================================
