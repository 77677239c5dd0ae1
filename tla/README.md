# LobbyLab in TLA+

LobbyLab is a matchmaking platform. Users log in to a web API and open a
websocket to wait for a match; a server manager watches the database for waiting
users, starts matches on a pool of game-server containers, and writes the
results back. This directory holds a model of that program, the TLC runs that
check it and the TLAPS proofs about it.

## The system

| Component | Source | State it keeps | Operations |
| --- | --- | --- | --- |
| Worker manager | `server-manager/app/mgr.go`, `worker.go` | the workers under the mutex `mu`, the condition variable `newfreeWorker`, the channel `saveResultChan` | `Start`, `Shutdown`; `WaitForFreeWorker`, `AssignMatch`; the loops `resultLoop`, `healthLoop`, `saveLoop`; one `restartWorker` goroutine per restart |
| Matchmaker | `server-manager/app/matchmaker.go`, `run.go` | the players of the current round | `Start` with `SetupMatchmaking`; `matchmakingLoop`: gather, tokens, next id, assign, add; `Shutdown` |
| Database | `server-manager/adapters/db.go`, `api/src/lib/db.js`, `init.sql` | `users` (`match_id`, `queued_until`, `match_auth_token`, `last_websocket_id`), `matches`, `user_matches`, `sessions` | one statement or transaction per function |
| Broker | NATS, through `server-manager/adapters/broker.go` and `game-server/host/adapters/broker.go` | the `RESULT` stream and its consumer; the subscription buffers | assign (request/reply), health ping, result stream |
| Docker | through `server-manager/adapters/docker.go` | the containers | spawn, restart, remove, port lookup |
| Game server host | `game-server/host/app`, `adapters/exec.go`, `waiter.go` | the executor, the running game process and its group | take a job, run the game, stop it, publish a result or a cancel |
| Connection server | `api/src/lib/server/server.js`, `connection.js` | the connections by login, their state, ping counters | accept, poll, extend, replace, close |
| Home page | `api/src/routes/+page.svelte` | the waiting state, its websocket and its timer | play, cancel, the websocket's events, leave and reload |
| API routes | `api/src/routes/api` | the session cookie | register, log in and out, results, download |

How they interact. The manager and the matchmaker share a process: the
matchmaker calls the manager, and the manager's three loops share its workers.
The manager and the game servers talk through the broker only. The server
manager and the API never talk to each other: they read and write the same
tables. The matchmaker, `saveLoop` and the API each have a database connection
of their own, so that their statements interleave.

What is hard here:

- results, cancellations, restarts and assignments of the same worker come from
  four kinds of goroutines; `mu` is held across blocking calls in two places
  (the broker request of `AssignMatch`, the send of a cancellation in
  `healthCheck`), and deliberately not held in another (the send of a result);
- a restart may outlive the state it was started for;
- the broker delivers a result again when its acknowledgment is lost, and a game
  server may publish both a success and a cancellation of one match;
- a match is started on a game server before it is written to the database;
- players are read, given tokens and put into a match in separate statements,
  and the API works on the same rows in between;
- neither of `saveLoop`'s two statements is retried;
- the API works on what it read before an `await`: a websocket closes, is
  replaced, or the server is closed while a statement is under way, two polls
  overlap, and the statements of two websockets of one login take effect in any
  order;
- the watchdog of a websocket has two timers that are not related to each other,
  and a client that may answer late, twice or never;
- a signal finds every goroutine somewhere else, and `Shutdown` takes the
  connections away before it waits for the loops;
- a manager that starts again meets what the last one left: rows, users in
  matches, containers whose names are taken, and the whole result stream;
- a game's process exits, ignores signals and leaves children while the host
  starts, stops and answers for it;
- the home page drops websockets whose events are still to come.

`PROJECT.json` lists these and the other hazards under "hazards", each at its
line, with the properties that watch it.

## The modules

| Module | Models |
| --- | --- |
| `Worker` | the `Worker` struct: its state changes and its health as operators |
| `WorkerManager` | the manager's goroutines, and the broker, Docker and the game servers as the manager meets them |
| `MatchDispatch` | abstract: what the manager promises. One match per slot, each dispatched at most once, a slot vacated only with its match reported |
| `WorkerManager_proofs` | the proofs about `WorkerManager` |
| `MatchDatabase` | the statements on `users` and `matches` as functions from tables to tables |
| `UserWaits` | abstract: what the API and the server manager promise each other about `users`: who waits, who plays, and who may change which |
| `Lobby` | composition: `WorkerManager` with the matchmaker, `saveLoop`'s statements and the API's statements on the queue |
| `Lobby_proofs` | the proofs about `Lobby` |
| `ConnectionServer` | the matchmaking endpoint of the API: the registry of connections, websocket ids, both timers, and the rows of `users` as the server manager changes them |
| `ConnectionServer_proofs` | the proofs about `ConnectionServer` |
| `Connection` | one websocket of the API with its ping and pong watchdog, and its client |
| `Connection_proofs` | the proofs about `Connection` |
| `ManagerShutdown` | `WorkerManager` with `app.Run`, its context, and both `Shutdown` functions |
| `ManagerShutdown_proofs` | the proofs about `ManagerShutdown` |
| `ManagerRestart` | the server manager over several lives: `Start`, what it finds, and the replay of the stream |
| `ManagerRestart_proofs` | the proofs about `ManagerRestart` |
| `MatchOutcome` | abstract: what a game server owes the rest of the system, seen on the broker |
| `GameServer` | one game server container: the loop of the host, its executor, the game's process, signals and kills |
| `GameServer_proofs` | the proofs about `GameServer` |
| `HomePage` | the page's `Matchmaking` and `Timer` and the websockets they open |
| `HomePage_proofs` | the proofs about `HomePage` |
| `MC...` | the roots of the TLC runs: symmetries, the one login of `MCConnectionServer`, the constraint of `MCLobby` |

`Lobby` extends `WorkerManager`: each of its steps is a step of the manager
joined with its effect on the tables and on the matchmaker's round, or a step of
the matchmaker, of the API or of the clock that leaves the manager alone.
`ConnectionServer` and `Lobby` are the two sides of the table `users`, each with a
small environment in the place of the other one. Both implement `UserWaits`, so
that what one side does to the other's rows is something that other side expects.
`ManagerShutdown` extends `WorkerManager` too: each step of the manager remains
one as long as the context and the connections let it succeed. `ManagerRestart`
uses the tables of `MatchDatabase`, and takes a whole assignment, and a whole
result from its arrival to the free worker, as one step: how those interleave
inside is the subject of `WorkerManager` and `Lobby`. What may fail in them, and
what the broker and the game servers may do around them, it has in full.

Operators named as broken variants (`SetFreeKeepsMatch`, `AssignSendUnlocked`
and so on) are no part of the model: each is a definition with a plausible
mistake in it, kept beside the right one, and `PROJECT.json` says which property
each mistake violates.

### WorkerManager and the code

A step is one critical section of `mu`, or one blocking call outside of one.
Where a goroutine blocks inside a section, the section is several steps and `mu`
names its holder.

| Goroutine | Steps |
| --- | --- |
| the matchmaker's (`caller`) | `WaitForFreeWorker`; `AssignMatch` as `AssignNoFreeWorker`, or `AssignBegin`, `AssignSend`, then `AssignReturn` or `AssignFail`, with `mu` held throughout |
| `resultLoop` | `GetResult`, `AckResult` or `AckFail`, `SendResult`, `FreeMatchWorker` |
| `healthLoop` | `PingWorkers`, `HealthLock`, `CheckHealthy` or `CheckUnhealthy` for each worker in turn, `HealthUnlock` |
| `restartWorker` (`restarts`) | `RestartContainer` or `RestartFail`, `RestartReturn` |
| `saveLoop` | `ReceiveResult`, `RemoveMatchStatus`, `SaveMatchResults` |

Abstractions. A deadline is ahead, past or absent; `RestartDeadline` lets it
pass. The result stream is a sequence, with a cursor for the consumer and a set
of results to be delivered again. A result's details are left out. A job is a
match id: which game server it went to does not matter to the manager, which
finds the worker by the match id. A failed `GetResult` or a failed ping round
changes nothing and is left out. `GetNextMatchId` is taken together with the
start of `AssignMatch`: the matchmaker is the only one that uses the sequence.
A message with the wrong form, which no game server sends, is left out.

Faults are the environment's: a pong that is missing, an acknowledgment that
fails or is lost, a restart that fails or outlives its deadline, a result whose
publication is taken for failed. A behaviour has at most `MaxFaults` of them.
A failing `AssignMatch` is not counted: each one uses up a match id.

### Lobby and the code

`queued_until` is null, ahead or past; a match row does not exist, is active,
played or canceled. Each statement or transaction is one step: the interface
asks for that (`server-manager/internal/interface.go:64`). `GatherMatchPlayers`
returns any set of `PlayersPerRoom` waiting users, as a query with LIMIT and
without ORDER BY may. A token is numbered by the match id of its round, which is
what distinct random tokens tell apart. A database call that fails is rolled
back, and counted against `MaxDbFaults`. `last_websocket_id` belongs to the
connection server and is left out: the API's three statements are those of a
user's newest connection. The history variables `cleaned`, `overtaken` and
`failed` record how `RemoveMatchStatus` went for each match.

### ConnectionServer and the code

A step is what JavaScript runs without an `await`. A statement is sent in one
step, takes effect in a second and is answered in a third; postgres.js sends
statements through a pool of connections, so that they take effect in any order.
`socket` says where `onConnection` is with a websocket, and is the `State` of
its `Connection` afterwards:

| Code | Steps |
| --- | --- |
| `onConnection` | `OnConnection` (to `getLoginFromToken`), `Authenticated`, `SetQueueStatus` (takes effect), then `RejectInMatch`, `RejectClosed`, `SetQueueStatusFails`, or `Connections.set` as `RejectOlder` or `Register` |
| `Connections.delete`, called by a close event | part of each step that closes: `CloseConnections`, `Register`; its statement is in `removals` until `RemoveQueueStatus` or `RemoveQueueStatusFails` |
| `extendQueues` | `ExtendQueues`, `ExtendQueueStatuses` or `CallFails` |
| `onPull` | `OnPull`, `GetConnectionStatuses` or `CallFails`, `PullFinished` |
| `close` | `Close` |

`connection.close()` emits its event synchronously, so that the registry's
`delete` runs inside the step: `Register` has already put the new websocket in
the place of the old one, whose `delete` therefore finds another id and sends
nothing. `Terminated` and `SocketClosed` are what `Connection` does in detail.
A run of a timer is a member of `Call`; `setInterval` starts the next one
whether or not the last one is answered. The server manager is its statements
on the same rows, from `MatchDatabase`, those of a manager that starts again
(`SetupMatchmaking`) included. The columns of `matches` a poll joins,
and tokens, are left out (`TokensAgree` in `Lobby` is about tokens).

Left out: the close code 4004 of a user that no longer exists (no code of the
repository deletes users), what happens before the upgrade, and `wss.close()`,
which leaves established websockets alone.

History: `since` (matches made when a websocket got its id), `missed` (the server
manager has ended the wait unseen: a match came and went before a poll saw it, or
the manager was started again, and `extendQueueStatuses` skips such a user),
`leaked` (the queue status of this websocket will not be removed).

### Connection and the code

Every method and handler of the class is an action with its name. `sendPing`
is `sendPing` or `sendPingFails`, and its third outcome, to skip a ping while
one is waited for, changes nothing. The guards of `onPongMiss` compare its
argument with `pingSeq`, but the argument is read when the timer fires, so that
the comparison never fails; what protects the next ping is that the timer is
cleared with the pong. The client answers pings in order when it likes, sends
pongs nobody asked for (a payload that is no number is -1), or falls silent.

### GameServer and the code

`server.pc` says where the one goroutine of `Run` is, `server.job` which job it
has, `server.next` what follows on `stopServer`.

| Code | Steps |
| --- | --- |
| `Open` | `Open`; a failure ends the program |
| `GetMatchConfig` | `GetMatchConfig` (with the failed acknowledgment that drops the job), `FetchCanceled` |
| `Executor.Start` | `Start`, with each place where it fails, and `ErrExecutorAlreadyActive` |
| `Executor.GetResult` | `GetResult`; the wait ends with the process or with the context |
| `stopServer`, `Executor.Stop` | `StopServer`, and `Reap` where a canceled `Stop` waits for the process it has killed |
| `sendResult`, `sendCancel` | `SendResult`, `SendCancel`; a result that fails is followed by a cancel, a cancel that fails is logged |
| `Close` | the `stop` that is followed by `closed` |

The waiter's goroutine is `process.leader` reaching an exit code. `ProcessRuns`
lets the process start children and exit with or without success at any time,
`KillGroup` is the SIGKILL to the group, and `ProcessDies` is the kernel at its
work. `SIGTERM` changes nothing a process has to obey, so that it is no step of
its own. `inbox` is the subscription with its limit of one pending message
(`adapters/broker.go`, `SetPendingLimits`). `Terminate` is the signal to the
host. The container's restart policy is disabled: `Restart` is asked for by the
server manager (`RestartContainer`), and kills a host that has not ended. The
health subscription keeps no state: its answers are `PingWorkers` in
`WorkerManager`. `GameServer` implements `MatchOutcome`, which says what
`WorkerManager` expects of its game servers: one outcome per job, or a result and
then a cancel, and none of a job that was not sent. The game servers inside
`WorkerManager` implement it too.

### ManagerShutdown and the code

`main` is the goroutine of `app.Run`: after `wm.Start` it starts the matchmaker,
serves until the context is canceled, and then runs the deferred
`Matchmaker.Shutdown` and `WorkerManager.Shutdown`. `exited` has the goroutines
that have returned, each at the places where it looks at the context: `CoreExit`
after `WaitForFreeWorker`, `SaveExit` in the `select`, `ResultExit` where the next
message is fetched, `HealthExit` at the ticker. `WakeWaiter` is the
`context.AfterFunc` of `WaitForFreeWorker`. `Connected` guards the calls that need
a live context or connection; `AckClosed` and `RestartAborted` are those that were
under way. That `Shutdown` removes the containers is the end of `GameServers`.

### ManagerRestart and the code

`phase` follows `Run`: `zombies` (`RemoveZombieWorkers`, whose failures are
logged), `spawn` (`SpawnContainer` for one worker after the other), `setup` (the
loops run, and the consumer reads the stream from its beginning, before
`SetupMatchmaking`), `serve`. A container's name has its worker's id, so that one
left behind makes `SpawnContainer` fail, which ends the life. `SetupFail` leads to
`hung`: `ManagerShutdown` shows what becomes of `Shutdown` then. `EndLife` is a
signal, a crash or a kill; any of the containers may survive it.

The consumer reads the stream in order, by `cursor`, except that `redeliver` has the
places of the messages the broker has no acknowledgment of, and `Deliverable` lets
each of them come again at any time, also behind a later message of the same match.
`AckFail` is a failed `msg.Ack()`: `handleResults` returns with nothing saved and
nobody freed. In `HandleResult` the acknowledgment may be lost on its way, so that the
message comes again although it was handled. `AssignFail` is an `AssignJob` that gets
no reply from a game server that plays the match all the same. `CancelUnhealthy`
leaves the worker restarting until a `RestartContainer` succeeds.

A game server publishes its result, or publishes it while `SendResult` fails and sends
a cancel after it, or has no result and sends a cancel (`failed`); the cancel may fail
(`SendCancel`), and a process may be gone with its job (`LoseJob`), also because Docker
carries out a restart late. `lost` has the matches that ended so, without a cancel.

A step has at most one failed call. `unsure`, `redelivered` and `lost` are history:
matches whose row this life may have left different from what the stream says, those
of which a message was delivered again, and those given up without a cancel. Each is
an exception some property makes, and none can be spared. A success whose
acknowledgment fails and which comes back behind the cancel that followed it is saved
last, so that the row says played (`redelivered`). A match whose cancel is lost keeps
its worker occupied until the manager starts again, as its game server goes on
answering pings (`lost`).

### HomePage and the code

A step is one event handler. `sockets` has the `readyState` of every websocket the
page has opened; one that was dropped while it connected has another `onopen`
(`closeOnOpen`), which closes it. Its other handlers stay, and are those of the
page's only `Matchmaking`: they look at the status, and not at the websocket.
`Fails` is `error` with the `close` event right after it. The browser gives no
message to a websocket that is not open. `#join` only sets the browser's location.

## The runs

| Run | Configuration | Shows |
| --- | --- | --- |
| `manager` | `MCWorkerManager.cfg` | `ExclusiveWorkers`, `ConsumedMatchReleased`, `NoLostWakeup`, and that the manager implements `MatchDispatch` |
| `manager_restarts` | `MCWorkerManagerRestarts.cfg` | `NoMatchForgotten`; live: `MuReleased`, `ReportSaved`, `RestartEnds` |
| `lobby` | `MCLobby.cfg` | `MatchedUserServed`, `ActiveMatchServed`, `TokensAgree`, and that it implements `UserWaits` |
| `lobby_live` | `MCLobbyLive.cfg` | live: `PlayersReleased`, `QueueServed` |
| `connections` | `MCConnectionServer.cfg` | `RegistryExact`, `QueuedHasOwner`, `NewestIsQueued`, `ToldOwnMatch`, `ReplacedByNewer`; live: `PollNotices` |
| `watchdog` | `MCConnection.cfg` | `MissesInARow`; live: `SilenceIsNoticed` |
| `shutdown` | `MCManagerShutdownLive.cfg` | `ClosedAfterMatchmaker`, `WindsDown`; live: `SignalEndsRun` |
| `manager_lives` | `MCManagerRestart.cfg` | `FreshStart`, `NoZombies`, `ReplayRepairs`, `HeldIsUnsettled`; live: `ServesAgain` |
| `game_server` | `MCGameServer.cfg` | `AcceptedJobAnswered`, `ResultIsGenuine`, `QuietBetweenMatches`, and that it implements `MatchOutcome`; live: `ShutdownEnds`, `ExitedJobAnswered` |
| `home_page` | `MCHomePage.cfg` | `WaitIsReal`, `NoOrphans`, `MatchOfThisWait`; live: `DroppedAreClosed` |
| `lobby_stuck`, `game_server_stuck` | `MCLobbyStuck.cfg`, `MCGameServerStuck.cfg` | violations, see below |

The type invariants, and the technical ones that the proofs rest on
(`LockAndSequence`, `RestartOwnsState`, `DeadlineSet`, `JobInHand`,
`ProcessInHand` and so on), are proved and need no run.

Bounds, and why they are enough.

- `WorkerCount` 2 in `manager`: two workers are what it takes to assign the
  wrong one, to free the wrong one and to hold a match twice. `manager_lives` has
  two as well, so that a start may fail between them. The other runs
  look at one worker's history, or need a busy pool, and have one.
- `MaxMatches` 2: a late result or a stale restart of the first match meets the
  second one on the same worker. Three in `game_server`: one is run, one is in the
  buffer, and one finds it full.
- `ResultChanSize` 1: the channel is full as soon as one result waits.
- `MaxPingRetries` 0: one missed pong makes a worker unhealthy. A larger number
  only takes more missed pongs to get there; the proofs cover every number.
- `MaxFaults` 2 in `manager_restarts`: a missed pong and a deadline that passes
  during the restart are what it takes for two restarts to overlap. Also 2 in
  `manager_lives` and `game_server` (a
  failed start or publication, and the kill of the container). In `manager_lives` they
  are a failure at the start and one in service, or the two that reorder a match's
  results: a publication that only looks failed, so that a cancel follows the success,
  and an acknowledgment of the success that fails, so that it comes back behind it.
- `lobby`: one failure, around the manager or of a database call, at every point
  (`OneFailure`); the proofs cover every number of both.
- two users with `PlayersPerRoom` 2, the least the configuration allows: users
  are matched, leave, and are matched again.
- one match in `manager_restarts` and `shutdown`: the restart that
  overlaps it may have begun before there was any match, and a signal meets it at
  every step. Two matches and one worker in `lobby_live`: the matchmaker
  finds no free worker for the second match and waits on the condition variable, until
  the goroutine that handles the first one's result wakes it; restarts, which
  wake it too, are the subject of `NoLostWakeup`. One database call may fail, in
  either round.
- two websockets of one login in `connections`: what is to be told apart is a
  newer websocket and an older one. Logins do not meet but in a round of players,
  so that one user and `PlayersPerRoom` 1 do. Two matches: the second wait meets
  the answers of the first. Failures and closes are not bounded. One run of the
  timers is under way at a time there; the proofs cover runs that overlap.
- `maxMissedPongs` 1 with `MaxPings` 4 in `watchdog`: misses in a row, misses
  with a pong in between, and one miss too many. `MaxPongs` 2: a late pong and
  the awaited one are under way together.
- `MaxLives` 3 in `manager_lives`: what one life leaves behind fails the next one
  and is met by a third, and the last one is not ended.
- `MaxSockets` 3 in `home_page`: a dropped websocket that connects, one that
  closes, and the current one.

### Fairness

`LoopFairness` and `CallerFairness` in `WorkerManager` assume that goroutines keep running and that the
calls they block in return: `AssignJob` (5 s), `RestartContainer` (40 s),
`GetWorkersPong` (2 s) and the database calls have timeouts or fail with their
connection. Taking `mu`, and sending into the channel, are strongly fair: Go's
mutex hands itself to a waiter that has starved for a millisecond, and a
channel serves its senders in order. Game servers and users owe nothing: a match
may run forever and a user may never come back. `LobbyFairSpec` assumes
less of the manager than `LoopFairness`, as no worker fails where it is used: a
health check that has begun ends, but need never begin, and nobody competes with
`resultLoop` for the channel. In the place of the caller's fairness it has that of
the matchmaker's steps, which are joined with it.

In `ConnectionServer` every statement is answered, and a poll fails again and
again but not always: `OnPull`, `GetConnectionStatuses` and `PullFinished` are
strongly fair, because the timer fires every 2.5 s until the server is closed.
The close event of a websocket comes. In `Connection` the timers fire and
frames arrive. Clients owe nothing, nor does the server manager there.

In `ManagerShutdown` the program runs as long as one of its goroutines can: once
the context is canceled none of them goes round in circles (`WindsDown`), so that
weak fairness of the whole is enough: it does not matter in which order they go.
In `ManagerRestart` the start, `handleResults` and
`saveLoop` run, and `compose.yaml` starts the manager again (`restart:
unless-stopped`). In `GameServer` the goroutine of the loop runs, its calls to the
broker have timeouts, and the kernel ends a killed process; a game owes nothing,
and may run forever unless the host is stopped. In `HomePage` the browser ends
connecting one way or the other, and closing; users and the server owe nothing.

### Violations

- `lobby_stuck`. `NobodyStuck` is what the manager's documentation says of
  `saveLoop` (`server-manager/app/mgr.go:47`). The code starts the game server
  before it writes the match (`matchmaker.go:125`, `:134`), so that a match that
  is over at once passes `saveLoop` first. Its users are then put into a match
  that nothing will ever take them out of. No fault is needed.
- `game_server_stuck`. `ExecutorStopped` is what `server.go:147` says of
  `runServer`. When `executor.Start` fails, `runServer` returns before it has
  deferred `stopServer`, with `active` set: every later `Start` fails, and this
  game server cancels each match it is sent. It answers pings all the while, so
  that the manager does not restart it.

`MatchedUserServed` and `ActiveMatchServed` are the passing counterparts of
the first: they show that the early release and a failed database call are the
only ways for a user or a row to be left behind.

Further configurations end in a counterexample each; they are kept to be looked
at and are not among the listed runs.

| Configuration | Property | The source says, and does |
| --- | --- | --- |
| `MCLobbyLeft.cfg` | `OnlyQueuedAreMatched` | `docs/architecture.md:127`: waiting users are matched. `AddMatch` does not look at the queue status again, though the matchmaker is ready for an answer that players are missing (`matchmaker.go:169`) |
| `MCLobbyCanceled.cfg` | `PlayedIsNotCanceled` | `docs/api.md:191`: `canceled` is true of a match that was canceled rather than played. `SaveMatchResults` overwrites an outcome with a later one |
| `MCConnectionServerWait.cfg` | `MatchEndsTheWait` | `docs/api.md:258`: once a match is assigned the server sends it and closes. A match that is assigned and over between two polls leaves `match_id` and `queued_until` NULL: `onPull` takes the user for one that waits, `extendQueueStatuses` skips the user, and the websocket stays open for nothing. A manager that starts again between two polls does the same. `NewestIsQueued` shows that these (`missed`) are the only ways |
| `MCManagerShutdownFull.cfg` | `ShutdownStopsLoops` | `mgr.go:166`: `Shutdown` stops the loops. `saveLoop` may return with a full channel behind it, and a sender into it looks at no context. `SignalEndsRun` shows that this is the only way for a signal not to end the program |
| `MCManagerShutdownFailed.cfg` | `FailedStartEndsRun` | The same sentence. After a failed `matchmaker.Start`, `Shutdown` waits for loops whose context nobody cancels; `main` never reaches `os.Exit(1)`, and the restart policy never applies |
| `MCManagerShutdownDatabase.cfg` | `DatabaseTiedToSaveLoop` | `mgr.go:49`: the database connection is tied to `saveLoop`. `Shutdown` closes it while `saveLoop` may be in a statement |
| `MCHomePageError.cfg` | `ErrorEndsOwnWait` | `page.test.js:411`, `:449`: the error is shown when the server closes or the connection fails. The close event of a canceled websocket ends, with this error, the wait that was begun after it |

More disagreements were met and have no configuration. A server that is closed
closes its connections with code 1000 (`server.js:619`, `:124`), which
`docs/api.md:308` reserves for a match that was delivered. The three leaks
that `QueuedHasOwner` names leave a user in the queue without a websocket: until
`queued_until` goes by the user may be matched, and nobody is told. Logging out on
the home page leaves its websocket open, so that a match found later is joined.

## What is proved

`WorkerManager_proofs` proves, for every `WorkerCount`, `ResultChanSize` and
`MaxMatches`, `MaxFaults` and `MaxPingRetries` that satisfy `ConstantsAssumption`
and `MaxPingRetriesAssumption`:

- `Invariance`: `Spec => []Inv`, with the invariants the runs check as its
  conjuncts and corollaries `TypeCorrect`, `MatchesAreAccountedFor`,
  `WorkersAreExclusive`, `ConsumedMatchesAreReleased`, `RestartsOwnTheirState`,
  `WakeupsAreNotLost` and `LocksAndSequence`;
- `Implementation`: `Spec => Dispatching!Spec`, the refinement of
  `MatchDispatch` under the mapping of `SlotView` and `Reported`;
- `GameServersKeepMatchOutcome` and `StreamHoldsOutcomes`: `Spec => Owed!Spec`, the
  refinement of `MatchOutcome`, and that the stream holds its outcomes and no others.
  `GameServersAreAny` is the converse: from every state of `Inv`, whatever
  `MatchOutcome` allows a job to do is a step of the manager's game servers. As
  `GameServer` implements `MatchOutcome` (below), the manager's proofs assume no more
  of a game server than the host's code keeps.

The argument. `NoMatchForgotten` is not inductive as it stands: a restart
goroutine might free a worker under its new match. `RestartOwnsState` excludes
that, because a goroutine with the current state id finds its worker restarting,
and a restarting worker holds no match (`ExclusiveWorkers`). Freeing by match id
is harmless only because a match is held once (`ExclusiveWorkers`), is reported
before it is freed, and is newer than everything consumed when it is assigned;
`LockAndSequence` says so, and rests on `mu` being held from the request to
`SetOccupied`. The lemmas follow that order: what the state changes of a worker
do, what a step can do to the workers (`WorkersStep`) and to the reports
(`ReportsStep`), then one lemma per conjunct of `Inv`.

`Lobby_proofs` proves, for every set of users, every `PlayersPerRoom` and
`MaxDbFaults` as well:

- `LobbyKeepsManager`: `LobbySpec => Spec`. The matchmaker is a caller the
  manager was made for, and `Inv` holds in the composition;
- `LobbyMatchedUserServed`, `LobbyActiveMatchServed`, `LobbyTokensAgree`,
  `LobbyMatchedUserNotQueued` and `LobbyTypes`: the safety properties of the run
  `lobby`, and type correctness.

The argument. `LobbyInv` is inductive relative to `Inv`. `TokensAgree` needs
to know that the players of a round are in no other match and got their token
last from this round (`RoundPlayers`), and that a match id is new when a round
takes it (`NextMatchFresh`, from `LockAndSequence` and the fact that rows follow
assignments). A user in a match is then served: the match has a row, so it was
assigned (`RowsFollowAssignments`), so it is held or reported
(`NoMatchForgotten`, the manager's), and a report is on its way or on record as
cleaned, overtaken or failed (`SaveLoopRecorded`); cleaned matches have no users.

Matchmaker and API meet in a contract. `LobbyKeepsUserWaits` and, in
`ConnectionServer_proofs`, `ServerKeepsUserWaits` are refinements of `UserWaits`: each
of the two sides, with a small model of the other one, does to `users` what the
contract allows. They rest on `LobbyInv` with `RoundSize`, and on `ServerInv` with
`Rounds`: a gathered round is as large as a room, and its users are in no match until
`AddMatch` has added them, though they may have left the queue. What follows from the
contract alone holds of the program: `PlayersStayTogether` (the players of a match are
in it all together or not at all) and `MatchesAreEnteredOnce` (a match that was left is
not entered again). Their inductive invariant, `SharedInv`, is about `UserWaits` only.

`ConnectionServer_proofs` proves, for every set of websockets, logins and timer
runs and every `PlayersPerRoom` and `MaxMatches`: `RegistryIsExact`,
`QueuedUsersHaveOwners`, `NewestWebsocketsAreQueued`,
`WebsocketsAreToldTheirMatch`, `NewerWebsocketsWin` and `ServerTypes`, from
`ServerInvariance`, and `ServerKeepsUserWaits`. The strengthening is `Ids` (an id
belongs to one websocket of a login, and none is above `last_websocket_id`), `MatchesOfRows` (the match in a
row is newer than the wait of the newest websocket) and `Answers` (a poll that
says so is right for ever, because ids are not reused). Every way to close a
connection is an instance of one step, `Closing`, and `RowsStep` says what a step
can do to a row.

`Connection_proofs` proves `OnlyMissesInARowCount`, `DeadlinesAreSet` and `WatchdogTypes` for
every `maxMissedPongs` and every behaviour of the client. `MissesInARow` needs
that a pong is heard with the number of a ping already sent (`HeardBelow`) and
that an open connection is within its misses (`WithinBounds`).

`ManagerShutdown_proofs` proves `InvarianceToTheEnd` (`Inv` of `WorkerManager`
survives closed connections, aborted calls and goroutines that return),
`DispatchToTheEnd` (the manager implements `MatchDispatch` to its end),
`ConnectionsOutliveMatchmaker` and `ShutdownTypes`, for all constants. Each step is
a step of `WorkerManager`, which the lemmas there deal with, or one of the few ways
in which a goroutine notices the end (`Notices`: `WakeWaiter`, `AckClosed`,
`RestartAborted`), which leave the workers and the reports alone. `ClosedAfterMatchmaker` needs that the
goroutine of the matchmaker is between two calls when it has exited, and that it
exits only under a canceled context or has never been started.

`GoroutinesWindDown` and `NobodyIsStuck` are the two safety halves of `SignalEndsRun`,
for all constants. The first: under a canceled context each step of the program makes
`StepsLeft` smaller, a natural number that adds up what the goroutines have in hand,
what waits in the channel, the restarts under way and the deadlines that can still
pass; only game servers take steps that leave it alone. The second: as long as the
program has not ended, a step of it is possible (`SomebodyCanGo`, the guards of
`Program` written out), or a sender is left at a full channel. Whoever holds `mu` can go on or waits for room in the channel, which
`saveLoop` makes without `mu` (`HolderGoesOn`); without a holder one of the goroutines
that are left can go (`SomebodyGoesOn`); both use `CoreGone`, which says that the
matchmaker's goroutine has not returned out of `AssignMatch`. That the two together end
the program is fairness, and stays with TLC.

`ManagerRestart_proofs` proves `StartsAreFresh`, `ZombiesAreGone`,
`ReplaySettlesWorkers` and `RestartTypes` from `RestartInvariance`, for every number
of workers, users, matches, lives and faults. The strengthening is
`StartsInOrder` (the workers below `next` have containers of this life, and matches
are held and added in `serve` only) and `IdsAreFresh` (no container or message has an
id the sequence has not given out). `FreshStart` holds for every replay as
`RemoveMatchStatus` and `SaveMatchResults` never put anybody into a match, nor make
a row active.

`ReplaySettlesWorkers` is `Spec => []HeldIsUnsettled`: every result of a match that
occupies a worker is ahead of the consumer or to be delivered again, since handling
any one of them frees the worker, a match is assigned under an id of which the stream
has nothing, and an unacknowledged message stays deliverable. Failed
acknowledgments thus delay the worker and do not lose it. That a worker is occupied
by a match which is over, with no result to come, is left possible in one case, and
happens there: the match is in `lost`.

`ReplaysRepair` is `Spec => []ReplayRepairs`. It speaks of the results of the whole
stream, which the consumer may not have reached; what is inductive is about those it
has passed, for every match that is not `unsure` (in this life its save failed or met
no row, or a health check canceled it). `LastResultArrives`: as long as no message of
the match was delivered again, the last result passed is one that is to be delivered
again, or is in the channel with no later one of this match behind it, or in
`saveLoop`'s hands with none in the channel, or in the row with none on its way.
`SomeResultArrives`: once a result was acknowledged, one of the match's results is in
one of those three places, with redeliveries too; which one it is depends on their
order. `RowsAreAdded` keeps a late `AddMatch` from writing over a row that a result
has reached: a row that is still to be added does not exist.

`GameServer_proofs` proves `GameServerKeepsMatchOutcome` (the refinement of
`MatchOutcome`), `AcceptedJobsAreAnswered`, `ResultsAreGenuine`,
`MatchesDoNotOverlap`, `StopDoesNotGiveUp`, `ExecutorIsCleanedUp`, `HostWindsDown`,
`ReapEndsSoon` and `GameServerTypes` from `GameServerInvariance`, for every number of jobs and faults.
The strengthening is `JobInHand` (the place of the loop tells which job is not
answered yet, and that it has no outcome) and `ProcessInHand` (a process belongs to
the job in hand, and is killed only where `Stop` waits for it). The invariant also
holds after a failed `Start`: the executor that is never stopped then costs
matches, and leaves files until the host ends, but gives no wrong result.
`HostWindsDown` and `ReapEndsSoon` are what `ShutdownEnds` rests on: under a signal each
step of the loop brings it closer to its end, by a measure that is at most nine, and the
one place that waits without a limit waits for a process that is dead or has been sent
SIGKILL.

`HomePage_proofs` proves `WaitsAreReal`, `NoWebsocketIsOrphaned`,
`MatchesAreOfThisWait`, `IntervalsDoNotAddUp` and `HomePageTypes`, for every number
of websockets. The invariant is their conjunction: a handler that is called for a
dropped websocket finds the current one through `socket`, and there is one such
exactly while the status is pending.

Only model-checked: liveness. Fairness and ENABLED are out of the prover's reach; for
the ends of the manager and of a game server the safety halves above are proved.

## What is not modelled

- The API's routes: stateless, one validation, one statement and one answer each.
  Sessions beyond their existence, accounts and passwords.
- In the connection server: close code 4004 for a user that no longer exists (no
  code of the repository deletes users), what happens before the upgrade, and
  `wss.close()`, which leaves established websockets alone.
- On the home page: logging out, the table of results, markup and wording.
- In the database: the columns no property tells apart (match configuration,
  results, the rows of `user_matches`).
- In the game server: the kernel's delay between SIGKILL and the end of the other
  processes of a group, which are gone at once, and processes that leave the group.
- On the home page, a return within the application is a new load of the page.
- Formatting, logging, and parsing of the configuration, whose bounds are the
  assumptions on the constants.
- Scripts, tests, and the deployment files but for the restart policy.

The API's server and the home page are not composed: they meet in the frames of
one websocket, which each module leaves to its environment.
