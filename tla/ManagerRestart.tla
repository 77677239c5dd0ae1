--------------------------- MODULE ManagerRestart ---------------------------
(***************************************************************************)
(* The server manager over several lives.  What outlives it: the database, *)
(* the stream RESULT and the game server containers it does not remove.    *)
(* What it does at the start: WorkerManager.Start (connections, zombies,   *)
(* workers, loops), then Matchmaker.Start (SetupMatchmaking), while its    *)
(* consumer already reads the stream from the first message again.         *)
(*                                                                         *)
(* In a life, assigning, handling, restarting and saving are the larger    *)
(* steps of WorkerManager and Lobby, which model them in detail.           *)
(***************************************************************************)
EXTENDS Integers, Sequences

CONSTANTS WorkerCount, ResultChanSize,
          User,            \* the players of every match
          MaxMatches,      \* bound: match ids handed out
          MaxLives,        \* bound: times the manager ends
          MaxFaults        \* bound: failed calls

ASSUME ManagerRestartAssumption ==
  /\ WorkerCount \in Nat \ {0} /\ ResultChanSize \in Nat \ {0}
  /\ MaxMatches \in Nat /\ MaxLives \in Nat /\ MaxFaults \in Nat

Workers == 1 .. WorkerCount
Match   == 1 .. MaxMatches
NoMatch == 0
Restarting == -1
Holding == Match \cup {NoMatch, Restarting}
Result  == [MatchID : Match, Success : BOOLEAN]

DB == INSTANCE MatchDatabase WITH PlayersPerRoom <- 0

VARIABLES
  \* durable
  users, matches, matchSeq,   \* the tables, and matches_id_seq
  resultLog,       \* the stream
  containers,      \* by worker id, which is in the container's name
  \* of the manager
  phase,           \* how far app.Run is
  next,            \* the worker to spawn
  held,            \* the match each worker is occupied with
  adding,          \* the match AssignMatch returned and AddMatch has yet to add
  cursor,          \* the consumer's place in resultLog
  redeliver,       \* the places of messages the broker has no acknowledgment of
  saveResultChan, saveLoop,
  own,             \* matches of this life
  unsure,          \* matches whose row this life may have left different
                   \* from what the stream says
  redelivered,     \* matches of which a message was delivered again in this life
  lost,            \* matches a game server gave up without its cancel arriving
  lives, faults

tables == <<users, matches>>
history == <<own, unsure, redelivered, lost>>
stream == <<cursor, redeliver>>
life == <<phase, next, held, adding, stream, saveResultChan, saveLoop, history>>
vars == <<tables, matchSeq, resultLog, containers, life, lives, faults>>

Fault == faults < MaxFaults /\ faults' = faults + 1

NoContainer == [state |-> "none", mine |-> FALSE, job |-> NoMatch, failed |-> FALSE]
\* A game server that waits for a job; failed says that its last one has failed
\* and a cancel is yet to be sent.
NewContainer == [state |-> "running", mine |-> TRUE, job |-> NoMatch, failed |-> FALSE]
JobEnded(container) == [container EXCEPT !.job = NoMatch, !.failed = FALSE]
Idle == [pc |-> "receive", res |-> [MatchID |-> NoMatch, Success |-> FALSE]]

\* A manager that is not running.
AllFree == [w \in Workers |-> NoMatch]

GoDown ==
  /\ phase' = "down" /\ next' = 1 /\ held' = AllFree /\ adding' = NoMatch
  /\ cursor' = 0 /\ redeliver' = {} /\ saveResultChan' = <<>> /\ saveLoop' = Idle
  /\ own' = {} /\ unsure' = {} /\ redelivered' = {} /\ lost' = {}

Init ==
  /\ users = [u \in User |-> DB!Inactive]
  /\ matches = [m \in Match |-> "none"]
  /\ matchSeq = 0
  /\ resultLog = <<>>
  /\ containers = [w \in Workers |-> NoContainer]
  /\ phase = "down" /\ next = 1 /\ held = AllFree /\ adding = NoMatch
  /\ cursor = 0 /\ redeliver = {} /\ saveResultChan = <<>> /\ saveLoop = Idle
  /\ own = {} /\ unsure = {} /\ redelivered = {} /\ lost = {}
  /\ lives = 0 /\ faults = 0

-----------------------------------------------------------------------------
(* Start *)

\* Broken variant: only new messages are delivered.
OpenDeliverNew ==
  /\ phase = "down"
  /\ phase' = "zombies"
  /\ cursor' = Len(resultLog)
  /\ UNCHANGED <<tables, matchSeq, resultLog, containers, next, held, adding, redeliver,
                 saveResultChan, saveLoop, history, lives, faults>>

\* The connections are open, with a new consumer of the whole stream.
Open ==
  /\ phase = "down"
  /\ phase' = "zombies"
  /\ UNCHANGED <<tables, matchSeq, resultLog, containers, next, held, adding, stream,
                 saveResultChan, saveLoop, history, lives, faults>>

\* Broken variant: ContainerList without All lists what runs.
ListedRunning == {w \in Workers : containers[w].state = "running"}

\* ContainerList: every container with the label, running or not.
Listed == {w \in Workers : containers[w].state # "none"}

\* RemoveZombieWorkers: removals that fail are logged only.
RemoveZombieWorkers ==
  /\ phase = "zombies"
  /\ phase' = "spawn"
  /\ \E kept \in SUBSET Listed :
       /\ containers' = [w \in Workers |-> IF w \in Listed \ kept THEN NoContainer
                                           ELSE containers[w]]
       /\ IF kept = {} THEN UNCHANGED faults ELSE Fault
  /\ UNCHANGED <<tables, matchSeq, resultLog, next, held, adding, stream,
                 saveResultChan, saveLoop, history, lives>>

\* Broken variant: containers have no name, so that none is ever taken.
SpawnUnnamed ==
  /\ phase = "spawn"
  /\ containers' = [containers EXCEPT ![next] =
                      IF @ = NoContainer THEN NewContainer ELSE @]
  /\ next' = next + 1
  /\ phase' = IF next = WorkerCount THEN "setup" ELSE "spawn"
  /\ UNCHANGED <<tables, matchSeq, resultLog, held, adding, stream, saveResultChan,
                 saveLoop, history, lives, faults>>

\* SpawnContainer, which Docker refuses while a container has that name.  The
\* loops start after the last one.
Spawn ==
  /\ phase = "spawn"
  /\ containers[next] = NoContainer
  /\ containers' = [containers EXCEPT ![next] = NewContainer]
  /\ next' = next + 1
  /\ phase' = IF next = WorkerCount THEN "setup" ELSE "spawn"
  /\ UNCHANGED <<tables, matchSeq, resultLog, held, adding, stream, saveResultChan,
                 saveLoop, history, lives, faults>>

\* SpawnContainer fails: the name is taken, or one of its two calls fails, on
\* either side of its effect.  Run calls Shutdown, which knows the containers
\* spawned before and not this one, and ends.
SpawnFail ==
  /\ phase = "spawn"
  /\ LET after == [w \in Workers |-> IF w < next THEN NoContainer ELSE containers[w]] IN
       \/ /\ containers[next] # NoContainer
          /\ containers' = after
          /\ UNCHANGED faults
       \/ /\ containers[next] = NoContainer
          /\ Fault
          /\ \E state \in {"none", "created", "running"} :
               containers' = [after EXCEPT ![next].state = state]
  /\ GoDown
  /\ UNCHANGED <<tables, matchSeq, resultLog, lives>>

SetupMatchmaking ==
  /\ phase = "setup"
  /\ phase' = "serve"
  /\ users' = DB!SetupUsers(users)
  /\ matches' = DB!SetupMatches(matches)
  /\ UNCHANGED <<matchSeq, resultLog, containers, next, held, adding, stream,
                 saveResultChan, saveLoop, history, lives, faults>>

\* SetupMatchmaking fails: Shutdown removes the containers, closes the
\* connections and waits for loops nobody has told to end (ManagerShutdown).
SetupFail ==
  /\ phase = "setup"
  /\ Fault
  /\ phase' = "hung"
  /\ containers' = [w \in Workers |-> NoContainer]
  /\ UNCHANGED <<tables, matchSeq, resultLog, next, held, adding, stream,
                 saveResultChan, saveLoop, history, lives>>

-----------------------------------------------------------------------------
(* Service *)

\* GetNextMatchId and AssignMatch.  AssignJob returns once the game server has
\* taken the job, which it does when it has none.
AssignMatch(w) ==
  /\ phase = "serve" /\ adding = NoMatch /\ matchSeq < MaxMatches
  /\ held[w] = NoMatch /\ containers[w].job = NoMatch
  /\ \A u \in User : users[u].match_id = NoMatch
  /\ matchSeq' = matchSeq + 1
  /\ held' = [held EXCEPT ![w] = matchSeq']
  /\ containers' = [containers EXCEPT ![w].job = matchSeq']
  /\ adding' = matchSeq'
  /\ own' = own \cup {matchSeq'}
  /\ UNCHANGED <<tables, resultLog, phase, next, stream, saveResultChan, saveLoop,
                 unsure, redelivered, lost, lives, faults>>

\* AssignJob gets no reply in time from a game server that plays the match all
\* the same, now or when its present job has ended.
AssignFail(w) ==
  /\ phase = "serve" /\ adding = NoMatch /\ matchSeq < MaxMatches
  /\ held[w] = NoMatch /\ containers[w].job = NoMatch
  /\ \A u \in User : users[u].match_id = NoMatch
  /\ Fault
  /\ matchSeq' = matchSeq + 1
  /\ containers' = [containers EXCEPT ![w].job = matchSeq']
  /\ UNCHANGED <<tables, resultLog, life, lives>>

\* When it fails the match runs on without a row.
AddMatch ==
  /\ phase = "serve" /\ adding # NoMatch
  /\ \/ /\ users' = DB!AddMatchUsers(users, User, adding)
        /\ matches' = DB!AddMatchRow(matches, adding)
        /\ UNCHANGED faults
     \/ Fault /\ UNCHANGED tables
  /\ adding' = NoMatch
  /\ UNCHANGED <<matchSeq, resultLog, containers, phase, next, held, stream,
                 saveResultChan, saveLoop, history, lives>>

\* What GetResult may return: the next message of the stream, or one that the
\* broker delivers again, whenever it likes.
Deliverable == redeliver \cup {i \in DOMAIN resultLog : i = cursor + 1}

Delivered(i) ==
  /\ cursor' = IF i > cursor THEN i ELSE cursor
  /\ redelivered' = IF i \in redeliver THEN redelivered \cup {resultLog[i].MatchID}
                    ELSE redelivered

\* The loops and the goroutines they start, while saveResultChan is not full.
Runs == phase \in {"setup", "serve"}
Loops == Runs /\ Len(saveResultChan) < ResultChanSize

\* msg.Ack() fails, and handleResults returns with nothing saved or freed.
AckFail ==
  /\ Runs
  /\ \E i \in Deliverable : Delivered(i) /\ redeliver' = redeliver \cup {i}
  /\ Fault
  /\ UNCHANGED <<tables, matchSeq, resultLog, containers, phase, next, held, adding,
                 saveResultChan, saveLoop, own, unsure, lost, lives>>

\* Broken variant: no worker is freed.
FreeNobody(m) == UNCHANGED held

\* The match's worker, if this life has one, is free.
FreeMatchWorker(m) ==
  held' = [w \in Workers |-> IF held[w] = m THEN NoMatch ELSE held[w]]

\* handleResults, whose acknowledgment the broker may still miss.
HandleResult ==
  /\ Loops
  /\ \E i \in Deliverable :
       /\ Delivered(i)
       /\ \/ redeliver' = redeliver \ {i} /\ UNCHANGED faults
          \/ redeliver' = redeliver \cup {i} /\ Fault
       /\ saveResultChan' = Append(saveResultChan, resultLog[i])
       /\ FreeMatchWorker(resultLog[i].MatchID)
  /\ UNCHANGED <<tables, matchSeq, resultLog, containers, phase, next, adding, saveLoop,
                 own, unsure, lost, lives>>

\* healthCheck cancels the match of a silent worker, if it has one, and restarts
\* it.  Its game server is left alone until Docker does.
CancelUnhealthy(w) ==
  /\ Runs
  /\ Fault
  /\ held' = [held EXCEPT ![w] = Restarting]
  /\ \/ /\ held[w] \in Match
        /\ Loops
        /\ saveResultChan' =
             Append(saveResultChan, [MatchID |-> held[w], Success |-> FALSE])
        /\ unsure' = unsure \cup {held[w]}
     \/ held[w] = NoMatch /\ UNCHANGED <<saveResultChan, unsure>>
  /\ UNCHANGED <<tables, matchSeq, resultLog, containers, phase, next, adding, stream,
                 saveLoop, own, redelivered, lost, lives>>

\* restartWorker; one that fails is repeated after its deadline.
RestartContainer(w) ==
  /\ Runs
  /\ held[w] = Restarting
  /\ held' = [held EXCEPT ![w] = NoMatch]
  /\ containers' = [containers EXCEPT ![w] = JobEnded(@)]
  /\ UNCHANGED <<tables, matchSeq, resultLog, phase, next, adding, stream,
                 saveResultChan, saveLoop, history, lives, faults>>

ReceiveResult ==
  /\ Runs
  /\ saveLoop.pc = "receive"
  /\ saveResultChan # <<>>
  /\ saveLoop' = [pc |-> "removeStatus", res |-> Head(saveResultChan)]
  /\ saveResultChan' = Tail(saveResultChan)
  /\ UNCHANGED <<tables, matchSeq, resultLog, containers, phase, next, held, adding,
                 stream, history, lives, faults>>

RemoveMatchStatus ==
  /\ Runs
  /\ saveLoop.pc = "removeStatus"
  /\ saveLoop' = [saveLoop EXCEPT !.pc = "saveResults"]
  /\ \/ users' = DB!RemoveMatchStatus(users, saveLoop.res.MatchID) /\ UNCHANGED faults
     \/ Fault /\ UNCHANGED users
  /\ UNCHANGED <<matches, matchSeq, resultLog, containers, phase, next, held, adding,
                 stream, saveResultChan, history, lives>>

\* Without an effect when it fails, or when there is no row, yet or at all.
SaveMatchResults ==
  /\ Runs
  /\ saveLoop.pc = "saveResults"
  /\ saveLoop' = Idle
  /\ \/ /\ matches' = DB!SaveMatchResults(matches, saveLoop.res)
        /\ unsure' = IF matches[saveLoop.res.MatchID] = "none"
                     THEN unsure \cup {saveLoop.res.MatchID} ELSE unsure
        /\ UNCHANGED faults
     \/ Fault /\ unsure' = unsure \cup {saveLoop.res.MatchID} /\ UNCHANGED matches
  /\ UNCHANGED <<users, matchSeq, resultLog, containers, phase, next, held, adding,
                 stream, saveResultChan, own, redelivered, lost, lives>>

-----------------------------------------------------------------------------
(* The game servers, of this life or left from an earlier one. *)

Publish(m, success) ==
  resultLog' = Append(resultLog, [MatchID |-> m, Success |-> success])

\* A match ends: its result is published, or published although SendResult fails,
\* or there is none.  Whatever fails is followed by a cancel.
PublishResult(w) ==
  /\ containers[w].job # NoMatch /\ ~ containers[w].failed
  /\ \/ /\ Publish(containers[w].job, TRUE)
        /\ containers' = [containers EXCEPT ![w] = JobEnded(@)]
        /\ UNCHANGED faults
     \/ /\ Publish(containers[w].job, TRUE)
        /\ Fault
        /\ containers' = [containers EXCEPT ![w].failed = TRUE]
     \/ /\ containers' = [containers EXCEPT ![w].failed = TRUE]
        /\ UNCHANGED <<resultLog, faults>>
  /\ UNCHANGED <<tables, matchSeq, life, lives>>

\* sendCancel: its failure is logged only, on either side of its effect.
SendCancel(w) ==
  /\ containers[w].job # NoMatch /\ containers[w].failed
  /\ \/ Publish(containers[w].job, FALSE) /\ UNCHANGED <<lost, faults>>
     \/ Fault /\ lost' = lost \cup {containers[w].job} /\ UNCHANGED resultLog
  /\ containers' = [containers EXCEPT ![w] = JobEnded(@)]
  /\ UNCHANGED <<tables, matchSeq, phase, next, held, adding, stream, saveResultChan,
                 saveLoop, own, unsure, redelivered, lives>>

\* A game server ends with its match: its process dies, or Docker carries out a
\* restart late, when a newer one has freed the worker already.
LoseJob(w) ==
  /\ containers[w].job # NoMatch
  /\ Fault
  /\ lost' = lost \cup {containers[w].job}
  /\ containers' = [containers EXCEPT ![w] = JobEnded(@)]
  /\ UNCHANGED <<tables, matchSeq, resultLog, phase, next, held, adding, stream,
                 saveResultChan, saveLoop, own, unsure, redelivered, lives>>

-----------------------------------------------------------------------------
(* The end of a life. *)

\* A signal, upon which Shutdown removes the containers it can, or a crash, which
\* leaves them all.  What waits in saveResultChan is lost either way.
EndLife ==
  /\ phase # "down"
  /\ lives < MaxLives
  /\ lives' = lives + 1
  /\ GoDown
  /\ \E left \in SUBSET Workers :
       containers' = [w \in Workers |-> IF containers[w].mine /\ w \notin left
                                        THEN NoContainer
                                        ELSE [containers[w] EXCEPT !.mine = FALSE]]
  /\ UNCHANGED <<tables, matchSeq, resultLog, faults>>

Start == \/ Open \/ RemoveZombieWorkers \/ Spawn \/ SpawnFail \/ SetupMatchmaking
         \/ SetupFail
Save == ReceiveResult \/ RemoveMatchStatus \/ SaveMatchResults

Next ==
  \/ Start \/ AckFail \/ HandleResult \/ Save \/ AddMatch
  \/ \E w \in Workers : \/ AssignMatch(w) \/ AssignFail(w)
                       \/ CancelUnhealthy(w) \/ RestartContainer(w)
                       \/ PublishResult(w) \/ SendCancel(w) \/ LoseJob(w)
  \/ EndLife

Spec == Init /\ [][Next]_vars

\* compose.yaml restarts the manager unless it is stopped, and its goroutines run.
FairSpec == Spec /\ WF_vars(Start) /\ WF_vars(HandleResult) /\ WF_vars(Save)

-----------------------------------------------------------------------------
(* Correctness. *)

ContainerState == [state : {"none", "created", "running"}, mine : BOOLEAN,
                   job : Match \cup {NoMatch}, failed : BOOLEAN]
SaveLoopState == [pc : {"removeStatus", "saveResults"}, res : Result] \cup {Idle}

TypeOK ==
  /\ users \in [User -> DB!UserRow]
  /\ matches \in [Match -> DB!MatchRow]
  /\ matchSeq \in 0 .. MaxMatches
  /\ resultLog \in Seq(Result)
  /\ containers \in [Workers -> ContainerState]
  /\ phase \in {"down", "zombies", "spawn", "setup", "serve", "hung"}
  /\ next \in 1 .. WorkerCount + 1
  /\ held \in [Workers -> Holding]
  /\ adding \in Match \cup {NoMatch}
  /\ cursor \in 0 .. Len(resultLog) /\ redeliver \subseteq 1 .. cursor
  /\ saveResultChan \in Seq(Result) /\ Len(saveResultChan) <= ResultChanSize
  /\ saveLoop \in SaveLoopState
  /\ own \subseteq Match /\ unsure \subseteq Match
  /\ redelivered \subseteq Match /\ lost \subseteq Match
  /\ lives \in 0 .. MaxLives /\ faults \in 0 .. MaxFaults

\* Startup leaves nothing of an earlier life behind: once the manager serves, no
\* user is in a match, and no row is active, that this life did not create,
\* whatever the replayed results do before and after SetupMatchmaking.
FreshStart ==
  phase = "serve" =>
    /\ \A u \in User : users[u].match_id \in own \cup {NoMatch}
    /\ \A m \in Match : matches[m] = "active" => m \in own

\* No game server of an earlier life runs when this one assigns matches: one
\* that RemoveZombieWorkers could not remove keeps its name taken.
NoZombies ==
  phase \in {"setup", "serve"} =>
    \A w \in Workers : containers[w].mine /\ containers[w].state = "running"

Results(m) == {i \in DOMAIN resultLog : resultLog[i].MatchID = m}

StreamIsRead ==
  /\ phase = "serve" /\ cursor = Len(resultLog) /\ redeliver = {}
  /\ saveResultChan = <<>> /\ saveLoop = Idle

RowOf(res) == IF res.Success THEN "played" ELSE "canceled"

\* The replay is idempotent and repairs: a life that has read the whole stream,
\* and has no message to expect again, shows each match as its last result does,
\* those whose result an earlier life acknowledged and lost, or failed to save, or
\* overtook AddMatch with, included.  When a message was delivered again it may
\* have come behind a later one, so that a success that came back after the
\* cancel that followed it is what the row shows: it is one of the match's results.
ReplayRepairs ==
  StreamIsRead =>
    \A m \in Match \ unsure :
      /\ m \notin redelivered =>
           \A i \in Results(m) :
             (\A j \in Results(m) : j <= i) => matches[m] = RowOf(resultLog[i])
      /\ Results(m) # {} => \E i \in Results(m) : matches[m] = RowOf(resultLog[i])

\* What it rests on.  A row exists once AddMatch has added it, under an id of the
\* sequence.  The last result of a match the consumer has passed is to come again,
\* or on its way to the row with no other report of the match behind it, or is
\* what the row says; so is one of the results of a match that has come again.
RowsAreAdded ==
  /\ \A m \in Match : m > matchSeq => matches[m] = "none"
  /\ adding # NoMatch => adding <= matchSeq /\ matches[adding] = "none"

LastPassed(m, i) ==
  /\ i \in Results(m) /\ i <= cursor
  /\ \A j \in Results(m) : j <= cursor => j <= i

InChannel(m, res) ==
  \E k \in DOMAIN saveResultChan :
    /\ saveResultChan[k] = res
    /\ \A j \in DOMAIN saveResultChan : j > k => saveResultChan[j].MatchID # m

NotInChannel(m) == \A k \in DOMAIN saveResultChan : saveResultChan[k].MatchID # m

InSaveLoop(m, res) == NotInChannel(m) /\ saveLoop.pc # "receive" /\ saveLoop.res = res

InRow(m, res) ==
  /\ NotInChannel(m)
  /\ saveLoop.pc # "receive" => saveLoop.res.MatchID # m
  /\ matches[m] = RowOf(res)

Arrives(m, res) == InChannel(m, res) \/ InSaveLoop(m, res) \/ InRow(m, res)

LastResultArrives ==
  \A m \in Match \ (unsure \cup redelivered) : \A i \in DOMAIN resultLog :
    LastPassed(m, i) => i \in redeliver \/ Arrives(m, resultLog[i])

SomeResultArrives ==
  \A m \in Match \ unsure :
    (\E i \in Results(m) : i <= cursor /\ i \notin redeliver)
      => \E j \in Results(m) : Arrives(m, resultLog[j])

\* Replayed, late and repeated messages leave the workers of this life alone, and
\* none stays occupied by a match that is settled: an occupied one has a match of
\* this life, every result of which is ahead of the consumer or to be delivered
\* again, and which is being played, or has a result, or was given up by its game
\* server without a cancel that arrived.  Only in the last case nothing will free
\* the worker.
HeldIsUnsettled ==
  \A w \in Workers : held[w] \in Match =>
    /\ held[w] \in own
    /\ \A i \in Results(held[w]) : i > cursor \/ i \in redeliver
    /\ containers[w].job = held[w] \/ Results(held[w]) # {} \/ held[w] \in lost

\* What those rest on: containers are spawned in order, and matches assigned and
\* added, in this life, when all have been; no id is used before the sequence
\* gives it out.
StartsInOrder ==
  /\ phase \in {"down", "zombies"} => next = 1
  /\ phase = "spawn" =>
       /\ next <= WorkerCount
       /\ \A w \in Workers :
            w < next => containers[w].mine /\ containers[w].state = "running"
  /\ phase # "serve" => adding = NoMatch /\ \A w \in Workers : held[w] \notin Match
  /\ adding \in own \cup {NoMatch}

IdsAreFresh ==
  /\ \A w \in Workers : containers[w].job <= matchSeq
  /\ \A i \in DOMAIN resultLog : resultLog[i].MatchID <= matchSeq

\* Failed starts and crashes do not add up: the manager serves again and again,
\* or hangs in a Shutdown that does not end.
ServesAgain == []<>(phase \in {"serve", "hung"})
=============================================================================
