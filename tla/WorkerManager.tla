---------------------------- MODULE WorkerManager ----------------------------
(***************************************************************************)
(* The WorkerManager of server-manager/app/mgr.go: its three loops         *)
(* (resultLoop, healthLoop, saveLoop), the restartWorker goroutines, and   *)
(* the matchmaker's goroutine inside WaitForFreeWorker and AssignMatch.    *)
(* They share the workers, guarded by the mutex mu, the condition variable *)
(* newfreeWorker and the bounded channel saveResultChan.                   *)
(*                                                                         *)
(* A step is one critical section, or one blocking call outside of it.     *)
(* Where a goroutine blocks while it holds mu (AssignMatch waits for the   *)
(* broker, healthCheck sends into the channel) the section is several      *)
(* steps and mu names the holder.                                          *)
(*                                                                         *)
(* The broker, Docker and the game servers are seen through the calls the  *)
(* manager makes.  A game server publishes the outcome of a job it was     *)
(* sent whenever it likes, or never; everything that goes wrong around the *)
(* manager is a fault, and a behaviour has at most MaxFaults of them.      *)
(***************************************************************************)
EXTENDS Worker, Sequences, SequencesExt

CONSTANTS WorkerCount,      \* config.Workercount
          ResultChanSize,   \* resultChanSize (8192)
          MaxMatches,       \* bound: match ids handed out
          MaxFaults         \* bound: faults of the environment

ASSUME ConstantsAssumption ==
  /\ WorkerCount \in Nat \ {0}
  /\ ResultChanSize \in Nat \ {0}
  /\ MaxMatches \in Nat
  /\ MaxFaults \in Nat

Workers == 1 .. WorkerCount
Match   == 1 .. MaxMatches

\* internal.Result; its Details are not looked at by the manager.
Result == [MatchID : Match, Success : BOOLEAN]
NoResult == [MatchID |-> NoMatch, Success |-> FALSE]

\* A restartWorker goroutine: its worker, the state it was started in, and
\* whether RestartContainer has returned.
Restart == [worker : Workers, stateID : Nat, restarted : BOOLEAN]

VARIABLES
  workers,         \* wm.workers
  mu,              \* who holds wm.mu between two steps
  caller,          \* the matchmaker's goroutine
  resultLoop,      \* the goroutine of handleResults
  healthLoop,      \* the goroutine of healthCheck
  restarts,        \* the restartWorker goroutines that still run
  saveResultChan,  \* the buffered channel to saveLoop
  saveLoop,        \* the goroutine of saveLoop
  matchSeq,        \* the last match id handed to AssignMatch
  \* the world around the manager
  jobs,            \* matches whose job was sent to a game server
  resultLog,       \* the RESULT stream: every outcome ever published
  cursor,          \* how far the consumer has been delivered resultLog
  redeliver,       \* delivered results the broker has no ack of
  faults,          \* faults so far
  \* history
  assigned,        \* matches AssignMatch returned without an error
  consumed,        \* matches whose result handleResults has dealt with
  processed        \* results saveLoop has made both database calls for

managerVars == <<workers, mu, caller, resultLoop, healthLoop, restarts,
                 saveResultChan, saveLoop, matchSeq>>
brokerVars  == <<jobs, resultLog, cursor, redeliver>>
historyVars == <<assigned, consumed, processed>>
vars == <<managerVars, brokerVars, faults, historyVars>>

Fault == faults < MaxFaults /\ faults' = faults + 1
NoFault == UNCHANGED faults

\* The matchmaker's goroutine when it is not inside AssignMatch.
Outside(pc) == [pc |-> pc, worker |-> 1, match |-> NoMatch]

Init ==
  /\ workers = [w \in Workers |-> NewWorker]
  /\ mu = "none"
  /\ caller = Outside("away")
  /\ resultLoop = [pc |-> "fetch", res |-> NoResult]
  /\ healthLoop = [pc |-> "tick", responders |-> {}, next |-> 1]
  /\ restarts = {}
  /\ saveResultChan = <<>>
  /\ saveLoop = [pc |-> "receive", res |-> NoResult]
  /\ matchSeq = 0
  /\ jobs = {}
  /\ resultLog = <<>>
  /\ cursor = 0
  /\ redeliver = {}
  /\ faults = 0
  /\ assigned = {}
  /\ consumed = {}
  /\ processed = {}

-----------------------------------------------------------------------------
(* newfreeWorker has one waiter at most, the matchmaker's goroutine. *)

FreeWorkers == {w \in Workers : workers[w].State = "Free"}

\* Broken variant: a restarting worker will do.
IsFirstNotOccupied(w) ==
  /\ workers[w].State # "Occupied"
  /\ \A v \in Workers : workers[v].State # "Occupied" => w <= v

\* getFreeWorker: the first free worker in the order they were spawned.
IsFirstFree(w) == w \in FreeWorkers /\ \A v \in FreeWorkers : w <= v

\* getWorkerByMatchID: the first worker that holds the match.
HoldersOf(m) == {w \in Workers : workers[w].MatchID = m}
IsFirstHolder(w, m) == w \in HoldersOf(m) /\ \A v \in HoldersOf(m) : w <= v

\* Broken variant: a worker is freed and nobody is told.
SignalNobody == UNCHANGED caller

\* newfreeWorker.Signal(): the waiter, if there is one, competes for mu again.
Signal == caller' = IF caller.pc = "waiting"
                    THEN Outside("woken")
                    ELSE caller

-----------------------------------------------------------------------------
(* The matchmaker's goroutine. *)

\* WaitForFreeWorker, up to its return or to the Wait that releases mu.
WaitForFreeWorker ==
  /\ caller.pc \in {"away", "woken"}
  /\ mu = "none"
  /\ caller' = Outside(IF FreeWorkers = {} THEN "waiting" ELSE "ready")
  /\ UNCHANGED <<workers, mu, resultLoop, healthLoop, restarts, saveResultChan,
                 saveLoop, matchSeq, brokerVars, faults, historyVars>>

\* The matchmaker gives up this round before it calls AssignMatch.
GiveUpRound ==
  /\ caller.pc = "ready"
  /\ caller' = Outside("away")
  /\ UNCHANGED <<workers, mu, resultLoop, healthLoop, restarts, saveResultChan,
                 saveLoop, matchSeq, brokerVars, faults, historyVars>>

\* AssignMatch for the next match id, when every worker has been taken away
\* since WaitForFreeWorker returned.
AssignNoFreeWorker ==
  /\ caller.pc = "ready"
  /\ mu = "none"
  /\ matchSeq < MaxMatches
  /\ FreeWorkers = {}
  /\ matchSeq' = matchSeq + 1
  /\ caller' = Outside("away")
  /\ UNCHANGED <<workers, mu, resultLoop, healthLoop, restarts, saveResultChan,
                 saveLoop, brokerVars, faults, historyVars>>

\* AssignMatch up to the call of GetGamePort: mu is kept until it returns.
AssignBegin ==
  /\ caller.pc = "ready"
  /\ mu = "none"
  /\ matchSeq < MaxMatches
  /\ matchSeq' = matchSeq + 1
  /\ mu' = "caller"
  /\ \E w \in Workers :
       /\ IsFirstFree(w)
       /\ caller' = [pc |-> "getPort", worker |-> w, match |-> matchSeq + 1]
  /\ UNCHANGED <<workers, resultLoop, healthLoop, restarts, saveResultChan,
                 saveLoop, brokerVars, faults, historyVars>>

\* Broken variant: mu is not held while the broker is asked.
AssignSendUnlocked ==
  /\ caller.pc = "getPort"
  /\ caller' = [caller EXCEPT !.pc = "request"]
  /\ mu' = "none"
  /\ jobs' = jobs \cup {caller.match}
  /\ UNCHANGED <<workers, resultLoop, healthLoop, restarts, saveResultChan,
                 saveLoop, matchSeq, resultLog, cursor, redeliver, faults, historyVars>>

\* GetGamePort returned the port and AssignJob has sent its request.
AssignSend ==
  /\ caller.pc = "getPort"
  /\ caller' = [caller EXCEPT !.pc = "request"]
  /\ jobs' = jobs \cup {caller.match}
  /\ UNCHANGED <<workers, mu, resultLoop, healthLoop, restarts, saveResultChan,
                 saveLoop, matchSeq, resultLog, cursor, redeliver, faults, historyVars>>

\* GetGamePort failed, or AssignJob got no reply within assignJobTimeout.
AssignFail ==
  /\ caller.pc \in {"getPort", "request"}
  /\ caller' = Outside("away")
  /\ mu' = "none"
  /\ UNCHANGED <<workers, resultLoop, healthLoop, restarts, saveResultChan,
                 saveLoop, matchSeq, brokerVars, faults, historyVars>>

\* The game server has accepted the job.
AssignReturn ==
  /\ caller.pc = "request"
  /\ workers' = [workers EXCEPT ![caller.worker] = SetOccupied(@, caller.match)]
  /\ assigned' = assigned \cup {caller.match}
  /\ caller' = Outside("away")
  /\ mu' = "none"
  /\ UNCHANGED <<resultLoop, healthLoop, restarts, saveResultChan, saveLoop,
                 matchSeq, brokerVars, faults, consumed, processed>>

-----------------------------------------------------------------------------
(* handleResults *)

\* GetResult: the next message of the stream, or one the broker redelivers.
\* Its failures change nothing: the loop backs off and fetches again.
GetResult ==
  /\ resultLoop.pc = "fetch"
  /\ \/ /\ cursor < Len(resultLog)
        /\ cursor' = cursor + 1
        /\ resultLoop' = [pc |-> "ack", res |-> resultLog[cursor + 1]]
        /\ UNCHANGED redeliver
     \/ \E r \in redeliver :
          /\ redeliver' = redeliver \ {r}
          /\ resultLoop' = [pc |-> "ack", res |-> r]
          /\ UNCHANGED cursor
  /\ UNCHANGED <<workers, mu, caller, healthLoop, restarts, saveResultChan,
                 saveLoop, matchSeq, jobs, resultLog, faults, historyVars>>

\* msg.Ack() succeeded; the broker may still miss it and redeliver.
AckResult ==
  /\ resultLoop.pc = "ack"
  /\ resultLoop' = [resultLoop EXCEPT !.pc = "send"]
  /\ \/ NoFault /\ UNCHANGED redeliver
     \/ Fault /\ redeliver' = redeliver \cup {resultLoop.res}
  /\ UNCHANGED <<workers, mu, caller, healthLoop, restarts, saveResultChan,
                 saveLoop, matchSeq, jobs, resultLog, cursor, historyVars>>

\* msg.Ack() failed: handleResults returns and leaves the message to redelivery.
AckFail ==
  /\ resultLoop.pc = "ack"
  /\ Fault
  /\ resultLoop' = [pc |-> "fetch", res |-> NoResult]
  /\ redeliver' = redeliver \cup {resultLoop.res}
  /\ UNCHANGED <<workers, mu, caller, healthLoop, restarts, saveResultChan,
                 saveLoop, matchSeq, jobs, resultLog, cursor, historyVars>>

\* wm.saveResultChan <- res, without mu: blocks while the channel is full.
SendResult ==
  /\ resultLoop.pc = "send"
  /\ Len(saveResultChan) < ResultChanSize
  /\ saveResultChan' = Append(saveResultChan, resultLoop.res)
  /\ resultLoop' = [resultLoop EXCEPT !.pc = "free"]
  /\ UNCHANGED <<workers, mu, caller, healthLoop, restarts, saveLoop, matchSeq,
                 brokerVars, faults, historyVars>>

\* The critical section: the worker that holds the match, if any, is free.
FreeMatchWorker ==
  /\ resultLoop.pc = "free"
  /\ mu = "none"
  /\ LET m == resultLoop.res.MatchID IN
       /\ \/ \E w \in Workers :
               /\ IsFirstHolder(w, m)
               /\ workers' = [workers EXCEPT ![w] = SetFree(@)]
               /\ Signal
          \/ HoldersOf(m) = {} /\ UNCHANGED <<workers, caller>>
       /\ consumed' = consumed \cup {m}
  /\ resultLoop' = [pc |-> "fetch", res |-> NoResult]
  /\ UNCHANGED <<mu, healthLoop, restarts, saveResultChan, saveLoop, matchSeq,
                 brokerVars, faults, assigned, processed>>

-----------------------------------------------------------------------------
(* healthCheck and restartWorker *)

\* GetWorkersPong collects the replies before mu is taken.
PingWorkers ==
  /\ healthLoop.pc = "tick"
  /\ \E responders \in SUBSET Workers :
       /\ IF responders = Workers THEN NoFault ELSE Fault
       /\ healthLoop' = [pc |-> "lock", responders |-> responders, next |-> 1]
  /\ UNCHANGED <<workers, mu, caller, resultLoop, restarts, saveResultChan,
                 saveLoop, matchSeq, brokerVars, historyVars>>

HealthLock ==
  /\ healthLoop.pc = "lock"
  /\ mu = "none"
  /\ mu' = "health"
  /\ healthLoop' = [healthLoop EXCEPT !.pc = "check"]
  /\ UNCHANGED <<workers, caller, resultLoop, restarts, saveResultChan, saveLoop,
                 matchSeq, brokerVars, faults, historyVars>>

\* One round of the loop over the workers.
PongedWorker(w) == HandlePong(workers[w], w \in healthLoop.responders)

CheckHealthy ==
  LET w == healthLoop.next IN
  /\ healthLoop.pc = "check"
  /\ w <= WorkerCount
  /\ IsHealthy(PongedWorker(w))
  /\ workers' = [workers EXCEPT ![w] = PongedWorker(w)]
  /\ healthLoop' = [healthLoop EXCEPT !.next = @ + 1]
  /\ UNCHANGED <<mu, caller, resultLoop, restarts, saveResultChan, saveLoop,
                 matchSeq, brokerVars, faults, historyVars>>

\* Broken variant: the cancel is sent whether or not a match runs.
CancelMatchAlways(w) ==
  /\ Len(saveResultChan) < ResultChanSize
  /\ saveResultChan' = Append(saveResultChan,
                         [MatchID |-> workers[w].MatchID, Success |-> FALSE])

\* An unhealthy worker's match is canceled, with mu held while the channel is
\* full.
CancelMatch(w) ==
  \/ /\ workers[w].State = "Occupied"
     /\ Len(saveResultChan) < ResultChanSize
     /\ saveResultChan' = Append(saveResultChan,
                            [MatchID |-> workers[w].MatchID, Success |-> FALSE])
  \/ /\ workers[w].State # "Occupied"
     /\ UNCHANGED saveResultChan

\* An unhealthy worker loses its match, and a goroutine restarts its container.
CheckUnhealthy ==
  LET w == healthLoop.next IN
  /\ healthLoop.pc = "check"
  /\ w <= WorkerCount
  /\ ~ IsHealthy(PongedWorker(w))
  /\ CancelMatch(w)
  /\ workers' = [workers EXCEPT ![w] = SetRestarting(PongedWorker(w))]
  /\ restarts' = restarts \cup
       {[worker |-> w, stateID |-> workers'[w].StateID, restarted |-> FALSE]}
  /\ healthLoop' = [healthLoop EXCEPT !.next = @ + 1]
  /\ UNCHANGED <<mu, caller, resultLoop, saveLoop, matchSeq, brokerVars, faults,
                 historyVars>>

HealthUnlock ==
  /\ healthLoop.pc = "check"
  /\ healthLoop.next > WorkerCount
  /\ mu' = "none"
  /\ healthLoop' = [pc |-> "tick", responders |-> {}, next |-> 1]
  /\ UNCHANGED <<workers, caller, resultLoop, restarts, saveResultChan, saveLoop,
                 matchSeq, brokerVars, faults, historyVars>>

\* RestartContainer returns without an error.
RestartContainer(r) ==
  /\ ~ r.restarted
  /\ restarts' = (restarts \ {r}) \cup {[r EXCEPT !.restarted = TRUE]}
  /\ UNCHANGED <<workers, mu, caller, resultLoop, healthLoop, saveResultChan,
                 saveLoop, matchSeq, brokerVars, faults, historyVars>>

\* RestartContainer fails: the goroutine ends and the worker stays restarting.
RestartFail(r) ==
  /\ ~ r.restarted
  /\ Fault
  /\ restarts' = restarts \ {r}
  /\ UNCHANGED <<workers, mu, caller, resultLoop, healthLoop, saveResultChan,
                 saveLoop, matchSeq, brokerVars, historyVars>>

\* Broken variant: restartWorker does not look for a newer state.
RestartReturnUnchecked(r) ==
  /\ r.restarted
  /\ mu = "none"
  /\ restarts' = restarts \ {r}
  /\ workers' = [workers EXCEPT ![r.worker] = SetFree(@)]
  /\ Signal
  /\ UNCHANGED <<mu, resultLoop, healthLoop, saveResultChan, saveLoop, matchSeq,
                 brokerVars, faults, historyVars>>

\* The critical section of restartWorker, with its check for a newer state.
RestartReturn(r) ==
  /\ r.restarted
  /\ mu = "none"
  /\ restarts' = restarts \ {r}
  /\ \/ /\ workers[r.worker].StateID = r.stateID
        /\ workers' = [workers EXCEPT ![r.worker] = SetFree(@)]
        /\ Signal
     \/ /\ workers[r.worker].StateID # r.stateID
        /\ UNCHANGED <<workers, caller>>
  /\ UNCHANGED <<mu, resultLoop, healthLoop, saveResultChan, saveLoop, matchSeq,
                 brokerVars, faults, historyVars>>

\* restartTimeout passes.  It is a fault when the restart it was set for is
\* still under way: Docker takes longer than the manager expects.
RestartDeadline(w) ==
  /\ workers[w].validity = "until"
  /\ workers' = [workers EXCEPT ![w].validity = "expired"]
  /\ IF \E r \in restarts : r.worker = w /\ r.stateID = workers[w].StateID
     THEN Fault ELSE NoFault
  /\ UNCHANGED <<mu, caller, resultLoop, healthLoop, restarts, saveResultChan,
                 saveLoop, matchSeq, brokerVars, historyVars>>

-----------------------------------------------------------------------------
(* saveLoop *)

\* Broken variant: saveLoop takes mu.
ReceiveResultLocked ==
  /\ saveLoop.pc = "receive"
  /\ mu = "none"
  /\ saveResultChan # <<>>
  /\ saveLoop' = [pc |-> "removeStatus", res |-> Head(saveResultChan)]
  /\ saveResultChan' = Tail(saveResultChan)
  /\ UNCHANGED <<workers, mu, caller, resultLoop, healthLoop, restarts, matchSeq,
                 brokerVars, faults, historyVars>>

ReceiveResult ==
  /\ saveLoop.pc = "receive"
  /\ saveResultChan # <<>>
  /\ saveLoop' = [pc |-> "removeStatus", res |-> Head(saveResultChan)]
  /\ saveResultChan' = Tail(saveResultChan)
  /\ UNCHANGED <<workers, mu, caller, resultLoop, healthLoop, restarts, matchSeq,
                 brokerVars, faults, historyVars>>

\* Broken variant: an error of RemoveMatchStatus ends the round.
RemoveMatchStatusOrStop ==
  /\ saveLoop.pc = "removeStatus"
  /\ \/ saveLoop' = [saveLoop EXCEPT !.pc = "saveResults"]
     \/ saveLoop' = [pc |-> "receive", res |-> NoResult]
  /\ UNCHANGED <<workers, mu, caller, resultLoop, healthLoop, restarts,
                 saveResultChan, matchSeq, brokerVars, faults, historyVars>>

\* RemoveMatchStatus returns; an error is only logged.
RemoveMatchStatus ==
  /\ saveLoop.pc = "removeStatus"
  /\ saveLoop' = [saveLoop EXCEPT !.pc = "saveResults"]
  /\ UNCHANGED <<workers, mu, caller, resultLoop, healthLoop, restarts,
                 saveResultChan, matchSeq, brokerVars, faults, historyVars>>

\* SaveMatchResults returns; an error only delays the next receive.
SaveMatchResults ==
  /\ saveLoop.pc = "saveResults"
  /\ saveLoop' = [pc |-> "receive", res |-> NoResult]
  /\ processed' = processed \cup {saveLoop.res}
  /\ UNCHANGED <<workers, mu, caller, resultLoop, healthLoop, restarts,
                 saveResultChan, matchSeq, brokerVars, faults, assigned, consumed>>

-----------------------------------------------------------------------------
(* The game servers, through the result stream. *)

Published(m) == {i \in DOMAIN resultLog : resultLog[i].MatchID = m}

\* A game server publishes the outcome of a job it was sent.
PublishResult(m) ==
  /\ m \in jobs
  /\ Published(m) = {}
  /\ \E success \in BOOLEAN :
       resultLog' = Append(resultLog, [MatchID |-> m, Success |-> success])
  /\ UNCHANGED <<managerVars, jobs, cursor, redeliver, faults, historyVars>>

\* The broker stored a result but its publish ack got lost: the game server
\* takes the publication for failed and publishes a cancel as well.
PublishCancelAfterResult(m) ==
  /\ Fault
  /\ \E i \in Published(m) : resultLog[i].Success /\ Published(m) = {i}
  /\ resultLog' = Append(resultLog, [MatchID |-> m, Success |-> FALSE])
  /\ UNCHANGED <<managerVars, jobs, cursor, redeliver, historyVars>>

-----------------------------------------------------------------------------
Caller == \/ WaitForFreeWorker \/ GiveUpRound \/ AssignNoFreeWorker
          \/ AssignBegin \/ AssignSend \/ AssignFail \/ AssignReturn
HandleResults == GetResult \/ AckResult \/ AckFail \/ SendResult \/ FreeMatchWorker
HealthCheck == \/ PingWorkers \/ HealthLock \/ CheckHealthy \/ CheckUnhealthy
               \/ HealthUnlock
RestartWorker(r) == RestartContainer(r) \/ RestartFail(r) \/ RestartReturn(r)
Save == ReceiveResult \/ RemoveMatchStatus \/ SaveMatchResults
GameServers ==
  \E m \in Match : PublishResult(m) \/ PublishCancelAfterResult(m)

Next ==
  \/ Caller
  \/ HandleResults
  \/ HealthCheck
  \/ \E r \in restarts : RestartWorker(r)
  \/ \E w \in Workers : RestartDeadline(w)
  \/ Save
  \/ GameServers

Spec == Init /\ [][Next]_vars

(***************************************************************************)
(* Fairness.  Every goroutine keeps running, and the calls it blocks in    *)
(* end: each has a timeout, or waits for another goroutine.  Go hands a    *)
(* contended mutex, and a slot of a full channel, to its waiters in the    *)
(* order they arrived, so that taking one is strongly fair.  The game      *)
(* servers owe nothing: a match may run forever.                           *)
(***************************************************************************)
LoopFairness ==
  /\ WF_vars(GetResult \/ AckResult)
  /\ SF_vars(SendResult)
  /\ SF_vars(FreeMatchWorker)
  /\ WF_vars(PingWorkers \/ CheckHealthy \/ HealthUnlock)
  /\ SF_vars(HealthLock)
  /\ SF_vars(CheckUnhealthy)
  /\ \A w \in Workers :
       /\ WF_vars(\E r \in restarts : r.worker = w /\ RestartContainer(r))
       /\ SF_vars(\E r \in restarts : r.worker = w /\ RestartReturn(r))
       /\ WF_vars(RestartDeadline(w))
  /\ WF_vars(Save)

CallerFairness ==
  /\ SF_vars(WaitForFreeWorker)
  /\ WF_vars(AssignSend \/ AssignFail \/ AssignReturn)

FairSpec == Spec /\ LoopFairness /\ CallerFairness

-----------------------------------------------------------------------------
(* Correctness. *)

CallerState ==
  [pc : {"away", "waiting", "woken", "ready", "getPort", "request"},
   worker : Workers, match : Match \cup {NoMatch}]
ResultLoopState ==
  [pc : {"fetch"}, res : {NoResult}] \cup [pc : {"ack", "send", "free"}, res : Result]
HealthLoopState ==
  [pc : {"tick", "lock", "check"}, responders : SUBSET Workers, next : 1 .. WorkerCount + 1]
SaveLoopState ==
  [pc : {"receive"}, res : {NoResult}]
    \cup [pc : {"removeStatus", "saveResults"}, res : Result]

TypeOK ==
  /\ workers \in [Workers -> WorkerRecord]
  /\ mu \in {"none", "caller", "health"}
  /\ caller \in CallerState
  /\ resultLoop \in ResultLoopState
  /\ healthLoop \in HealthLoopState
  /\ restarts \subseteq Restart
  /\ saveResultChan \in Seq(Result)
  /\ Len(saveResultChan) <= ResultChanSize
  /\ saveLoop \in SaveLoopState
  /\ matchSeq \in 0 .. MaxMatches
  /\ jobs \subseteq Match
  /\ resultLog \in Seq(Result)
  /\ cursor \in 0 .. Len(resultLog)
  /\ redeliver \subseteq Result
  /\ faults \in 0 .. MaxFaults
  /\ assigned \subseteq Match
  /\ consumed \subseteq Match
  /\ processed \subseteq Result

\* Every result that was sent to saveLoop, wherever it is by now.
Reports == ToSet(saveResultChan) \cup processed
             \cup (IF saveLoop.pc = "receive" THEN {} ELSE {saveLoop.res})
Reported == {r.MatchID : r \in Reports}

\* No match is forgotten.  A match AssignMatch returned for is held by a worker
\* until its outcome, or its cancellation, is on its way through saveLoop: a
\* worker is never freed or restarted under a running match, whatever restarts,
\* stale goroutines and redelivered results do (the StateID check of
\* restartWorker, the order of send and SetFree in handleResults, the cancel in
\* healthCheck).
NoMatchForgotten == \A m \in assigned : HoldersOf(m) # {} \/ m \in Reported

\* A match is held by at most one worker, which getWorkerByMatchID relies on,
\* and exactly the occupied workers hold one.
ExclusiveWorkers ==
  /\ \A w \in Workers :
       /\ workers[w].State = "Occupied" <=> workers[w].MatchID # NoMatch
       /\ workers[w].MatchID \in assigned \cup {NoMatch}
  /\ \A v, w \in Workers :
       workers[v].MatchID = workers[w].MatchID /\ workers[v].MatchID # NoMatch => v = w

\* Once handleResults has dealt with a match's result no worker holds that match
\* or will: AssignMatch keeps mu from before the request until SetOccupied, so
\* that a result cannot overtake the bookkeeping of the match it belongs to.
\* (A worker occupied with such a match would stay occupied forever.)
ConsumedMatchReleased ==
  \A m \in consumed : HoldersOf(m) = {} /\ caller.match # m

\* A restartWorker goroutine that still has the current state of its worker
\* finds it restarting, and no two goroutines share a state.
RestartOwnsState ==
  \A r \in restarts :
    /\ r.stateID <= workers[r.worker].StateID
    /\ r.stateID = workers[r.worker].StateID => workers[r.worker].State = "Restarting"
    /\ \A q \in restarts : q.worker = r.worker /\ q.stateID = r.stateID => q = r

\* Every SetFree is followed by its Signal before mu is released: the matchmaker
\* never waits while a worker is free.
NoLostWakeup == caller.pc = "waiting" => FreeWorkers = {}

\* What the other invariants rest on: mu is held exactly inside the two sections
\* that span several steps; the match being requested is the newest id, not yet
\* dispatched, and its worker stays free meanwhile; results exist only of
\* matches whose job was sent; and handleResults reports before it frees.
LockAndSequence ==
  /\ mu = "caller" <=> caller.pc \in {"getPort", "request"}
  /\ mu = "health" <=> healthLoop.pc = "check"
  /\ IF caller.pc \in {"getPort", "request"}
     THEN /\ caller.match = matchSeq /\ caller.match # NoMatch
          /\ caller.match \notin assigned
          /\ caller.match \in jobs <=> caller.pc = "request"
          /\ workers[caller.worker].State = "Free"
     ELSE caller.match = NoMatch
  /\ assigned \subseteq jobs
  /\ jobs \subseteq 1 .. matchSeq
  /\ consumed \subseteq jobs
  /\ \A i \in DOMAIN resultLog : resultLog[i].MatchID \in jobs
  /\ \A r \in redeliver : r.MatchID \in jobs
  /\ resultLoop.pc # "fetch" => resultLoop.res.MatchID \in jobs
  /\ resultLoop.pc = "free" => resultLoop.res.MatchID \in Reported

\* The inductive invariant of the manager.
Inv == /\ TypeOK
       /\ NoMatchForgotten
       /\ ExclusiveWorkers
       /\ ConsumedMatchReleased
       /\ RestartOwnsState
       /\ NoLostWakeup
       /\ LockAndSequence

\* Whoever holds mu lets go of it, even when healthCheck waits for a slot in a
\* full channel: saveLoop never needs mu.
MuReleased == mu # "none" ~> mu = "none"

\* A worker taken out of service comes back: through its restart, or through the
\* deadline of its state and another restart when Docker failed or was slow.
RestartEnds ==
  \A w \in Workers : workers[w].State = "Restarting" ~> workers[w].State = "Free"

\* Every result in the stream, and every report in the channel, cancellations
\* included, reaches both of saveLoop's database calls.
ReportSaved ==
  \A m \in Match :
    Published(m) # {} \/ m \in Reported ~> \E r \in processed : r.MatchID = m

-----------------------------------------------------------------------------
(* The manager implements MatchDispatch: a worker is a slot, down while it *)
(* restarts, and otherwise showing its MatchID.                            *)
SlotView == [w \in Workers |-> IF workers[w].State = "Restarting"
                               THEN -1 ELSE workers[w].MatchID]

Dispatching ==
  INSTANCE MatchDispatch WITH
    Slot <- Workers, slot <- SlotView,
    requested <- jobs, dispatched <- assigned, reported <- Reported

\* The manager's steps are those of MatchDispatch: a match is dispatched to one
\* idle slot after it was requested, and a slot is vacated only with its match
\* reported.
ImplementsMatchDispatch == Dispatching!Spec
-----------------------------------------------------------------------------
(* The game servers around the manager do what MatchOutcome says, which is *)
(* what GameServer, the model of one of them, implements: the outcome of a *)
(* match is what the stream RESULT holds about it, in order.               *)
OutcomeOf(m) ==
  IF Published(m) = {} THEN "none"
  ELSE IF \E i \in Published(m) : Published(m) = {i} /\ resultLog[i].Success
  THEN "result"
  ELSE IF \E i \in Published(m) : Published(m) = {i}
  THEN "cancel"
  ELSE IF \E i, j \in Published(m) : /\ Published(m) = {i, j} /\ i < j
                                     /\ resultLog[i].Success /\ ~ resultLog[j].Success
  THEN "result, cancel"
  ELSE "more"

OutcomeView == [m \in Match |-> OutcomeOf(m)]

Owed == INSTANCE MatchOutcome WITH outcome <- OutcomeView

\* A match has no outcome before its job was sent, and one outcome in the stream,
\* or a result and then a cancel, whatever assignments fail or time out meanwhile.
KeepsMatchOutcome == Owed!Spec

\* The stream never loses an entry, and no game server publishes a third one.
OutcomesExist == OutcomeView \in [Match -> Owed!Outcomes]
=============================================================================
