------------------------ MODULE WorkerManager_proofs ------------------------
(***************************************************************************)
(* Proofs about WorkerManager, for every number of workers, matches and    *)
(* faults, every channel size and every number of allowed missed pings.    *)
(***************************************************************************)
EXTENDS WorkerManager, TLAPS

\* What a sequence holds after an element was appended to it.
LEMMA AppendSet ==
  ASSUME NEW S, NEW s \in Seq(S), NEW e \in S
  PROVE  /\ Append(s, e) \in Seq(S)
         /\ Len(Append(s, e)) = Len(s) + 1
         /\ ToSet(Append(s, e)) = ToSet(s) \cup {e}
<1>1. Append(s, e) \in Seq(S) /\ Len(Append(s, e)) = Len(s) + 1
  OBVIOUS
<1>2. ToSet(Append(s, e)) \subseteq ToSet(s) \cup {e}
  BY DEF ToSet
<1>3. ToSet(s) \subseteq ToSet(Append(s, e))
  <2> SUFFICES ASSUME NEW i \in DOMAIN s
               PROVE  s[i] \in ToSet(Append(s, e))
    BY DEF ToSet
  <2>1. i \in DOMAIN Append(s, e) /\ Append(s, e)[i] = s[i]
    OBVIOUS
  <2> QED  BY <2>1 DEF ToSet
<1>4. e \in ToSet(Append(s, e))
  <2>1. Len(s) + 1 \in DOMAIN Append(s, e) /\ Append(s, e)[Len(s) + 1] = e
    OBVIOUS
  <2> QED  BY <2>1 DEF ToSet
<1> QED  BY <1>1, <1>2, <1>3, <1>4

\* What a sequence holds besides its head.
LEMMA TailSet ==
  ASSUME NEW S, NEW s \in Seq(S), s # <<>>
  PROVE  /\ Head(s) \in S
         /\ Tail(s) \in Seq(S)
         /\ Len(Tail(s)) = Len(s) - 1
         /\ ToSet(s) = ToSet(Tail(s)) \cup {Head(s)}
<1>1. Head(s) \in S /\ Tail(s) \in Seq(S) /\ Len(Tail(s)) = Len(s) - 1
  OBVIOUS
<1>2. ToSet(s) \subseteq ToSet(Tail(s)) \cup {Head(s)}
  <2> SUFFICES ASSUME NEW i \in DOMAIN s, i # 1
               PROVE  s[i] \in ToSet(Tail(s))
    BY DEF ToSet
  <2>1. i - 1 \in DOMAIN Tail(s) /\ Tail(s)[i - 1] = s[i]
    OBVIOUS
  <2> QED  BY <2>1 DEF ToSet
<1>3. ToSet(Tail(s)) \cup {Head(s)} \subseteq ToSet(s)
  <2>1. Head(s) = s[1] /\ 1 \in DOMAIN s
    OBVIOUS
  <2>2. ASSUME NEW i \in DOMAIN Tail(s)
        PROVE  Tail(s)[i] \in ToSet(s)
    <3>1. i + 1 \in DOMAIN s /\ Tail(s)[i] = s[i + 1]
      OBVIOUS
    <3> QED  BY <3>1 DEF ToSet
  <2> QED  BY <2>1, <2>2 DEF ToSet
<1> QED  BY <1>1, <1>2, <1>3

-----------------------------------------------------------------------------
(* The state changes of worker.go, as the proofs need them. *)

\* SetFree leaves the worker free, without a match, in the next state.
LEMMA SetFreeWorker ==
  ASSUME NEW wk \in WorkerRecord
  PROVE  /\ SetFree(wk) \in WorkerRecord
         /\ SetFree(wk).State = "Free"
         /\ SetFree(wk).MatchID = NoMatch
         /\ SetFree(wk).StateID = wk.StateID + 1
  BY DEF WorkerRecord, WorkerState, SetFree, EnterState, NoMatch

\* SetOccupied leaves the worker occupied with the match, in the next state.
LEMMA SetOccupiedWorker ==
  ASSUME NEW wk \in WorkerRecord, NEW m \in Nat
  PROVE  /\ SetOccupied(wk, m) \in WorkerRecord
         /\ SetOccupied(wk, m).State = "Occupied"
         /\ SetOccupied(wk, m).MatchID = m
         /\ SetOccupied(wk, m).StateID = wk.StateID + 1
  BY DEF WorkerRecord, WorkerState, SetOccupied, EnterState

\* SetRestarting leaves the worker restarting, without a match, in the next state.
LEMMA SetRestartingWorker ==
  ASSUME NEW wk \in WorkerRecord
  PROVE  /\ SetRestarting(wk) \in WorkerRecord
         /\ SetRestarting(wk).State = "Restarting"
         /\ SetRestarting(wk).MatchID = NoMatch
         /\ SetRestarting(wk).StateID = wk.StateID + 1
  BY DEF WorkerRecord, WorkerState, SetRestarting, EnterState, NoMatch

\* HandlePong touches neither the state of a worker nor its match.
LEMMA PongedWorkerFacts ==
  ASSUME NEW w, workers[w] \in WorkerRecord
  PROVE  /\ PongedWorker(w) \in WorkerRecord
         /\ PongedWorker(w).State = workers[w].State
         /\ PongedWorker(w).MatchID = workers[w].MatchID
         /\ PongedWorker(w).StateID = workers[w].StateID
<1>1. CASE w \in healthLoop.responders
  BY <1>1 DEF PongedWorker, HandlePong, WorkerRecord
<1>2. CASE w \notin healthLoop.responders
  BY <1>2 DEF PongedWorker, HandlePong, WorkerRecord
<1> QED  BY <1>1, <1>2

\* The definitions every case below expands.
USE ConstantsAssumption, MaxPingRetriesAssumption
    DEF Workers, Match, NoMatch, managerVars, brokerVars, historyVars, Fault, NoFault

\* Types are preserved by every step from a state of the inductive invariant.
LEMMA TypeStep ==
  ASSUME Inv, [Next]_vars
  PROVE  TypeOK'
<1> USE DEF TypeOK
<1>0. TypeOK /\ LockAndSequence /\ ExclusiveWorkers
  BY DEF Inv
<1>1. CASE WaitForFreeWorker
  BY <1>0, <1>1 DEF WaitForFreeWorker, CallerState, Outside
<1>2. CASE GiveUpRound
  BY <1>0, <1>2 DEF GiveUpRound, CallerState, Outside
<1>3. CASE AssignNoFreeWorker
  BY <1>0, <1>3 DEF AssignNoFreeWorker, CallerState, Outside
<1>4. CASE AssignBegin
  BY <1>0, <1>4 DEF AssignBegin, CallerState, IsFirstFree
<1>5. CASE AssignSend
  <2>1. caller.match \in Match
    BY <1>0, <1>5 DEF AssignSend, CallerState, LockAndSequence
  <2>2. caller' \in CallerState
    BY <1>0, <1>5 DEF AssignSend, CallerState
  <2> QED  BY <1>0, <1>5, <2>1, <2>2 DEF AssignSend
<1>6. CASE AssignFail
  BY <1>0, <1>6 DEF AssignFail, CallerState, Outside
<1>7. CASE AssignReturn
  <2>1. caller.match \in Match /\ caller.worker \in Workers
    BY <1>0, <1>7 DEF AssignReturn, CallerState, LockAndSequence
  <2>2. workers' \in [Workers -> WorkerRecord]
    <3>1. workers[caller.worker] \in WorkerRecord /\ caller.match \in Nat
      BY <1>0, <2>1
    <3>2. SetOccupied(workers[caller.worker], caller.match) \in WorkerRecord
      BY <3>1, SetOccupiedWorker
    <3> QED  BY <1>0, <1>7, <2>1, <3>2 DEF AssignReturn
  <2>3. caller' \in CallerState
    BY <1>0, <1>7 DEF AssignReturn, CallerState, Outside
  <2> QED  BY <1>0, <1>7, <2>1, <2>2, <2>3 DEF AssignReturn
<1>8. CASE GetResult
  BY <1>0, <1>8 DEF GetResult, ResultLoopState, NoResult
<1>9. CASE AckResult
  <2>1. resultLoop' \in ResultLoopState /\ resultLoop.res \in Result
    BY <1>0, <1>9 DEF AckResult, ResultLoopState
  <2> QED  BY <1>0, <1>9, <2>1 DEF AckResult
<1>10. CASE AckFail
  BY <1>0, <1>10 DEF AckFail, ResultLoopState, NoResult
<1>11. CASE SendResult
  BY <1>0, AppendSet, <1>11 DEF SendResult, ResultLoopState, NoResult
<1>12. CASE FreeMatchWorker
  <2>1. resultLoop' \in ResultLoopState /\ resultLoop.res.MatchID \in Match
    BY <1>0, <1>12 DEF FreeMatchWorker, ResultLoopState, Result, NoResult
  <2>2. workers' \in [Workers -> WorkerRecord]
    <3>1. \A w \in Workers : SetFree(workers[w]) \in WorkerRecord
      BY <1>0, SetFreeWorker
    <3> QED  BY <1>0, <1>12, <3>1 DEF FreeMatchWorker
  <2>3. caller' \in CallerState
    BY <1>0, <1>12 DEF FreeMatchWorker, Signal, CallerState, Outside
  <2> QED  BY <1>0, <1>12, <2>1, <2>2, <2>3 DEF FreeMatchWorker
<1>13. CASE PingWorkers
  BY <1>0, <1>13 DEF PingWorkers, HealthLoopState
<1>14. CASE HealthLock
  BY <1>0, <1>14 DEF HealthLock, HealthLoopState
<1>15. CASE CheckHealthy
  <2>1. healthLoop.next \in Workers
    BY <1>0, <1>15 DEF CheckHealthy, HealthLoopState
  <2>2. healthLoop' \in HealthLoopState
    <3>1. healthLoop.next + 1 \in 1 .. WorkerCount + 1
      BY <2>1
    <3>2. healthLoop \in HealthLoopState /\ healthLoop' = [healthLoop EXCEPT !.next = @ + 1]
      BY <1>0, <1>15 DEF CheckHealthy
    <3> HIDE DEF TypeOK
    <3> QED  BY <3>1, <3>2 DEF HealthLoopState
  <2>3. workers' \in [Workers -> WorkerRecord]
    <3>1. workers[healthLoop.next] \in WorkerRecord
      BY <1>0, <2>1
    <3>2. PongedWorker(healthLoop.next) \in WorkerRecord
      BY <3>1, PongedWorkerFacts
    <3> QED  BY <1>0, <1>15, <2>1, <3>2 DEF CheckHealthy
  <2> QED  BY <1>0, <1>15, <2>2, <2>3 DEF CheckHealthy
<1>16. CASE CheckUnhealthy
  <2> DEFINE w == healthLoop.next
  <2>1. w \in Workers
    BY <1>0, <1>16 DEF CheckUnhealthy, CancelMatch, HealthLoopState
  <2>2. healthLoop' \in HealthLoopState
    <3>1. healthLoop.next + 1 \in 1 .. WorkerCount + 1
      BY <2>1
    <3>2. healthLoop \in HealthLoopState /\ healthLoop' = [healthLoop EXCEPT !.next = @ + 1]
      BY <1>0, <1>16 DEF CheckUnhealthy, CancelMatch
    <3> HIDE DEF TypeOK
    <3> QED  BY <3>1, <3>2 DEF HealthLoopState
  <2>3. SetRestarting(PongedWorker(w)) \in WorkerRecord
    <3>1. workers[w] \in WorkerRecord
      BY <1>0, <2>1
    <3>2. PongedWorker(w) \in WorkerRecord
      BY <3>1, PongedWorkerFacts
    <3> QED  BY <3>2, SetRestartingWorker
  <2>4. workers' \in [Workers -> WorkerRecord]
    BY <1>0, <1>16, <2>3 DEF CheckUnhealthy, CancelMatch
  <2>5. restarts' \subseteq Restart
    <3>1. workers'[w].StateID \in Nat
      BY <1>0, <2>1, <2>4 DEF WorkerRecord
    <3>2. /\ restarts \subseteq Restart
          /\ restarts' = restarts \cup
               {[worker |-> w, stateID |-> workers'[w].StateID, restarted |-> FALSE]}
      BY <1>0, <1>16 DEF CheckUnhealthy, CancelMatch
    <3> DEFINE id == workers'[w].StateID
    <3> HIDE DEF w, TypeOK, id
    <3>3. [worker |-> w, stateID |-> id, restarted |-> FALSE] \in Restart
      BY <2>1, <3>1 DEF Restart, id
    <3> QED  BY <3>2, <3>3 DEF id
  <2>6. saveResultChan' \in Seq(Result) /\ Len(saveResultChan') <= ResultChanSize
    <3>1. CASE workers[w].State = "Occupied"
      <4>1. workers[w].MatchID \in Match
        BY <1>0, <2>1, <3>1 DEF ExclusiveWorkers
      <4> DEFINE res == [MatchID |-> workers[w].MatchID, Success |-> FALSE]
      <4>2. res \in Result
        BY <1>0, <4>1 DEF Result
      <4>3. /\ Append(saveResultChan, res) \in Seq(Result)
            /\ Len(Append(saveResultChan, res)) = Len(saveResultChan) + 1
        BY <1>0, <4>2, AppendSet
      <4>4. Len(saveResultChan) \in Nat
        OBVIOUS
      <4> HIDE DEF res
      <4>5. saveResultChan' = Append(saveResultChan, res) /\ Len(saveResultChan) < ResultChanSize
        BY <1>0, <1>16, <3>1 DEF CheckUnhealthy, CancelMatch, res
      <4> QED  BY <4>3, <4>4, <4>5
    <3>2. CASE workers[w].State # "Occupied"
      BY <1>0, <1>16, <3>2 DEF CheckUnhealthy, CancelMatch
    <3> QED  BY <3>1, <3>2
  <2> QED  BY <1>0, <1>16, <2>2, <2>4, <2>5, <2>6 DEF CheckUnhealthy, CancelMatch
<1>17. CASE HealthUnlock
  BY <1>0, <1>17 DEF HealthUnlock, HealthLoopState
<1>18. CASE ReceiveResult
  BY <1>0, TailSet, <1>18 DEF ReceiveResult, SaveLoopState, NoResult
<1>19. CASE RemoveMatchStatus
  BY <1>0, <1>19 DEF RemoveMatchStatus, SaveLoopState, NoResult
<1>20. CASE SaveMatchResults
  BY <1>0, <1>20 DEF SaveMatchResults, SaveLoopState, NoResult
<1>21. ASSUME NEW r \in restarts, RestartContainer(r) PROVE TypeOK'
  BY <1>0, <1>21 DEF RestartContainer, Restart
<1>22. ASSUME NEW r \in restarts, RestartFail(r) PROVE TypeOK'
  BY <1>0, <1>22 DEF RestartFail
<1>23. ASSUME NEW r \in restarts, RestartReturn(r) PROVE TypeOK'
  <2>1. workers' \in [Workers -> WorkerRecord]
    <3>1. \A w \in Workers : SetFree(workers[w]) \in WorkerRecord
      BY <1>0, SetFreeWorker
    <3>2. r.worker \in Workers
      BY <1>0 DEF Restart
    <3> QED  BY <1>0, <1>23, <3>1, <3>2 DEF RestartReturn
  <2>2. caller' \in CallerState
    BY <1>0, <1>23 DEF RestartReturn, Signal, CallerState, Outside
  <2> QED  BY <1>0, <1>23, <2>1, <2>2 DEF RestartReturn
<1>24. ASSUME NEW w \in Workers, RestartDeadline(w) PROVE TypeOK'
  <2>1. [workers[w] EXCEPT !.validity = "expired"] \in WorkerRecord
    BY <1>0 DEF WorkerRecord
  <2>2. workers' \in [Workers -> WorkerRecord]
    BY <1>0, <1>24, <2>1 DEF RestartDeadline
  <2>3. faults' \in 0 .. MaxFaults
    BY <1>0, <1>24 DEF RestartDeadline
  <2> QED  BY <1>0, <1>24, <2>2, <2>3 DEF RestartDeadline
<1>25. ASSUME NEW m \in Match, PublishResult(m) PROVE TypeOK'
  BY <1>0, AppendSet, <1>25 DEF PublishResult, Result
<1>26. ASSUME NEW m \in Match, PublishCancelAfterResult(m) PROVE TypeOK'
  BY <1>0, AppendSet, <1>26 DEF PublishCancelAfterResult, Result
<1>27. CASE UNCHANGED vars
  BY <1>0, <1>27 DEF vars
<1> QED
  BY <1>1, <1>2, <1>3, <1>4, <1>5, <1>6, <1>7, <1>8, <1>9, <1>10, <1>11, <1>12, <1>13, <1>14, <1>15, <1>16, <1>17, <1>18, <1>19, <1>20, <1>21, <1>22, <1>23, <1>24, <1>25, <1>26, <1>27
     DEF Next, Caller, HandleResults, HealthCheck, RestartWorker, Save, GameServers

-----------------------------------------------------------------------------
(* What a step does to the reports and to the workers. *)

\* saveLoop only moves reports along, and nobody else takes one away.
LEMMA ReportsKept ==
  ASSUME TypeOK, Save \/ UNCHANGED <<saveResultChan, saveLoop, processed>>
  PROVE  Reports' = Reports
<1> USE DEF TypeOK, Reports
<1>1. CASE UNCHANGED <<saveResultChan, saveLoop, processed>>
  BY <1>1
<1>2. CASE ReceiveResult
  <2>1. ToSet(saveResultChan) = ToSet(saveResultChan') \cup {saveLoop'.res}
    BY <1>2, TailSet DEF ReceiveResult
  <2>2. saveLoop.pc = "receive" /\ saveLoop'.pc # "receive" /\ processed' = processed
    BY <1>2 DEF ReceiveResult
  <2> QED  BY <2>1, <2>2
<1>3. CASE RemoveMatchStatus
  <2>1. saveLoop'.pc # "receive" /\ saveLoop'.res = saveLoop.res /\ saveLoop.pc # "receive"
    BY <1>3 DEF RemoveMatchStatus, SaveLoopState
  <2> QED  BY <1>3, <2>1 DEF RemoveMatchStatus
<1>4. CASE SaveMatchResults
  BY <1>4 DEF SaveMatchResults
<1> QED  BY <1>1, <1>2, <1>3, <1>4 DEF Save

\* A result appended to saveResultChan is one more report.
LEMMA ReportsSent ==
  ASSUME TypeOK, NEW res \in Result,
         saveResultChan' = Append(saveResultChan, res),
         UNCHANGED <<saveLoop, processed>>
  PROVE  Reports' = Reports \cup {res}
<1>1. ToSet(saveResultChan') = ToSet(saveResultChan) \cup {res}
  BY AppendSet DEF TypeOK
<1> QED  BY <1>1 DEF Reports

\* The cancellation healthCheck sends for an occupied worker.
CancelOf(w) == [MatchID |-> workers[w].MatchID, Success |-> FALSE]

\* The reports after a step: handleResults and healthCheck add to them.
LEMMA ReportsStep ==
  ASSUME Inv, [Next]_vars
  PROVE  \/ Reports' = Reports
         \/ SendResult /\ resultLoop.res \in Result /\ Reports' = Reports \cup {resultLoop.res}
         \/ /\ CheckUnhealthy
            /\ workers[healthLoop.next].State = "Occupied"
            /\ CancelOf(healthLoop.next) \in Result
            /\ Reports' = Reports \cup {CancelOf(healthLoop.next)}
<1>0. TypeOK /\ ExclusiveWorkers
  BY DEF Inv
<1>1. CASE SendResult
  <2>1. resultLoop.res \in Result
    BY <1>0, <1>1 DEF TypeOK, SendResult, ResultLoopState
  <2> QED  BY <1>0, <1>1, <2>1, ReportsSent DEF SendResult
<1>2. CASE CheckUnhealthy /\ workers[healthLoop.next].State = "Occupied"
  <2> DEFINE w == healthLoop.next
  <2>1. w \in Workers
    BY <1>0, <1>2 DEF TypeOK, CheckUnhealthy, CancelMatch, HealthLoopState
  <2>2. workers[w].MatchID \in Match
    BY <1>0, <1>2, <2>1 DEF TypeOK, ExclusiveWorkers
  <2>3. CancelOf(w) \in Result
    BY <2>2 DEF Result, CancelOf
  <2>4. saveResultChan' = Append(saveResultChan, CancelOf(w)) /\ UNCHANGED <<saveLoop, processed>>
    BY <1>2 DEF CheckUnhealthy, CancelMatch, CancelOf
  <2> QED  BY <1>0, <1>2, <2>3, <2>4, ReportsSent
<1>3. CASE CheckUnhealthy /\ workers[healthLoop.next].State # "Occupied"
  BY <1>0, <1>3, ReportsKept DEF CheckUnhealthy, CancelMatch
<1>4. CASE Save
  BY <1>0, <1>4, ReportsKept
<1>5. ASSUME NEW r \in restarts, RestartWorker(r)
      PROVE  UNCHANGED <<saveResultChan, saveLoop, processed>>
  BY <1>5 DEF RestartWorker, RestartContainer, RestartFail, RestartReturn
<1>6. ASSUME NEW w \in Workers, RestartDeadline(w)
      PROVE  UNCHANGED <<saveResultChan, saveLoop, processed>>
  BY <1>6 DEF RestartDeadline
<1>7. CASE Caller
  BY <1>0, <1>7, ReportsKept
     DEF Caller, WaitForFreeWorker, GiveUpRound, AssignNoFreeWorker, AssignBegin,
         AssignSend, AssignFail, AssignReturn
<1>8. CASE GetResult \/ AckResult \/ AckFail \/ FreeMatchWorker
  BY <1>0, <1>8, ReportsKept DEF GetResult, AckResult, AckFail, FreeMatchWorker
<1>9. CASE PingWorkers \/ HealthLock \/ CheckHealthy \/ HealthUnlock
  BY <1>0, <1>9, ReportsKept DEF PingWorkers, HealthLock, CheckHealthy, HealthUnlock
<1>10. CASE GameServers
  BY <1>0, <1>10, ReportsKept DEF GameServers, PublishResult, PublishCancelAfterResult
<1>11. CASE UNCHANGED vars
  BY <1>0, <1>11, ReportsKept DEF vars
<1> QED
  BY <1>0, <1>1, <1>2, <1>3, <1>4, <1>5, <1>6, <1>7, <1>8, <1>9, <1>10, <1>11, ReportsKept
     DEF Next, HandleResults, HealthCheck

\* What was reported stays reported.
LEMMA ReportedGrows ==
  ASSUME Inv, [Next]_vars
  PROVE  Reported \subseteq Reported'
  BY ReportsStep DEF Reported

\* A worker keeps its state and its match; a worker enters another state while
\* the others keep theirs.
Keeps(w) == /\ workers'[w].State = workers[w].State
            /\ workers'[w].MatchID = workers[w].MatchID
            /\ workers'[w].StateID = workers[w].StateID
Enters(w, state, m) == /\ w \in Workers
                       /\ workers'[w].State = state
                       /\ workers'[w].MatchID = m
                       /\ workers'[w].StateID = workers[w].StateID + 1
                       /\ \A v \in Workers \ {w} : Keeps(v)

\* What a step does to the workers.
WorkersKept == /\ \A w \in Workers : Keeps(w)
               /\ UNCHANGED assigned
WorkerOccupied == AssignReturn /\ Enters(caller.worker, "Occupied", caller.match)
WorkerFreed == /\ FreeMatchWorker
               /\ \E w \in Workers : /\ workers[w].MatchID = resultLoop.res.MatchID
                                     /\ Enters(w, "Free", NoMatch)
WorkerTaken == CheckUnhealthy /\ Enters(healthLoop.next, "Restarting", NoMatch)
WorkerRestarted ==
  \E r \in restarts : /\ RestartReturn(r)
                      /\ workers[r.worker].StateID = r.stateID
                      /\ Enters(r.worker, "Free", NoMatch)

\* A worker healthCheck finds unhealthy enters "Restarting", without its match.
LEMMA UnhealthyIsTaken ==
  ASSUME Inv, CheckUnhealthy
  PROVE  WorkerTaken
<1> DEFINE w == healthLoop.next
<1>1. workers \in [Workers -> WorkerRecord] /\ w \in Workers
  BY DEF Inv, TypeOK, HealthLoopState, CheckUnhealthy, CancelMatch
<1>2. /\ workers'[w] = SetRestarting(PongedWorker(w))
      /\ \A v \in Workers \ {w} : workers'[v] = workers[v]
  BY <1>1 DEF CheckUnhealthy, CancelMatch
<1>3. PongedWorker(w) \in WorkerRecord /\ PongedWorker(w).StateID = workers[w].StateID
  BY <1>1, PongedWorkerFacts
<1> QED  BY <1>1, <1>2, <1>3, SetRestartingWorker DEF WorkerTaken, Enters, Keeps

\* The ways a step changes workers: none, or one worker enters a new state by
\* AssignMatch, handleResults, healthCheck or restartWorker; HandlePong and the
\* deadline change neither state nor match.
LEMMA WorkersStep ==
  ASSUME Inv, [Next]_vars
  PROVE  WorkersKept \/ WorkerOccupied \/ WorkerFreed \/ WorkerTaken \/ WorkerRestarted
<1>0. /\ workers \in [Workers -> WorkerRecord]
      /\ caller.worker \in Workers /\ healthLoop.next \in 1 .. WorkerCount + 1
      /\ restarts \subseteq Restart
      /\ LockAndSequence
  BY DEF Inv, TypeOK, CallerState, HealthLoopState
<1> DEFINE Unchanged == UNCHANGED <<workers, assigned>>
<1>1. Unchanged => WorkersKept
  BY DEF WorkersKept, Keeps
<1>2. CASE AssignReturn
  <2>1. caller.match \in Nat
    BY <1>2 DEF Inv, TypeOK, CallerState
  <2>2. workers'[caller.worker] = SetOccupied(workers[caller.worker], caller.match)
    BY <1>0, <1>2 DEF AssignReturn
  <2>3. \A v \in Workers \ {caller.worker} : workers'[v] = workers[v]
    BY <1>0, <1>2 DEF AssignReturn
  <2> QED  BY <1>0, <1>2, <2>1, <2>2, <2>3, SetOccupiedWorker DEF WorkerOccupied, Enters, Keeps
<1>3. CASE FreeMatchWorker
  <2>1. CASE HoldersOf(resultLoop.res.MatchID) = {}
    BY <1>1, <1>3, <2>1 DEF FreeMatchWorker, IsFirstHolder
  <2>2. CASE HoldersOf(resultLoop.res.MatchID) # {}
    <3>1. PICK w \in Workers : /\ workers[w].MatchID = resultLoop.res.MatchID
                               /\ workers' = [workers EXCEPT ![w] = SetFree(@)]
      BY <1>3, <2>2 DEF FreeMatchWorker, IsFirstHolder, HoldersOf
    <3>2. /\ workers'[w] = SetFree(workers[w])
          /\ \A v \in Workers \ {w} : workers'[v] = workers[v]
      BY <1>0, <3>1
    <3> QED  BY <1>0, <1>3, <3>1, <3>2, SetFreeWorker DEF WorkerFreed, Enters, Keeps
  <2> QED  BY <2>1, <2>2
<1>4. CASE CheckHealthy
  <2> DEFINE w == healthLoop.next
  <2>1. w \in Workers
    BY <1>0, <1>4 DEF CheckHealthy
  <2>2. /\ workers'[w] = PongedWorker(w)
        /\ \A v \in Workers \ {w} : workers'[v] = workers[v]
    BY <1>0, <1>4, <2>1 DEF CheckHealthy
  <2> QED  BY <1>0, <1>4, <2>1, <2>2, PongedWorkerFacts DEF CheckHealthy, WorkersKept, Keeps
<1>5. CASE CheckUnhealthy
  BY <1>5, UnhealthyIsTaken
<1>6. ASSUME NEW r \in restarts, RestartReturn(r)
      PROVE  WorkersKept \/ WorkerRestarted
  <2>1. CASE workers[r.worker].StateID # r.stateID
    BY <1>1, <1>6, <2>1 DEF RestartReturn
  <2>2. CASE workers[r.worker].StateID = r.stateID
    <3>1. r.worker \in Workers
      BY <1>0 DEF Restart
    <3>2. /\ workers'[r.worker] = SetFree(workers[r.worker])
          /\ \A v \in Workers \ {r.worker} : workers'[v] = workers[v]
      BY <1>0, <1>6, <2>2, <3>1 DEF RestartReturn
    <3> QED  BY <1>0, <1>6, <2>2, <3>1, <3>2, SetFreeWorker DEF WorkerRestarted, Enters, Keeps
  <2> QED  BY <2>1, <2>2
<1>7. ASSUME NEW w \in Workers, RestartDeadline(w)
      PROVE  WorkersKept
  <2>1. /\ workers'[w] = [workers[w] EXCEPT !.validity = "expired"]
        /\ \A v \in Workers \ {w} : workers'[v] = workers[v]
        /\ assigned' = assigned
    BY <1>0, <1>7 DEF RestartDeadline
  <2>2. Keeps(w)
    <3>1. workers[w] \in WorkerRecord
      BY <1>0
    <3> QED  BY <2>1, <3>1 DEF Keeps, WorkerRecord
  <2>3. \A v \in Workers \ {w} : Keeps(v)
    BY <2>1 DEF Keeps
  <2> QED  BY <2>1, <2>2, <2>3 DEF WorkersKept
<1>8. CASE \/ WaitForFreeWorker \/ GiveUpRound \/ AssignNoFreeWorker
           \/ AssignBegin \/ AssignSend \/ AssignFail
  BY <1>1, <1>8 DEF WaitForFreeWorker, GiveUpRound, AssignNoFreeWorker, AssignBegin,
                    AssignSend, AssignFail
<1>9. CASE GetResult \/ AckResult \/ AckFail \/ SendResult
  BY <1>1, <1>9 DEF GetResult, AckResult, AckFail, SendResult
<1>10. CASE PingWorkers \/ HealthLock \/ HealthUnlock
  BY <1>1, <1>10 DEF PingWorkers, HealthLock, HealthUnlock
<1>11. ASSUME NEW r \in restarts, RestartContainer(r) \/ RestartFail(r)
       PROVE  WorkersKept
  BY <1>1, <1>11 DEF RestartContainer, RestartFail
<1>12. CASE Save
  BY <1>1, <1>12 DEF Save, ReceiveResult, RemoveMatchStatus, SaveMatchResults
<1>13. CASE GameServers
  BY <1>1, <1>13 DEF GameServers, PublishResult, PublishCancelAfterResult
<1>14. CASE UNCHANGED vars
  BY <1>1, <1>14 DEF vars
<1> QED
  BY <1>2, <1>3, <1>4, <1>5, <1>6, <1>7, <1>8, <1>9, <1>10, <1>11, <1>12, <1>13, <1>14
     DEF Next, Caller, HandleResults, HealthCheck, RestartWorker

-----------------------------------------------------------------------------
(* The conjuncts of the inductive invariant, each preserved by a step. *)

\* Only AssignReturn gives a match to a worker, a new one to a free worker.
LEMMA ExclusiveStep ==
  ASSUME Inv, [Next]_vars
  PROVE  ExclusiveWorkers'
<1>0. ExclusiveWorkers /\ LockAndSequence
  BY DEF Inv
<1>1. CASE WorkersKept
  BY <1>0, <1>1 DEF ExclusiveWorkers, WorkersKept, Keeps
<1>2. CASE WorkerOccupied
  <2>1. /\ caller.match # NoMatch /\ caller.match \notin assigned
        /\ assigned' = assigned \cup {caller.match}
    BY <1>0, <1>2 DEF WorkerOccupied, AssignReturn, LockAndSequence
  <2> QED  BY <1>0, <1>2, <2>1 DEF WorkerOccupied, Enters, Keeps, ExclusiveWorkers
<1>3. CASE WorkerFreed
  <2>1. assigned' = assigned
    BY <1>3 DEF WorkerFreed, FreeMatchWorker
  <2> QED  BY <1>0, <1>3, <2>1 DEF WorkerFreed, Enters, Keeps, ExclusiveWorkers
<1>4. CASE WorkerTaken
  <2>1. assigned' = assigned
    BY <1>4 DEF WorkerTaken, CheckUnhealthy, CancelMatch
  <2> QED  BY <1>0, <1>4, <2>1 DEF WorkerTaken, Enters, Keeps, ExclusiveWorkers
<1>5. CASE WorkerRestarted
  <2>1. assigned' = assigned
    BY <1>5 DEF WorkerRestarted, RestartReturn
  <2> QED  BY <1>0, <1>5, <2>1 DEF WorkerRestarted, Enters, Keeps, ExclusiveWorkers
<1> QED  BY <1>1, <1>2, <1>3, <1>4, <1>5, WorkersStep

\* A worker gives up its match only when that match is reported: handleResults
\* sends before it frees, healthCheck sends before it restarts, and a restart
\* frees only a worker that is still restarting.
LEMMA NoMatchForgottenStep ==
  ASSUME Inv, [Next]_vars
  PROVE  NoMatchForgotten'
<1>0. /\ NoMatchForgotten /\ ExclusiveWorkers /\ LockAndSequence /\ RestartOwnsState
      /\ TypeOK
  BY DEF Inv
<1>1. Reported \subseteq Reported'
  BY ReportedGrows
<1> SUFFICES ASSUME NEW m \in assigned', m \notin Reported
             PROVE  (\E v \in Workers : workers'[v].MatchID = m) \/ m \in Reported'
  BY <1>1 DEF NoMatchForgotten, HoldersOf
<1>2. m \in assigned => m # NoMatch /\ \E v \in Workers : workers[v].MatchID = m
  BY <1>0 DEF NoMatchForgotten, HoldersOf, TypeOK
<1>3. CASE WorkersKept
  BY <1>2, <1>3 DEF WorkersKept, Keeps
<1>4. CASE WorkerOccupied
  <2>1. assigned' = assigned \cup {caller.match}
    BY <1>4 DEF WorkerOccupied, AssignReturn
  <2>2. workers[caller.worker].MatchID = NoMatch
    BY <1>0, <1>4 DEF WorkerOccupied, Enters, AssignReturn, LockAndSequence, ExclusiveWorkers
  <2> QED  BY <1>2, <1>4, <2>1, <2>2 DEF WorkerOccupied, Enters, Keeps
<1>5. CASE WorkerFreed
  <2>1. assigned' = assigned /\ resultLoop.res.MatchID \in Reported
    BY <1>0, <1>5 DEF WorkerFreed, FreeMatchWorker, LockAndSequence
  <2> QED  BY <1>2, <1>5, <2>1 DEF WorkerFreed, Enters, Keeps
<1>6. CASE WorkerTaken
  <2> DEFINE w == healthLoop.next
  <2>1. assigned' = assigned /\ w \in Workers
    BY <1>6 DEF WorkerTaken, CheckUnhealthy, CancelMatch, Enters
  <2>2. CASE workers[w].MatchID # m
    BY <1>2, <1>6, <2>1, <2>2 DEF WorkerTaken, Enters, Keeps
  <2>3. CASE workers[w].MatchID = m
    <3>1. workers[w].State = "Occupied"
      BY <1>0, <1>2, <2>1, <2>3 DEF ExclusiveWorkers
    <3>2. saveResultChan' = Append(saveResultChan, CancelOf(w)) /\ UNCHANGED <<saveLoop, processed>>
      BY <1>6, <3>1 DEF WorkerTaken, CheckUnhealthy, CancelMatch, CancelOf
    <3>3. CancelOf(w) \in Result
      <4>1. m \in Match
        BY <1>0, <2>1 DEF TypeOK
      <4> QED  BY <2>3, <4>1 DEF CancelOf, Result
    <3>4. CancelOf(w) \in Reports'
      BY <1>0, <3>2, <3>3, ReportsSent
    <3> QED  BY <2>3, <3>4 DEF Reported, CancelOf
  <2> QED  BY <2>2, <2>3
<1>7. CASE WorkerRestarted
  <2>1. PICK r \in restarts : /\ workers[r.worker].StateID = r.stateID
                              /\ Enters(r.worker, "Free", NoMatch)
                              /\ assigned' = assigned
    BY <1>7 DEF WorkerRestarted, RestartReturn
  <2>2. workers[r.worker].MatchID = NoMatch
    BY <1>0, <2>1 DEF RestartOwnsState, Enters, ExclusiveWorkers
  <2> QED  BY <1>2, <2>1, <2>2 DEF Enters, Keeps
<1> QED  BY <1>3, <1>4, <1>5, <1>6, <1>7, WorkersStep

\* The match being requested is newer than every consumed one.
LEMMA ConsumedStep ==
  ASSUME Inv, [Next]_vars
  PROVE  ConsumedMatchReleased'
<1>0. TypeOK /\ ExclusiveWorkers /\ LockAndSequence /\ ConsumedMatchReleased
  BY DEF Inv
<1>1. CASE FreeMatchWorker
  <2> DEFINE m == resultLoop.res.MatchID
  <2>1. /\ consumed' = consumed \cup {m} /\ m # NoMatch
        /\ caller.match = NoMatch /\ caller'.match = NoMatch
    <3>1. caller.match = NoMatch
      BY <1>0, <1>1 DEF FreeMatchWorker, LockAndSequence
    <3>2. m \in Match
      BY <1>0, <1>1 DEF FreeMatchWorker, TypeOK, ResultLoopState, Result
    <3> QED  BY <1>1, <3>1, <3>2 DEF FreeMatchWorker, Signal, Outside
  <2>2. ASSUME NEW c \in consumed', NEW v \in Workers
        PROVE  workers'[v].MatchID # c
    <3>1. c \in consumed => workers[v].MatchID # c
      BY <1>0 DEF ConsumedMatchReleased, HoldersOf
    <3>2. c # NoMatch
      BY <1>0, <2>1 DEF TypeOK
    <3>3. CASE HoldersOf(m) = {}
      <4>1. workers'[v] = workers[v]
        BY <1>1, <3>3 DEF FreeMatchWorker, IsFirstHolder
      <4> QED  BY <2>1, <3>1, <3>3, <4>1 DEF HoldersOf
    <3>4. CASE HoldersOf(m) # {}
      <4>1. PICK w \in Workers : /\ workers[w].MatchID = m
                                 /\ workers' = [workers EXCEPT ![w] = SetFree(@)]
        BY <1>1, <3>4 DEF FreeMatchWorker, IsFirstHolder, HoldersOf
      <4>2. workers'[w].MatchID = NoMatch
        BY <1>0, <4>1, SetFreeWorker DEF TypeOK
      <4>3. v # w => workers'[v] = workers[v]
        BY <1>0, <4>1 DEF TypeOK
      <4> QED  BY <1>0, <2>1, <3>1, <3>2, <4>1, <4>2, <4>3 DEF ExclusiveWorkers
    <3> QED  BY <3>3, <3>4
  <2>3. \A c \in consumed' : c # NoMatch
    BY <1>0, <2>1 DEF TypeOK
  <2> QED  BY <2>1, <2>2, <2>3 DEF ConsumedMatchReleased, HoldersOf
<1>2. CASE ~ FreeMatchWorker
  <2>1. consumed' = consumed /\ consumed \subseteq 1 .. matchSeq /\ matchSeq \in Nat
    <3>1. CASE Caller
      BY <1>0, <3>1
         DEF Caller, WaitForFreeWorker, GiveUpRound, AssignNoFreeWorker, AssignBegin,
             AssignSend, AssignFail, AssignReturn, LockAndSequence, TypeOK
    <3>2. CASE HandleResults
      BY <1>0, <1>2, <3>2
         DEF HandleResults, GetResult, AckResult, AckFail, SendResult, LockAndSequence, TypeOK
    <3>3. CASE HealthCheck
      BY <1>0, <3>3
         DEF HealthCheck, PingWorkers, HealthLock, CheckHealthy, CheckUnhealthy, CancelMatch,
             HealthUnlock, LockAndSequence, TypeOK
    <3>4. ASSUME NEW r \in restarts, RestartWorker(r)
          PROVE  consumed' = consumed
      BY <3>4 DEF RestartWorker, RestartContainer, RestartFail, RestartReturn
    <3>5. ASSUME NEW w \in Workers, RestartDeadline(w)
          PROVE  consumed' = consumed
      BY <3>5 DEF RestartDeadline
    <3>6. CASE Save
      BY <1>0, <3>6
         DEF Save, ReceiveResult, RemoveMatchStatus, SaveMatchResults, LockAndSequence, TypeOK
    <3>7. CASE GameServers
      BY <1>0, <3>7
         DEF GameServers, PublishResult, PublishCancelAfterResult, LockAndSequence, TypeOK
    <3>8. CASE UNCHANGED vars
      BY <1>0, <3>8 DEF vars, LockAndSequence, TypeOK
    <3>9. consumed \subseteq 1 .. matchSeq /\ matchSeq \in Nat
      BY <1>0 DEF LockAndSequence, TypeOK
    <3> QED  BY <3>1, <3>2, <3>3, <3>4, <3>5, <3>6, <3>7, <3>8, <3>9 DEF Next
  <2>2. ASSUME NEW c \in consumed, NEW v \in Workers
        PROVE  workers'[v].MatchID # c
    <3>1. workers[v].MatchID # c /\ caller.match # c /\ c # NoMatch
      BY <1>0, <2>1 DEF ConsumedMatchReleased, HoldersOf
    <3> QED
      BY <1>2, <3>1, WorkersStep
         DEF WorkersKept, WorkerOccupied, WorkerFreed, WorkerTaken, WorkerRestarted, Enters, Keeps
  <2>3. ASSUME NEW c \in consumed
        PROVE  caller'.match # c
    <3>1. caller.match # c /\ c # NoMatch /\ c # matchSeq + 1
      BY <1>0, <2>1 DEF ConsumedMatchReleased
    <3>2. caller'.match \in {caller.match, NoMatch, matchSeq + 1}
      <4>1. CASE Caller
        BY <1>0, <4>1
           DEF Caller, WaitForFreeWorker, GiveUpRound, AssignNoFreeWorker, AssignBegin,
               AssignSend, AssignFail, AssignReturn, Outside, TypeOK, CallerState
      <4>2. CASE HandleResults
        BY <1>2, <4>2 DEF HandleResults, GetResult, AckResult, AckFail, SendResult
      <4>3. CASE HealthCheck
        BY <4>3 DEF HealthCheck, PingWorkers, HealthLock, CheckHealthy, CheckUnhealthy, CancelMatch, HealthUnlock
      <4>4. ASSUME NEW r \in restarts, RestartWorker(r)
            PROVE  caller'.match \in {caller.match, NoMatch}
        BY <4>4 DEF RestartWorker, RestartContainer, RestartFail, RestartReturn, Signal, Outside
      <4>5. ASSUME NEW w \in Workers, RestartDeadline(w)
            PROVE  caller' = caller
        BY <4>5 DEF RestartDeadline
      <4>6. CASE Save
        BY <4>6 DEF Save, ReceiveResult, RemoveMatchStatus, SaveMatchResults
      <4>7. CASE GameServers
        BY <4>7 DEF GameServers, PublishResult, PublishCancelAfterResult
      <4>8. CASE UNCHANGED vars
        BY <4>8 DEF vars
      <4> QED  BY <4>1, <4>2, <4>3, <4>4, <4>5, <4>6, <4>7, <4>8 DEF Next
    <3> QED  BY <3>1, <3>2
  <2> QED  BY <2>1, <2>2, <2>3 DEF ConsumedMatchReleased, HoldersOf
<1> QED  BY <1>1, <1>2

\* A goroutine's state id never runs ahead of its worker's; entering a state
\* takes a new id, so that only the newest goroutine can have the current one.
LEMMA RestartOwnsStateStep ==
  ASSUME Inv, [Next]_vars
  PROVE  RestartOwnsState'
<1>0. /\ TypeOK /\ RestartOwnsState /\ LockAndSequence
      /\ \A w \in Workers : workers[w].StateID \in Nat
      /\ \A r \in restarts : r \in Restart /\ r.stateID \in Nat /\ r.worker \in Workers
  BY DEF Inv, TypeOK, WorkerRecord, Restart
<1> DEFINE Owns(r) == /\ r.stateID <= workers'[r.worker].StateID
                      /\ r.stateID = workers'[r.worker].StateID
                           => workers'[r.worker].State = "Restarting"
\* Whatever a step does to the workers, the goroutines that already run own
\* their states afterwards.
<1>1. ASSUME NEW r \in restarts
      PROVE  Owns(r)
  <2>1. /\ r.stateID \in Nat /\ r.worker \in Workers
        /\ workers[r.worker].StateID \in Nat
        /\ r.stateID <= workers[r.worker].StateID
        /\ r.stateID = workers[r.worker].StateID => workers[r.worker].State = "Restarting"
    BY <1>0 DEF RestartOwnsState
  <2>2. \/ Keeps(r.worker)
        \/ workers'[r.worker].StateID = workers[r.worker].StateID + 1
    BY <2>1, WorkersStep
       DEF WorkersKept, WorkerOccupied, WorkerFreed, WorkerTaken, WorkerRestarted, Enters
  <2> QED  BY <2>1, <2>2 DEF Keeps
<1>2. CASE restarts' \subseteq restarts
  BY <1>0, <1>1, <1>2 DEF RestartOwnsState
<1>3. CASE CheckUnhealthy
  <2> DEFINE w == healthLoop.next
             new == [worker |-> w, stateID |-> workers'[w].StateID, restarted |-> FALSE]
  <2>1. restarts' = restarts \cup {new}
    BY <1>3 DEF CheckUnhealthy, CancelMatch
  <2>2. /\ w \in Workers
        /\ workers'[w].State = "Restarting"
        /\ workers'[w].StateID = workers[w].StateID + 1
    <3>1. w \in Workers
      BY <1>0, <1>3 DEF CheckUnhealthy, CancelMatch, TypeOK, HealthLoopState
    <3>2. workers'[w] = SetRestarting(PongedWorker(w))
      BY <1>0, <1>3, <3>1 DEF CheckUnhealthy, CancelMatch, TypeOK
    <3>3. PongedWorker(w) \in WorkerRecord /\ PongedWorker(w).StateID = workers[w].StateID
      BY <1>0, <3>1, PongedWorkerFacts DEF TypeOK
    <3> QED  BY <3>1, <3>2, <3>3, SetRestartingWorker
  <2>3. new.worker = w /\ new.stateID = workers[w].StateID + 1
    BY <2>2
  <2>4. Owns(new)
    BY <1>0, <2>2, <2>3
  <2>5. \A r \in restarts : r.worker = w => r.stateID < new.stateID
    BY <1>0, <2>2, <2>3 DEF RestartOwnsState
  <2>6. \A q, r \in restarts : q.worker = r.worker /\ q.stateID = r.stateID => q = r
    BY <1>0 DEF RestartOwnsState
  <2> HIDE DEF new, w
  <2>7. \A q, r \in restarts' : q.worker = r.worker /\ q.stateID = r.stateID => q = r
    BY <1>0, <2>1, <2>3, <2>5, <2>6
  <2> QED  BY <1>1, <2>1, <2>4, <2>7 DEF RestartOwnsState
<1>4. ASSUME NEW r \in restarts, RestartContainer(r)
      PROVE  RestartOwnsState'
  <2> DEFINE new == [r EXCEPT !.restarted = TRUE]
  <2>1. restarts' = (restarts \ {r}) \cup {new}
    BY <1>4 DEF RestartContainer
  <2>2. new.worker = r.worker /\ new.stateID = r.stateID
    BY <1>0 DEF Restart
  <2>3. \A p, q \in restarts : p.worker = q.worker /\ p.stateID = q.stateID => p = q
    BY <1>0 DEF RestartOwnsState
  <2> HIDE DEF new
  <2>4. \A p, q \in restarts' : p.worker = q.worker /\ p.stateID = q.stateID => p = q
    BY <2>1, <2>2, <2>3
  <2>5. \A q \in restarts' : Owns(q)
    BY <1>1, <2>1, <2>2
  <2> QED  BY <2>4, <2>5 DEF RestartOwnsState
<1>5. ASSUME NEW r \in restarts, RestartFail(r) \/ RestartReturn(r)
      PROVE  restarts' \subseteq restarts
  BY <1>5 DEF RestartFail, RestartReturn
<1>6. ASSUME NEW w \in Workers, RestartDeadline(w)
      PROVE  restarts' \subseteq restarts
  BY <1>6 DEF RestartDeadline
<1>7. CASE Caller \/ HandleResults \/ Save \/ GameServers \/ UNCHANGED vars
  <2>1. UNCHANGED restarts
    BY <1>7
       DEF Caller, WaitForFreeWorker, GiveUpRound, AssignNoFreeWorker, AssignBegin,
           AssignSend, AssignFail, AssignReturn, HandleResults, GetResult, AckResult,
           AckFail, SendResult, FreeMatchWorker, Save, ReceiveResult, RemoveMatchStatus,
           SaveMatchResults, GameServers, PublishResult, PublishCancelAfterResult, vars
  <2> QED  BY <1>2, <2>1
<1>8. CASE PingWorkers \/ HealthLock \/ CheckHealthy \/ HealthUnlock
  <2>1. UNCHANGED restarts
    BY <1>8 DEF PingWorkers, HealthLock, CheckHealthy, HealthUnlock
  <2> QED  BY <1>2, <2>1
<1> QED
  BY <1>2, <1>3, <1>4, <1>5, <1>6, <1>7, <1>8 DEF Next, HealthCheck, RestartWorker

\* Every step that frees a worker wakes the matchmaker, and the matchmaker looks
\* for a free worker in the step that makes it wait.
LEMMA NoLostWakeupStep ==
  ASSUME Inv, [Next]_vars
  PROVE  NoLostWakeup'
<1>0. TypeOK /\ NoLostWakeup
  BY DEF Inv
<1> SUFFICES ASSUME caller'.pc = "waiting", NEW v \in Workers, workers'[v].State = "Free"
             PROVE  FALSE
  BY DEF NoLostWakeup, FreeWorkers
<1>1. CASE WaitForFreeWorker
  BY <1>1 DEF WaitForFreeWorker, Outside, FreeWorkers
<1>2. CASE Caller /\ ~ WaitForFreeWorker
  BY <1>0, <1>2 DEF Caller, GiveUpRound, AssignNoFreeWorker, AssignBegin, AssignSend, AssignFail,
              AssignReturn, Outside, TypeOK, CallerState
<1>3. caller'.pc # "waiting" \/ caller.pc # "waiting" \/ workers[v].State # "Free"
  BY <1>0 DEF NoLostWakeup, FreeWorkers
<1>4. CASE caller.pc = "waiting" /\ workers[v].State # "Free"
  <2>1. CASE WorkersKept
    BY <1>4, <2>1 DEF WorkersKept, Keeps
  <2>2. CASE WorkerOccupied
    BY <1>4, <2>2 DEF WorkerOccupied, Enters, Keeps
  <2>3. CASE WorkerFreed
    <3>1. caller' = caller
      BY <1>4, <2>3 DEF WorkerFreed, FreeMatchWorker, Signal, Outside
    <3>2. workers' = workers
      BY <1>4, <2>3, <3>1 DEF WorkerFreed, FreeMatchWorker, Signal, Outside
    <3> QED  BY <1>4, <3>2
  <2>4. CASE WorkerTaken
    BY <1>4, <2>4 DEF WorkerTaken, Enters, Keeps
  <2>5. CASE WorkerRestarted
    BY <1>4, <2>5 DEF WorkerRestarted, RestartReturn, Signal, Outside
  <2> QED  BY <2>1, <2>2, <2>3, <2>4, <2>5, WorkersStep
<1>5. CASE caller.pc # "waiting" /\ ~ Caller
  <2>1. caller'.pc = caller.pc
    <3>1. CASE HandleResults
      BY <1>5, <3>1 DEF HandleResults, GetResult, AckResult, AckFail, SendResult,
                        FreeMatchWorker, Signal
    <3>2. CASE HealthCheck
      BY <3>2 DEF HealthCheck, PingWorkers, HealthLock, CheckHealthy, CheckUnhealthy, CancelMatch, HealthUnlock
    <3>3. ASSUME NEW r \in restarts, RestartWorker(r)
          PROVE  caller'.pc = caller.pc
      BY <1>5, <3>3 DEF RestartWorker, RestartContainer, RestartFail, RestartReturn, Signal
    <3>4. ASSUME NEW w \in Workers, RestartDeadline(w)
          PROVE  caller' = caller
      BY <3>4 DEF RestartDeadline
    <3>5. CASE Save \/ GameServers \/ UNCHANGED vars
      BY <3>5 DEF Save, ReceiveResult, RemoveMatchStatus, SaveMatchResults, GameServers,
                  PublishResult, PublishCancelAfterResult, vars
    <3> QED  BY <1>5, <3>1, <3>2, <3>3, <3>4, <3>5 DEF Next
  <2> QED  BY <1>5, <2>1
<1> QED  BY <1>1, <1>2, <1>3, <1>4, <1>5

\* Who holds mu, which match is being requested, and which matches the results
\* on their way belong to.
LEMMA LockAndSequenceStep ==
  ASSUME Inv, [Next]_vars
  PROVE  LockAndSequence'
<1>0. TypeOK /\ LockAndSequence /\ ExclusiveWorkers
  BY DEF Inv
<1> DEFINE Lock ==
             /\ mu = "caller" <=> caller.pc \in {"getPort", "request"}
             /\ mu = "health" <=> healthLoop.pc = "check"
           Request ==
             IF caller.pc \in {"getPort", "request"}
             THEN /\ caller.match = matchSeq /\ caller.match # NoMatch
                  /\ caller.match \notin assigned
                  /\ caller.match \in jobs <=> caller.pc = "request"
             ELSE caller.match = NoMatch
           Requested ==
             caller.pc \in {"getPort", "request"} => workers[caller.worker].State = "Free"
           Known ==
             /\ assigned \subseteq jobs
             /\ jobs \subseteq 1 .. matchSeq
             /\ consumed \subseteq jobs
             /\ \A i \in DOMAIN resultLog : resultLog[i].MatchID \in jobs
             /\ \A r \in redeliver : r.MatchID \in jobs
             /\ resultLoop.pc # "fetch" => resultLoop.res.MatchID \in jobs
           Sent == resultLoop.pc = "free" => resultLoop.res.MatchID \in Reported
<1>1. Lock'
  <2> USE DEF LockAndSequence
  <2>1. CASE Caller
    BY <1>0, <2>1 DEF Caller, WaitForFreeWorker, GiveUpRound, AssignNoFreeWorker, AssignBegin,
         AssignSend, AssignFail, AssignReturn, Outside, TypeOK, CallerState
  <2>2. CASE HandleResults
    BY <1>0, <2>2 DEF HandleResults, GetResult, AckResult, AckFail, SendResult,
         FreeMatchWorker, Signal, Outside
  <2>3. CASE HealthCheck
    BY <1>0, <2>3 DEF HealthCheck, PingWorkers, HealthLock, CheckHealthy, CheckUnhealthy, CancelMatch,
         HealthUnlock, TypeOK, HealthLoopState
  <2>4. ASSUME NEW r \in restarts, RestartWorker(r)
        PROVE  Lock'
    BY <1>0, <2>4 DEF RestartWorker, RestartContainer, RestartFail, RestartReturn, Signal, Outside
  <2>5. ASSUME NEW w \in Workers, RestartDeadline(w)
        PROVE  Lock'
    BY <1>0, <2>5 DEF RestartDeadline
  <2>6. CASE Save \/ GameServers \/ UNCHANGED vars
    BY <1>0, <2>6 DEF Save, ReceiveResult, RemoveMatchStatus, SaveMatchResults, GameServers,
         PublishResult, PublishCancelAfterResult, vars
  <2> QED  BY <2>1, <2>2, <2>3, <2>4, <2>5, <2>6 DEF Next
<1>2. Request'
  <2> USE DEF LockAndSequence
  <2>1. CASE WaitForFreeWorker \/ GiveUpRound \/ AssignNoFreeWorker \/ AssignFail \/ AssignReturn
    BY <1>0, <2>1 DEF WaitForFreeWorker, GiveUpRound, AssignNoFreeWorker, AssignFail,
         AssignReturn, Outside
  <2>2. CASE AssignBegin
    <3>1. /\ caller'.match = matchSeq + 1 /\ caller'.pc = "getPort"
          /\ UNCHANGED <<assigned, jobs>> /\ matchSeq' = matchSeq + 1
      BY <2>2 DEF AssignBegin
    <3>2. matchSeq \in Nat /\ matchSeq + 1 \notin jobs /\ matchSeq + 1 \notin assigned
      BY <1>0 DEF TypeOK
    <3> QED  BY <3>1, <3>2
  <2>3. CASE AssignSend
    BY <1>0, <2>3 DEF AssignSend, TypeOK, CallerState
  <2>4. CASE HandleResults
    BY <1>0, <2>4 DEF HandleResults, GetResult, AckResult, AckFail, SendResult,
         FreeMatchWorker, Signal, Outside
  <2>5. CASE HealthCheck
    BY <1>0, <2>5 DEF HealthCheck, PingWorkers, HealthLock, CheckHealthy, CheckUnhealthy, CancelMatch,
         HealthUnlock
  <2>6. ASSUME NEW r \in restarts, RestartWorker(r)
        PROVE  Request'
    BY <1>0, <2>6 DEF RestartWorker, RestartContainer, RestartFail, RestartReturn, Signal, Outside
  <2>7. ASSUME NEW w \in Workers, RestartDeadline(w)
        PROVE  Request'
    BY <1>0, <2>7 DEF RestartDeadline
  <2>8. CASE Save \/ GameServers \/ UNCHANGED vars
    BY <1>0, <2>8 DEF Save, ReceiveResult, RemoveMatchStatus, SaveMatchResults, GameServers,
         PublishResult, PublishCancelAfterResult, vars
  <2> QED  BY <2>1, <2>2, <2>3, <2>4, <2>5, <2>6, <2>7, <2>8 DEF Next, Caller
<1>3. Requested'
  <2> USE DEF LockAndSequence
  <2> SUFFICES ASSUME caller'.pc \in {"getPort", "request"}
               PROVE  workers'[caller'.worker].State = "Free"
    OBVIOUS
  <2>1. CASE Caller
    BY <1>0, <2>1 DEF Caller, WaitForFreeWorker, GiveUpRound, AssignNoFreeWorker, AssignBegin,
         AssignSend, AssignFail, AssignReturn, Outside, TypeOK, CallerState, IsFirstFree,
         FreeWorkers
  <2>2. ASSUME ~ Caller
        PROVE  workers'[caller'.worker].State = "Free"
    <3>1. /\ caller'.pc = caller.pc /\ caller'.worker = caller.worker
          /\ caller.worker \in Workers
      <4>1. caller.worker \in Workers
        BY <1>0 DEF TypeOK, CallerState
      <4>2. CASE HandleResults
        BY <4>1, <4>2 DEF HandleResults, GetResult, AckResult, AckFail, SendResult,
             FreeMatchWorker, Signal, Outside
      <4>3. CASE HealthCheck
        BY <4>1, <4>3 DEF HealthCheck, PingWorkers, HealthLock, CheckHealthy, CheckUnhealthy, CancelMatch,
             HealthUnlock
      <4>4. ASSUME NEW r \in restarts, RestartWorker(r)
            PROVE  caller'.pc = caller.pc /\ caller'.worker = caller.worker
        BY <4>4 DEF RestartWorker, RestartContainer, RestartFail, RestartReturn, Signal, Outside
      <4>5. ASSUME NEW w \in Workers, RestartDeadline(w)
            PROVE  caller' = caller
        BY <4>5 DEF RestartDeadline
      <4>6. CASE Save \/ GameServers \/ UNCHANGED vars
        BY <4>1, <4>6 DEF Save, ReceiveResult, RemoveMatchStatus, SaveMatchResults,
             GameServers, PublishResult, PublishCancelAfterResult, vars
      <4> QED  BY <2>2, <4>1, <4>2, <4>3, <4>4, <4>5, <4>6 DEF Next
    <3>2. mu = "caller" /\ workers[caller.worker].State = "Free"
      BY <1>0, <3>1
    <3>3. CASE WorkersKept
      BY <3>1, <3>2, <3>3 DEF WorkersKept, Keeps
    <3>4. ~ WorkerOccupied
      BY <2>2 DEF WorkerOccupied, Caller
    <3>5. ~ WorkerFreed /\ ~ WorkerRestarted
      BY <3>2 DEF WorkerFreed, FreeMatchWorker, WorkerRestarted, RestartReturn
    <3>6. ~ WorkerTaken
      BY <1>0, <3>2 DEF WorkerTaken, CheckUnhealthy, CancelMatch
    <3> QED  BY <3>3, <3>4, <3>5, <3>6, WorkersStep
  <2> QED  BY <2>1, <2>2
<1>4. Known'
  <2> USE DEF LockAndSequence
  <2>1. CASE WaitForFreeWorker \/ GiveUpRound \/ AssignFail \/ AssignReturn
    BY <1>0, <2>1 DEF WaitForFreeWorker, GiveUpRound, AssignFail, AssignReturn
  <2>2. CASE AssignNoFreeWorker \/ AssignBegin
    <3>1. /\ matchSeq \in Nat /\ matchSeq' = matchSeq + 1
          /\ UNCHANGED <<jobs, assigned, consumed, resultLog, redeliver, resultLoop>>
      BY <1>0, <2>2 DEF AssignNoFreeWorker, AssignBegin, TypeOK
    <3> QED  BY <1>0, <3>1
  <2>3. CASE AssignSend
    BY <1>0, <2>3 DEF AssignSend, TypeOK
  <2>4. CASE GetResult
    BY <1>0, <2>4 DEF GetResult, TypeOK
  <2>5. CASE AckResult \/ AckFail \/ SendResult
    <3>1. resultLoop.res.MatchID \in jobs
      BY <1>0, <2>5 DEF AckResult, AckFail, SendResult
    <3>2. resultLoop'.pc = "fetch" \/ resultLoop'.res = resultLoop.res
      BY <1>0, <2>5 DEF AckResult, AckFail, SendResult, TypeOK, ResultLoopState
    <3>3. redeliver' \subseteq redeliver \cup {resultLoop.res}
      BY <2>5 DEF AckResult, AckFail, SendResult
    <3>4. UNCHANGED <<jobs, assigned, consumed, resultLog, matchSeq>>
      BY <2>5 DEF AckResult, AckFail, SendResult
    <3> QED  BY <1>0, <3>1, <3>2, <3>3, <3>4
  <2>6. CASE FreeMatchWorker
    BY <1>0, <2>6 DEF FreeMatchWorker
  <2>7. CASE HealthCheck
    BY <1>0, <2>7 DEF HealthCheck, PingWorkers, HealthLock, CheckHealthy, CheckUnhealthy, CancelMatch,
         HealthUnlock
  <2>8. ASSUME NEW r \in restarts, RestartWorker(r)
        PROVE  Known'
    BY <1>0, <2>8 DEF RestartWorker, RestartContainer, RestartFail, RestartReturn
  <2>9. ASSUME NEW w \in Workers, RestartDeadline(w)
        PROVE  Known'
    BY <1>0, <2>9 DEF RestartDeadline
  <2>10. CASE Save \/ UNCHANGED vars
    BY <1>0, <2>10 DEF Save, ReceiveResult, RemoveMatchStatus, SaveMatchResults, vars
  <2>11. ASSUME NEW m \in jobs, NEW success \in BOOLEAN,
                resultLog' = Append(resultLog, [MatchID |-> m, Success |-> success]),
                UNCHANGED <<resultLoop, matchSeq, jobs, redeliver, assigned, consumed>>
         PROVE  Known'
    <3> DEFINE new == [MatchID |-> m, Success |-> success]
    <3>1. resultLog \in Seq(Result) /\ new.MatchID = m /\ new \in Result
      BY <1>0 DEF TypeOK, Result
    <3> HIDE DEF new
    <3>2. ASSUME NEW i \in DOMAIN resultLog'
          PROVE  resultLog'[i].MatchID \in jobs
      <4>1. resultLog' = Append(resultLog, new)
        BY <2>11 DEF new
      <4>2. resultLog'[i] \in ToSet(resultLog) \cup {new}
        BY <3>1, <4>1, AppendSet DEF ToSet
      <4> QED  BY <1>0, <3>1, <4>2 DEF ToSet
    <3> QED  BY <1>0, <2>11, <3>2
  <2>12. ASSUME NEW m \in Match, PublishResult(m)
         PROVE  Known'
    BY <2>11, <2>12 DEF PublishResult
  <2>13. ASSUME NEW m \in Match, PublishCancelAfterResult(m)
         PROVE  Known'
    <3>1. m \in jobs
      BY <1>0, <2>13 DEF PublishCancelAfterResult, Published
    <3> QED  BY <2>11, <2>13, <3>1 DEF PublishCancelAfterResult
  <2> QED
    BY <2>1, <2>2, <2>3, <2>4, <2>5, <2>6, <2>7, <2>8, <2>9, <2>10, <2>12, <2>13
       DEF Next, Caller, HandleResults, GameServers
<1>5. Sent'
  <2> USE DEF LockAndSequence
  <2>1. Reported \subseteq Reported'
    BY ReportedGrows
  <2>2. CASE SendResult
    <3>1. resultLoop.res \in Result /\ resultLoop'.res = resultLoop.res
      BY <1>0, <2>2 DEF SendResult, TypeOK, ResultLoopState
    <3>2. Reports' = Reports \cup {resultLoop.res}
      BY <1>0, <2>2, <3>1, ReportsSent DEF SendResult
    <3> QED  BY <3>1, <3>2 DEF Reported
  <2>3. CASE resultLoop'.pc # "free" \/ UNCHANGED resultLoop
    BY <1>0, <2>1, <2>3
  <2>4. CASE GetResult \/ AckResult \/ AckFail \/ FreeMatchWorker
    BY <1>0, <2>3, <2>4 DEF GetResult, AckResult, AckFail, FreeMatchWorker, TypeOK, ResultLoopState
  <2>5. CASE Caller
    BY <2>3, <2>5 DEF Caller, WaitForFreeWorker, GiveUpRound, AssignNoFreeWorker, AssignBegin,
         AssignSend, AssignFail, AssignReturn
  <2>6. CASE HealthCheck
    BY <2>3, <2>6 DEF HealthCheck, PingWorkers, HealthLock, CheckHealthy, CheckUnhealthy, CancelMatch,
         HealthUnlock
  <2>7. ASSUME NEW r \in restarts, RestartWorker(r)
        PROVE  UNCHANGED resultLoop
    BY <2>7 DEF RestartWorker, RestartContainer, RestartFail, RestartReturn
  <2>8. ASSUME NEW w \in Workers, RestartDeadline(w)
        PROVE  UNCHANGED resultLoop
    BY <2>8 DEF RestartDeadline
  <2>9. CASE Save \/ GameServers \/ UNCHANGED vars
    BY <2>3, <2>9 DEF Save, ReceiveResult, RemoveMatchStatus, SaveMatchResults, GameServers,
         PublishResult, PublishCancelAfterResult, vars
  <2> QED  BY <2>2, <2>3, <2>4, <2>5, <2>6, <2>7, <2>8, <2>9 DEF Next, HandleResults
<1> QED  BY <1>1, <1>2, <1>3, <1>4, <1>5 DEF LockAndSequence

-----------------------------------------------------------------------------
(* The theorems. *)

\* A manager whose workers have just been spawned satisfies the invariant.
LEMMA InitInv ==
  ASSUME Init
  PROVE  Inv
<1> USE DEF Init, Outside, NoResult
<1>1. TypeOK
  <2>1. NewWorker \in WorkerRecord
    BY DEF NewWorker, WorkerRecord, WorkerState
  <2>2. caller \in CallerState /\ resultLoop \in ResultLoopState
    BY DEF CallerState, ResultLoopState
  <2>3. healthLoop \in HealthLoopState /\ saveLoop \in SaveLoopState
    BY DEF HealthLoopState, SaveLoopState
  <2>4. saveResultChan \in Seq(Result) /\ Len(saveResultChan) = 0
    OBVIOUS
  <2>5. resultLog \in Seq(Result) /\ Len(resultLog) = 0
    OBVIOUS
  <2> QED  BY <2>1, <2>2, <2>3, <2>4, <2>5 DEF TypeOK
<1>2. \A w \in Workers : workers[w].State = "Free" /\ workers[w].MatchID = NoMatch
  BY DEF NewWorker
<1>3. NoMatchForgotten /\ ExclusiveWorkers /\ ConsumedMatchReleased
  BY <1>2 DEF NoMatchForgotten, ExclusiveWorkers, ConsumedMatchReleased
<1>4. RestartOwnsState /\ NoLostWakeup
  BY DEF RestartOwnsState, NoLostWakeup
<1>5. LockAndSequence
  BY DEF LockAndSequence
<1> QED  BY <1>1, <1>3, <1>4, <1>5 DEF Inv

\* The invariant is inductive: no step of any goroutine breaks it.
LEMMA InvStep ==
  ASSUME Inv, [Next]_vars
  PROVE  Inv'
  BY TypeStep, ExclusiveStep, NoMatchForgottenStep, ConsumedStep, RestartOwnsStateStep,
     NoLostWakeupStep, LockAndSequenceStep
     DEF Inv

\* The inductive invariant holds in every reachable state.
THEOREM Invariance == Spec => []Inv
<1>1. Init => Inv
  BY InitInv
<1>2. Inv /\ [Next]_vars => Inv'
  BY InvStep
<1> QED  BY <1>1, <1>2, PTL DEF Spec

\* The manager's variables keep their types, the channel its capacity.
THEOREM TypeCorrect == Spec => []TypeOK
<1>1. Inv => TypeOK
  BY DEF Inv
<1> QED  BY <1>1, Invariance, PTL

\* AssignMatch never returns for a match that is forgotten later: until its
\* outcome or its cancellation is with saveLoop, some worker holds it.
THEOREM MatchesAreAccountedFor == Spec => []NoMatchForgotten
<1>1. Inv => NoMatchForgotten
  BY DEF Inv
<1> QED  BY <1>1, Invariance, PTL

\* No two workers hold the same match, and exactly the occupied ones hold one.
THEOREM WorkersAreExclusive == Spec => []ExclusiveWorkers
<1>1. Inv => ExclusiveWorkers
  BY DEF Inv
<1> QED  BY <1>1, Invariance, PTL

\* A worker never holds a match whose result handleResults has dealt with.
THEOREM ConsumedMatchesAreReleased == Spec => []ConsumedMatchReleased
<1>1. Inv => ConsumedMatchReleased
  BY DEF Inv
<1> QED  BY <1>1, Invariance, PTL

\* A stale restartWorker goroutine is told apart by its state id.
THEOREM RestartsOwnTheirState == Spec => []RestartOwnsState
<1>1. Inv => RestartOwnsState
  BY DEF Inv
<1> QED  BY <1>1, Invariance, PTL

\* The matchmaker never sleeps in WaitForFreeWorker while a worker is free.
THEOREM WakeupsAreNotLost == Spec => []NoLostWakeup
<1>1. Inv => NoLostWakeup
  BY DEF Inv
<1> QED  BY <1>1, Invariance, PTL

\* mu is held exactly inside the two critical sections, a match is requested with
\* the newest id from a worker that stays free meanwhile, and results exist only of
\* matches whose job was sent.
THEOREM LocksAndSequence == Spec => []LockAndSequence
<1>1. Inv => LockAndSequence
  BY DEF Inv
<1> QED  BY <1>1, Invariance, PTL

-----------------------------------------------------------------------------
(* WorkerManager implements MatchDispatch. *)

\* Only AssignJob's request adds a job, and nothing takes one away.
LEMMA JobsStep ==
  ASSUME [Next]_vars
  PROVE  UNCHANGED jobs \/ AssignSend
<1>1. CASE Caller
  BY <1>1 DEF Caller, WaitForFreeWorker, GiveUpRound, AssignNoFreeWorker, AssignBegin,
       AssignFail, AssignReturn
<1>2. CASE HandleResults \/ HealthCheck
  BY <1>2 DEF HandleResults, GetResult, AckResult, AckFail, SendResult, FreeMatchWorker,
       HealthCheck, PingWorkers, HealthLock, CheckHealthy, CheckUnhealthy, CancelMatch, HealthUnlock
<1>3. ASSUME NEW r \in restarts, RestartWorker(r)
      PROVE  UNCHANGED jobs
  BY <1>3 DEF RestartWorker, RestartContainer, RestartFail, RestartReturn
<1>4. ASSUME NEW w \in Workers, RestartDeadline(w)
      PROVE  UNCHANGED jobs
  BY <1>4 DEF RestartDeadline
<1>5. CASE Save \/ GameServers \/ UNCHANGED vars
  BY <1>5 DEF Save, ReceiveResult, RemoveMatchStatus, SaveMatchResults, GameServers,
       PublishResult, PublishCancelAfterResult, vars
<1> QED  BY <1>1, <1>2, <1>3, <1>4, <1>5 DEF Next

\* A manager that has just started shows every slot idle and nothing requested.
LEMMA InitImplements ==
  ASSUME Init
  PROVE  Dispatching!Init
<1>1. SlotView = [w \in Workers |-> 0]
  BY DEF Init, SlotView, NewWorker
<1>2. Reported = {}
  BY DEF Init, Reported, Reports, ToSet
<1> QED  BY <1>1, <1>2 DEF Init, Dispatching!Init, Dispatching!Idle

\* Every step of the manager is a step of MatchDispatch or leaves its variables
\* as they are: the case split is over what WorkersStep, JobsStep and ReportsStep
\* allow.
LEMMA StepImplements ==
  ASSUME Inv, [Next]_vars
  PROVE  [Dispatching!Next]_(Dispatching!vars)
<1>0. TypeOK /\ ExclusiveWorkers /\ LockAndSequence /\ RestartOwnsState
  BY DEF Inv
\* What the slots show, before and after the step.
<1>1. \A w \in Workers :
        /\ SlotView[w] = IF workers[w].State = "Restarting" THEN -1 ELSE workers[w].MatchID
        /\ SlotView'[w] = IF workers'[w].State = "Restarting" THEN -1 ELSE workers'[w].MatchID
  BY DEF SlotView
<1>2. /\ SlotView = [w \in Workers |-> SlotView[w]]
      /\ SlotView' = [w \in Workers |-> SlotView'[w]]
  BY DEF SlotView
<1>3. ASSUME NEW w \in Workers, Keeps(w)
      PROVE  SlotView'[w] = SlotView[w]
  BY <1>1, <1>3 DEF Keeps
<1>4. ASSUME NEW w \in Workers, NEW state, NEW m, Enters(w, state, m)
      PROVE  SlotView' = [SlotView EXCEPT ![w] = IF state = "Restarting" THEN -1 ELSE m]
  <2>1. SlotView'[w] = IF state = "Restarting" THEN -1 ELSE m
    BY <1>1, <1>4 DEF Enters
  <2>2. \A v \in Workers \ {w} : SlotView'[v] = SlotView[v]
    BY <1>3, <1>4 DEF Enters
  <2> QED  BY <1>2, <2>1, <2>2
<1> USE DEF Dispatching!Next, Dispatching!vars
<1>5. CASE WorkersKept
  <2>1. UNCHANGED <<SlotView, assigned>>
    BY <1>2, <1>3, <1>5 DEF WorkersKept
  <2>2. CASE AssignSend
    <3>1. Reported' = Reported
      BY <1>0, <2>2, ReportsKept DEF AssignSend, Reported
    <3>2. caller.match \in Match /\ caller.match \notin jobs
      BY <1>0, <2>2 DEF AssignSend, LockAndSequence, TypeOK, CallerState
    <3>3. Dispatching!Request(caller.match)
      BY <2>1, <2>2, <3>1, <3>2 DEF AssignSend, Dispatching!Request
    <3> QED  BY <3>2, <3>3
  <2>3. CASE SendResult /\ UNCHANGED jobs /\ Reports' = Reports \cup {resultLoop.res}
    <3> DEFINE m == resultLoop.res.MatchID
    <3>1. Reported' = Reported \cup {m}
      BY <2>3 DEF Reported
    <3>2. m \in jobs /\ m \in Match
      BY <1>0, <2>3 DEF SendResult, LockAndSequence, TypeOK
    <3>3. Dispatching!Report(m)
      BY <2>1, <2>3, <3>1, <3>2 DEF Dispatching!Report
    <3> QED  BY <3>2, <3>3
  <2>4. CASE UNCHANGED jobs /\ Reports' = Reports
    BY <2>1, <2>4 DEF Reported
  <2>5. ~ CheckUnhealthy
    <3>1. \A w \in Workers : workers[w].StateID \in Nat
      BY <1>0 DEF TypeOK, WorkerRecord
    <3> QED  BY <1>5, <3>1, UnhealthyIsTaken DEF WorkersKept, WorkerTaken, Enters, Keeps
  <2> QED  BY <2>2, <2>3, <2>4, <2>5, JobsStep, ReportsStep
<1>6. CASE WorkerOccupied
  <2> DEFINE w == caller.worker
             m == caller.match
  <2>1. AssignReturn /\ Enters(w, "Occupied", m) /\ w \in Workers
    BY <1>6 DEF WorkerOccupied, Enters
  <2>2. Reported' = Reported /\ UNCHANGED jobs /\ assigned' = assigned \cup {m}
    BY <1>0, <2>1, ReportsKept DEF AssignReturn, Reported
  <2>3. m \in Match /\ m \in jobs \ assigned
    BY <1>0, <2>1 DEF AssignReturn, LockAndSequence, TypeOK, CallerState
  <2>4. SlotView[w] = 0
    BY <1>0, <1>1, <2>1 DEF AssignReturn, LockAndSequence, ExclusiveWorkers
  <2>5. SlotView' = [SlotView EXCEPT ![w] = m]
    BY <1>4, <2>1
  <2>6. Dispatching!Dispatch(w, m)
    BY <2>2, <2>3, <2>4, <2>5 DEF Dispatching!Dispatch, Dispatching!Idle
  <2> QED  BY <2>1, <2>3, <2>6
<1>7. CASE WorkerFreed
  <2> DEFINE m == resultLoop.res.MatchID
  <2>1. PICK w \in Workers : workers[w].MatchID = m /\ Enters(w, "Free", NoMatch)
    BY <1>7 DEF WorkerFreed
  <2>2. Reported' = Reported /\ UNCHANGED <<jobs, assigned>>
    BY <1>0, <1>7, ReportsKept DEF WorkerFreed, FreeMatchWorker, Reported
  <2>3. m \in Reported /\ m # NoMatch
    BY <1>0, <1>7 DEF WorkerFreed, FreeMatchWorker, LockAndSequence, TypeOK
  <2>4. SlotView[w] = m /\ m \in assigned
    BY <1>0, <1>1, <2>1, <2>3 DEF ExclusiveWorkers
  <2>5. SlotView' = [SlotView EXCEPT ![w] = 0]
    BY <1>4, <2>1
  <2>6. Dispatching!Vacate(w)
    BY <2>2, <2>3, <2>4, <2>5 DEF Dispatching!Vacate, Dispatching!Idle
  <2> QED  BY <2>6
<1>8. CASE WorkerTaken
  <2> DEFINE w == healthLoop.next
  <2>1. CheckUnhealthy /\ Enters(w, "Restarting", NoMatch) /\ w \in Workers
    BY <1>8 DEF WorkerTaken, Enters
  <2>2. UNCHANGED <<jobs, assigned>>
    BY <2>1 DEF CheckUnhealthy, CancelMatch
  <2>3. SlotView' = [SlotView EXCEPT ![w] = -1]
    BY <1>4, <2>1
  <2>4. CASE workers[w].State = "Occupied"
    <3>1. workers[w].MatchID \in Match /\ workers[w].MatchID \in assigned
      BY <1>0, <2>1, <2>4 DEF ExclusiveWorkers, TypeOK
    <3>2. SlotView[w] = workers[w].MatchID
      BY <1>1, <2>1, <2>4
    <3>3. CancelOf(w) \in Result
      BY <3>1 DEF CancelOf, Result
    <3>4. Reports' = Reports \cup {CancelOf(w)}
      BY <1>0, <2>1, <2>4, <3>3, ReportsSent DEF CheckUnhealthy, CancelMatch, CancelOf
    <3>5. Reported' = Reported \cup {workers[w].MatchID}
      <4>1. CancelOf(w).MatchID = workers[w].MatchID
        BY DEF CancelOf
      <4> QED  BY <3>4, <4>1 DEF Reported
    <3>6. Dispatching!Cancel(w)
      BY <2>2, <2>3, <3>1, <3>2, <3>5 DEF Dispatching!Cancel, Dispatching!Down
    <3> QED  BY <2>1, <3>6
  <2>5. CASE workers[w].State # "Occupied"
    <3>1. Reported' = Reported
      BY <1>0, <2>1, <2>5, ReportsKept DEF CheckUnhealthy, CancelMatch, Reported
    <3>2. CASE workers[w].State = "Restarting"
      <4>1. SlotView' = SlotView
        BY <1>1, <1>2, <2>1, <2>3, <3>2
      <4> QED  BY <2>2, <3>1, <4>1
    <3>3. CASE workers[w].State = "Free"
      <4>1. SlotView[w] = 0
        BY <1>0, <1>1, <2>1, <3>3 DEF ExclusiveWorkers
      <4>2. Dispatching!BreakDown(w)
        BY <2>2, <2>3, <3>1, <4>1 DEF Dispatching!BreakDown, Dispatching!Idle, Dispatching!Down
      <4> QED  BY <2>1, <4>2
    <3>4. workers[w].State \in WorkerState
      BY <1>0, <2>1 DEF TypeOK, WorkerRecord
    <3> QED  BY <2>5, <3>2, <3>3, <3>4 DEF WorkerState
  <2> QED  BY <2>4, <2>5
<1>9. CASE WorkerRestarted
  <2>1. PICK r \in restarts : /\ RestartReturn(r)
                              /\ workers[r.worker].StateID = r.stateID
                              /\ Enters(r.worker, "Free", NoMatch)
    BY <1>9 DEF WorkerRestarted
  <2>2. r.worker \in Workers
    BY <2>1 DEF Enters
  <2>3. Reported' = Reported /\ UNCHANGED <<jobs, assigned>>
    BY <1>0, <2>1, ReportsKept DEF RestartReturn, Reported
  <2>4. SlotView[r.worker] = -1
    BY <1>0, <1>1, <2>1, <2>2 DEF RestartOwnsState
  <2>5. SlotView' = [SlotView EXCEPT ![r.worker] = 0]
    BY <1>4, <2>1, <2>2
  <2>6. Dispatching!Recover(r.worker)
    BY <2>3, <2>4, <2>5 DEF Dispatching!Recover, Dispatching!Idle, Dispatching!Down
  <2> QED  BY <2>2, <2>6
<1> QED  BY <1>5, <1>6, <1>7, <1>8, <1>9, WorkersStep

\* Every behaviour of the manager is one of MatchDispatch: a match is dispatched
\* once, to one idle slot, after its request; a slot loses its match only when
\* that match is reported; nothing reported is ever taken back.
THEOREM Implementation == Spec => ImplementsMatchDispatch
<1>1. Init => Dispatching!Init
  BY InitImplements
<1>2. Inv /\ [Next]_vars => [Dispatching!Next]_(Dispatching!vars)
  BY StepImplements
<1> QED
  BY <1>1, <1>2, Invariance, PTL DEF Spec, ImplementsMatchDispatch, Dispatching!Spec
-----------------------------------------------------------------------------
(* The game servers around the manager implement MatchOutcome. *)

\* What OutcomeOf says of the entries about a match.
LEMMA OutcomeFacts ==
  ASSUME NEW m \in Match, Published(m) \subseteq Nat
  PROVE  /\ OutcomeOf(m) = "none" <=> Published(m) = {}
         /\ OutcomeOf(m) = "result"
              <=> \E i \in Published(m) : Published(m) = {i} /\ resultLog[i].Success
         /\ OutcomeOf(m) = "cancel"
              <=> \E i \in Published(m) : Published(m) = {i} /\ ~ resultLog[i].Success
         /\ OutcomeOf(m) = "result, cancel"
              <=> \E i, j \in Published(m) :
                    /\ Published(m) = {i, j} /\ i < j
                    /\ resultLog[i].Success /\ ~ resultLog[j].Success
  BY DEF OutcomeOf

\* An entry put behind the others belongs to its match, and to no other.
LEMMA PublishedStep ==
  ASSUME resultLog \in Seq(Result), NEW entry \in Result,
         resultLog' = Append(resultLog, entry), NEW m \in Match
  PROVE  /\ Published(m) \subseteq 1 .. Len(resultLog) /\ Len(resultLog) \in Nat
         /\ Published(m)' = IF entry.MatchID = m THEN Published(m) \cup {Len(resultLog) + 1}
                                                 ELSE Published(m)
         /\ resultLog'[Len(resultLog) + 1] = entry
         /\ \A i \in Published(m) : resultLog'[i] = resultLog[i]
<1>1. /\ DOMAIN resultLog = 1 .. Len(resultLog) /\ Len(resultLog) \in Nat
      /\ DOMAIN resultLog' = 1 .. Len(resultLog) + 1
      /\ resultLog'[Len(resultLog) + 1] = entry
      /\ \A i \in 1 .. Len(resultLog) : resultLog'[i] = resultLog[i]
  OBVIOUS
<1> QED BY <1>1 DEF Published

\* A first entry about a match is its outcome.
LEMMA FirstEntry ==
  ASSUME resultLog \in Seq(Result), NEW m \in Match, NEW success \in BOOLEAN,
         resultLog' = Append(resultLog, [MatchID |-> m, Success |-> success]),
         Published(m) = {}
  PROVE  OutcomeOf(m)' = IF success THEN "result" ELSE "cancel"
<1>1. [MatchID |-> m, Success |-> success] \in Result BY DEF Result
<1>2. Published(m)' = {Len(resultLog) + 1} /\ resultLog'[Len(resultLog) + 1].Success = success
  BY <1>1, PublishedStep
<1> QED BY <1>2 DEF OutcomeOf

\* A second one makes a result and a cancel of a result, when it is a cancel, and
\* nothing MatchOutcome knows, when it is not.
LEMMA SecondEntry ==
  ASSUME resultLog \in Seq(Result), NEW m \in Match, NEW success \in BOOLEAN,
         resultLog' = Append(resultLog, [MatchID |-> m, Success |-> success]),
         OutcomeOf(m) = "result"
  PROVE  OutcomeOf(m)' = IF success THEN "more" ELSE "result, cancel"
<1> DEFINE last == Len(resultLog) + 1
<1>1. [MatchID |-> m, Success |-> success] \in Result BY DEF Result
<1>2. /\ Published(m) \subseteq 1 .. Len(resultLog) /\ Len(resultLog) \in Nat
      /\ Published(m)' = Published(m) \cup {last}
      /\ resultLog'[last].Success = success
      /\ \A i \in Published(m) : resultLog'[i] = resultLog[i]
  BY <1>1, PublishedStep
<1>3. PICK i \in Published(m) : Published(m) = {i} /\ resultLog[i].Success
  <2>1. Published(m) \subseteq Nat BY <1>2
  <2> QED BY <2>1, OutcomeFacts
<1>4. /\ i < last /\ Published(m)' = {i, last}
      /\ resultLog'[i].Success /\ resultLog'[last].Success = success
  BY <1>2, <1>3
<1>5. i \in Nat /\ last \in Nat BY <1>2, <1>3
<1> HIDE DEF last
<1>6. Published(m)' # {} /\ \A k : Published(m)' # {k}
  <2>1. i # last BY <1>4, <1>5
  <2>2. i \in Published(m)' /\ last \in Published(m)' BY <1>4
  <2> QED BY <2>1, <2>2
<1>7. CASE success
  <2>1. \A k \in Published(m)' : resultLog'[k].Success BY <1>4, <1>7
  <2> QED BY <1>6, <1>7, <2>1 DEF OutcomeOf
<1>8. CASE ~ success
  <2>1. \E k, j \in Published(m)' : /\ Published(m)' = {k, j} /\ k < j
                                    /\ resultLog'[k].Success /\ ~ resultLog'[j].Success
    BY <1>4, <1>8
  <2> QED BY <1>6, <1>8, <2>1 DEF OutcomeOf
<1> QED BY <1>7, <1>8

\* The outcomes of the other matches stay as they are.
LEMMA OtherOutcomes ==
  ASSUME resultLog \in Seq(Result), NEW entry \in Result,
         resultLog' = Append(resultLog, entry), NEW m \in Match, entry.MatchID # m
  PROVE  OutcomeOf(m)' = OutcomeOf(m)
<1>1. Published(m)' = Published(m) /\ \A i \in Published(m) : resultLog'[i] = resultLog[i]
  BY PublishedStep
<1> QED BY <1>1 DEF OutcomeOf

\* Only the game servers write to the stream.
LEMMA StreamStep ==
  ASSUME [Next]_vars, ~ GameServers
  PROVE  UNCHANGED resultLog
<1>1. CASE Caller
  BY <1>1 DEF Caller, WaitForFreeWorker, GiveUpRound, AssignNoFreeWorker, AssignBegin,
       AssignSend, AssignFail, AssignReturn
<1>2. CASE HandleResults \/ HealthCheck
  BY <1>2 DEF HandleResults, GetResult, AckResult, AckFail, SendResult, FreeMatchWorker,
       HealthCheck, PingWorkers, HealthLock, CheckHealthy, CheckUnhealthy, CancelMatch, HealthUnlock
<1>3. ASSUME NEW r \in restarts, RestartWorker(r)
      PROVE  UNCHANGED resultLog
  BY <1>3 DEF RestartWorker, RestartContainer, RestartFail, RestartReturn
<1>4. ASSUME NEW w \in Workers, RestartDeadline(w)
      PROVE  UNCHANGED resultLog
  BY <1>4 DEF RestartDeadline
<1>5. CASE Save \/ UNCHANGED vars
  BY <1>5 DEF Save, ReceiveResult, RemoveMatchStatus, SaveMatchResults, vars
<1> QED  BY <1>1, <1>2, <1>3, <1>4, <1>5 DEF Next

\* The request is MatchOutcome's Request; a first and a second entry are its
\* Publish and its CancelAfterResult; the manager does nothing it could see.
LEMMA StepKeepsOutcome ==
  ASSUME Inv, [Next]_vars
  PROVE  [Owed!Next]_<<jobs, OutcomeView>>
<1>0. TypeOK /\ LockAndSequence /\ resultLog \in Seq(Result)
  BY DEF Inv, TypeOK
<1>1. ASSUME NEW m \in Match, NEW success \in BOOLEAN, NEW o, OutcomeOf(m)' = o,
             resultLog' = Append(resultLog, [MatchID |-> m, Success |-> success])
      PROVE  OutcomeView' = [OutcomeView EXCEPT ![m] = o]
  <2>1. [MatchID |-> m, Success |-> success] \in Result BY DEF Result
  <2>2. \A n \in Match \ {m} : OutcomeOf(n)' = OutcomeOf(n)
    BY <1>0, <1>1, <2>1, OtherOutcomes
  <2> QED BY <1>1, <2>2 DEF OutcomeView
<1>2. ASSUME NEW m \in Match, PublishResult(m) PROVE Owed!Publish(m)
  <2>1. PICK success \in BOOLEAN :
          resultLog' = Append(resultLog, [MatchID |-> m, Success |-> success])
    BY <1>2 DEF PublishResult
  <2>2. OutcomeOf(m)' = IF success THEN "result" ELSE "cancel"
    BY <1>0, <1>2, <2>1, FirstEntry DEF PublishResult
  <2>3. OutcomeView' = [OutcomeView EXCEPT ![m] = IF success THEN "result" ELSE "cancel"]
    BY <1>1, <2>1, <2>2
  <2>4. m \in jobs /\ jobs' = jobs /\ OutcomeView[m] = "none"
    BY <1>2 DEF PublishResult, OutcomeView, OutcomeOf
  <2> QED BY <2>3, <2>4 DEF Owed!Publish
<1>3. ASSUME NEW m \in Match, PublishCancelAfterResult(m) PROVE Owed!CancelAfterResult(m)
  <2>1. resultLog' = Append(resultLog, [MatchID |-> m, Success |-> FALSE]) /\ jobs' = jobs
    BY <1>3 DEF PublishCancelAfterResult
  <2>2. OutcomeOf(m) = "result"
    BY <1>3 DEF PublishCancelAfterResult, OutcomeOf
  <2>3. OutcomeOf(m)' = "result, cancel"
    BY <1>0, <2>1, <2>2, SecondEntry
  <2>4. OutcomeView' = [OutcomeView EXCEPT ![m] = "result, cancel"]
    BY <1>1, <2>1, <2>3
  <2> QED BY <2>1, <2>2, <2>4 DEF Owed!CancelAfterResult, OutcomeView
<1>4. CASE GameServers
  <2>1. PICK m \in Match : PublishResult(m) \/ PublishCancelAfterResult(m)
    BY <1>4 DEF GameServers
  <2> QED BY <1>2, <1>3, <2>1 DEF Owed!Next
<1>5. CASE ~ GameServers
  <2>1. OutcomeView' = OutcomeView
    <3>1. resultLog' = resultLog BY <1>5, StreamStep
    <3>2. \A m \in Match : OutcomeOf(m)' = OutcomeOf(m) BY <3>1 DEF OutcomeOf, Published
    <3> QED BY <3>2 DEF OutcomeView
  <2>2. ASSUME AssignSend PROVE Owed!Next
    <3>1. caller.match \in Match /\ caller.match \notin jobs
      BY <1>0, <2>2 DEF TypeOK, LockAndSequence, AssignSend, CallerState
    <3>2. Owed!Request(caller.match)
      BY <2>1, <2>2, <3>1 DEF AssignSend, Owed!Request
    <3> QED BY <3>1, <3>2 DEF Owed!Next
  <2> QED BY <2>1, <2>2, JobsStep
<1> QED BY <1>4, <1>5

\* Whatever the manager assigns, times out on, or assigns again, the stream holds
\* about each match what GameServer, the model of one game server, publishes.
THEOREM GameServersKeepMatchOutcome == Spec => KeepsMatchOutcome
<1>1. Init => Owed!Init
  BY DEF Init, Owed!Init, OutcomeView, OutcomeOf, Published
<1>2. Inv /\ [Next]_vars => [Owed!Next]_<<jobs, OutcomeView>>
  BY StepKeepsOutcome
<1> QED BY <1>1, <1>2, Invariance, PTL DEF Spec, KeepsMatchOutcome, Owed!Spec

\* And nothing less: whatever MatchOutcome lets a game server publish, at any
\* time, is a step of the world the manager was checked in.  (A cancel behind a
\* result takes a fault.)
THEOREM GameServersAreAny ==
  ASSUME Inv, NEW m \in Match, NEW success \in BOOLEAN,
         resultLog' = Append(resultLog, [MatchID |-> m, Success |-> success]),
         (Owed!Publish(m) /\ NoFault) \/ (Owed!CancelAfterResult(m) /\ Fault),
         UNCHANGED <<managerVars, cursor, redeliver, historyVars>>
  PROVE  GameServers
<1>1. resultLog \in Seq(Result) /\ Published(m) \subseteq Nat
  BY DEF Inv, TypeOK, Published
<1>2. OutcomeView[m] = OutcomeOf(m) /\ OutcomeView'[m] = OutcomeOf(m)'
  BY DEF OutcomeView
<1>3. CASE Owed!Publish(m) /\ NoFault
  <2>1. m \in jobs /\ jobs' = jobs /\ Published(m) = {}
    BY <1>1, <1>2, <1>3, OutcomeFacts DEF Owed!Publish
  <2> QED BY <1>3, <2>1 DEF GameServers, PublishResult
<1>4. CASE Owed!CancelAfterResult(m) /\ Fault
  <2>1. jobs' = jobs /\ OutcomeOf(m) = "result" /\ OutcomeOf(m)' = "result, cancel"
    BY <1>2, <1>4 DEF Owed!CancelAfterResult, OutcomeView
  <2>2. ~ success BY <1>1, <2>1, SecondEntry
  <2>3. \E i \in Published(m) : resultLog[i].Success /\ Published(m) = {i}
    BY <1>1, <2>1, OutcomeFacts
  <2>4. resultLog' = Append(resultLog, [MatchID |-> m, Success |-> FALSE])
    BY <2>2
  <2> QED BY <1>4, <2>1, <2>3, <2>4 DEF GameServers, PublishCancelAfterResult
<1> QED BY <1>3, <1>4

\* The stream holds no third entry about a match, nor two results.
THEOREM StreamHoldsOutcomes == Spec => []OutcomesExist
<1>1. Init => OutcomesExist
  BY DEF Init, OutcomesExist, OutcomeView, OutcomeOf, Published, Owed!Outcomes
<1>2. OutcomesExist /\ Inv /\ [Next]_vars => OutcomesExist'
  BY StepKeepsOutcome DEF OutcomesExist, Owed!Outcomes, Owed!Next, Owed!Request, Owed!Publish,
       Owed!CancelAfterResult
<1> QED BY <1>1, <1>2, Invariance, PTL DEF Spec
=============================================================================
