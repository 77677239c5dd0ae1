----------------------- MODULE ManagerShutdown_proofs -----------------------
(***************************************************************************)
(* The end of the server manager takes nothing from what WorkerManager     *)
(* guarantees: its inductive invariant, and the refinement of              *)
(* MatchDispatch, hold through a canceled context and closed connections.  *)
(***************************************************************************)
EXTENDS ManagerShutdown, WorkerManager_proofs, FiniteSetTheorems

USE ConstantsAssumption DEF Workers, Match, NoMatch, managerVars, brokerVars, historyVars

\* What the steps that only a shutdown has may do to the manager: a waiter is
\* woken, a message goes back to the broker, a restart is given up.
Notices ==
  /\ UNCHANGED <<workers, mu, healthLoop, saveResultChan, saveLoop, matchSeq, jobs,
                 resultLog, cursor, faults, assigned, consumed, processed>>
  /\ restarts' \subseteq restarts
  /\ \/ caller' = caller
     \/ caller.pc = "waiting" /\ caller' = Outside("woken")
  /\ \/ UNCHANGED <<resultLoop, redeliver>>
     \/ /\ resultLoop.pc = "ack"
        /\ \/ resultLoop' = [pc |-> "fetch", res |-> NoResult]
           \/ resultLoop' = [resultLoop EXCEPT !.pc = "send"]
        /\ redeliver' = redeliver \cup {resultLoop.res}

\* Every step of a run that ends is a step of the manager, or one of those.
LEMMA ManagerSteps ==
  ASSUME [ShutdownNext]_shutdownVars
  PROVE  [Next]_vars \/ Notices
<1>1. CASE AckClosed BY <1>1 DEF AckClosed, Notices, historyVars
<1>2. CASE WakeWaiter
  BY <1>2 DEF WakeWaiter, Signal, Notices, brokerVars, historyVars
<1>3. ASSUME NEW r \in restarts, RestartAborted(r) PROVE Notices
  BY <1>3 DEF RestartAborted, Notices, brokerVars, historyVars
<1>4. CASE Main \/ CoreExit \/ SaveExit \/ ResultExit \/ HealthExit \/ SignalNotify
           \/ UNCHANGED shutdownVars
  BY <1>4 DEF Main, StartMatchmaker, RunDone, MatchmakerShutdown, ShutdownDone, CoreExit,
              SaveExit, ResultExit, HealthExit, Exit, SignalNotify, shutdownVars
<1>5. CASE Core BY <1>5 DEF Core, Next, Caller
<1>6. CASE SaveStep \/ Fetch \/ Ping
  BY <1>6 DEF SaveStep, Fetch, Ping, Next, HandleResults, HealthCheck
<1>7. ASSUME NEW r \in restarts, Restarting(r) PROVE [Next]_vars \/ Notices
  BY <1>3, <1>7 DEF Restarting, Next, RestartWorker
<1>8. CASE Undisturbed
  BY <1>8 DEF Undisturbed, Next, HandleResults, HealthCheck
<1>9. CASE GameServers BY <1>9 DEF Next
<1> QED BY <1>1, <1>2, <1>4, <1>5, <1>6, <1>7, <1>8, <1>9 DEF ShutdownNext, Program

\* A shutdown's own steps keep the manager's invariant.
LEMMA NoticesStep == ASSUME Inv, Notices PROVE Inv'
<1>0. /\ TypeOK /\ NoMatchForgotten /\ ExclusiveWorkers /\ ConsumedMatchReleased
      /\ RestartOwnsState /\ NoLostWakeup /\ LockAndSequence
  BY DEF Inv
<1>1. UNCHANGED <<workers, mu, healthLoop, saveResultChan, saveLoop, matchSeq, jobs,
                  resultLog, cursor, faults, assigned, consumed, processed>>
  BY DEF Notices
<1>2. /\ restarts' \subseteq restarts
      /\ caller' = caller \/ (caller.pc = "waiting" /\ caller' = Outside("woken"))
  BY DEF Notices
<1>3. Reported' = Reported /\ \A m : HoldersOf(m)' = HoldersOf(m)
  BY <1>1 DEF Reported, Reports, HoldersOf
<1>4. \/ UNCHANGED <<resultLoop, redeliver>>
      \/ /\ resultLoop.pc = "ack" /\ resultLoop.res \in Result /\ resultLoop.res.MatchID \in jobs
         /\ resultLoop' \in ResultLoopState
         /\ resultLoop'.pc \in {"fetch", "send"}
         /\ resultLoop'.pc = "send" => resultLoop'.res = resultLoop.res
         /\ redeliver' = redeliver \cup {resultLoop.res}
  <2>1. CASE UNCHANGED <<resultLoop, redeliver>> BY <2>1
  <2>2. CASE ~ UNCHANGED <<resultLoop, redeliver>>
    <3>1. resultLoop.pc = "ack" /\ redeliver' = redeliver \cup {resultLoop.res}
      BY <2>2 DEF Notices
    <3>2. resultLoop.res \in Result /\ resultLoop.res.MatchID \in jobs
      BY <1>0, <3>1 DEF TypeOK, ResultLoopState, LockAndSequence
    <3>3. \/ resultLoop' = [pc |-> "fetch", res |-> NoResult]
          \/ resultLoop' = [resultLoop EXCEPT !.pc = "send"]
      BY <2>2 DEF Notices
    <3>4. resultLoop \in ResultLoopState BY <1>0 DEF TypeOK
    <3>5. CASE resultLoop' = [pc |-> "fetch", res |-> NoResult]
      BY <3>1, <3>2, <3>5 DEF ResultLoopState
    <3>6. CASE resultLoop' = [resultLoop EXCEPT !.pc = "send"]
      BY <3>1, <3>2, <3>4, <3>6 DEF ResultLoopState
    <3> QED BY <3>3, <3>5, <3>6
  <2> QED BY <2>1, <2>2
<1>5. TypeOK'
  <2>1. caller' \in CallerState
    <3>1. Outside("woken") \in CallerState BY DEF Outside, CallerState
    <3>2. caller \in CallerState BY <1>0 DEF TypeOK
    <3> QED BY <1>2, <3>1, <3>2
  <2>2. resultLoop' \in ResultLoopState /\ redeliver' \subseteq Result
    <3>1. resultLoop \in ResultLoopState /\ redeliver \subseteq Result BY <1>0 DEF TypeOK
    <3> QED BY <1>4, <3>1
  <2>3. restarts' \subseteq Restart
    <3>1. restarts \subseteq Restart BY <1>0 DEF TypeOK
    <3> QED BY <1>2, <3>1
  <2> QED BY <1>0, <1>1, <2>1, <2>2, <2>3 DEF TypeOK
<1>6. caller'.match = caller.match \/ (caller.pc = "waiting" /\ caller'.match = NoMatch)
  BY <1>2 DEF Outside
<1>7. NoMatchForgotten' /\ ExclusiveWorkers'
  BY <1>0, <1>1, <1>3 DEF NoMatchForgotten, ExclusiveWorkers
<1>8. ConsumedMatchReleased'
  <2>1. \A m \in consumed : m # NoMatch BY <1>0 DEF TypeOK
  <2> QED BY <1>0, <1>1, <1>3, <1>6, <2>1 DEF ConsumedMatchReleased
<1>9. RestartOwnsState' BY <1>0, <1>1, <1>2 DEF RestartOwnsState
<1>10. NoLostWakeup'
  BY <1>0, <1>1, <1>2 DEF NoLostWakeup, FreeWorkers, Outside
<1>11. LockAndSequence'
  <2>1. \/ caller' = caller
        \/ /\ caller.pc = "waiting" /\ caller'.pc = "woken" /\ caller'.match = NoMatch
    BY <1>2 DEF Outside
  <2> QED BY <1>0, <1>1, <1>3, <1>4, <2>1 DEF LockAndSequence
<1> QED BY <1>5, <1>7, <1>8, <1>9, <1>10, <1>11 DEF Inv

\* The manager keeps its invariant to the end.
THEOREM InvarianceToTheEnd == ShutdownSpec => []Inv
<1>1. ShutdownInit => Inv BY InitInv DEF ShutdownInit
<1>2. Inv /\ [ShutdownNext]_shutdownVars => Inv'
  BY ManagerSteps, InvStep, NoticesStep
<1> QED BY <1>1, <1>2, PTL DEF ShutdownSpec

\* In particular no match is forgotten, and none is held that was dealt with.
THEOREM NoMatchForgottenAtTheEnd == ShutdownSpec => [](NoMatchForgotten /\ ConsumedMatchReleased)
<1>1. Inv => NoMatchForgotten /\ ConsumedMatchReleased BY DEF Inv
<1> QED BY <1>1, InvarianceToTheEnd, PTL

\* To the end the manager's steps are those of MatchDispatch.
THEOREM DispatchToTheEnd == ShutdownSpec => ImplementsMatchDispatch
<1>1. ShutdownInit => Dispatching!Init
  BY InitImplements DEF ShutdownInit
<1>2. ASSUME Inv, [ShutdownNext]_shutdownVars PROVE [Dispatching!Next]_(Dispatching!vars)
  <2>1. CASE [Next]_vars BY <1>2, <2>1, StepImplements
  <2>2. CASE Notices
    <3>1. UNCHANGED <<jobs, assigned>> /\ Reported' = Reported /\ SlotView' = SlotView
      BY <2>2 DEF Notices, Reported, Reports, SlotView
    <3> QED BY <3>1 DEF Dispatching!vars
  <2> QED BY <1>2, <2>1, <2>2, ManagerSteps
<1> QED BY <1>1, <1>2, InvarianceToTheEnd, PTL DEF ShutdownSpec, ImplementsMatchDispatch, Dispatching!Spec

-----------------------------------------------------------------------------
(* The order in which Run takes things down. *)

\* The matchmaker's goroutine returns from its loop only where it waits for
\* nothing, and Run waits for it before it touches the manager's connections.
CoreGone ==
  /\ "core" \in exited => caller.pc \in {"away", "woken"}
  /\ Closed => "core" \in exited
  /\ main \in {"startMatchmaker", "serving", "stopMatchmaker", "stopManager", "closed"}
  /\ ctx \in {"live", "canceled"}
  /\ exited \subseteq Goroutines

\* A step of the manager outside the matchmaker's own leaves a gone matchmaker.
LEMMA CallerStays ==
  ASSUME HandleResults \/ HealthCheck \/ Save \/ GameServers \/ Notices
           \/ (\E r \in restarts : RestartWorker(r)) \/ (\E w \in Workers : RestartDeadline(w)),
         caller.pc \in {"away", "woken"}
  PROVE  caller'.pc \in {"away", "woken"}
<1>1. CASE HandleResults
  BY <1>1 DEF HandleResults, GetResult, AckResult, AckFail, SendResult, FreeMatchWorker,
              Signal, Outside
<1>2. CASE HealthCheck
  BY <1>2 DEF HealthCheck, PingWorkers, HealthLock, CheckHealthy, CheckUnhealthy, CancelMatch,
              HealthUnlock
<1>3. CASE Save \/ GameServers
  BY <1>3 DEF Save, ReceiveResult, RemoveMatchStatus, SaveMatchResults, GameServers,
              PublishResult, PublishCancelAfterResult
<1>4. CASE Notices BY <1>4 DEF Notices, Outside
<1>5. ASSUME NEW r \in restarts, RestartWorker(r) PROVE caller'.pc \in {"away", "woken"}
  BY <1>5 DEF RestartWorker, RestartContainer, RestartFail, RestartReturn, Signal, Outside
<1>6. ASSUME NEW w \in Workers, RestartDeadline(w) PROVE caller'.pc \in {"away", "woken"}
  BY <1>6 DEF RestartDeadline
<1> QED BY <1>1, <1>2, <1>3, <1>4, <1>5, <1>6

LEMMA CoreGoneStep == ASSUME CoreGone, [ShutdownNext]_shutdownVars PROVE CoreGone'
<1> USE DEF CoreGone, Closed, Canceled, Goroutines
<1>1. CASE Main
  BY <1>1 DEF Main, StartMatchmaker, RunDone, MatchmakerShutdown, ShutdownDone, vars
<1>2. CASE CoreExit \/ SaveExit \/ ResultExit \/ HealthExit
  BY <1>2 DEF CoreExit, SaveExit, ResultExit, HealthExit, Exit, vars
<1>3. CASE SignalNotify
  BY <1>3 DEF SignalNotify, vars
<1>4. CASE Core
  <2>1. "core" \notin exited /\ UNCHANGED runVars BY <1>4 DEF Core
  <2> QED BY <2>1 DEF runVars
<1>5. ASSUME /\ SaveStep \/ Fetch \/ AckClosed \/ Ping \/ WakeWaiter \/ Undisturbed
                \/ (\E r \in restarts : Restarting(r))
                \/ (GameServers /\ UNCHANGED runVars)
      PROVE  CoreGone'
  <2>1. UNCHANGED runVars
    BY <1>5 DEF SaveStep, Fetch, AckClosed, Ping, WakeWaiter, Undisturbed, Restarting,
                RestartAborted
  <2>2. \/ HandleResults \/ HealthCheck \/ Save \/ GameServers \/ Notices
        \/ (\E r \in restarts : RestartWorker(r)) \/ (\E w \in Workers : RestartDeadline(w))
    <3>1. CASE SaveStep \/ Fetch \/ Ping \/ Undisturbed \/ (GameServers /\ UNCHANGED runVars)
      BY <3>1 DEF SaveStep, Fetch, Ping, Undisturbed, HandleResults, HealthCheck
    <3>2. CASE AckClosed BY <3>2 DEF AckClosed, Notices, historyVars
    <3>3. CASE WakeWaiter BY <3>3 DEF WakeWaiter, Signal, Notices, brokerVars, historyVars
    <3>4. ASSUME NEW r \in restarts, Restarting(r) PROVE RestartWorker(r) \/ Notices
      BY <3>4 DEF Restarting, RestartAborted, RestartWorker, Notices, brokerVars, historyVars
    <3> QED BY <1>5, <3>1, <3>2, <3>3, <3>4
  <2>3. caller.pc \in {"away", "woken"} => caller'.pc \in {"away", "woken"}
    BY <2>2, CallerStays
  <2> QED BY <2>1, <2>3 DEF runVars
<1>6. CASE UNCHANGED shutdownVars
  BY <1>6 DEF shutdownVars, vars, runVars
<1> QED BY <1>1, <1>2, <1>3, <1>4, <1>5, <1>6 DEF ShutdownNext, Program

\* Connections and containers go only when the matchmaker is gone.
THEOREM ConnectionsOutliveMatchmaker == ShutdownSpec => []ClosedAfterMatchmaker
<1>1. ShutdownInit => CoreGone
  BY DEF ShutdownInit, Init, Outside, CoreGone, Closed, Goroutines
<1>2. CoreGone => ClosedAfterMatchmaker
  BY DEF CoreGone, ClosedAfterMatchmaker
<1> QED BY <1>1, <1>2, CoreGoneStep, PTL DEF ShutdownSpec

\* The types, of the manager and of the run.
THEOREM ShutdownTypes == ShutdownSpec => []ShutdownTypeOK
<1>1. ShutdownInit => CoreGone
  BY DEF ShutdownInit, Init, Outside, CoreGone, Closed, Goroutines
<1>2. Inv /\ CoreGone => ShutdownTypeOK
  BY DEF Inv, CoreGone, ShutdownTypeOK
<1> QED BY <1>1, <1>2, CoreGoneStep, InvarianceToTheEnd, PTL DEF ShutdownSpec
-----------------------------------------------------------------------------
(* Once the context is canceled the goroutines wind down. *)

\* At most one goroutine restartWorker is started, or goes on, in a step.
LEMMA RestartsStep ==
  ASSUME [ShutdownNext]_shutdownVars
  PROVE  \E r : restarts' \subseteq restarts \cup {r}
<1>1. CASE Notices BY <1>1 DEF Notices
<1>2. CASE Caller
  BY <1>2 DEF Caller, WaitForFreeWorker, GiveUpRound, AssignNoFreeWorker, AssignBegin,
              AssignSend, AssignFail, AssignReturn
<1>3. CASE HandleResults
  BY <1>3 DEF HandleResults, GetResult, AckResult, AckFail, SendResult, FreeMatchWorker
<1>4. CASE HealthCheck
  BY <1>4 DEF HealthCheck, PingWorkers, HealthLock, CheckHealthy, CheckUnhealthy, CancelMatch,
              HealthUnlock
<1>5. ASSUME NEW r \in restarts, RestartWorker(r) PROVE \E q : restarts' \subseteq restarts \cup {q}
  BY <1>5 DEF RestartWorker, RestartContainer, RestartFail, RestartReturn
<1>6. ASSUME NEW w \in Workers, RestartDeadline(w) PROVE restarts' = restarts
  BY <1>6 DEF RestartDeadline
<1>7. CASE Save \/ GameServers \/ UNCHANGED vars
  BY <1>7 DEF Save, ReceiveResult, RemoveMatchStatus, SaveMatchResults, GameServers,
              PublishResult, PublishCancelAfterResult, vars
<1> QED BY <1>1, <1>2, <1>3, <1>4, <1>5, <1>6, <1>7, ManagerSteps DEF Next

\* The goroutines restartWorker are finitely many.
LEMMA FiniteRestarts == ShutdownSpec => []IsFiniteSet(restarts)
<1>1. ShutdownInit => IsFiniteSet(restarts)
  BY FS_EmptySet DEF ShutdownInit, Init
<1>2. IsFiniteSet(restarts) /\ [ShutdownNext]_shutdownVars => IsFiniteSet(restarts)'
  <2> SUFFICES ASSUME IsFiniteSet(restarts), [ShutdownNext]_shutdownVars
               PROVE  IsFiniteSet(restarts)'
    OBVIOUS
  <2>1. PICK r : restarts' \subseteq restarts \cup {r} BY RestartsStep
  <2>2. IsFiniteSet(restarts \cup {r}) BY FS_AddElement
  <2> QED BY <2>1, <2>2, FS_Subset
<1> QED BY <1>1, <1>2, PTL DEF ShutdownSpec

\* Everything that is counted can be.
LEMMA CountedSets ==
  ASSUME IsFiniteSet(restarts)
  PROVE  /\ IsFiniteSet(Deadlines) /\ IsFiniteSet(Goroutines \ exited)
         /\ Cardinality(restarts) \in Nat /\ Cardinality(Deadlines) \in Nat
         /\ Cardinality(Goroutines \ exited) \in Nat
<1>1. IsFiniteSet(1 .. WorkerCount) BY FS_Interval
<1>2. IsFiniteSet(Goroutines)
  <2>1. IsFiniteSet({} \cup {"core"}) BY FS_EmptySet, FS_AddElement
  <2>2. IsFiniteSet(({} \cup {"core"}) \cup {"save"}) BY <2>1, FS_AddElement
  <2>3. IsFiniteSet((({} \cup {"core"}) \cup {"save"}) \cup {"result"}) BY <2>2, FS_AddElement
  <2>4. IsFiniteSet(((({} \cup {"core"}) \cup {"save"}) \cup {"result"}) \cup {"health"})
    BY <2>3, FS_AddElement
  <2>5. Goroutines = ((({} \cup {"core"}) \cup {"save"}) \cup {"result"}) \cup {"health"}
    BY DEF Goroutines
  <2> QED BY <2>4, <2>5
<1>3. IsFiniteSet(Deadlines)
  <2>1. Deadlines \subseteq 1 .. WorkerCount BY DEF Deadlines
  <2> QED BY <1>1, <2>1, FS_Subset
<1>4. IsFiniteSet(Goroutines \ exited)
  <2>1. Goroutines \ exited \subseteq Goroutines OBVIOUS
  <2> QED BY <1>2, <2>1, FS_Subset
<1> QED BY <1>3, <1>4, FS_CardinalityType

\* What is left is a number of steps.
LEMMA PartsAreNat ==
  ASSUME TypeOK, CoreGone, IsFiniteSet(restarts)
  PROVE  /\ MainLeft \in Nat /\ CoreLeft \in Nat /\ ResultLeft \in Nat
         /\ HealthLeft \in Nat /\ SaveLeft \in Nat
<1>1. MainLeft \in Nat BY DEF CoreGone, MainLeft
<1>2. CoreLeft \in Nat BY DEF TypeOK, CallerState, CoreLeft
<1>3. ResultLeft \in Nat BY DEF TypeOK, ResultLoopState, ResultLeft
<1>4. HealthLeft \in Nat
  <2>1. healthLoop.pc \in {"tick", "lock", "check"} /\ healthLoop.next \in 1 .. WorkerCount + 1
    BY DEF TypeOK, HealthLoopState
  <2>2. WorkerCount + 1 - healthLoop.next \in Nat BY <2>1
  <2> QED BY <2>1, <2>2 DEF HealthLeft
<1>5. SaveLeft \in Nat
  <2>1. /\ saveLoop.pc \in {"receive", "removeStatus", "saveResults"}
        /\ Len(saveResultChan) \in Nat
    BY DEF TypeOK, SaveLoopState
  <2> QED BY <2>1 DEF SaveLeft
<1> QED BY <1>1, <1>2, <1>3, <1>4, <1>5
\* Every step but those of the game servers is one of the steps that are left.
LEMMA WindsDownStep ==
  ASSUME Inv, CoreGone, IsFiniteSet(restarts), Canceled, ShutdownNext
  PROVE  \/ UNCHANGED shutdownVars
         \/ StepsLeft' < StepsLeft
         \/ GameServers /\ UNCHANGED StepsLeft
<1> DEFINE K == Cardinality(restarts)
           D == Cardinality(Deadlines)
           G == Cardinality(Goroutines \ exited)
<1>0. /\ TypeOK /\ MainLeft \in Nat /\ CoreLeft \in Nat /\ ResultLeft \in Nat
      /\ HealthLeft \in Nat /\ SaveLeft \in Nat
      /\ K \in Nat /\ D \in Nat /\ G \in Nat
      /\ IsFiniteSet(Deadlines) /\ IsFiniteSet(Goroutines \ exited)
  BY PartsAreNat, CountedSets DEF Inv
<1>1. /\ StepsLeft = MainLeft + CoreLeft + ResultLeft + HealthLeft + SaveLeft + K + D + G
      /\ StepsLeft' = MainLeft' + CoreLeft' + ResultLeft' + HealthLeft' + SaveLeft' + K' + D' + G'
  BY DEF StepsLeft
\* A part is as it was when its variables are.
<1>2. /\ UNCHANGED main => UNCHANGED MainLeft
      /\ UNCHANGED caller => UNCHANGED CoreLeft
      /\ UNCHANGED resultLoop => UNCHANGED ResultLeft
      /\ UNCHANGED healthLoop => UNCHANGED HealthLeft
      /\ UNCHANGED <<saveLoop, saveResultChan>> => UNCHANGED SaveLeft
  BY DEF MainLeft, CoreLeft, ResultLeft, HealthLeft, SaveLeft
<1>3. /\ UNCHANGED restarts => UNCHANGED K
      /\ UNCHANGED workers => UNCHANGED D
      /\ UNCHANGED exited => UNCHANGED G
  BY DEF Deadlines
\* The sets.
<1>4. ASSUME NEW r \in restarts, restarts' = restarts \ {r} PROVE K' = K - 1
  BY <1>4, FS_RemoveElement
<1>5. ASSUME NEW r, restarts' = restarts \cup {r} PROVE K' \in {K, K + 1}
  BY <1>5, FS_AddElement
<1>6. ASSUME Deadlines' \subseteq Deadlines PROVE D' \in Nat /\ D' <= D
  <2>1. IsFiniteSet(Deadlines') /\ Cardinality(Deadlines') <= Cardinality(Deadlines)
    BY <1>0, <1>6, FS_Subset
  <2> QED BY <2>1, FS_CardinalityType
<1>7. ASSUME NEW w, Deadlines' \subseteq Deadlines \cup {w} PROVE D' \in Nat /\ D' <= D + 1
  <2>1. /\ IsFiniteSet(Deadlines \cup {w})
        /\ Cardinality(Deadlines \cup {w}) \in {Cardinality(Deadlines), Cardinality(Deadlines) + 1}
    BY <1>0, FS_AddElement
  <2>2. /\ IsFiniteSet(Deadlines')
        /\ Cardinality(Deadlines') <= Cardinality(Deadlines \cup {w})
    BY <1>7, <2>1, FS_Subset
  <2> QED BY <1>0, <2>1, <2>2, FS_CardinalityType
\* A goroutine returns.
<1>8. ASSUME NEW g \in Goroutines, Exit(g)
      PROVE  UNCHANGED shutdownVars \/ StepsLeft' < StepsLeft
  <2>1. UNCHANGED <<main, caller, resultLoop, healthLoop, saveLoop, saveResultChan, restarts,
                    workers>>
    BY <1>8 DEF Exit, vars
  <2>2. CASE g \in exited
    BY <1>8, <2>2 DEF Exit, shutdownVars, runVars
  <2>3. CASE g \notin exited
    <3>1. /\ Goroutines \ exited' = (Goroutines \ exited) \ {g}
          /\ g \in Goroutines \ exited
      BY <1>8, <2>3 DEF Exit
    <3>2. G' = G - 1
      <4>1. Cardinality((Goroutines \ exited) \ {g}) = Cardinality(Goroutines \ exited) - 1
        BY <1>0, <3>1, FS_RemoveElement
      <4> QED BY <3>1, <4>1 DEF Goroutines
    <3> HIDE DEF K, D, G
    <3> QED BY <1>0, <1>1, <1>2, <1>3, <2>1, <3>2
  <2> QED BY <2>2, <2>3

<1> HIDE DEF K, D, G
\* A free worker has no deadline.
<1>24. ASSUME NEW w \in Workers, workers' = [workers EXCEPT ![w] = SetFree(@)]
       PROVE  Deadlines' \subseteq Deadlines
  <2>1. SetFree(workers[w]).validity = "always" BY DEF SetFree, EnterState
  <2>2. \A v \in Workers : workers'[v] = IF v = w THEN SetFree(workers[w]) ELSE workers[v]
    BY <1>0, <1>24 DEF TypeOK
  <2> QED BY <2>1, <2>2 DEF Deadlines
\* app.Run
<1>9. CASE Main
  <2>1. /\ UNCHANGED vars /\ MainLeft' < MainLeft /\ MainLeft' \in Nat
        /\ exited' = exited \/ (MainLeft' = MainLeft - 2 /\ exited' = exited \ {"core"})
    BY <1>9 DEF Main, StartMatchmaker, RunDone, MatchmakerShutdown, ShutdownDone, MainLeft
  <2>2. UNCHANGED <<CoreLeft, ResultLeft, HealthLeft, SaveLeft, K, D>>
    BY <1>2, <1>3, <2>1 DEF vars
  <2>3. exited' = exited \ {"core"} => G' \in {G, G + 1}
    <3> SUFFICES ASSUME exited' = exited \ {"core"}, "core" \in exited PROVE G' = G + 1
      BY <1>3, <2>1
    <3>1. Goroutines \ exited' = (Goroutines \ exited) \cup {"core"} BY DEF Goroutines
    <3>2. Cardinality((Goroutines \ exited) \cup {"core"}) = Cardinality(Goroutines \ exited) + 1
      BY <1>0, FS_AddElement
    <3> QED BY <3>1, <3>2 DEF G, Goroutines
  <2> QED BY <1>0, <1>1, <1>3, <2>1, <2>2, <2>3
\* The matchmaker's goroutine.
<1>10. CASE Core \/ WakeWaiter
  <2>1. /\ UNCHANGED <<main, exited, resultLoop, healthLoop, restarts, saveLoop, saveResultChan>>
        /\ CoreLeft' \in Nat /\ CoreLeft' < CoreLeft
    BY <1>0, <1>10 DEF Core, WakeWaiter, Connected, GiveUpRound, AssignNoFreeWorker, AssignBegin,
       AssignFail, AssignReturn, Signal, Outside, CoreLeft, runVars
  <2>2. Deadlines' \subseteq Deadlines
    <3>1. CASE AssignReturn
      BY <1>0, <3>1 DEF AssignReturn, SetOccupied, EnterState, Deadlines, TypeOK
    <3>2. CASE ~ AssignReturn
      BY <1>10, <3>2 DEF Core, WakeWaiter, Connected, GiveUpRound, AssignNoFreeWorker,
         AssignBegin, AssignFail, Deadlines
    <3> QED BY <3>1, <3>2
  <2> QED BY <1>0, <1>1, <1>2, <1>3, <1>6, <2>1, <2>2
\* saveLoop
<1>11. CASE SaveStep
  <2>1. UNCHANGED <<main, exited, caller, resultLoop, healthLoop, restarts, workers>>
    BY <1>11 DEF SaveStep, Save, ReceiveResult, RemoveMatchStatus, SaveMatchResults, runVars
  <2>2. SaveLeft' = SaveLeft - 1
    <3>0. saveLoop \in SaveLoopState /\ saveResultChan \in Seq(Result) BY <1>0 DEF TypeOK
    <3>1. CASE ReceiveResult
      <4>1. Len(saveResultChan') = Len(saveResultChan) - 1 /\ Len(saveResultChan) \in Nat
        BY <3>0, <3>1, TailSet DEF ReceiveResult
      <4> QED BY <3>1, <4>1 DEF ReceiveResult, SaveLeft
    <3>2. CASE RemoveMatchStatus \/ SaveMatchResults
      BY <3>0, <3>2 DEF RemoveMatchStatus, SaveMatchResults, SaveLeft, SaveLoopState
    <3> QED BY <1>11, <3>1, <3>2 DEF SaveStep, Save
  <2> QED BY <1>0, <1>1, <1>2, <1>3, <2>1, <2>2
\* handleResults
<1>12. CASE Fetch \/ AckClosed
  <2>1. UNCHANGED <<main, exited, caller, healthLoop, restarts, workers, saveLoop, saveResultChan>>
    BY <1>12 DEF Fetch, Connected, AckResult, AckFail, AckClosed, runVars
  <2>2. resultLoop.pc = "ack" /\ resultLoop'.pc \in {"send", "fetch"}
    BY <1>0, <1>12 DEF Fetch, Connected, AckResult, AckFail, AckClosed, TypeOK, ResultLoopState
  <2>3. ResultLeft' \in Nat /\ ResultLeft' < ResultLeft BY <2>2 DEF ResultLeft
  <2>4. UNCHANGED <<MainLeft, CoreLeft, HealthLeft, SaveLeft, K, D, G>>
    BY <1>2, <1>3, <2>1
  <2>5. StepsLeft' < StepsLeft
    <3>1. PICK d \in Nat \ {0} : ResultLeft' = ResultLeft - d BY <1>0, <2>3
    <3> QED BY <1>0, <1>1, <2>4, <3>1
  <2> QED BY <2>5
<1>13. ASSUME SendResult, UNCHANGED runVars PROVE StepsLeft' < StepsLeft
  <2>1. UNCHANGED <<main, exited, caller, healthLoop, restarts, workers, saveLoop>>
    BY <1>13 DEF SendResult, runVars
  <2>2. Len(saveResultChan') = Len(saveResultChan) + 1 /\ Len(saveResultChan) \in Nat
    <3>1. resultLoop.res \in Result BY <1>0, <1>13 DEF SendResult, TypeOK, ResultLoopState
    <3> QED BY <1>0, <1>13, <3>1, AppendSet DEF SendResult, TypeOK
  <2>3. SaveLeft' = SaveLeft + 3
    BY <1>0, <2>1, <2>2 DEF SaveLeft, TypeOK, SaveLoopState
  <2>4. ResultLeft' = ResultLeft - 4
    BY <1>0, <1>13 DEF SendResult, ResultLeft, TypeOK, ResultLoopState
  <2> QED BY <1>0, <1>1, <1>2, <1>3, <2>1, <2>3, <2>4
<1>14. ASSUME FreeMatchWorker, UNCHANGED runVars PROVE StepsLeft' < StepsLeft
  <2>1. UNCHANGED <<main, exited, healthLoop, restarts, saveLoop, saveResultChan>>
    BY <1>14 DEF FreeMatchWorker, runVars
  <2>2. ResultLeft' = ResultLeft - 1
    BY <1>14 DEF FreeMatchWorker, ResultLeft
  <2>3. CoreLeft' \in Nat /\ CoreLeft' <= CoreLeft
    BY <1>0, <1>14 DEF FreeMatchWorker, Signal, Outside, CoreLeft
  <2>4. Deadlines' \subseteq Deadlines
    BY <1>14, <1>24 DEF FreeMatchWorker, Deadlines
  <2> QED BY <1>0, <1>1, <1>2, <1>3, <1>6, <2>1, <2>2, <2>3, <2>4
\* healthCheck
<1>15. ASSUME HealthLock \/ HealthUnlock, UNCHANGED runVars PROVE StepsLeft' < StepsLeft
  <2>1. UNCHANGED <<main, exited, caller, resultLoop, restarts, workers, saveLoop, saveResultChan>>
    BY <1>15 DEF HealthLock, HealthUnlock, runVars
  <2>2. healthLoop.next \in 1 .. WorkerCount + 1 BY <1>0 DEF TypeOK, HealthLoopState
  <2>3. CASE HealthLock
    <3>1. /\ healthLoop.pc = "lock" /\ healthLoop'.pc = "check"
          /\ healthLoop'.next = healthLoop.next
      BY <1>0, <2>3 DEF HealthLock, TypeOK, HealthLoopState
    <3>2. HealthLeft' = HealthLeft - 1 BY <2>2, <3>1 DEF HealthLeft
    <3> QED BY <1>0, <1>1, <1>2, <1>3, <2>1, <3>2
  <2>4. CASE HealthUnlock
    <3>1. HealthLeft' = 0 /\ HealthLeft >= 1
      BY <2>2, <2>4 DEF HealthUnlock, HealthLeft
    <3> QED BY <1>0, <1>1, <1>2, <1>3, <2>1, <3>1
  <2> QED BY <1>15, <2>3, <2>4
<1>16. ASSUME CheckHealthy \/ CheckUnhealthy
       PROVE  HealthLeft' = HealthLeft - 6
  <2>1. healthLoop.next \in 1 .. WorkerCount + 1 BY <1>0 DEF TypeOK, HealthLoopState
  <2>2. /\ healthLoop.pc = "check" /\ healthLoop'.pc = "check"
        /\ healthLoop'.next = healthLoop.next + 1
    BY <1>0, <1>16 DEF CheckHealthy, CheckUnhealthy, TypeOK, HealthLoopState
  <2> QED BY <2>1, <2>2 DEF HealthLeft
<1>17. ASSUME CheckHealthy, UNCHANGED runVars PROVE StepsLeft' < StepsLeft
  <2>1. UNCHANGED <<main, exited, caller, resultLoop, restarts, saveLoop, saveResultChan>>
    BY <1>17 DEF CheckHealthy, runVars
  <2>2. Deadlines' \subseteq Deadlines
    BY <1>0, <1>17 DEF CheckHealthy, PongedWorker, HandlePong, Deadlines, TypeOK, WorkerRecord
  <2> QED BY <1>0, <1>1, <1>2, <1>3, <1>6, <1>16, <1>17, <2>1, <2>2
<1>18. ASSUME CheckUnhealthy, UNCHANGED runVars PROVE StepsLeft' < StepsLeft
  <2>1. UNCHANGED <<main, exited, caller, resultLoop, saveLoop>>
    BY <1>18 DEF CheckUnhealthy, runVars
  <2>2. K' \in {K, K + 1}
    BY <1>5, <1>18 DEF CheckUnhealthy
  <2>3. Deadlines' \subseteq Deadlines \cup {healthLoop.next}
    BY <1>0, <1>18 DEF CheckUnhealthy, Deadlines, TypeOK
  <2>4. SaveLeft' \in {SaveLeft, SaveLeft + 3}
    <3>1. CASE saveResultChan' = saveResultChan BY <1>2, <2>1, <3>1
    <3>2. CASE saveResultChan' # saveResultChan
      <4>1. /\ healthLoop.next \in Workers /\ workers[healthLoop.next].State = "Occupied"
            /\ saveResultChan' = Append(saveResultChan,
                 [MatchID |-> workers[healthLoop.next].MatchID, Success |-> FALSE])
        BY <1>0, <1>18, <3>2 DEF CheckUnhealthy, CancelMatch, TypeOK, HealthLoopState
      <4>2. [MatchID |-> workers[healthLoop.next].MatchID, Success |-> FALSE] \in Result
        BY <4>1 DEF Inv, TypeOK, ExclusiveWorkers, Result
      <4>3. Len(saveResultChan') = Len(saveResultChan) + 1 /\ Len(saveResultChan) \in Nat
        BY <1>0, <4>1, <4>2, AppendSet DEF TypeOK
      <4> QED BY <1>0, <2>1, <4>3 DEF SaveLeft, TypeOK, SaveLoopState
    <3> QED BY <3>1, <3>2
  <2> QED BY <1>0, <1>1, <1>2, <1>3, <1>7, <1>16, <1>18, <2>1, <2>2, <2>3, <2>4
\* restartWorker
<1>19. ASSUME NEW r \in restarts, Restarting(r) PROVE StepsLeft' < StepsLeft
  <2>1. /\ UNCHANGED <<main, exited, resultLoop, healthLoop, saveLoop, saveResultChan>>
        /\ restarts' = restarts \ {r}
    BY <1>19 DEF Restarting, RestartAborted, Connected, RestartReturn, runVars
  <2>2. CoreLeft' \in Nat /\ CoreLeft' <= CoreLeft
    BY <1>0, <1>19 DEF Restarting, RestartAborted, Connected, RestartReturn, Signal, Outside,
       CoreLeft
  <2>3. Deadlines' \subseteq Deadlines
    <3>1. r.worker \in Workers BY <1>0 DEF TypeOK, Restart
    <3> QED BY <1>19, <1>24, <3>1
            DEF Restarting, RestartAborted, Connected, RestartReturn, Deadlines
  <2> QED BY <1>0, <1>1, <1>2, <1>3, <1>4, <1>6, <2>1, <2>2, <2>3
<1>20. ASSUME NEW w \in Workers, RestartDeadline(w), UNCHANGED runVars
       PROVE  StepsLeft' < StepsLeft
  <2>1. UNCHANGED <<main, exited, caller, resultLoop, healthLoop, restarts, saveLoop,
                    saveResultChan>>
    BY <1>20 DEF RestartDeadline, runVars
  <2>2. w \in Deadlines /\ Deadlines' = Deadlines \ {w}
    BY <1>0, <1>20 DEF RestartDeadline, Deadlines, TypeOK, WorkerRecord
  <2>3. D' = D - 1
    <3>1. Cardinality(Deadlines \ {w}) = Cardinality(Deadlines) - 1
      BY <1>0, <2>2, FS_RemoveElement
    <3> QED BY <2>2, <3>1 DEF D
  <2> QED BY <1>0, <1>1, <1>2, <1>3, <2>1, <2>3
\* The others.
<1>21. CASE CoreExit \/ SaveExit \/ ResultExit \/ HealthExit
  BY <1>8, <1>21 DEF CoreExit, SaveExit, ResultExit, HealthExit, Goroutines
<1>22. CASE GameServers /\ UNCHANGED runVars
  <2>1. UNCHANGED <<managerVars, main, exited>>
    BY <1>22 DEF GameServers, PublishResult, PublishCancelAfterResult, runVars
  <2>2. UNCHANGED <<MainLeft, CoreLeft, ResultLeft, HealthLeft, SaveLeft, K, D, G>>
    BY <1>2, <1>3, <2>1
  <2> QED BY <1>1, <1>22, <2>2
<1>23. ~ Ping /\ ~ SignalNotify BY DEF Ping, Connected, SignalNotify
<1> QED BY <1>9, <1>10, <1>11, <1>12, <1>13, <1>14, <1>15, <1>17, <1>18, <1>19, <1>20, <1>21,
           <1>22, <1>23 DEF ShutdownNext, Program, Undisturbed

\* Once the context is canceled the program takes finitely many steps.
THEOREM GoroutinesWindDown == ShutdownSpec => WindsDown
<1>1. ShutdownInit => CoreGone
  BY DEF ShutdownInit, Init, Outside, CoreGone, Closed, Goroutines
<1>2. Inv /\ CoreGone /\ IsFiniteSet(restarts) /\ [ShutdownNext]_shutdownVars
        => [Canceled => StepsLeft' < StepsLeft \/ (GameServers /\ UNCHANGED StepsLeft)]_shutdownVars
  BY WindsDownStep
<1> QED BY <1>1, <1>2, CoreGoneStep, FiniteRestarts, InvarianceToTheEnd, PTL
        DEF ShutdownSpec, WindsDown

\* Whoever holds mu can go on, or saveLoop makes room for him, or nobody will.
LEMMA HolderGoesOn ==
  ASSUME Inv, CoreGone, mu # "none"
  PROVE  SenderStuck \/ SomebodyCanGo
<1>0. TypeOK /\ LockAndSequence BY DEF Inv
<1>1. CASE mu = "caller"
  <2>1. caller.pc \in {"getPort", "request"} BY <1>0, <1>1 DEF LockAndSequence
  <2>2. "core" \notin exited BY <2>1 DEF CoreGone
  <2> QED BY <2>1, <2>2 DEF SomebodyCanGo, CoreCanGo
<1>2. CASE mu = "health"
  <2>1. /\ healthLoop.pc = "check" /\ healthLoop.next \in 1 .. WorkerCount + 1
        /\ Len(saveResultChan) <= ResultChanSize /\ Len(saveResultChan) \in Nat
    BY <1>0, <1>2 DEF LockAndSequence, TypeOK, HealthLoopState
  <2> QED BY <2>1 DEF SenderStuck, SomebodyCanGo, HealthCanGo, SaveCanGo
<1> QED BY <1>0, <1>1, <1>2 DEF TypeOK

\* With mu free a goroutine that has not returned goes on or waits for saveLoop,
\* and Run goes on when all have.
LEMMA SomebodyGoesOn ==
  ASSUME Inv, CoreGone, mu = "none", main # "closed"
  PROVE  SenderStuck \/ SomebodyCanGo
<1>0. /\ TypeOK /\ resultLoop.pc \in {"fetch", "ack", "send", "free"}
      /\ healthLoop.pc \in {"tick", "lock"}
      /\ caller.pc \in {"away", "waiting", "woken", "ready"}
      /\ Len(saveResultChan) <= ResultChanSize /\ Len(saveResultChan) \in Nat
  BY DEF Inv, TypeOK, LockAndSequence, ResultLoopState, HealthLoopState, CallerState
<1> SUFFICES ASSUME ~ SenderStuck, ~ SomebodyCanGo PROVE FALSE
  OBVIOUS
<1> USE DEF SomebodyCanGo
<1>1. "core" \in exited BY <1>0 DEF CoreCanGo
<1>2. "save" \in exited BY DEF SaveCanGo
<1>3. "result" \in exited BY <1>0, <1>2 DEF ResultCanGo, SenderStuck
<1>4. "health" \in exited BY <1>0 DEF HealthCanGo
<1>5. restarts = {} BY DEF RestartCanGo
<1>6. exited = Goroutines BY <1>1, <1>2, <1>3, <1>4 DEF Goroutines, CoreGone
<1> QED BY <1>1, <1>5, <1>6 DEF MainCanGo, CoreGone

\* The program is never stuck on itself.  With GoroutinesWindDown: once canceled it
\* ends, or a sender waits for a saveLoop that has returned.
THEOREM NobodyIsStuck == ShutdownSpec => []NobodyWaitsInVain
<1>1. ShutdownInit => CoreGone
  BY DEF ShutdownInit, Init, Outside, CoreGone, Closed, Goroutines
<1>2. Inv /\ CoreGone => NobodyWaitsInVain
  BY HolderGoesOn, SomebodyGoesOn DEF NobodyWaitsInVain
<1> QED BY <1>1, <1>2, CoreGoneStep, InvarianceToTheEnd, PTL DEF ShutdownSpec
=============================================================================
