--------------------------- MODULE ManagerShutdown ---------------------------
(***************************************************************************)
(* How the server manager ends: app.Run of app/run.go, its context, and    *)
(* the Shutdown of Matchmaker and WorkerManager, which close connections   *)
(* and wait for goroutines.  Every step of WorkerManager is a step of this *)
(* module as long as the context and the connections let it succeed; each  *)
(* goroutine notices a canceled context at the places where it looks.      *)
(***************************************************************************)
EXTENDS WorkerManager

VARIABLES
  main,     \* the goroutine of app.Run
  ctx,      \* "live" or "canceled"
  exited    \* goroutines that have returned

runVars == <<main, ctx, exited>>
shutdownVars == <<vars, runVars>>

Goroutines == {"core", "save", "result", "health"}

\* wm.Start has returned: connections are open, the loops run.
ShutdownInit ==
  /\ Init
  /\ main = "startMatchmaker"
  /\ ctx = "live"
  /\ exited = {"core"}    \* not started yet

Canceled == ctx = "canceled"
Closed == main \in {"stopManager", "closed"}
\* Calls with ctx to the broker and to Docker can succeed.
Connected == ~ Canceled /\ ~ Closed

Exit(g) == /\ exited' = exited \cup {g}
           /\ UNCHANGED <<vars, main, ctx>>

-----------------------------------------------------------------------------
(* app.Run *)

\* matchmaker.Start: a failing database makes Run return, and with that call
\* both Shutdown functions.
StartMatchmaker ==
  /\ main = "startMatchmaker"
  /\ \/ main' = "serving" /\ exited' = exited \ {"core"}
     \/ main' = "stopMatchmaker" /\ UNCHANGED exited
  /\ UNCHANGED <<vars, ctx>>

\* SIGTERM or SIGINT.
SignalNotify ==
  /\ main # "closed"
  /\ ~ Canceled
  /\ ctx' = "canceled"
  /\ UNCHANGED <<vars, main, exited>>

RunDone ==
  /\ main = "serving"
  /\ Canceled
  /\ main' = "stopMatchmaker"
  /\ UNCHANGED <<vars, ctx, exited>>

\* Broken variant: the deferred calls in the other order.
ManagerFirst ==
  /\ main = "stopMatchmaker"
  /\ main' = "stopManager"
  /\ UNCHANGED <<vars, ctx, exited>>

\* Matchmaker.Shutdown: its WaitGroup has the core loop.  WorkerManager.Shutdown
\* then removes the containers and closes the connections.
MatchmakerShutdown ==
  /\ main = "stopMatchmaker"
  /\ "core" \in exited
  /\ main' = "stopManager"
  /\ UNCHANGED <<vars, ctx, exited>>

\* The rest of WorkerManager.Shutdown: wg has the loops and restartWorker.
ShutdownDone ==
  /\ main = "stopManager"
  /\ exited = Goroutines
  /\ restarts = {}
  /\ main' = "closed"
  /\ UNCHANGED <<vars, ctx, exited>>

-----------------------------------------------------------------------------
(* The goroutines. *)

\* matchmakingLoop ends after WaitForFreeWorker, which needs mu.
CoreExit == /\ Canceled
            /\ caller.pc \in {"away", "woken"}
            /\ mu = "none"
            /\ Exit("core")

\* Broken variant: nobody wakes the waiter.
WakeNobody == FALSE /\ UNCHANGED shutdownVars

\* WaitForFreeWorker's context.AfterFunc.
WakeWaiter ==
  /\ Canceled
  /\ caller.pc = "waiting"
  /\ mu = "none"
  /\ Signal
  /\ UNCHANGED <<workers, mu, resultLoop, healthLoop, restarts, saveResultChan, saveLoop,
                 matchSeq, brokerVars, faults, historyVars, runVars>>

Core ==
  /\ "core" \notin exited
  /\ \/ ~ Canceled /\ WaitForFreeWorker
     \/ Connected /\ AssignSend
     \/ GiveUpRound \/ AssignNoFreeWorker \/ AssignBegin \/ AssignFail \/ AssignReturn
  /\ UNCHANGED runVars

\* saveLoop: select between ctx.Done() and the channel.
SaveExit == Canceled /\ saveLoop.pc = "receive" /\ Exit("save")

SaveStep == "save" \notin exited /\ Save /\ UNCHANGED runVars

ResultExit == Canceled /\ resultLoop.pc = "fetch" /\ Exit("result")

\* Broken variant: GetResult fetches with a context of its own.
FetchUncanceled == /\ GetResult \/ AckResult \/ AckFail
                   /\ UNCHANGED runVars

Fetch == /\ (Connected /\ GetResult) \/ AckResult \/ AckFail
         /\ UNCHANGED runVars

\* The connection is drained under the message: Ack fails, or it does not and the
\* broker never learns of it.
AckClosed ==
  /\ Closed
  /\ resultLoop.pc = "ack"
  /\ resultLoop' \in {[pc |-> "fetch", res |-> NoResult], [resultLoop EXCEPT !.pc = "send"]}
  /\ redeliver' = redeliver \cup {resultLoop.res}
  /\ UNCHANGED <<workers, mu, caller, healthLoop, restarts, saveResultChan, saveLoop,
                 matchSeq, jobs, resultLog, cursor, faults, historyVars, runVars>>

HealthExit == Canceled /\ healthLoop.pc = "tick" /\ Exit("health")

Ping == Connected /\ PingWorkers /\ UNCHANGED runVars

\* RestartContainer fails once its context or the connection has gone.
RestartAborted(r) ==
  /\ ~ Connected
  /\ ~ r.restarted
  /\ restarts' = restarts \ {r}
  /\ UNCHANGED <<workers, mu, caller, resultLoop, healthLoop, saveResultChan, saveLoop,
                 matchSeq, brokerVars, faults, historyVars, runVars>>

Restarting(r) ==
  \/ RestartAborted(r)
  \/ Connected /\ (RestartContainer(r) \/ RestartFail(r)) /\ UNCHANGED runVars
  \/ RestartReturn(r) /\ UNCHANGED runVars

-----------------------------------------------------------------------------
Main == StartMatchmaker \/ RunDone \/ MatchmakerShutdown \/ ShutdownDone

\* The steps that no context and no connection stops.
Undisturbed ==
  /\ \/ SendResult \/ FreeMatchWorker
     \/ HealthLock \/ CheckHealthy \/ CheckUnhealthy \/ HealthUnlock
     \/ \E w \in Workers : RestartDeadline(w)
  /\ UNCHANGED runVars

Program ==
  \/ Main
  \/ Core \/ CoreExit \/ WakeWaiter
  \/ SaveStep \/ SaveExit
  \/ Fetch \/ AckClosed \/ ResultExit
  \/ Ping \/ HealthExit
  \/ \E r \in restarts : Restarting(r)
  \/ Undisturbed

ShutdownNext ==
  \/ Program
  \/ SignalNotify
  \/ ~ Closed /\ GameServers /\ UNCHANGED runVars

ShutdownSpec == ShutdownInit /\ [][ShutdownNext]_shutdownVars

\* The program runs as long as one of its goroutines can.  That is enough: once
\* the context is canceled no goroutine goes round in circles.
ShutdownFairSpec == ShutdownSpec /\ WF_shutdownVars(Program)

-----------------------------------------------------------------------------
(* Correctness. *)

ShutdownTypeOK ==
  /\ TypeOK
  /\ main \in {"startMatchmaker", "serving", "stopMatchmaker", "stopManager", "closed"}
  /\ ctx \in {"live", "canceled"}
  /\ exited \subseteq Goroutines

\* The manager's connections and containers are not taken away from under
\* AssignMatch: the matchmaker ends first, and no goroutine is left over.
ClosedAfterMatchmaker ==
  Closed => "core" \in exited /\ caller.pc \in {"away", "woken"}

\* saveLoop has returned and its channel is full: a goroutine that sends into it
\* waits for nobody.
SenderStuck ==
  /\ "save" \in exited
  /\ Len(saveResultChan) = ResultChanSize
  /\ \/ resultLoop.pc = "send"
     \/ /\ healthLoop.pc = "check" /\ healthLoop.next <= WorkerCount
        /\ workers[healthLoop.next].State = "Occupied"

\* A signal ends the program: neither a waiting matchmaker nor a stale restart
\* keeps it, only a sender without a receiver does.
SignalEndsRun == Canceled ~> main = "closed" \/ SenderStuck

\* How many steps the goroutines take at most once the context is canceled.  A
\* message in hand costs a report, a report in the channel three steps of saveLoop,
\* an unhealthy worker a report, a restart and a deadline, and each goroutine its
\* exit.
MainLeft == [startMatchmaker |-> 5, serving |-> 3, stopMatchmaker |-> 2,
             stopManager |-> 1, closed |-> 0][main]
CoreLeft == [away |-> 0, woken |-> 0, waiting |-> 1, request |-> 1,
             getPort |-> 2, ready |-> 3][caller.pc]
ResultLeft == [fetch |-> 0, free |-> 1, send |-> 5, ack |-> 6][resultLoop.pc]
HealthLeft ==
  IF healthLoop.pc = "tick"
  THEN 0
  ELSE [lock |-> 2, check |-> 1][healthLoop.pc] + 6 * (WorkerCount + 1 - healthLoop.next)
SaveLeft == [receive |-> 0, saveResults |-> 1, removeStatus |-> 2][saveLoop.pc]
              + 3 * Len(saveResultChan)
Deadlines == {w \in Workers : workers[w].validity = "until"}

StepsLeft ==
  MainLeft + CoreLeft + ResultLeft + HealthLeft + SaveLeft
    + Cardinality(restarts) + Cardinality(Deadlines) + Cardinality(Goroutines \ exited)

\* Once the context is canceled no goroutine goes round in circles: not the
\* matchmaker, not a loop that fails and backs off, not health checks that restart
\* workers again and again.  What game servers publish keeps nobody.
WindsDown ==
  [][Canceled => StepsLeft' < StepsLeft \/ (GameServers /\ UNCHANGED StepsLeft)]_shutdownVars

\* A goroutine has a step to take under a canceled context: the guards of Program.
MainCanGo ==
  \/ main \in {"startMatchmaker", "serving"}
  \/ main = "stopMatchmaker" /\ "core" \in exited
  \/ main = "stopManager" /\ exited = Goroutines /\ restarts = {}
CoreCanGo ==
  \/ "core" \notin exited /\ caller.pc \in {"ready", "getPort", "request"}
  \/ "core" \notin exited /\ caller.pc \in {"away", "woken"} /\ mu = "none"
  \/ caller.pc = "waiting" /\ mu = "none"
ResultCanGo ==
  \/ resultLoop.pc = "fetch" /\ "result" \notin exited
  \/ resultLoop.pc = "ack"
  \/ resultLoop.pc = "send" /\ Len(saveResultChan) < ResultChanSize
  \/ resultLoop.pc = "free" /\ mu = "none"
HealthCanGo ==
  \/ healthLoop.pc = "tick" /\ "health" \notin exited
  \/ healthLoop.pc = "lock" /\ mu = "none"
  \/ /\ healthLoop.pc = "check"
     /\ \/ healthLoop.next > WorkerCount
        \/ IsHealthy(PongedWorker(healthLoop.next))
        \/ workers[healthLoop.next].State # "Occupied"
        \/ Len(saveResultChan) < ResultChanSize
SaveCanGo ==
  "save" \notin exited    \* it exits where it would wait for a report
RestartCanGo == \E r \in restarts : ~ r.restarted \/ mu = "none"

SomebodyCanGo ==
  MainCanGo \/ CoreCanGo \/ ResultCanGo \/ HealthCanGo \/ SaveCanGo \/ RestartCanGo

\* A canceled program is never stuck on itself: as long as it has not ended, and no
\* sender waits for a saveLoop that has returned, somebody can go on, whoever holds
\* mu and however full the channel is.
NobodyWaitsInVain == Canceled => main = "closed" \/ SenderStuck \/ SomebodyCanGo

-----------------------------------------------------------------------------
(* What the source says, and does not do. *)

\* WorkerManager.Shutdown "closes connections, kills containers and stops the
\* loops", after a signal ...
ShutdownStopsLoops == Canceled ~> main = "closed"

\* ... and when Run has called it since the matchmaker did not start.
FailedStartEndsRun == main = "stopManager" /\ ctx = "live" ~> main = "closed"

\* The database connection "is specifically tied to saveLoop, because it's not
\* thread-safe": Shutdown closes it when saveLoop is not using it.
DatabaseTiedToSaveLoop ==
  [][main # "stopManager" /\ main' = "stopManager" => saveLoop.pc = "receive"]_shutdownVars
=============================================================================
