----------------------- MODULE ManagerRestart_proofs ------------------------
(***************************************************************************)
(* What a restarted server manager can rely on, for any number of workers, *)
(* players, matches, lives and faults.                                     *)
(***************************************************************************)
EXTENDS ManagerRestart, SequenceTheorems, TLAPS

USE ManagerRestartAssumption
    DEF ManagerRestartAssumption, Workers, Match, NoMatch, Restarting, Holding, Fault,
        tables, stream, history, life

\* The inductive invariant.
Inv == /\ TypeOK /\ StartsInOrder /\ IdsAreFresh
       /\ FreshStart /\ NoZombies /\ HeldIsUnsettled

\* What the updates of a container's record keep.
LEMMA ContainerRecords ==
  ASSUME NEW c \in ContainerState
  PROVE  /\ NoContainer \in ContainerState /\ NewContainer \in ContainerState
         /\ JobEnded(c) \in ContainerState
         /\ [c EXCEPT !.failed = TRUE] \in ContainerState
         /\ [c EXCEPT !.mine = FALSE] \in ContainerState
         /\ \A state \in {"none", "created", "running"} :
              [c EXCEPT !.state = state] \in ContainerState
         /\ \A m \in Match \cup {NoMatch} : [c EXCEPT !.job = m] \in ContainerState
  BY DEF ContainerState, NoContainer, NewContainer, JobEnded

\* What a container keeps when its job is given, has failed or has ended.
LEMMA RecordKeeps ==
  ASSUME NEW c \in ContainerState
  PROVE  /\ c.job \in Int
         /\ JobEnded(c).mine = c.mine /\ JobEnded(c).state = c.state
         /\ JobEnded(c).job = NoMatch
         /\ LET d == [c EXCEPT !.failed = TRUE] IN
              d.mine = c.mine /\ d.state = c.state /\ d.job = c.job
         /\ \A m : LET d == [c EXCEPT !.job = m] IN
              d.mine = c.mine /\ d.state = c.state /\ d.job = m
  BY DEF ContainerState, JobEnded

\* Jobs that come and go leave alone whose the containers are and how they are.
LEMMA ContainersKeep ==
  ASSUME containers \in [Workers -> ContainerState], NEW w \in Workers,
         \/ containers' = containers
         \/ \E m \in Int : containers' = [containers EXCEPT ![w].job = m]
         \/ containers' = [containers EXCEPT ![w] = JobEnded(@)]
         \/ containers' = [containers EXCEPT ![w].failed = TRUE]
  PROVE  \A v \in Workers : /\ containers'[v].mine = containers[v].mine
                            /\ containers'[v].state = containers[v].state
<1> SUFFICES ASSUME NEW v \in Workers
             PROVE  /\ containers'[v].mine = containers[v].mine
                    /\ containers'[v].state = containers[v].state
  OBVIOUS
<1>1. CASE v # w BY <1>1
<1>2. CASE v = w
  <2>1. \/ containers'[w] = containers[w]
        \/ \E m \in Int : containers'[w] = [containers[w] EXCEPT !.job = m]
        \/ containers'[w] = JobEnded(containers[w])
        \/ containers'[w] = [containers[w] EXCEPT !.failed = TRUE]
    OBVIOUS
  <2>2. containers[w] \in ContainerState OBVIOUS
  <2>3. \/ containers'[w] = containers[w]
        \/ /\ containers'[w].mine = containers[w].mine
           /\ containers'[w].state = containers[w].state
    <3>1. ASSUME NEW m \in Int, containers'[w] = [containers[w] EXCEPT !.job = m]
          PROVE  /\ containers'[w].mine = containers[w].mine
                 /\ containers'[w].state = containers[w].state
      BY <2>2, <3>1 DEF ContainerState
    <3>2. CASE containers'[w] = JobEnded(containers[w])
      BY <2>2, <3>2, RecordKeeps
    <3>3. CASE containers'[w] = [containers[w] EXCEPT !.failed = TRUE]
      BY <2>2, <3>3, RecordKeeps
    <3> QED BY <2>1, <3>1, <3>2, <3>3
  <2> QED BY <1>2, <2>3
<1> QED BY <1>1, <1>2

\* A job that fails or ends gives its container no other one.
LEMMA JobsKeep ==
  ASSUME containers \in [Workers -> ContainerState], NEW w \in Workers,
         \/ containers' = [containers EXCEPT ![w] = JobEnded(@)]
         \/ containers' = [containers EXCEPT ![w].failed = TRUE]
  PROVE  \A v \in Workers : containers'[v].job \in {containers[v].job, NoMatch}
<1> SUFFICES ASSUME NEW v \in Workers
             PROVE  containers'[v].job \in {containers[v].job, NoMatch}
  OBVIOUS
<1>1. CASE v # w BY <1>1
<1>2. CASE v = w
  <2>1. \/ containers'[w] = JobEnded(containers[w])
        \/ containers'[w] = [containers[w] EXCEPT !.failed = TRUE]
    OBVIOUS
  <2> QED BY <1>2, <2>1, RecordKeeps
<1> QED BY <1>1, <1>2

\* What GetResult returns is in the stream.
LEMMA DeliverableResult ==
  ASSUME TypeOK, NEW i \in Deliverable
  PROVE  /\ i \in DOMAIN resultLog /\ resultLog[i] \in Result
         /\ \/ i \in redeliver /\ i <= cursor
            \/ i \notin redeliver /\ i = cursor + 1
  BY DEF TypeOK, Deliverable

\* A result in the hands of saveLoop is one of the stream's type.
LEMMA SavedResult ==
  ASSUME TypeOK, saveLoop.pc # "receive"
  PROVE  saveLoop.pc \in {"removeStatus", "saveResults"} /\ saveLoop.res \in Result
  BY DEF TypeOK, SaveLoopState, Idle

-----------------------------------------------------------------------------
(* Types, one group of variables at a time. *)

TablesType == users \in [User -> DB!UserRow] /\ matches \in [Match -> DB!MatchRow]
ContainersType == containers \in [Workers -> ContainerState]
StreamType == /\ resultLog \in Seq(Result) /\ cursor \in 0 .. Len(resultLog)
              /\ redeliver \subseteq 1 .. cursor /\ redelivered \subseteq Match
SaveType == /\ saveResultChan \in Seq(Result) /\ Len(saveResultChan) <= ResultChanSize
            /\ saveLoop \in SaveLoopState

\* The tables.
LEMMA TablesStep == ASSUME Inv, [Next]_vars PROVE TablesType'
<1> USE DEF TablesType
<1>0. /\ users \in [User -> DB!UserRow] /\ matches \in [Match -> DB!MatchRow]
      /\ adding \in Match \cup {NoMatch} /\ saveLoop \in SaveLoopState
  BY DEF Inv, TypeOK
<1>1. CASE SetupMatchmaking
  BY <1>0, <1>1 DEF SetupMatchmaking, DB!SetupUsers, DB!SetupMatches, DB!Inactive, DB!Null,
       DB!UserRow, DB!MatchRow
<1>2. CASE RemoveMatchStatus
  BY <1>0, <1>2 DEF RemoveMatchStatus, DB!RemoveMatchStatus, DB!Inactive, DB!Null, DB!UserRow
<1>3. CASE SaveMatchResults
  BY <1>0, <1>3 DEF SaveMatchResults, DB!SaveMatchResults, DB!MatchRow
<1>4. CASE AddMatch
  <2>1. CASE UNCHANGED tables BY <1>0, <2>1
  <2>2. CASE /\ users' = DB!AddMatchUsers(users, User, adding)
             /\ matches' = DB!AddMatchRow(matches, adding)
    <3>1. adding \in Match BY <1>0, <1>4 DEF AddMatch
    <3>2. users' \in [User -> DB!UserRow]
      BY <1>0, <2>2, <3>1 DEF DB!AddMatchUsers, DB!UserRow
    <3>3. matches' \in [Match -> DB!MatchRow]
      BY <1>0, <2>2, <3>1 DEF DB!AddMatchRow, DB!MatchRow
    <3> QED BY <3>2, <3>3
  <2> QED BY <1>4, <2>1, <2>2 DEF AddMatch
<1>5. CASE Open \/ RemoveZombieWorkers \/ Spawn \/ SpawnFail \/ SetupFail \/ AckFail
         \/ HandleResult \/ ReceiveResult \/ EndLife \/ UNCHANGED vars
  BY <1>0, <1>5 DEF Open, RemoveZombieWorkers, Spawn, SpawnFail, SetupFail, AckFail,
       HandleResult, ReceiveResult, EndLife, vars
<1>6. ASSUME NEW w \in Workers,
         \/ AssignMatch(w) \/ AssignFail(w) \/ CancelUnhealthy(w) \/ RestartContainer(w)
         \/ PublishResult(w) \/ SendCancel(w) \/ LoseJob(w)
      PROVE TablesType'
  BY <1>0, <1>6 DEF AssignMatch, AssignFail, CancelUnhealthy, RestartContainer,
       PublishResult, SendCancel, LoseJob
<1> QED BY <1>1, <1>2, <1>3, <1>4, <1>5, <1>6 DEF Next, Start, Save

\* The containers.
LEMMA ContainersStep == ASSUME Inv, [Next]_vars PROVE ContainersType'
<1> USE DEF ContainersType
<1>0. /\ containers \in [Workers -> ContainerState]
      /\ matchSeq \in 0 .. MaxMatches /\ next \in 1 .. WorkerCount + 1
  BY DEF Inv, TypeOK
<1>1. CASE RemoveZombieWorkers
  BY <1>0, <1>1, ContainerRecords DEF RemoveZombieWorkers
<1>2. CASE Spawn
  BY <1>0, <1>2 DEF Spawn, ContainerState, NewContainer
<1>3. CASE SpawnFail
  <2> DEFINE after == [w \in Workers |-> IF w < next THEN NoContainer ELSE containers[w]]
  <2>1. after \in [Workers -> ContainerState] BY <1>0, ContainerRecords
  <2>2. next \in Workers BY <1>3 DEF SpawnFail, Inv, StartsInOrder, TypeOK
  <2>3. ASSUME NEW state \in {"none", "created", "running"}
        PROVE  [after EXCEPT ![next].state = state] \in [Workers -> ContainerState]
    BY <2>1, <2>2, ContainerRecords
  <2> QED BY <1>3, <2>1, <2>3 DEF SpawnFail
<1>4. CASE SetupFail
  BY <1>0, <1>4 DEF SetupFail, ContainerState, NoContainer
<1>5. ASSUME NEW w \in Workers, AssignMatch(w) \/ AssignFail(w) PROVE ContainersType'
  <2>1. matchSeq' \in Match BY <1>0, <1>5 DEF AssignMatch, AssignFail
  <2>2. containers' = [containers EXCEPT ![w].job = matchSeq']
    BY <1>5 DEF AssignMatch, AssignFail
  <2> QED BY <1>0, <2>1, <2>2, ContainerRecords
<1>6. ASSUME NEW w \in Workers,
         RestartContainer(w) \/ PublishResult(w) \/ SendCancel(w) \/ LoseJob(w)
      PROVE ContainersType'
  <2>1. \/ containers' = [containers EXCEPT ![w] = JobEnded(@)]
        \/ containers' = [containers EXCEPT ![w].failed = TRUE]
    BY <1>6 DEF RestartContainer, PublishResult, SendCancel, LoseJob
  <2> QED BY <1>0, <2>1, ContainerRecords
<1>7. ASSUME NEW w \in Workers, CancelUnhealthy(w) PROVE ContainersType'
  BY <1>0, <1>7 DEF CancelUnhealthy
<1>8. CASE EndLife
  BY <1>0, <1>8, ContainerRecords DEF EndLife
<1>9. CASE Open \/ SetupMatchmaking \/ AckFail \/ HandleResult \/ ReceiveResult
         \/ RemoveMatchStatus \/ SaveMatchResults \/ AddMatch \/ UNCHANGED vars
  BY <1>0, <1>9 DEF Open, SetupMatchmaking, AckFail, HandleResult, ReceiveResult,
       RemoveMatchStatus, SaveMatchResults, AddMatch, vars
<1> QED BY <1>1, <1>2, <1>3, <1>4, <1>5, <1>6, <1>7, <1>8, <1>9 DEF Next, Start, Save

\* The stream, the consumer's place in it and what comes again.
LEMMA StreamStep == ASSUME Inv, [Next]_vars PROVE StreamType'
<1> USE DEF StreamType
<1>0. /\ resultLog \in Seq(Result) /\ cursor \in 0 .. Len(resultLog)
      /\ redeliver \subseteq 1 .. cursor /\ redelivered \subseteq Match
      /\ containers \in [Workers -> ContainerState]
  BY DEF Inv, TypeOK
<1>1. CASE SpawnFail \/ EndLife
  BY <1>0, <1>1 DEF SpawnFail, EndLife, GoDown
<1>2. CASE AckFail \/ HandleResult
  <2>1. PICK i \in Deliverable :
          Delivered(i) /\ redeliver' \in {redeliver \ {i}, redeliver \cup {i}}
    BY <1>2 DEF AckFail, HandleResult
  <2>2. /\ i \in DOMAIN resultLog /\ resultLog[i] \in Result
        /\ i <= cursor \/ i = cursor + 1
    BY DeliverableResult DEF Inv
  <2>3. resultLog' = resultLog BY <1>2 DEF AckFail, HandleResult
  <2>4. i \in 1 .. Len(resultLog) /\ resultLog[i].MatchID \in Match
    BY <1>0, <2>2 DEF Result
  <2>5. cursor' \in 0 .. Len(resultLog) /\ cursor <= cursor' /\ i <= cursor'
    BY <1>0, <2>1, <2>4 DEF Delivered
  <2>6. redelivered' \subseteq Match BY <1>0, <2>1, <2>4 DEF Delivered
  <2>7. redeliver' \subseteq 1 .. cursor'
    <3>1. redeliver' \subseteq redeliver \cup {i} BY <2>1
    <3>2. cursor \in Int /\ cursor' \in Int BY <1>0, <2>5
    <3> QED BY <1>0, <2>4, <2>5, <3>1, <3>2
  <2> QED BY <1>0, <2>3, <2>5, <2>6, <2>7
<1>3. ASSUME NEW w \in Workers, PublishResult(w) \/ SendCancel(w) PROVE StreamType'
  <2>1. /\ UNCHANGED <<cursor, redeliver, redelivered>>
        /\ \/ resultLog' = resultLog
           \/ \E success \in BOOLEAN :
                resultLog' = Append(resultLog, [MatchID |-> containers[w].job,
                                                Success |-> success])
    BY <1>3 DEF PublishResult, SendCancel, Publish
  <2>2. containers[w].job \in Match
    BY <1>0, <1>3 DEF PublishResult, SendCancel, ContainerState
  <2>3. \A success \in BOOLEAN :
          [MatchID |-> containers[w].job, Success |-> success] \in Result
    BY <2>2 DEF Result
  <2>4. CASE resultLog' = resultLog BY <1>0, <2>1, <2>4
  <2>5. ASSUME NEW success \in BOOLEAN,
               resultLog' = Append(resultLog, [MatchID |-> containers[w].job,
                                               Success |-> success])
        PROVE  StreamType'
    <3>1. resultLog' \in Seq(Result) /\ Len(resultLog') = Len(resultLog) + 1
      BY <1>0, <2>3, <2>5, AppendProperties
    <3>2. Len(resultLog) \in Nat BY <1>0
    <3> QED BY <1>0, <2>1, <3>1, <3>2
  <2> QED BY <2>1, <2>4, <2>5
<1>4. CASE Open \/ RemoveZombieWorkers \/ Spawn \/ SetupMatchmaking \/ SetupFail
         \/ ReceiveResult \/ RemoveMatchStatus \/ SaveMatchResults \/ AddMatch \/ UNCHANGED vars
  BY <1>0, <1>4 DEF Open, RemoveZombieWorkers, Spawn, SetupMatchmaking, SetupFail,
       ReceiveResult, RemoveMatchStatus, SaveMatchResults, AddMatch, vars
<1>5. ASSUME NEW w \in Workers,
         \/ AssignMatch(w) \/ AssignFail(w) \/ CancelUnhealthy(w) \/ RestartContainer(w)
         \/ LoseJob(w)
      PROVE StreamType'
  BY <1>0, <1>5 DEF AssignMatch, AssignFail, CancelUnhealthy, RestartContainer, LoseJob
<1> QED BY <1>1, <1>2, <1>3, <1>4, <1>5 DEF Next, Start, Save

\* saveLoop and its channel.
LEMMA SaveStep == ASSUME Inv, [Next]_vars PROVE SaveType'
<1> USE DEF SaveType
<1>0. /\ saveResultChan \in Seq(Result) /\ Len(saveResultChan) <= ResultChanSize
      /\ saveLoop \in SaveLoopState
  BY DEF Inv, TypeOK
<1>1. CASE SpawnFail \/ EndLife
  <2>1. saveResultChan' = <<>> /\ saveLoop' = Idle BY <1>1 DEF SpawnFail, EndLife, GoDown
  <2>2. <<>> \in Seq(Result) /\ Len(<<>>) = 0 BY EmptySeq
  <2> QED BY <2>1, <2>2 DEF SaveLoopState
<1>2. ASSUME NEW res \in Result, Len(saveResultChan) < ResultChanSize,
             saveResultChan' = Append(saveResultChan, res), saveLoop' = saveLoop
      PROVE  SaveType'
  <2>1. saveResultChan' \in Seq(Result) /\ Len(saveResultChan') = Len(saveResultChan) + 1
    BY <1>0, <1>2, AppendProperties
  <2>2. Len(saveResultChan) \in Nat BY <1>0
  <2> QED BY <1>0, <1>2, <2>1, <2>2
<1>3. CASE HandleResult
  BY <1>2, <1>3, DeliverableResult DEF HandleResult, Loops, Inv
<1>4. ASSUME NEW w \in Workers, CancelUnhealthy(w) PROVE SaveType'
  <2>1. CASE held[w] \in Match
    <3>1. [MatchID |-> held[w], Success |-> FALSE] \in Result BY <2>1 DEF Result
    <3> QED BY <1>2, <1>4, <2>1, <3>1 DEF CancelUnhealthy, Loops
  <2>2. CASE held[w] \notin Match
    BY <1>0, <1>4, <2>2 DEF CancelUnhealthy
  <2> QED BY <2>1, <2>2
<1>5. CASE ReceiveResult
  <2>1. /\ saveResultChan # <<>> /\ saveResultChan' = Tail(saveResultChan)
        /\ saveLoop' = [pc |-> "removeStatus", res |-> Head(saveResultChan)]
    BY <1>5 DEF ReceiveResult
  <2>2. /\ Head(saveResultChan) \in Result /\ Tail(saveResultChan) \in Seq(Result)
        /\ Len(Tail(saveResultChan)) = Len(saveResultChan) - 1
    BY <1>0, <2>1, HeadTailProperties
  <2>3. saveLoop' \in SaveLoopState BY <2>1, <2>2 DEF SaveLoopState
  <2>4. Len(saveResultChan) \in Nat BY <1>0
  <2> QED BY <1>0, <2>1, <2>2, <2>3, <2>4
<1>6. CASE RemoveMatchStatus
  BY <1>0, <1>6 DEF RemoveMatchStatus, SaveLoopState, Idle, Result
<1>7. CASE SaveMatchResults
  BY <1>0, <1>7 DEF SaveMatchResults, SaveLoopState
<1>8. CASE Open \/ RemoveZombieWorkers \/ Spawn \/ SetupMatchmaking \/ SetupFail
         \/ AddMatch \/ AckFail \/ UNCHANGED vars
  BY <1>0, <1>8 DEF Open, RemoveZombieWorkers, Spawn, SetupMatchmaking, SetupFail,
       AddMatch, AckFail, vars
<1>9. ASSUME NEW w \in Workers,
         \/ AssignMatch(w) \/ AssignFail(w) \/ RestartContainer(w) \/ PublishResult(w)
         \/ SendCancel(w) \/ LoseJob(w)
      PROVE SaveType'
  BY <1>0, <1>9 DEF AssignMatch, AssignFail, RestartContainer, PublishResult, SendCancel,
       LoseJob
<1> QED BY <1>1, <1>3, <1>4, <1>5, <1>6, <1>7, <1>8, <1>9 DEF Next, Start, Save

\* The other variables.
RestType == /\ matchSeq \in 0 .. MaxMatches
            /\ phase \in {"down", "zombies", "spawn", "setup", "serve", "hung"}
            /\ next \in 1 .. WorkerCount + 1
            /\ held \in [Workers -> Holding]
            /\ adding \in Match \cup {NoMatch}
            /\ own \subseteq Match /\ unsure \subseteq Match /\ lost \subseteq Match
            /\ lives \in 0 .. MaxLives /\ faults \in 0 .. MaxFaults

LEMMA RestStep == ASSUME Inv, [Next]_vars PROVE RestType'
<1> USE DEF RestType
<1>0. RestType /\ StartsInOrder /\ TypeOK BY DEF Inv, TypeOK
<1>1. CASE Open \/ RemoveZombieWorkers \/ SetupMatchmaking \/ SetupFail \/ ReceiveResult
         \/ RemoveMatchStatus \/ AddMatch \/ AckFail \/ UNCHANGED vars
  <2>1. /\ UNCHANGED <<matchSeq, next, held, own, unsure, lost, lives>>
        /\ phase' \in {phase, "zombies", "spawn", "serve", "hung"}
        /\ adding' \in {adding, NoMatch}
    BY <1>1 DEF Open, RemoveZombieWorkers, SetupMatchmaking, SetupFail, ReceiveResult,
         RemoveMatchStatus, AddMatch, AckFail, vars
  <2>2. faults' = faults \/ (faults < MaxFaults /\ faults' = faults + 1)
    BY <1>1 DEF Open, RemoveZombieWorkers, SetupMatchmaking, SetupFail, ReceiveResult,
         RemoveMatchStatus, AddMatch, AckFail, vars
  <2>3. faults' \in 0 .. MaxFaults BY <1>0, <2>2
  <2> QED BY <1>0, <2>1, <2>3
<1>2. CASE Spawn BY <1>0, <1>2 DEF Spawn, StartsInOrder
<1>3. CASE SpawnFail BY <1>0, <1>3 DEF SpawnFail, GoDown, AllFree
<1>4. CASE EndLife BY <1>0, <1>4 DEF EndLife, GoDown, AllFree
<1>5. CASE HandleResult
  <2>1. PICK i \in Deliverable : FreeMatchWorker(resultLog[i].MatchID)
    BY <1>5 DEF HandleResult
  <2>2. held' \in [Workers -> Holding] BY <1>0, <2>1 DEF FreeMatchWorker
  <2> QED BY <1>0, <1>5, <2>2 DEF HandleResult
<1>6. CASE SaveMatchResults
  <2>1. saveLoop.res.MatchID \in Match
    BY <1>0, <1>6, SavedResult DEF SaveMatchResults, Result
  <2>2. unsure' = unsure \/ unsure' = unsure \cup {saveLoop.res.MatchID}
    BY <1>6 DEF SaveMatchResults
  <2>3. faults' = faults \/ (faults < MaxFaults /\ faults' = faults + 1)
    BY <1>6 DEF SaveMatchResults
  <2>4. unsure' \subseteq Match BY <1>0, <2>1, <2>2
  <2>5. faults' \in 0 .. MaxFaults BY <1>0, <2>3
  <2>6. UNCHANGED <<matchSeq, phase, next, held, adding, own, lost, lives>>
    BY <1>6 DEF SaveMatchResults
  <2> QED BY <1>0, <2>4, <2>5, <2>6
<1>7. ASSUME NEW w \in Workers, AssignMatch(w) \/ AssignFail(w) PROVE RestType'
  <2>1. matchSeq' \in Match /\ UNCHANGED <<phase, next, unsure, lost, lives>>
    BY <1>0, <1>7 DEF AssignMatch, AssignFail
  <2>2. /\ held' \in {held, [held EXCEPT ![w] = matchSeq']}
        /\ adding' \in {adding, matchSeq'} /\ own' \subseteq own \cup {matchSeq'}
    BY <1>7 DEF AssignMatch, AssignFail
  <2>3. faults' = faults \/ (faults < MaxFaults /\ faults' = faults + 1)
    BY <1>7 DEF AssignMatch, AssignFail
  <2>4. faults' \in 0 .. MaxFaults BY <1>0, <2>3
  <2>5. held' \in [Workers -> Holding] BY <1>0, <2>1, <2>2
  <2> QED BY <1>0, <2>1, <2>2, <2>4, <2>5
<1>8. ASSUME NEW w \in Workers, CancelUnhealthy(w) PROVE RestType'
  <2>1. held' \in [Workers -> Holding] BY <1>0, <1>8 DEF CancelUnhealthy
  <2>2. unsure' \subseteq Match BY <1>0, <1>8 DEF CancelUnhealthy
  <2>3. faults' \in 0 .. MaxFaults BY <1>0, <1>8 DEF CancelUnhealthy
  <2>4. UNCHANGED <<matchSeq, phase, next, adding, own, lost, lives>>
    BY <1>8 DEF CancelUnhealthy
  <2> QED BY <1>0, <2>1, <2>2, <2>3, <2>4
<1>9. ASSUME NEW w \in Workers, RestartContainer(w) PROVE RestType'
  BY <1>0, <1>9 DEF RestartContainer
<1>10. ASSUME NEW w \in Workers, PublishResult(w) \/ SendCancel(w) \/ LoseJob(w)
       PROVE  RestType'
  <2>1. containers[w].job \in Match
    BY <1>0, <1>10 DEF TypeOK, ContainerState, PublishResult, SendCancel, LoseJob
  <2>2. /\ UNCHANGED <<matchSeq, phase, next, held, adding, own, unsure, lives>>
        /\ lost' = lost \/ lost' = lost \cup {containers[w].job}
        /\ faults' = faults \/ (faults < MaxFaults /\ faults' = faults + 1)
    BY <1>10 DEF PublishResult, SendCancel, LoseJob
  <2>3. faults' \in 0 .. MaxFaults BY <1>0, <2>2
  <2> QED BY <1>0, <2>1, <2>2, <2>3
<1> QED BY <1>1, <1>2, <1>3, <1>4, <1>5, <1>6, <1>7, <1>8, <1>9, <1>10
        DEF Next, Start, Save

-----------------------------------------------------------------------------
(* The conjuncts of Inv. *)

\* Spawning and assigning keep their order.
LEMMA StartsInOrderStep == ASSUME Inv, [Next]_vars PROVE StartsInOrder'
<1> USE DEF StartsInOrder
<1>0. TypeOK /\ StartsInOrder BY DEF Inv
<1>1. CASE Open \/ SetupMatchmaking \/ SetupFail \/ AddMatch
  BY <1>0, <1>1 DEF Open, SetupMatchmaking, SetupFail, AddMatch, TypeOK
<1>2. CASE RemoveZombieWorkers
  BY <1>0, <1>2 DEF RemoveZombieWorkers, TypeOK
<1>3. CASE Spawn
  BY <1>0, <1>3 DEF Spawn, NewContainer, TypeOK, ContainerState
<1>4. CASE SpawnFail \/ EndLife
  BY <1>0, <1>4 DEF SpawnFail, EndLife, GoDown, AllFree
<1>5. CASE AckFail \/ ReceiveResult \/ RemoveMatchStatus \/ SaveMatchResults \/ UNCHANGED vars
  BY <1>0, <1>5 DEF AckFail, ReceiveResult, RemoveMatchStatus, SaveMatchResults, vars
<1>6. CASE HandleResult
  <2>1. PICK i \in Deliverable : FreeMatchWorker(resultLog[i].MatchID)
    BY <1>6 DEF HandleResult
  <2>2. \A w \in Workers : held'[w] \in Match => held[w] \in Match
    BY <2>1 DEF FreeMatchWorker
  <2> QED BY <1>0, <1>6, <2>2 DEF HandleResult
<1>7. ASSUME NEW w \in Workers, AssignMatch(w) \/ AssignFail(w) PROVE StartsInOrder'
  BY <1>0, <1>7 DEF AssignMatch, AssignFail, TypeOK
<1>8. ASSUME NEW w \in Workers, CancelUnhealthy(w) \/ RestartContainer(w) PROVE StartsInOrder'
  <2>1. UNCHANGED <<phase, next, adding, own>> /\ Runs
    BY <1>8 DEF CancelUnhealthy, RestartContainer
  <2>2. held' = [held EXCEPT ![w] = Restarting] \/ held' = [held EXCEPT ![w] = NoMatch]
    BY <1>8 DEF CancelUnhealthy, RestartContainer
  <2>3. \A v \in Workers : held'[v] \in Match => held[v] \in Match
    BY <1>0, <2>2 DEF TypeOK
  <2> QED BY <1>0, <2>1, <2>3 DEF Runs
<1>9. ASSUME NEW w \in Workers, PublishResult(w) \/ SendCancel(w) \/ LoseJob(w)
      PROVE  StartsInOrder'
  <2>1. /\ UNCHANGED <<phase, next, held, adding, own>>
        /\ \/ containers' = [containers EXCEPT ![w] = JobEnded(@)]
           \/ containers' = [containers EXCEPT ![w].failed = TRUE]
    BY <1>9 DEF PublishResult, SendCancel, LoseJob
  <2>2. \A v \in Workers : /\ containers'[v].mine = containers[v].mine
                           /\ containers'[v].state = containers[v].state
    BY <1>0, <2>1, ContainersKeep DEF TypeOK
  <2> QED BY <1>0, <2>1, <2>2
<1> QED BY <1>1, <1>2, <1>3, <1>4, <1>5, <1>6, <1>7, <1>8, <1>9 DEF Next, Start, Save

\* Containers are all this life's when it is set up.
LEMMA NoZombiesStep == ASSUME Inv, [Next]_vars PROVE NoZombies'
<1> USE DEF NoZombies
<1>0. TypeOK /\ StartsInOrder /\ NoZombies BY DEF Inv
<1>1. CASE Open \/ RemoveZombieWorkers \/ SetupFail \/ SpawnFail \/ EndLife
  BY <1>1 DEF Open, RemoveZombieWorkers, SetupFail, SpawnFail, EndLife, GoDown
<1>2. CASE Spawn
  <2>1. \A w \in Workers : w <= next => containers'[w].mine /\ containers'[w].state = "running"
    BY <1>0, <1>2 DEF Spawn, StartsInOrder, TypeOK, NewContainer
  <2> QED BY <1>0, <1>2, <2>1 DEF Spawn, TypeOK
<1>3. CASE SetupMatchmaking \/ AddMatch \/ AckFail \/ HandleResult \/ ReceiveResult
         \/ RemoveMatchStatus \/ SaveMatchResults \/ UNCHANGED vars
  BY <1>0, <1>3 DEF SetupMatchmaking, AddMatch, AckFail, HandleResult, ReceiveResult,
       RemoveMatchStatus, SaveMatchResults, vars
<1>4. ASSUME NEW w \in Workers,
         \/ AssignMatch(w) \/ AssignFail(w) \/ CancelUnhealthy(w) \/ RestartContainer(w)
         \/ PublishResult(w) \/ SendCancel(w) \/ LoseJob(w)
      PROVE NoZombies'
  <2>1. phase' = phase
    BY <1>4 DEF AssignMatch, AssignFail, CancelUnhealthy, RestartContainer, PublishResult,
         SendCancel, LoseJob
  <2>3. CASE AssignMatch(w) \/ AssignFail(w)
    <3>1. containers' = [containers EXCEPT ![w].job = matchSeq']
      BY <2>3 DEF AssignMatch, AssignFail
    <3>2. matchSeq' \in Int BY <1>0, <2>3 DEF AssignMatch, AssignFail, TypeOK
    <3>3. \A v \in Workers : /\ containers'[v].mine = containers[v].mine
                             /\ containers'[v].state = containers[v].state
      BY <1>0, <3>1, <3>2, ContainersKeep DEF TypeOK
    <3> QED BY <1>0, <2>1, <3>3
  <2>4. CASE \/ CancelUnhealthy(w) \/ RestartContainer(w) \/ PublishResult(w)
             \/ SendCancel(w) \/ LoseJob(w)
    <3>1. \/ containers' = containers
          \/ containers' = [containers EXCEPT ![w] = JobEnded(@)]
          \/ containers' = [containers EXCEPT ![w].failed = TRUE]
      BY <2>4 DEF CancelUnhealthy, RestartContainer, PublishResult, SendCancel, LoseJob
    <3>2. \A v \in Workers : /\ containers'[v].mine = containers[v].mine
                             /\ containers'[v].state = containers[v].state
      BY <1>0, <3>1, ContainersKeep DEF TypeOK
    <3> QED BY <1>0, <2>1, <3>2
  <2> QED BY <1>4, <2>3, <2>4
<1> QED BY <1>1, <1>2, <1>3, <1>4 DEF Next, Start, Save

\* SetupMatchmaking clears, and the replay adds, nothing of an earlier life.
LEMMA FreshStartStep == ASSUME Inv, [Next]_vars PROVE FreshStart'
<1> USE DEF FreshStart
<1>0. TypeOK /\ StartsInOrder /\ FreshStart BY DEF Inv
<1>1. CASE Open \/ RemoveZombieWorkers \/ Spawn \/ SpawnFail \/ SetupFail \/ EndLife
  BY <1>0, <1>1 DEF Open, RemoveZombieWorkers, Spawn, SpawnFail, SetupFail, EndLife, GoDown
<1>2. CASE SetupMatchmaking
  BY <1>0, <1>2 DEF SetupMatchmaking, DB!SetupUsers, DB!SetupMatches, DB!Inactive,
       DB!Null, TypeOK
<1>3. CASE AckFail \/ HandleResult \/ ReceiveResult \/ UNCHANGED vars
  BY <1>0, <1>3 DEF AckFail, HandleResult, ReceiveResult, vars
<1>4. CASE RemoveMatchStatus
  BY <1>0, <1>4 DEF RemoveMatchStatus, DB!RemoveMatchStatus, DB!Inactive, DB!Null, TypeOK
<1>5. CASE SaveMatchResults
  BY <1>0, <1>5 DEF SaveMatchResults, DB!SaveMatchResults, TypeOK
<1>6. CASE AddMatch
  <2>1. /\ phase = "serve" /\ phase' = phase /\ own' = own /\ adding \in own \cup {NoMatch}
        /\ users \in [User -> DB!UserRow] /\ matches \in [Match -> DB!MatchRow]
        /\ adding # NoMatch /\ adding \in own
    BY <1>0, <1>6 DEF AddMatch, StartsInOrder, TypeOK
  <2>2. CASE UNCHANGED tables BY <1>0, <2>1, <2>2
  <2>3. CASE /\ users' = DB!AddMatchUsers(users, User, adding)
             /\ matches' = DB!AddMatchRow(matches, adding)
    <3>1. \A u \in User : users'[u].match_id = adding
      BY <2>1, <2>3 DEF DB!AddMatchUsers, DB!UserRow
    <3>2. \A m \in Match : matches'[m] = "active" => m = adding \/ matches[m] = "active"
      BY <2>1, <2>3 DEF DB!AddMatchRow
    <3> QED BY <1>0, <2>1, <3>1, <3>2
  <2> QED BY <1>6, <2>2, <2>3 DEF AddMatch
<1>7. ASSUME NEW w \in Workers, AssignMatch(w) PROVE FreshStart'
  BY <1>0, <1>7 DEF AssignMatch
<1>8. ASSUME NEW w \in Workers,
         \/ AssignFail(w) \/ CancelUnhealthy(w) \/ RestartContainer(w) \/ PublishResult(w)
         \/ SendCancel(w) \/ LoseJob(w)
      PROVE FreshStart'
  BY <1>0, <1>8 DEF AssignFail, CancelUnhealthy, RestartContainer, PublishResult,
       SendCancel, LoseJob
<1> QED BY <1>1, <1>2, <1>3, <1>4, <1>5, <1>6, <1>7, <1>8 DEF Next, Start, Save

\* A game server is only ever given an id the sequence has given out.
LEMMA IdsAreFreshStep == ASSUME Inv, [Next]_vars PROVE IdsAreFresh'
<1> USE DEF IdsAreFresh
<1>0. /\ IdsAreFresh /\ containers \in [Workers -> ContainerState]
      /\ matchSeq \in 0 .. MaxMatches /\ resultLog \in Seq(Result)
      /\ next \in 1 .. WorkerCount + 1
  BY DEF Inv, TypeOK
<1>1. ASSUME UNCHANGED <<matchSeq, resultLog>>,
             \A w \in Workers : containers'[w].job \in {containers[w].job, NoMatch}
      PROVE  IdsAreFresh'
  BY <1>0, <1>1
<1>2. CASE Open \/ SetupMatchmaking \/ AddMatch \/ AckFail \/ HandleResult \/ ReceiveResult
         \/ RemoveMatchStatus \/ SaveMatchResults \/ UNCHANGED vars
  BY <1>0, <1>2 DEF Open, SetupMatchmaking, AddMatch, AckFail, HandleResult, ReceiveResult,
       RemoveMatchStatus, SaveMatchResults, vars
<1>3. CASE RemoveZombieWorkers \/ Spawn \/ SetupFail
  <2>1. UNCHANGED <<matchSeq, resultLog>> BY <1>3 DEF RemoveZombieWorkers, Spawn, SetupFail
  <2>2. NoContainer.job = NoMatch /\ NewContainer.job = NoMatch
    BY DEF NoContainer, NewContainer
  <2>3. \A w \in Workers :
          containers'[w] = containers[w] \/ containers'[w] \in {NoContainer, NewContainer}
    BY <1>0, <1>3 DEF RemoveZombieWorkers, Spawn, SetupFail
  <2>4. \A w \in Workers : containers'[w].job \in {containers[w].job, NoMatch}
    BY <2>2, <2>3
  <2> QED BY <1>1, <2>1, <2>4
<1>4. CASE SpawnFail
  <2> DEFINE after == [w \in Workers |-> IF w < next THEN NoContainer ELSE containers[w]]
  <2>1. \A w \in Workers : after[w].job \in {containers[w].job, NoMatch}
    BY DEF NoContainer
  <2>2. after \in [Workers -> ContainerState] BY <1>0, ContainerRecords
  <2>3. next \in Workers BY <1>4 DEF SpawnFail, Inv, StartsInOrder, TypeOK
  <2>4. ASSUME NEW state
        PROVE  \A w \in Workers : [after EXCEPT ![next].state = state][w].job = after[w].job
    BY <2>2, <2>3 DEF ContainerState
  <2>5. /\ UNCHANGED <<matchSeq, resultLog>>
        /\ \/ containers' = after
           \/ \E state \in {"none", "created", "running"} :
                containers' = [after EXCEPT ![next].state = state]
    BY <1>4 DEF SpawnFail
  <2> HIDE DEF after
  <2>6. \A w \in Workers : containers'[w].job = after[w].job BY <2>4, <2>5
  <2> QED BY <1>1, <2>1, <2>5, <2>6
<1>5. CASE EndLife
  BY <1>0, <1>1, <1>5 DEF EndLife, NoContainer, ContainerState
<1>6. ASSUME NEW w \in Workers, AssignMatch(w) \/ AssignFail(w) PROVE IdsAreFresh'
  <2>1. /\ matchSeq' = matchSeq + 1 /\ resultLog' = resultLog
        /\ containers' = [containers EXCEPT ![w].job = matchSeq']
    BY <1>6 DEF AssignMatch, AssignFail
  <2>2. \A v \in Workers : containers'[v].job \in {containers[v].job, matchSeq'}
    BY <1>0, <2>1 DEF ContainerState
  <2>3. \A v \in Workers : containers[v].job \in Int BY <1>0, RecordKeeps
  <2>4. \A i \in DOMAIN resultLog : resultLog[i].MatchID \in Int
    <3>1. \A res \in Result : res.MatchID \in Int BY DEF Result
    <3> QED BY <1>0, <3>1, ElementOfSeq
  <2> QED BY <1>0, <2>1, <2>2, <2>3, <2>4
<1>7. ASSUME NEW w \in Workers, CancelUnhealthy(w) PROVE IdsAreFresh'
  BY <1>0, <1>7 DEF CancelUnhealthy
<1>8. ASSUME NEW w \in Workers,
         RestartContainer(w) \/ PublishResult(w) \/ SendCancel(w) \/ LoseJob(w)
      PROVE IdsAreFresh'
  <2>1. /\ matchSeq' = matchSeq
        /\ \/ containers' = [containers EXCEPT ![w] = JobEnded(@)]
           \/ containers' = [containers EXCEPT ![w].failed = TRUE]
    BY <1>8 DEF RestartContainer, PublishResult, SendCancel, LoseJob
  <2>2. \A v \in Workers : containers'[v].job \in {containers[v].job, NoMatch}
    BY <1>0, <2>1, JobsKeep
  <2>3. CASE resultLog' = resultLog BY <1>1, <2>1, <2>2, <2>3
  <2>4. ASSUME NEW success, resultLog' = Append(resultLog, [MatchID |-> containers[w].job,
                                                            Success |-> success])
        PROVE  IdsAreFresh'
    <3>1. \A i \in DOMAIN resultLog' :
            \/ i \in DOMAIN resultLog /\ resultLog'[i] = resultLog[i]
            \/ resultLog'[i].MatchID = containers[w].job
      BY <1>0, <2>4
    <3>2. \A v \in Workers : containers'[v].job <= matchSeq' BY <1>0, <2>1, <2>2
    <3>3. \A i \in DOMAIN resultLog' : resultLog'[i].MatchID <= matchSeq'
      BY <1>0, <2>1, <3>1
    <3> QED BY <3>2, <3>3
  <2> QED BY <1>8, <2>3, <2>4 DEF RestartContainer, PublishResult, SendCancel, LoseJob,
           Publish
<1> QED BY <1>2, <1>3, <1>4, <1>5, <1>6, <1>7, <1>8 DEF Next, Start, Save

\* A new entry of the stream is ahead of the consumer, and nothing else about the
\* stream changes.
LEMMA NewEntry ==
  ASSUME TypeOK, NEW w \in Workers, NEW success \in BOOLEAN, containers[w].job # NoMatch,
         resultLog' = Append(resultLog, [MatchID |-> containers[w].job, Success |-> success])
  PROVE  /\ Len(resultLog) + 1 > cursor
         /\ \A m : /\ Results(m) \subseteq Results(m)'
                   /\ \A i \in Results(m)' : i \in Results(m) \/ i = Len(resultLog) + 1
         /\ \A m : m = containers[w].job => Len(resultLog) + 1 \in Results(m)'
<1>1. resultLog \in Seq(Result) /\ cursor \in 0 .. Len(resultLog) BY DEF TypeOK
<1>2. [MatchID |-> containers[w].job, Success |-> success] \in Result
  BY DEF TypeOK, ContainerState, Result
<1>3. /\ DOMAIN resultLog' = 1 .. Len(resultLog) + 1
      /\ DOMAIN resultLog = 1 .. Len(resultLog) /\ Len(resultLog) \in Nat
      /\ \A i \in DOMAIN resultLog : resultLog'[i] = resultLog[i]
      /\ resultLog'[Len(resultLog) + 1].MatchID = containers[w].job
  BY <1>1, <1>2
<1>4. /\ DOMAIN resultLog \subseteq DOMAIN resultLog'
      /\ \A i \in DOMAIN resultLog' : i \in DOMAIN resultLog \/ i = Len(resultLog) + 1
      /\ Len(resultLog) + 1 \in DOMAIN resultLog' /\ Len(resultLog) + 1 > cursor
  BY <1>1, <1>3
<1>5. ASSUME NEW m
      PROVE  /\ Results(m) \subseteq Results(m)'
             /\ \A i \in Results(m)' : i \in Results(m) \/ i = Len(resultLog) + 1
  BY <1>3, <1>4 DEF Results
<1>6. ASSUME NEW m, m = containers[w].job PROVE Len(resultLog) + 1 \in Results(m)'
  BY <1>3, <1>4, <1>6 DEF Results
<1> QED BY <1>4, <1>5, <1>6

\* The consumer frees the worker of each result it settles, a game server leaves
\* its match behind with a result or lost, and new ids have no results.
LEMMA HeldIsUnsettledStep == ASSUME Inv, [Next]_vars PROVE HeldIsUnsettled'
<1>0. TypeOK /\ StartsInOrder /\ IdsAreFresh /\ HeldIsUnsettled BY DEF Inv
<1>1. ASSUME UNCHANGED <<resultLog, cursor, redeliver>>,
             own \subseteq own', lost \subseteq lost',
             \A v \in Workers : held'[v] \in Match =>
               /\ held'[v] = held[v]
               /\ containers[v].job = held[v] =>
                    containers'[v].job = held[v] \/ held[v] \in lost'
      PROVE  HeldIsUnsettled'
  <2>1. \A m : Results(m)' = Results(m) BY <1>1 DEF Results
  <2> SUFFICES ASSUME NEW v \in Workers, held'[v] \in Match
               PROVE  /\ held'[v] \in own'
                      /\ \A i \in Results(held[v]) : i > cursor \/ i \in redeliver
                      /\ \/ containers'[v].job = held[v] \/ Results(held[v]) # {}
                         \/ held[v] \in lost'
    BY <1>1, <2>1 DEF HeldIsUnsettled, Results
  <2> QED BY <1>0, <1>1 DEF HeldIsUnsettled
<1>2. CASE Open \/ RemoveZombieWorkers \/ Spawn \/ SetupFail
  BY <1>0, <1>1, <1>2 DEF Open, RemoveZombieWorkers, Spawn, SetupFail, StartsInOrder
<1>3. CASE SetupMatchmaking \/ AddMatch \/ ReceiveResult \/ RemoveMatchStatus
         \/ SaveMatchResults \/ UNCHANGED vars
  BY <1>0, <1>1, <1>3 DEF SetupMatchmaking, AddMatch, ReceiveResult, RemoveMatchStatus,
       SaveMatchResults, vars
<1>4. CASE SpawnFail \/ EndLife
  BY <1>4 DEF SpawnFail, EndLife, GoDown, AllFree, HeldIsUnsettled
<1>5. ASSUME NEW i \in Deliverable, Delivered(i),
             UNCHANGED <<resultLog, containers, own, lost>>,
             \A w \in Workers : held'[w] \in Match => held'[w] = held[w],
             \/ redeliver' = redeliver \cup {i}
             \/ /\ redeliver' = redeliver \ {i}
                /\ \A w \in Workers : held'[w] \in Match => held[w] # resultLog[i].MatchID
      PROVE  HeldIsUnsettled'
  <2>1. \A m : Results(m)' = Results(m) BY <1>5 DEF Results
  <2> SUFFICES ASSUME NEW w \in Workers, held'[w] \in Match,
                      NEW j \in Results(held[w])
               PROVE  j > cursor' \/ j \in redeliver'
    BY <1>0, <1>5, <2>1 DEF HeldIsUnsettled, Results
  <2>2. held[w] \in Match BY <1>5
  <2>3. j > cursor \/ j \in redeliver BY <1>0, <2>2 DEF HeldIsUnsettled
  <2>4. j \in redeliver' \/ j # i BY <1>5 DEF Results
  <2>5. cursor \in Nat /\ j \in Nat
    <3>1. resultLog \in Seq(Result) /\ cursor \in 0 .. Len(resultLog) BY <1>0 DEF TypeOK
    <3>2. j \in DOMAIN resultLog BY DEF Results
    <3> QED BY <3>1, <3>2
  <2>6. i = cursor + 1 \/ i <= cursor BY <1>0, DeliverableResult
  <2>7. CASE j \in redeliver BY <1>5, <2>4, <2>7
  <2>8. CASE j > cursor
    <3>1. j = i => j \in redeliver' BY <2>4
    <3>2. cursor' = i \/ cursor' = cursor BY <1>5 DEF Delivered
    <3>3. i \in Int BY <1>0, <2>5, DeliverableResult DEF TypeOK
    <3>4. j # i => j > cursor' BY <2>5, <2>6, <2>8, <3>2, <3>3
    <3> QED BY <3>1, <3>4
  <2> QED BY <2>3, <2>7, <2>8
<1>6. CASE AckFail
  BY <1>5, <1>6 DEF AckFail
<1>7. CASE HandleResult
  <2>1. PICK i \in Deliverable :
          /\ Delivered(i) /\ redeliver' \in {redeliver \ {i}, redeliver \cup {i}}
          /\ FreeMatchWorker(resultLog[i].MatchID)
    BY <1>7 DEF HandleResult
  <2>2. \A w \in Workers : held'[w] \in Match =>
          held'[w] = held[w] /\ held[w] # resultLog[i].MatchID
    BY <2>1 DEF FreeMatchWorker
  <2> QED BY <1>5, <1>7, <2>1, <2>2 DEF HandleResult
<1>8. ASSUME NEW w \in Workers, AssignMatch(w) PROVE HeldIsUnsettled'
  <2> DEFINE m == matchSeq + 1
  <2>1. /\ held' = [held EXCEPT ![w] = m] /\ containers' = [containers EXCEPT ![w].job = m]
        /\ own' = own \cup {m} /\ UNCHANGED <<resultLog, cursor, redeliver, lost>>
    BY <1>8 DEF AssignMatch
  <2>2. /\ held'[w] = m /\ containers'[w].job = m
        /\ \A v \in Workers : v # w => held'[v] = held[v] /\ containers'[v] = containers[v]
    BY <1>0, <2>1 DEF TypeOK, ContainerState
  <2>3. \A i \in DOMAIN resultLog : resultLog[i].MatchID # m
    BY <1>0 DEF IdsAreFresh, TypeOK, Result
  <2>4. Results(m) = {} BY <2>3 DEF Results
  <2>5. \A n : Results(n)' = Results(n) BY <2>1 DEF Results
  <2> HIDE DEF m
  <2> SUFFICES ASSUME NEW v \in Workers, held'[v] \in Match, NEW n, n = held'[v]
               PROVE  /\ n \in own'
                      /\ \A i \in Results(n) : i > cursor \/ i \in redeliver
                      /\ containers'[v].job = n \/ Results(n) # {} \/ n \in lost
    BY <2>1, <2>5 DEF HeldIsUnsettled, Results
  <2>6. CASE v = w BY <2>1, <2>2, <2>4, <2>6
  <2>7. CASE v # w BY <1>0, <2>1, <2>2, <2>7 DEF HeldIsUnsettled
  <2> QED BY <2>6, <2>7
<1>9. ASSUME NEW w \in Workers, AssignFail(w) PROVE HeldIsUnsettled'
  <2>1. /\ held[w] = NoMatch /\ UNCHANGED life /\ resultLog' = resultLog
        /\ containers' = [containers EXCEPT ![w].job = matchSeq']
    BY <1>9 DEF AssignFail
  <2>2. \A v \in Workers : held[v] \in Match => containers'[v] = containers[v]
    BY <1>0, <2>1 DEF TypeOK
  <2> QED BY <1>1, <2>1, <2>2
<1>10. ASSUME NEW w \in Workers, CancelUnhealthy(w) \/ RestartContainer(w)
       PROVE HeldIsUnsettled'
  <2>1. /\ UNCHANGED <<resultLog, cursor, redeliver, own, lost>>
        /\ held' = [held EXCEPT ![w] = Restarting] \/ held' = [held EXCEPT ![w] = NoMatch]
        /\ containers' = containers \/ containers' = [containers EXCEPT ![w] = JobEnded(@)]
    BY <1>10 DEF CancelUnhealthy, RestartContainer
  <2>2. \A v \in Workers : held'[v] \in Match => held'[v] = held[v] /\ containers'[v] = containers[v]
    BY <1>0, <2>1 DEF TypeOK
  <2> QED BY <1>1, <2>1, <2>2
<1>11. ASSUME NEW w \in Workers, PublishResult(w) \/ SendCancel(w) \/ LoseJob(w)
       PROVE  HeldIsUnsettled'
  <2>1. /\ UNCHANGED <<held, cursor, redeliver, own>> /\ lost \subseteq lost'
        /\ containers[w].job # NoMatch
        /\ \/ containers' = [containers EXCEPT ![w] = JobEnded(@)]
           \/ containers' = [containers EXCEPT ![w].failed = TRUE]
    BY <1>11 DEF PublishResult, SendCancel, LoseJob
  <2>2. \A v \in Workers : v # w => containers'[v] = containers[v]
    BY <1>0, <2>1 DEF TypeOK
  <2>3. CASE /\ resultLog' = resultLog
             /\ \/ containers' = [containers EXCEPT ![w].failed = TRUE]
                \/ containers[w].job \in lost'
    <3>1. containers'[w].job = containers[w].job \/ containers[w].job \in lost'
      BY <1>0, <2>3 DEF TypeOK, ContainerState
    <3> QED BY <1>1, <2>1, <2>2, <2>3, <3>1
  <2>4. ASSUME NEW success \in BOOLEAN, Publish(containers[w].job, success)
        PROVE  HeldIsUnsettled'
    <3>1. /\ Len(resultLog) + 1 > cursor
          /\ \A m : /\ Results(m) \subseteq Results(m)'
                    /\ \A i \in Results(m)' : i \in Results(m) \/ i = Len(resultLog) + 1
          /\ \A m : m = containers[w].job => Len(resultLog) + 1 \in Results(m)'
      BY <1>0, <2>1, <2>4, NewEntry DEF Publish
    <3> SUFFICES ASSUME NEW v \in Workers, held[v] \in Match, NEW m, m = held[v]
                 PROVE  /\ m \in own
                        /\ \A i \in Results(m)' : i > cursor \/ i \in redeliver
                        /\ containers'[v].job = m \/ Results(m)' # {} \/ m \in lost'
      BY <2>1 DEF HeldIsUnsettled, Results
    <3>2. /\ m \in own /\ \A i \in Results(m) : i > cursor \/ i \in redeliver
          /\ containers[v].job = m \/ Results(m) # {} \/ m \in lost
      BY <1>0 DEF HeldIsUnsettled
    <3>3. \A i \in Results(m)' : i > cursor \/ i \in redeliver BY <3>1, <3>2
    <3>4. CASE containers[v].job = m /\ v = w
      <4>1. Len(resultLog) + 1 \in Results(m)' BY <3>1, <3>4
      <4> QED BY <3>2, <3>3, <4>1
    <3>5. CASE ~ (containers[v].job = m /\ v = w)
      BY <2>1, <2>2, <3>1, <3>2, <3>3, <3>5
    <3> QED BY <3>4, <3>5
  <2> QED BY <1>11, <2>3, <2>4 DEF PublishResult, SendCancel, LoseJob
<1> QED BY <1>2, <1>3, <1>4, <1>6, <1>7, <1>8, <1>9, <1>10, <1>11 DEF Next, Start, Save

-----------------------------------------------------------------------------
\* Every behaviour of a manager that is started again keeps the invariant.
THEOREM RestartInvariance == Spec => []Inv
<1>1. Init => Inv
  <2> SUFFICES ASSUME Init PROVE Inv
    OBVIOUS
  <2>1. users \in [User -> DB!UserRow] /\ matches \in [Match -> DB!MatchRow]
    BY DEF Init, DB!UserRow, DB!MatchRow, DB!Inactive, DB!Null
  <2>2. containers \in [Workers -> ContainerState] BY DEF Init, NoContainer, ContainerState
  <2>3. /\ resultLog \in Seq(Result) /\ cursor \in 0 .. Len(resultLog)
        /\ saveResultChan \in Seq(Result) /\ Len(saveResultChan) <= ResultChanSize
    BY EmptySeq DEF Init
  <2>4. saveLoop \in SaveLoopState BY DEF Init, SaveLoopState
  <2>5. TypeOK
    <3>1. /\ matchSeq \in 0 .. MaxMatches /\ next \in 1 .. WorkerCount + 1
          /\ lives \in 0 .. MaxLives /\ faults \in 0 .. MaxFaults
          /\ phase \in {"down", "zombies", "spawn", "setup", "serve", "hung"}
      BY DEF Init
    <3>2. held \in [Workers -> Holding] /\ adding \in Match \cup {NoMatch}
      BY DEF Init, AllFree
    <3>3. /\ redeliver \subseteq 1 .. cursor /\ own \subseteq Match /\ unsure \subseteq Match
          /\ redelivered \subseteq Match /\ lost \subseteq Match
      BY DEF Init
    <3> QED BY <2>1, <2>2, <2>3, <2>4, <3>1, <3>2, <3>3 DEF TypeOK
  <2>6. IdsAreFresh BY DEF Init, IdsAreFresh, NoContainer
  <2>7. StartsInOrder /\ FreshStart /\ NoZombies /\ HeldIsUnsettled
    BY DEF Init, AllFree, StartsInOrder, FreshStart, NoZombies, HeldIsUnsettled
  <2> QED BY <2>5, <2>6, <2>7 DEF Inv
<1>2. ASSUME Inv, [Next]_vars PROVE Inv'
  <2>1. TypeOK'
    BY <1>2, TablesStep, ContainersStep, StreamStep, SaveStep, RestStep
       DEF TypeOK, TablesType, ContainersType, StreamType, SaveType, RestType
  <2> QED BY <1>2, <2>1, StartsInOrderStep, NoZombiesStep, FreshStartStep, IdsAreFreshStep,
           HeldIsUnsettledStep DEF Inv
<1> QED BY <1>1, <1>2, PTL DEF Spec

\* The tables, the containers and the manager's own variables keep their types.
THEOREM RestartTypes == Spec => []TypeOK
<1>1. Inv => TypeOK BY DEF Inv
<1> QED BY <1>1, RestartInvariance, PTL

\* A manager that serves has no user in a match, and no active match, of an
\* earlier life, whatever the replayed results did meanwhile.
THEOREM StartsAreFresh == Spec => []FreshStart
<1>1. Inv => FreshStart BY DEF Inv
<1> QED BY <1>1, RestartInvariance, PTL

\* A manager that serves has its own containers, all of them running.
THEOREM ZombiesAreGone == Spec => []NoZombies
<1>1. Inv => NoZombies BY DEF Inv
<1> QED BY <1>1, RestartInvariance, PTL

\* An occupied worker has a match of this life none of whose results the consumer
\* has settled, whatever was replayed, came again or failed to be acknowledged; and
\* unless its game server gave it up without a cancel that arrived, it is played or
\* a result of it is still to come.
THEOREM ReplaySettlesWorkers == Spec => []HeldIsUnsettled
<1>1. Inv => HeldIsUnsettled BY DEF Inv
<1> QED BY <1>1, RestartInvariance, PTL

-----------------------------------------------------------------------------
(* The replay repairs. *)

\* Rows are added once, under ids of the sequence.
LEMMA RowsAreAddedStep ==
  ASSUME Inv, RowsAreAdded, [Next]_vars
  PROVE  RowsAreAdded'
<1>0. /\ matches \in [Match -> DB!MatchRow] /\ matchSeq \in 0 .. MaxMatches
      /\ adding \in Match \cup {NoMatch}
  BY DEF Inv, TypeOK
<1>1. ASSUME /\ matchSeq' = matchSeq
             /\ adding' \in {adding, NoMatch}
             /\ \A m \in Match : matches[m] = "none" /\ (adding = m => adding' = m)
                                   => matches'[m] = "none"
      PROVE  RowsAreAdded'
  <2>1. \A m \in Match : m > matchSeq => matches'[m] = "none"
    BY <1>0, <1>1 DEF RowsAreAdded
  <2> QED BY <1>0, <1>1, <2>1 DEF RowsAreAdded
<1>2. CASE AddMatch
  BY <1>0, <1>1, <1>2 DEF AddMatch, DB!AddMatchRow
<1>3. CASE SetupMatchmaking
  BY <1>0, <1>1, <1>3 DEF SetupMatchmaking, DB!SetupMatches
<1>4. CASE SaveMatchResults
  BY <1>0, <1>1, <1>4 DEF SaveMatchResults, DB!SaveMatchResults
<1>5. ASSUME NEW w \in Workers, AssignMatch(w) \/ AssignFail(w) PROVE RowsAreAdded'
  BY <1>0, <1>5 DEF AssignMatch, AssignFail, RowsAreAdded
<1>6. CASE SpawnFail \/ EndLife
  BY <1>0, <1>1, <1>6 DEF SpawnFail, EndLife, GoDown
<1>7. CASE Open \/ RemoveZombieWorkers \/ Spawn \/ SetupFail \/ AckFail \/ HandleResult
         \/ ReceiveResult \/ RemoveMatchStatus \/ UNCHANGED vars
  BY <1>0, <1>1, <1>7 DEF Open, RemoveZombieWorkers, Spawn, SetupFail, AckFail,
       HandleResult, ReceiveResult, RemoveMatchStatus, vars
<1>8. ASSUME NEW w \in Workers,
         \/ CancelUnhealthy(w) \/ RestartContainer(w) \/ PublishResult(w)
         \/ SendCancel(w) \/ LoseJob(w)
      PROVE RowsAreAdded'
  BY <1>0, <1>1, <1>8 DEF CancelUnhealthy, RestartContainer, PublishResult, SendCancel,
       LoseJob
<1> QED BY <1>2, <1>3, <1>4, <1>5, <1>6, <1>7, <1>8 DEF Next, Start, Save

\* A report that is not about m, put behind the others, is in nobody's way.
LEMMA ReportOfOther ==
  ASSUME Inv, NEW m \in Match, NEW res \in Result, NEW other \in Result,
         other.MatchID # m, saveResultChan' = Append(saveResultChan, other),
         UNCHANGED <<saveLoop, matches>>, Arrives(m, res)
  PROVE  Arrives(m, res)'
<1> USE DEF Arrives
<1>1. saveResultChan \in Seq(Result) BY DEF Inv, TypeOK
<1>2. /\ DOMAIN saveResultChan' = 1 .. Len(saveResultChan) + 1
      /\ DOMAIN saveResultChan = 1 .. Len(saveResultChan)
      /\ Len(saveResultChan) \in Nat
      /\ \A k \in DOMAIN saveResultChan : saveResultChan'[k] = saveResultChan[k]
      /\ saveResultChan'[Len(saveResultChan) + 1] = other
  BY <1>1
<1>3. CASE InChannel(m, res)
  BY <1>2, <1>3 DEF InChannel
<1>4. NotInChannel(m) => NotInChannel(m)'
  BY <1>2 DEF NotInChannel
<1>5. CASE InSaveLoop(m, res)
  BY <1>4, <1>5 DEF InSaveLoop
<1>6. CASE InRow(m, res)
  BY <1>4, <1>6 DEF InRow
<1> QED BY <1>3, <1>5, <1>6

\* A report of m is the last of m when it is put behind the others.
LEMMA NewReport ==
  ASSUME Inv, NEW m, NEW res \in Result, saveResultChan' = Append(saveResultChan, res)
  PROVE  Arrives(m, res)'
<1>1. saveResultChan \in Seq(Result) BY DEF Inv, TypeOK
<1>2. /\ saveResultChan'[Len(saveResultChan) + 1] = res
      /\ DOMAIN saveResultChan' = 1 .. Len(saveResultChan) + 1
      /\ Len(saveResultChan) \in Nat
  BY <1>1
<1> QED BY <1>2 DEF Arrives, InChannel

\* A report that arrives goes on to arrive whatever else happens in the same life,
\* unless the row of its match becomes unsure or another report of the match is
\* put behind it.
LEMMA ArrivesStep ==
  ASSUME Inv, RowsAreAdded, [Next]_vars, ~ SpawnFail, ~ EndLife, ~ HandleResult,
         NEW m \in Match, m \notin unsure',
         NEW res \in Result, res.MatchID = m, Arrives(m, res)
  PROVE  Arrives(m, res)'
<1> USE DEF Arrives
<1>0. /\ matches \in [Match -> DB!MatchRow] /\ saveResultChan \in Seq(Result)
      /\ saveLoop \in SaveLoopState
      /\ matchSeq \in 0 .. MaxMatches /\ adding \in Match \cup {NoMatch}
  BY DEF Inv, TypeOK
<1>1. ASSUME UNCHANGED <<saveResultChan, saveLoop, matches>> PROVE Arrives(m, res)'
  BY <1>1 DEF InChannel, InSaveLoop, InRow, NotInChannel
<1>2. CASE Open \/ RemoveZombieWorkers \/ Spawn \/ SetupFail \/ AckFail \/ UNCHANGED vars
  BY <1>1, <1>2 DEF Open, RemoveZombieWorkers, Spawn, SetupFail, AckFail, vars
<1>3. ASSUME NEW w \in Workers,
         \/ AssignMatch(w) \/ AssignFail(w) \/ RestartContainer(w) \/ PublishResult(w)
         \/ SendCancel(w) \/ LoseJob(w)
      PROVE Arrives(m, res)'
  BY <1>1, <1>3 DEF AssignMatch, AssignFail, RestartContainer, PublishResult, SendCancel,
       LoseJob
<1>4. CASE RemoveMatchStatus
  <2>1. /\ UNCHANGED <<saveResultChan, matches>>
        /\ saveLoop.pc = "removeStatus" /\ saveLoop'.pc = "saveResults"
        /\ saveLoop'.res = saveLoop.res
    BY <1>0, <1>4 DEF RemoveMatchStatus, SaveLoopState, Idle
  <2> QED BY <2>1 DEF InChannel, InSaveLoop, InRow, NotInChannel
<1>5. CASE SetupMatchmaking
  <2>1. UNCHANGED <<saveResultChan, saveLoop>> BY <1>5 DEF SetupMatchmaking
  <2>2. matches[m] \in {"played", "canceled"} => matches'[m] = matches[m]
    BY <1>0, <1>5 DEF SetupMatchmaking, DB!SetupMatches
  <2> QED BY <2>1, <2>2 DEF InChannel, InSaveLoop, InRow, NotInChannel, RowOf
<1>6. CASE AddMatch
  <2>1. UNCHANGED <<saveResultChan, saveLoop>> BY <1>6 DEF AddMatch
  <2>2. matches[m] # "none" => matches'[m] = matches[m]
    BY <1>0, <1>6 DEF AddMatch, DB!AddMatchRow, RowsAreAdded
  <2> QED BY <2>1, <2>2 DEF InChannel, InSaveLoop, InRow, NotInChannel, RowOf
<1>7. ASSUME NEW w \in Workers, CancelUnhealthy(w) PROVE Arrives(m, res)'
  <2>1. CASE held[w] \in Match
    <3>1. PICK cancel \in Result : /\ cancel.MatchID = held[w]
                                  /\ saveResultChan' = Append(saveResultChan, cancel)
      <4>1. [MatchID |-> held[w], Success |-> FALSE] \in Result BY <2>1 DEF Result
      <4> QED BY <1>7, <2>1, <4>1 DEF CancelUnhealthy
    <3>2. held[w] \in unsure' /\ UNCHANGED <<saveLoop, matches>>
      BY <1>7, <2>1 DEF CancelUnhealthy
    <3> QED BY <3>1, <3>2, ReportOfOther
  <2>2. CASE held[w] \notin Match
    BY <1>1, <1>7, <2>2 DEF CancelUnhealthy
  <2> QED BY <2>1, <2>2
<1>8. CASE ReceiveResult
  <2>1. /\ saveLoop.pc = "receive" /\ saveResultChan # <<>>
        /\ saveLoop' = [pc |-> "removeStatus", res |-> saveResultChan[1]]
        /\ saveResultChan' = Tail(saveResultChan) /\ matches' = matches
    BY <1>8 DEF ReceiveResult
  <2>2. /\ DOMAIN saveResultChan = 1 .. Len(saveResultChan)
        /\ DOMAIN saveResultChan' = 1 .. Len(saveResultChan) - 1
        /\ Len(saveResultChan) \in Nat \ {0}
        /\ \A k \in DOMAIN saveResultChan' : saveResultChan'[k] = saveResultChan[k + 1]
    BY <1>0, <2>1
  <2>3. saveLoop'.pc # "receive" /\ saveLoop'.res = saveResultChan[1]
    BY <2>1
  <2>4. CASE InChannel(m, res)
    <3>1. PICK k \in DOMAIN saveResultChan :
            /\ saveResultChan[k] = res
            /\ \A j \in DOMAIN saveResultChan : j > k => saveResultChan[j].MatchID # m
      BY <2>4 DEF InChannel
    <3>2. CASE k = 1
      <4>1. NotInChannel(m)' BY <2>2, <3>1, <3>2 DEF NotInChannel
      <4> QED BY <2>1, <2>3, <3>1, <3>2, <4>1 DEF InSaveLoop
    <3>3. CASE k # 1
      <4>1. k - 1 \in DOMAIN saveResultChan' /\ saveResultChan'[k - 1] = res
        BY <2>2, <3>1, <3>3
      <4>2. \A j \in DOMAIN saveResultChan' : j > k - 1 => saveResultChan'[j].MatchID # m
        BY <2>2, <3>1, <3>3
      <4> QED BY <2>1, <4>1, <4>2 DEF InChannel
    <3> QED BY <3>2, <3>3
  <2>5. CASE InRow(m, res)
    <3>1. NotInChannel(m)' /\ saveResultChan[1].MatchID # m
      BY <2>2, <2>5 DEF InRow, NotInChannel
    <3> QED BY <2>1, <2>3, <2>5, <3>1 DEF InRow
  <2> QED BY <2>1, <2>4, <2>5 DEF InSaveLoop
<1>9. CASE SaveMatchResults
  <2>1. /\ saveLoop.pc = "saveResults" /\ saveLoop'.pc = "receive"
        /\ saveResultChan' = saveResultChan
    BY <1>9 DEF SaveMatchResults, Idle
  <2>2. saveLoop.res \in Result BY <2>1, SavedResult DEF Inv
  <2>3. InChannel(m, res) => InChannel(m, res)'
    BY <2>1 DEF InChannel
  <2>4. NotInChannel(m) => NotInChannel(m)' BY <2>1 DEF NotInChannel
  <2>5. CASE InSaveLoop(m, res)
    <3>1. saveLoop.res = res BY <2>5 DEF InSaveLoop
    <3>2. matches' = DB!SaveMatchResults(matches, saveLoop.res) /\ matches[m] # "none"
      BY <1>9, <3>1 DEF SaveMatchResults
    <3>3. matches'[m] = RowOf(res)
      BY <1>0, <3>1, <3>2 DEF DB!SaveMatchResults, RowOf
    <3> QED BY <2>1, <2>4, <2>5, <3>3 DEF InRow, InSaveLoop
  <2>6. CASE InRow(m, res)
    <3>1. saveLoop.res.MatchID # m BY <2>1, <2>6 DEF InRow
    <3>2. matches'[m] = matches[m]
      BY <1>0, <1>9, <2>2, <3>1 DEF SaveMatchResults, DB!SaveMatchResults, Result
    <3> QED BY <2>1, <2>4, <2>6, <3>2 DEF InRow
  <2> QED BY <2>1, <2>3, <2>5, <2>6
<1> QED BY <1>2, <1>3, <1>4, <1>5, <1>6, <1>7, <1>8, <1>9 DEF Next, Start, Save

\* What a step other than one of the consumer or the end of a life does to the
\* stream.
LEMMA StreamGrows ==
  ASSUME Inv, [Next]_vars, ~ SpawnFail, ~ EndLife, ~ AckFail, ~ HandleResult
  PROVE  /\ UNCHANGED <<cursor, redeliver, redelivered>> /\ unsure \subseteq unsure'
         /\ \A i \in DOMAIN resultLog : i \in DOMAIN resultLog' /\ resultLog'[i] = resultLog[i]
<1>0. resultLog \in Seq(Result) BY DEF Inv, TypeOK
<1>1. ASSUME NEW w \in Workers, PublishResult(w) \/ SendCancel(w)
      PROVE  \A i \in DOMAIN resultLog : i \in DOMAIN resultLog' /\ resultLog'[i] = resultLog[i]
  <2>1. \/ resultLog' = resultLog
        \/ \E success \in BOOLEAN : Publish(containers[w].job, success)
    BY <1>1 DEF PublishResult, SendCancel
  <2>2. ASSUME NEW res, resultLog' = Append(resultLog, res), NEW i \in DOMAIN resultLog
        PROVE  i \in DOMAIN resultLog' /\ resultLog'[i] = resultLog[i]
    BY <1>0, <2>2
  <2> QED BY <2>1, <2>2 DEF Publish
<1>2. CASE Open \/ RemoveZombieWorkers \/ Spawn \/ SetupMatchmaking \/ SetupFail
         \/ ReceiveResult \/ RemoveMatchStatus \/ SaveMatchResults \/ AddMatch \/ UNCHANGED vars
  BY <1>2 DEF Open, RemoveZombieWorkers, Spawn, SetupMatchmaking, SetupFail, ReceiveResult,
       RemoveMatchStatus, SaveMatchResults, AddMatch, vars
<1>3. ASSUME NEW w \in Workers,
         \/ AssignMatch(w) \/ AssignFail(w) \/ CancelUnhealthy(w) \/ RestartContainer(w)
         \/ LoseJob(w)
      PROVE /\ UNCHANGED <<resultLog, cursor, redeliver, redelivered>>
            /\ unsure \subseteq unsure'
  BY <1>3 DEF AssignMatch, AssignFail, CancelUnhealthy, RestartContainer, LoseJob
<1>4. ASSUME NEW w \in Workers, PublishResult(w) \/ SendCancel(w)
      PROVE UNCHANGED <<cursor, redeliver, redelivered, unsure>>
  BY <1>4 DEF PublishResult, SendCancel
<1> QED BY <1>1, <1>2, <1>3, <1>4 DEF Next, Start, Save

\* The last result the consumer has passed arrives at the row, or comes again.
LEMMA LastResultArrivesStep ==
  ASSUME Inv, RowsAreAdded, LastResultArrives, [Next]_vars
  PROVE  LastResultArrives'
<1> SUFFICES ASSUME NEW m \in Match, m \notin unsure', m \notin redelivered',
                    NEW i \in DOMAIN resultLog', LastPassed(m, i)',
                    NEW res, res = resultLog'[i], i \notin redeliver'
             PROVE  Arrives(m, res)'
  BY DEF LastResultArrives, Arrives, InChannel, InSaveLoop, InRow, NotInChannel
<1>0. resultLog \in Seq(Result) /\ cursor \in 0 .. Len(resultLog) BY DEF Inv, TypeOK
<1>1. ASSUME m \notin unsure, m \notin redelivered, i \in DOMAIN resultLog,
             res = resultLog[i], LastPassed(m, i), i \notin redeliver
      PROVE  res \in Result /\ res.MatchID = m /\ Arrives(m, res)
  BY <1>0, <1>1
     DEF LastResultArrives, LastPassed, Results, Arrives, InChannel, InSaveLoop, InRow,
         NotInChannel
<1>2. CASE SpawnFail \/ EndLife
  <2>1. cursor' = 0 /\ resultLog' = resultLog
    BY <1>2 DEF SpawnFail, EndLife, GoDown
  <2> QED BY <1>0, <2>1 DEF LastPassed, Results
<1>3. ASSUME NEW d \in Deliverable, Delivered(d), redeliver \ {d} \subseteq redeliver',
             d # i, UNCHANGED <<resultLog, unsure>>
      PROVE  res \in Result /\ res.MatchID = m /\ Arrives(m, res)
  <2>1. /\ d = cursor + 1 \/ d <= cursor
        /\ d \in Int /\ cursor \in Int
    BY <1>0, DeliverableResult DEF Inv
  <2>2. /\ cursor' = IF d > cursor THEN d ELSE cursor
        /\ redelivered \subseteq redelivered'
    BY <1>3 DEF Delivered
  <2>3. i \in DOMAIN resultLog /\ res = resultLog[i] BY <1>3
  <2>4. LastPassed(m, i)
    <3>1. Results(m)' = Results(m) BY <1>3 DEF Results
    <3>2. i \in Int BY <1>0, <2>3
    <3>3. i \in Results(m) /\ i <= cursor' /\ \A j \in Results(m) : j <= cursor' => j <= i
      BY <3>1 DEF LastPassed
    <3>4. i <= cursor BY <1>3, <2>1, <2>2, <3>2, <3>3
    <3>5. ASSUME NEW j \in Results(m), j <= cursor PROVE j <= i
      <4>1. j \in Int BY <1>0 DEF Results
      <4>2. j <= cursor' BY <2>1, <2>2, <3>5, <4>1
      <4> QED BY <3>3, <4>2
    <3> QED BY <3>3, <3>4, <3>5 DEF LastPassed
  <2>5. i \notin redeliver BY <1>3
  <2> QED BY <1>1, <1>3, <2>2, <2>3, <2>4, <2>5
<1>4. CASE AckFail
  <2>1. PICK d \in Deliverable : Delivered(d) /\ redeliver' = redeliver \cup {d}
    BY <1>4 DEF AckFail
  <2>2. UNCHANGED <<resultLog, unsure, saveResultChan, saveLoop, matches>>
    BY <1>4 DEF AckFail
  <2>3. res \in Result /\ Arrives(m, res) BY <1>3, <2>1, <2>2
  <2> QED BY <2>2, <2>3 DEF Arrives, InChannel, InSaveLoop, InRow, NotInChannel
<1>5. CASE HandleResult
  <2>1. PICK d \in Deliverable :
          /\ Delivered(d) /\ redeliver' \in {redeliver \ {d}, redeliver \cup {d}}
          /\ saveResultChan' = Append(saveResultChan, resultLog[d])
    BY <1>5 DEF HandleResult
  <2>2. UNCHANGED <<resultLog, unsure, saveLoop, matches>> BY <1>5 DEF HandleResult
  <2>3. d \in DOMAIN resultLog /\ resultLog[d] \in Result
    BY DeliverableResult DEF Inv
  <2>4. CASE d = i
    BY <2>1, <2>2, <2>3, <2>4, NewReport
  <2>5. CASE d # i
    <3>1. res \in Result /\ res.MatchID = m /\ Arrives(m, res) BY <1>3, <2>1, <2>2, <2>5
    <3>2. resultLog[d].MatchID # m
      <4>1. d \in redeliver \/ d = cursor + 1 BY DeliverableResult DEF Inv
      <4>2. CASE d \in redeliver
        BY <2>1, <4>2 DEF Delivered
      <4>3. CASE d = cursor + 1
        <5>1. cursor' = d BY <1>0, <2>1, <4>3 DEF Delivered
        <5>2. i <= d /\ \A j \in Results(m)' : j <= cursor' => j <= i
          BY <5>1 DEF LastPassed
        <5>3. resultLog[d].MatchID = m => d \in Results(m)'
          BY <2>2, <2>3 DEF Results
        <5> QED BY <1>0, <2>2, <2>3, <2>5, <5>1, <5>2, <5>3
      <4> QED BY <4>1, <4>2, <4>3
    <3> QED BY <2>1, <2>2, <2>3, <3>1, <3>2, ReportOfOther
  <2> QED BY <2>4, <2>5
<1>6. CASE ~ SpawnFail /\ ~ EndLife /\ ~ AckFail /\ ~ HandleResult
  <2>1. /\ UNCHANGED <<cursor, redeliver, redelivered>> /\ unsure \subseteq unsure'
        /\ \A j \in DOMAIN resultLog : j \in DOMAIN resultLog' /\ resultLog'[j] = resultLog[j]
    BY <1>6, StreamGrows
  <2>2. i \in DOMAIN resultLog BY <1>0, <2>1 DEF LastPassed, Results
  <2>3. LastPassed(m, i) BY <2>1, <2>2 DEF LastPassed, Results
  <2>4. res \in Result /\ res.MatchID = m /\ Arrives(m, res) BY <1>1, <2>1, <2>2, <2>3
  <2> QED BY <1>6, <2>4, ArrivesStep
<1> QED BY <1>2, <1>4, <1>5, <1>6

\* One of the results the consumer has settled arrives at the row.
LEMMA SomeResultArrivesStep ==
  ASSUME Inv, RowsAreAdded, SomeResultArrives, [Next]_vars
  PROVE  SomeResultArrives'
<1> SUFFICES ASSUME NEW m \in Match, m \notin unsure',
                    NEW i \in Results(m)', i <= cursor', i \notin redeliver'
             PROVE  \E j \in Results(m)' : \E res : res = resultLog'[j] /\ Arrives(m, res)'
  BY DEF SomeResultArrives, Arrives, InChannel, InSaveLoop, InRow, NotInChannel
<1>0. resultLog \in Seq(Result) /\ cursor \in 0 .. Len(resultLog) BY DEF Inv, TypeOK
<1>1. ASSUME m \notin unsure, i \in Results(m), i <= cursor, i \notin redeliver
      PROVE  \E j \in Results(m), res \in Result :
               res = resultLog[j] /\ res.MatchID = m /\ Arrives(m, res)
  <2>1. PICK j \in Results(m) : Arrives(m, resultLog[j]) BY <1>1 DEF SomeResultArrives
  <2>2. resultLog[j] \in Result /\ resultLog[j].MatchID = m BY <1>0 DEF Results
  <2> QED BY <2>1, <2>2
<1>2. ASSUME NEW k \in DOMAIN resultLog', k <= cursor PROVE k \in DOMAIN resultLog
  <2>1. resultLog' \in Seq(Result) BY StreamStep DEF StreamType
  <2> QED BY <1>0, <1>2, <2>1
\* What the consumer passes is what it receives.
<1>3. ASSUME NEW d \in Deliverable, Delivered(d), i # d, i \in Results(m) PROVE i <= cursor
  <2>1. /\ d = cursor + 1 \/ d <= cursor
        /\ d \in Int /\ cursor \in Int /\ i \in Int
    BY <1>0, <1>3, DeliverableResult DEF Inv, Results
  <2>2. cursor' = IF d > cursor THEN d ELSE cursor BY <1>3 DEF Delivered
  <2>3. i <= cursor' OBVIOUS
  <2> QED BY <1>3, <2>1, <2>2, <2>3
<1>4. CASE SpawnFail \/ EndLife
  <2>1. cursor' = 0 /\ resultLog' = resultLog
    BY <1>4 DEF SpawnFail, EndLife, GoDown
  <2> QED BY <1>0, <2>1 DEF Results
<1>5. CASE AckFail
  <2>1. PICK d \in Deliverable : Delivered(d) /\ redeliver' = redeliver \cup {d}
    BY <1>5 DEF AckFail
  <2>2. UNCHANGED <<resultLog, unsure, saveResultChan, saveLoop, matches>>
    BY <1>5 DEF AckFail
  <2>3. i \in Results(m) /\ i # d /\ i \notin redeliver BY <2>1, <2>2 DEF Results
  <2>4. PICK j \in Results(m), res \in Result : res = resultLog[j] /\ Arrives(m, res)
    BY <1>1, <1>3, <2>1, <2>2, <2>3
  <2>5. Arrives(m, res)'
    BY <2>2, <2>4 DEF Arrives, InChannel, InSaveLoop, InRow, NotInChannel
  <2> QED BY <2>2, <2>4, <2>5 DEF Results
<1>6. CASE HandleResult
  <2>1. PICK d \in Deliverable :
          /\ Delivered(d) /\ redeliver' \in {redeliver \ {d}, redeliver \cup {d}}
          /\ saveResultChan' = Append(saveResultChan, resultLog[d])
    BY <1>6 DEF HandleResult
  <2>2. UNCHANGED <<resultLog, unsure, saveLoop, matches>> BY <1>6 DEF HandleResult
  <2>3. d \in DOMAIN resultLog /\ resultLog[d] \in Result
    BY DeliverableResult DEF Inv
  <2>4. CASE resultLog[d].MatchID = m
    <3>1. d \in Results(m)' BY <2>2, <2>3, <2>4 DEF Results
    <3>2. PICK res \in Result : res = resultLog[d] BY <2>3
    <3>3. Arrives(m, res)' BY <2>1, <3>2, NewReport
    <3> QED BY <2>2, <3>1, <3>2, <3>3
  <2>5. CASE resultLog[d].MatchID # m
    <3>1. i \in Results(m) /\ i # d BY <2>2, <2>5 DEF Results
    <3>2. i <= cursor /\ i \notin redeliver BY <1>3, <2>1, <3>1
    <3>3. PICK j \in Results(m), res \in Result :
            res = resultLog[j] /\ res.MatchID = m /\ Arrives(m, res)
      BY <1>1, <2>2, <3>1, <3>2
    <3>4. Arrives(m, res)' BY <2>1, <2>2, <2>3, <2>5, <3>3, ReportOfOther
    <3> QED BY <2>2, <3>3, <3>4 DEF Results
  <2> QED BY <2>4, <2>5
<1>7. CASE ~ SpawnFail /\ ~ EndLife /\ ~ AckFail /\ ~ HandleResult
  <2>1. /\ UNCHANGED <<cursor, redeliver, redelivered>> /\ unsure \subseteq unsure'
        /\ \A j \in DOMAIN resultLog : j \in DOMAIN resultLog' /\ resultLog'[j] = resultLog[j]
    BY <1>7, StreamGrows
  <2>2. i \in Results(m) /\ i <= cursor /\ i \notin redeliver
    <3>1. i \in DOMAIN resultLog' /\ resultLog'[i].MatchID = m /\ i <= cursor
      BY <2>1 DEF Results
    <3>2. i \in DOMAIN resultLog BY <1>0, <1>2, <3>1
    <3> QED BY <2>1, <3>1, <3>2 DEF Results
  <2>3. PICK j \in Results(m), res \in Result :
          res = resultLog[j] /\ res.MatchID = m /\ Arrives(m, res)
    BY <1>1, <2>1, <2>2
  <2>4. Arrives(m, res)' BY <1>7, <2>3, ArrivesStep
  <2>5. j \in Results(m)' /\ resultLog'[j] = res BY <2>1, <2>3 DEF Results
  <2> QED BY <2>4, <2>5
<1> QED BY <1>4, <1>5, <1>6, <1>7

\* A life that has read the whole stream shows each match as its last result does,
\* or, when a message came again, as one of its results does.  The invariant
\* follows a result of a match from the stream to its row.
THEOREM ReplaysRepair == Spec => []ReplayRepairs
<1> DEFINE Repairing == RowsAreAdded /\ LastResultArrives /\ SomeResultArrives
<1>1. Init => Repairing
  BY DEF Init, RowsAreAdded, LastResultArrives, SomeResultArrives, LastPassed, Results
<1>2. Inv /\ Repairing /\ [Next]_vars => Repairing'
  BY RowsAreAddedStep, LastResultArrivesStep, SomeResultArrivesStep
<1>3. ASSUME Inv, Repairing PROVE ReplayRepairs
  <2> SUFFICES ASSUME StreamIsRead, NEW m \in Match \ unsure
               PROVE  /\ m \notin redelivered =>
                           \A i \in Results(m) :
                             (\A j \in Results(m) : j <= i)
                               => matches[m] = RowOf(resultLog[i])
                      /\ Results(m) # {} =>
                           \E i \in Results(m) : matches[m] = RowOf(resultLog[i])
    BY DEF ReplayRepairs
  <2>1. resultLog \in Seq(Result) /\ cursor = Len(resultLog) /\ redeliver = {}
    BY <1>3 DEF Inv, TypeOK, StreamIsRead
  <2>2. ASSUME NEW res, Arrives(m, res) PROVE matches[m] = RowOf(res)
    BY <2>2 DEF StreamIsRead, Arrives, InChannel, InSaveLoop, InRow, Idle
  <2>3. Results(m) \subseteq 1 .. cursor BY <2>1 DEF Results
  <2>4. ASSUME Results(m) # {} PROVE \E i \in Results(m) : matches[m] = RowOf(resultLog[i])
    <3>1. PICK j \in Results(m) : Arrives(m, resultLog[j])
      BY <1>3, <2>1, <2>3, <2>4 DEF SomeResultArrives
    <3> QED BY <2>2, <3>1
  <2>5. ASSUME m \notin redelivered, NEW i \in Results(m), \A j \in Results(m) : j <= i
        PROVE  matches[m] = RowOf(resultLog[i])
    <3>1. LastPassed(m, i) /\ i \in DOMAIN resultLog
      BY <2>1, <2>3, <2>5 DEF LastPassed, Results
    <3>2. Arrives(m, resultLog[i]) BY <1>3, <2>1, <2>5, <3>1 DEF LastResultArrives
    <3> QED BY <2>2, <3>2
  <2> QED BY <2>4, <2>5
<1> HIDE DEF Repairing
<1> QED BY <1>1, <1>2, <1>3, RestartInvariance, PTL DEF Spec
=============================================================================
