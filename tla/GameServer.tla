----------------------------- MODULE GameServer -----------------------------
(***************************************************************************)
(* A game server container: the loop of game-server/host/app/server.go,    *)
(* the Executor and CmdWaiter that run the game's process, and the         *)
(* worker's side of the broker.  The loop is one goroutine; beside it run  *)
(* the game's process and its children, the signal that cancels ctx, the   *)
(* requests that arrive in the subscription's buffer, and Docker, which    *)
(* kills the container or starts it again.                                 *)
(*                                                                         *)
(* The pings are answered by a callback that shares nothing with the loop. *)
(***************************************************************************)
EXTENDS Integers, Sequences

CONSTANTS MaxMatches,   \* bound: jobs sent to this worker
          MaxFaults     \* bound: failed calls and killed containers

ASSUME GameServerAssumption == MaxMatches \in Nat /\ MaxFaults \in Nat

Match == 1 .. MaxMatches
NoMatch == 0

VARIABLES
  server,     \* where the loop is, the job it has, what it does after stopServer
  executor,   \* active, the temporary files it has open, and cmd
  process,    \* the process cmd started: its leader, its match, its children
  canceled,   \* ctx is done
  inbox,      \* requestSub: one message at most
  jobs, outcome,    \* as in MatchOutcome
  faults,
  \* history
  accepted,   \* jobs GetMatchConfig returned
  won,        \* matches whose own process exited with 0
  lost        \* accepted jobs whose cancel failed, or whose host was killed

loopVars == <<server, executor>>
historyVars == <<accepted, won, lost>>
vars == <<loopVars, process, canceled, inbox, jobs, outcome, faults, historyVars>>

Fault == faults < MaxFaults /\ faults' = faults + 1
NoFault == UNCHANGED faults

At(pc, job) == [pc |-> pc, job |-> job, next |-> "none"]
Stopping(job, next) == [pc |-> "stop", job |-> job, next |-> next]
Inactive == [active |-> FALSE, files |-> {}, cmd |-> "none"]
NoProcess == [leader |-> "none", match |-> NoMatch, children |-> FALSE]

\* The process was collected by the waiter's goroutine.
Exited == process.leader \in {"succeeded", "failed"}

\* Close: stopServer, with a context nobody cancels, then the broker.
Closing == Stopping(NoMatch, "closed")

\* The next iteration of Run, or its end.
Iterate == IF canceled THEN Closing ELSE At("fetch", NoMatch)

Init ==
  /\ server = At("open", NoMatch)
  /\ executor = Inactive
  /\ process = NoProcess
  /\ canceled = FALSE
  /\ inbox = <<>>
  /\ jobs = {} /\ outcome = [m \in Match |-> "none"]
  /\ faults = 0
  /\ accepted = {} /\ won = {} /\ lost = {}

-----------------------------------------------------------------------------
(* Open, GetMatchConfig and runServer *)

\* Connect and subscribe; a failure ends the program.
Open ==
  /\ server.pc = "open"
  /\ \/ NoFault /\ server' = At("fetch", NoMatch)
     \/ Fault /\ server' = At("closed", NoMatch)
  /\ UNCHANGED <<executor, process, canceled, inbox, jobs, outcome, historyVars>>

\* The next assignment and its acknowledgment; without the latter the job is
\* dropped.
GetMatchConfig ==
  /\ server.pc = "fetch"
  /\ inbox # <<>>
  /\ inbox' = Tail(inbox)
  /\ \/ /\ server' = At("start", Head(inbox))
        /\ accepted' = accepted \cup {Head(inbox)}
        /\ NoFault
     \/ Fault /\ server' = Iterate /\ UNCHANGED accepted
  /\ UNCHANGED <<executor, process, canceled, jobs, outcome, won, lost>>

\* NextMsgWithContext returns since ctx is done.
FetchCanceled ==
  /\ server.pc = "fetch"
  /\ canceled
  /\ server' = Closing
  /\ UNCHANGED <<executor, process, canceled, inbox, jobs, outcome, faults, historyVars>>

\* Executor.Start: active is set first; the files, the config and the command
\* may each fail.  runServer then returns before it has deferred stopServer.
Start ==
  /\ server.pc = "start"
  /\ \/ /\ ~ executor.active
        /\ executor' = [active |-> TRUE, files |-> {"config", "result"}, cmd |-> "started"]
        /\ process' = [leader |-> "running", match |-> server.job, children |-> FALSE]
        /\ server' = At("result", server.job)
        /\ NoFault
     \/ /\ ~ executor.active
        /\ Fault
        /\ executor' \in {[active |-> TRUE, files |-> {}, cmd |-> "none"],
                          [active |-> TRUE, files |-> {"config"}, cmd |-> "none"],
                          [active |-> TRUE, files |-> {"config", "result"}, cmd |-> "failed"]}
        /\ server' = At("cancel", server.job)
        /\ UNCHANGED process
     \/ /\ executor.active    \* ErrExecutorAlreadyActive
        /\ server' = At("cancel", server.job)
        /\ NoFault
        /\ UNCHANGED <<executor, process>>
  /\ UNCHANGED <<canceled, inbox, jobs, outcome, historyVars>>

\* Broken variant: the exit code is not looked at.
GetResultAnyExit ==
  /\ server.pc = "result"
  /\ Exited \/ canceled
  /\ server' = Stopping(server.job, IF Exited THEN "publish" ELSE "cancel")
  /\ UNCHANGED <<executor, process, canceled, inbox, jobs, outcome, faults, historyVars>>

\* Broken variant: Wait returns when the children have exited too, as it would
\* if they inherited a pipe to the host.
GetResultOfGroup ==
  /\ server.pc = "result"
  /\ (Exited /\ ~ process.children) \/ canceled
  /\ server' = Stopping(server.job, IF process.leader = "succeeded" THEN "publish" ELSE "cancel")
  /\ UNCHANGED <<executor, process, canceled, inbox, jobs, outcome, faults, historyVars>>

\* Broken variant: waits with a context of its own.
GetResultUncanceled ==
  /\ server.pc = "result"
  /\ Exited
  /\ server' = Stopping(server.job, IF process.leader = "succeeded" THEN "publish" ELSE "cancel")
  /\ UNCHANGED <<executor, process, canceled, inbox, jobs, outcome, faults, historyVars>>

\* GetResult: the process exited and its result was read, or did not exit with
\* 0, or ctx is done.
GetResult ==
  /\ server.pc = "result"
  /\ \/ process.leader = "succeeded" /\ server' = Stopping(server.job, "publish") /\ NoFault
     \/ process.leader = "succeeded" /\ server' = Stopping(server.job, "cancel") /\ Fault
     \/ process.leader = "failed" /\ server' = Stopping(server.job, "cancel") /\ NoFault
     \/ canceled /\ server' = Stopping(server.job, "cancel") /\ NoFault
  /\ UNCHANGED <<executor, process, canceled, inbox, jobs, outcome, historyVars>>

-----------------------------------------------------------------------------
(* stopServer: SIGTERM, which a process may ignore, and a wait of 5 seconds *)

\* Broken variant: kills the process, not its group.
KillLeader(p) == [p EXCEPT !.leader = IF @ = "running" THEN "killed" ELSE @]

\* SIGKILL to the process group.
KillGroup(p) == [p EXCEPT !.leader = IF @ = "running" THEN "killed" ELSE @,
                          !.children = FALSE]

\* The end of Executor.Stop.
Stopped ==
  /\ executor' = Inactive
  /\ server' = At(server.next, server.job)

StopServer ==
  /\ server.pc = "stop"
  /\ \/ ~ executor.active /\ Stopped /\ UNCHANGED process    \* ErrExecutorNotActive
     \/ executor.active /\ executor.cmd # "started" /\ Stopped /\ UNCHANGED process
     \/ /\ executor.cmd = "started"
        /\ process' = KillGroup(process)
        /\ \/ Exited /\ Stopped
           \/ /\ canceled /\ server.next # "closed"
              /\ server' = [server EXCEPT !.pc = "reap"]
              /\ UNCHANGED executor
           \/ ~ (canceled /\ server.next # "closed") /\ Stopped   \* 5 seconds passed
  /\ UNCHANGED <<canceled, inbox, jobs, outcome, faults, historyVars>>

\* After a cancel Stop waits for the killed process as long as it takes.
Reap ==
  /\ server.pc = "reap"
  /\ Exited
  /\ Stopped
  /\ UNCHANGED <<process, canceled, inbox, jobs, outcome, faults, historyVars>>

-----------------------------------------------------------------------------
(* sendResult and sendCancel *)

ResultStored(m) ==
  outcome' = [outcome EXCEPT ![m] = IF @ = "none" THEN "result" ELSE "result, cancel"]
CancelStored(m) ==
  outcome' = [outcome EXCEPT ![m] = IF @ = "none" THEN "cancel" ELSE "result, cancel"]

\* Broken variant: no cancel after a failure.
SendResultOnly ==
  /\ server.pc = "publish"
  /\ ResultStored(server.job) \/ UNCHANGED outcome
  /\ server' = Iterate
  /\ UNCHANGED <<executor, process, canceled, inbox, jobs, faults, historyVars>>

\* Published, or stored by the broker but failed for the game server, or not
\* stored: the result is no JSON, or the call failed.
SendResult ==
  /\ server.pc = "publish"
  /\ \/ ResultStored(server.job) /\ server' = Iterate /\ NoFault
     \/ /\ ResultStored(server.job) /\ server' = At("cancel", server.job)
        /\ IF canceled THEN NoFault ELSE Fault
     \/ UNCHANGED outcome /\ server' = At("cancel", server.job) /\ NoFault
  /\ UNCHANGED <<executor, process, canceled, inbox, jobs, historyVars>>

\* Broken variant: a result that failed is sent again after the cancel.
SendCancelThenRetry ==
  /\ server.pc = "cancel"
  /\ CancelStored(server.job)
  /\ server' = IF server.job \in won /\ outcome[server.job] = "none"
               THEN At("publish", server.job) ELSE Iterate
  /\ UNCHANGED <<executor, process, canceled, inbox, jobs, faults, historyVars>>

\* A cancel that fails is logged only.
SendCancel ==
  /\ server.pc = "cancel"
  /\ \/ CancelStored(server.job) /\ NoFault /\ UNCHANGED lost
     \/ Fault /\ lost' = lost \cup {server.job} /\ UNCHANGED outcome
  /\ server' = Iterate
  /\ UNCHANGED <<executor, process, canceled, inbox, jobs, accepted, won>>

-----------------------------------------------------------------------------
(* Around the loop. *)

\* The server manager sends the job of its next match.  A request that finds
\* the buffer full, or no subscription, is dropped; one in the buffer stays
\* there when its sender has given up.
Request ==
  \E m \in Match \ jobs :
  /\ 1 .. m - 1 \subseteq jobs
  /\ jobs' = jobs \cup {m}
  /\ inbox' = IF inbox = <<>> /\ server.pc \notin {"open", "closed"} THEN <<m>> ELSE inbox
  /\ UNCHANGED <<loopVars, process, canceled, outcome, faults, historyVars>>

\* The game's process starts children, or ends, by itself or asked to.
ProcessRuns ==
  /\ process.leader = "running"
  /\ \/ process' = [process EXCEPT !.children = TRUE] /\ UNCHANGED won
     \/ process' = [process EXCEPT !.leader = "failed"] /\ UNCHANGED won
     \/ /\ process' = [process EXCEPT !.leader = "succeeded"]
        /\ won' = won \cup {process.match}
  /\ UNCHANGED <<loopVars, canceled, inbox, jobs, outcome, faults, accepted, lost>>

ProcessDies ==
  /\ process.leader = "killed"
  /\ process' = [process EXCEPT !.leader = "failed"]
  /\ UNCHANGED <<loopVars, canceled, inbox, jobs, outcome, faults, historyVars>>

\* SIGTERM or SIGINT to the host.
Terminate ==
  /\ server.pc # "closed"
  /\ ~ canceled
  /\ canceled' = TRUE
  /\ UNCHANGED <<loopVars, process, inbox, jobs, outcome, faults, historyVars>>

\* Docker starts the container again, asked by the server manager: the host has
\* ended, or is killed.
Restart ==
  /\ IF server.pc = "closed" THEN NoFault ELSE Fault
  /\ server' = At("open", NoMatch)
  /\ executor' = Inactive
  /\ process' = NoProcess
  /\ canceled' = FALSE
  /\ inbox' = <<>>
  /\ lost' = lost \cup ({server.job} \ {NoMatch})
  /\ UNCHANGED <<jobs, outcome, accepted, won>>

-----------------------------------------------------------------------------
Run == \/ Open \/ GetMatchConfig \/ FetchCanceled \/ Start \/ GetResult
       \/ StopServer \/ Reap \/ SendResult \/ SendCancel

Next == Run \/ Request \/ ProcessRuns \/ ProcessDies \/ Terminate \/ Restart

Spec == Init /\ [][Next]_vars

\* The loop's goroutine runs, its calls to the broker have timeouts, and the
\* kernel ends a killed process.  A game may run forever.
FairSpec == Spec /\ WF_vars(Run) /\ WF_vars(ProcessDies)

-----------------------------------------------------------------------------
(* Correctness. *)

Job == Match \cup {NoMatch}

ServerState == [pc : {"open", "fetch", "start", "result", "stop", "reap", "publish",
                      "cancel", "closed"},
                job : Job, next : {"none", "publish", "cancel", "closed"}]
ExecutorState == [active : BOOLEAN, files : SUBSET {"config", "result"},
                  cmd : {"none", "failed", "started"}]
ProcessState == [leader : {"none", "running", "killed", "succeeded", "failed"},
                 match : Job, children : BOOLEAN]

TypeOK ==
  /\ server \in ServerState
  /\ executor \in ExecutorState
  /\ process \in ProcessState
  /\ canceled \in BOOLEAN
  /\ inbox \in Seq(Match) /\ Len(inbox) <= 1
  /\ jobs \subseteq Match
  /\ outcome \in [Match -> {"none", "result", "cancel", "result, cancel"}]
  /\ faults \in 0 .. MaxFaults
  /\ accepted \subseteq Match /\ won \subseteq Match /\ lost \subseteq Match

\* A job the game server has acknowledged gets an outcome, whatever fails:
\* unless the cancel could not be published, or the host was killed, it has one
\* or is still in the hands of runMatch.
AcceptedJobAnswered ==
  \A m \in accepted : outcome[m] # "none" \/ m \in lost \/ server.job = m

\* A result is published of a match only if the match's own process exited with
\* 0, also when Start failed or another process was run before.
ResultIsGenuine ==
  \A m \in Match : outcome[m] \in {"result", "result, cancel"} => m \in won

\* Nothing of a match runs any more when its outcome is published, the next job
\* is taken or the host ends: the process was collected and its group killed.
QuietBetweenMatches ==
  server.pc \in {"fetch", "start", "publish", "cancel", "closed"} =>
    process.leader \notin {"running", "killed"} /\ ~ process.children

\* stopServer's 5 seconds never decide: it is called for a process that has
\* exited, or under a canceled context (then Stop kills, and waits for the end).
\* On the timeout Stop would return with the process not collected.
StopNeverGivesUp ==
  server.pc = "stop" /\ executor.cmd = "started"
    => Exited \/ (canceled /\ server.next # "closed")

\* The host starts without, and ends with an executor that was stopped, after a
\* failed Start too, and an inactive executor has no files left on the disk.
NothingLeftBehind ==
  /\ server.pc \in {"open", "closed"} => ~ executor.active
  /\ ~ executor.active => executor = Inactive

\* What those rest on.  The loop has a job exactly inside runMatch after
\* GetMatchConfig, an acknowledged one without an outcome so far (or with one
\* result, when it is canceled); a job in the buffer is not yet acknowledged.
JobInHand ==
  /\ server.pc \in {"stop", "reap"} <=> server.next # "none"
  /\ server.job = NoMatch <=> \/ server.pc \in {"open", "fetch", "closed"}
                             \/ server.next = "closed"
  /\ server.job # NoMatch =>
       /\ server.job \in accepted
       /\ outcome[server.job] \in
            IF server.pc = "cancel" THEN {"none", "result"} ELSE {"none"}
  /\ \A m \in Match : outcome[m] # "none" => m \in accepted
  /\ accepted \subseteq jobs
  /\ inbox # <<>> => inbox[1] \in jobs \ accepted

\* A process is started only in runServer, belongs to the job in hand, and is
\* killed only where Stop waits for it.
ProcessInHand ==
  /\ executor.cmd = "started" <=> \/ server.pc \in {"result", "reap"}
                                 \/ (server.pc = "stop" /\ server.next # "closed")
  /\ executor.cmd = "started" => executor.active /\ process.match = server.job
  /\ process.leader \in {"running", "killed"} \/ process.children => executor.cmd = "started"
  /\ process.leader = "killed" => server.pc = "reap"
  /\ server.pc = "reap" => canceled /\ process.leader # "running" /\ ~ process.children
                            /\ server.next # "closed"
  /\ process.leader = "succeeded" => process.match \in won
  /\ server.pc = "publish" \/ server.next = "publish" => server.job \in won

\* The inductive invariant of the game server.
Inv == /\ TypeOK
       /\ AcceptedJobAnswered
       /\ ResultIsGenuine
       /\ QuietBetweenMatches
       /\ StopNeverGivesUp
       /\ NothingLeftBehind
       /\ JobInHand
       /\ ProcessInHand

\* As far as the broker can tell the game server does what MatchOutcome says,
\* which is what WorkerManager expects of its game servers.
Owed == INSTANCE MatchOutcome
KeepsMatchOutcome == Owed!Spec

\* A canceled host ends (or is killed meanwhile), whatever the game's process
\* makes of SIGTERM.
ShutdownEnds == canceled ~> server.pc = "closed" \/ ~ canceled

\* When the game's process has exited, its children alive or not, the job gets
\* its outcome.
ExitedJobAnswered ==
  \A m \in Match :
    process.match = m /\ Exited ~> outcome[m] # "none" \/ m \in lost

\* How far the loop is from its end once ctx is done, in steps.
StepsLeft ==
  IF server = Closing THEN 1
  ELSE [open |-> 9, fetch |-> 8, start |-> 7, result |-> 6, stop |-> 5, reap |-> 4,
        publish |-> 3, cancel |-> 2, closed |-> 0][server.pc]

\* From the signal on every step of the loop leads to its end: at most one more job
\* is taken, that one is given up, and nothing is tried again.
WindsDown ==
  [][canceled /\ canceled' => StepsLeft' < StepsLeft \/ UNCHANGED server]_vars

\* And no place keeps it: Reap is the only one that waits then, for a process that
\* was killed or has exited already, never for one that nobody killed.
ReapEnds ==
  /\ executor.cmd = "started" => process.leader # "none"
  /\ server.pc = "reap" => process.leader = "killed" \/ Exited

-----------------------------------------------------------------------------
(* What the source says, and does not do. *)

\* runServer: "Starts executor and waits for the result, after that it stops the
\* executor".  So it is stopped when the next match is started.
ExecutorStopped == server.pc = "start" => ~ executor.active
=============================================================================
