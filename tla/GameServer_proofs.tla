------------------------- MODULE GameServer_proofs --------------------------
(***************************************************************************)
(* What a game server guarantees, for any number of matches and faults:    *)
(* Inv is inductive, and with it the game server implements MatchOutcome.  *)
(***************************************************************************)
EXTENDS GameServer, SequenceTheorems, TLAPS

\* The bounds, and the abbreviations every step expands.
USE GameServerAssumption DEF GameServerAssumption, Match, NoMatch, Job, Fault, NoFault

\* Where the loop can be, as a record.
LEMMA ServerRecords ==
  ASSUME NEW job \in Job,
         NEW pc \in {"open", "fetch", "start", "result", "publish", "cancel", "closed"},
         NEW next \in {"publish", "cancel", "closed"}
  PROVE  At(pc, job) \in ServerState /\ Stopping(job, next) \in ServerState
  BY DEF At, Stopping, ServerState

\* The next iteration fetches a job, or closes the executor.
LEMMA Iterates ==
  /\ Iterate \in ServerState
  /\ Iterate.job = NoMatch
  /\ \/ Iterate.pc = "fetch" /\ Iterate.next = "none"
     \/ Iterate.pc = "stop" /\ Iterate.next = "closed"
  BY DEF Iterate, Closing, At, Stopping, ServerState

\* A buffer of one message, before and after that message is taken.
LEMMA OneMessage ==
  ASSUME NEW s \in Seq(Match), Len(s) <= 1, s # <<>>
  PROVE  Head(s) = s[1] /\ s[1] \in Match /\ Tail(s) = <<>>
<1>1. Len(s) \in Nat \ {0} /\ Tail(s) \in Seq(Match) /\ Len(Tail(s)) = Len(s) - 1
  BY EmptySeq, HeadTailProperties
<1>2. Len(Tail(s)) = 0 /\ Len(s) = 1
  BY <1>1
<1>3. Tail(s) = <<>>
  BY <1>1, <1>2, EmptySeq
<1> QED BY <1>2, <1>3

LEMMA FaultsBounded ==
  ASSUME faults \in 0 .. MaxFaults, Fault \/ NoFault
  PROVE  faults' \in 0 .. MaxFaults
  OBVIOUS

-----------------------------------------------------------------------------
\* The loop starts, or the program ends, without a process.
LEMMA OpenStep == ASSUME Inv, Open PROVE Inv'
<1>0. /\ TypeOK /\ AcceptedJobAnswered /\ ResultIsGenuine /\ QuietBetweenMatches
      /\ StopNeverGivesUp /\ NothingLeftBehind /\ JobInHand /\ ProcessInHand
      /\ accepted \subseteq Match
  BY DEF Inv, TypeOK
<1>1. /\ UNCHANGED <<executor, process, canceled, inbox, jobs, outcome, accepted, won, lost>>
      /\ server.pc = "open"
  BY DEF Open, historyVars
<1>2. server' = At("fetch", NoMatch) \/ server' = At("closed", NoMatch)
  BY DEF Open
<1>3. server'.pc \in {"fetch", "closed"} /\ server'.job = NoMatch /\ server'.next = "none"
  BY <1>2 DEF At
<1>4. TypeOK'
  <2>1. server' \in ServerState BY <1>2, ServerRecords
  <2>2. faults' \in 0 .. MaxFaults BY <1>0, FaultsBounded DEF Open, TypeOK
  <2> QED BY <1>0, <1>1, <2>1, <2>2 DEF TypeOK
<1>5. (AcceptedJobAnswered /\ ResultIsGenuine)'
  BY <1>0, <1>1, <1>3 DEF AcceptedJobAnswered, ResultIsGenuine, JobInHand
<1>6. (QuietBetweenMatches /\ StopNeverGivesUp)'
  BY <1>0, <1>1, <1>3 DEF QuietBetweenMatches, StopNeverGivesUp, Exited, ProcessInHand
<1>7. NothingLeftBehind'
  BY <1>0, <1>1, <1>3 DEF NothingLeftBehind
<1>8. JobInHand'
  BY <1>0, <1>1, <1>3 DEF JobInHand
<1>9. ProcessInHand'
  BY <1>0, <1>1, <1>3 DEF ProcessInHand
<1> QED BY <1>4, <1>5, <1>6, <1>7, <1>8, <1>9 DEF Inv


\* The job in the buffer is taken: it is in hand, or was dropped before its
\* acknowledgment.
LEMMA GetMatchConfigStep == ASSUME Inv, GetMatchConfig PROVE Inv'
<1>0. /\ TypeOK /\ AcceptedJobAnswered /\ ResultIsGenuine /\ QuietBetweenMatches
      /\ StopNeverGivesUp /\ NothingLeftBehind /\ JobInHand /\ ProcessInHand
      /\ accepted \subseteq Match
  BY DEF Inv, TypeOK
<1>1. /\ UNCHANGED <<executor, process, canceled, jobs, outcome, won, lost>>
      /\ server.pc = "fetch" /\ inbox # <<>>
  BY DEF GetMatchConfig
<1>2. Head(inbox) = inbox[1] /\ inbox[1] \in Match /\ Tail(inbox) = <<>>
  <2>1. inbox \in Seq(Match) /\ Len(inbox) <= 1 BY <1>0 DEF TypeOK
  <2> QED BY <1>1, <2>1, OneMessage
<1>3. inbox' = <<>>
  BY <1>2 DEF GetMatchConfig
<1>4. \/ server' = At("start", inbox[1]) /\ accepted' = accepted \cup {inbox[1]}
      \/ server' = Iterate /\ accepted' = accepted
  BY <1>2 DEF GetMatchConfig
<1>5. \/ /\ server'.pc = "start" /\ server'.job = inbox[1] /\ server'.next = "none"
         /\ accepted' = accepted \cup {inbox[1]}
      \/ /\ \/ server'.pc = "fetch" /\ server'.next = "none"
            \/ server'.pc = "stop" /\ server'.next = "closed"
         /\ server'.job = NoMatch /\ accepted' = accepted
  BY <1>4, Iterates DEF At
<1>6. inbox[1] \in jobs \ accepted
  BY <1>0, <1>1 DEF JobInHand
<1>7. TypeOK'
  <2>1. server' \in ServerState BY <1>2, <1>4, ServerRecords, Iterates
  <2>2. faults' \in 0 .. MaxFaults BY <1>0, FaultsBounded DEF GetMatchConfig, TypeOK
  <2>3. inbox' \in Seq(Match) /\ Len(inbox') <= 1 BY <1>3
  <2>4. accepted' \subseteq Match BY <1>0, <1>2, <1>4 DEF TypeOK
  <2> QED BY <1>0, <1>1, <2>1, <2>2, <2>3, <2>4 DEF TypeOK
<1>8. (AcceptedJobAnswered /\ ResultIsGenuine)'
  <2>1. server.job = NoMatch BY <1>0, <1>1 DEF JobInHand
  <2>2. \A m \in accepted : outcome[m] # "none" \/ m \in lost
    BY <1>0, <2>1 DEF AcceptedJobAnswered
  <2> QED BY <1>0, <1>1, <1>5, <2>2 DEF AcceptedJobAnswered, ResultIsGenuine
<1>9. (QuietBetweenMatches /\ StopNeverGivesUp)'
  BY <1>0, <1>1, <1>2, <1>3, <1>5, <1>6 DEF QuietBetweenMatches, StopNeverGivesUp, Exited, ProcessInHand
<1>10. NothingLeftBehind'
  BY <1>0, <1>1, <1>2, <1>3, <1>5, <1>6 DEF NothingLeftBehind
<1>11. JobInHand'
  <2>1. outcome[inbox[1]] = "none" BY <1>0, <1>2, <1>6 DEF JobInHand
  <2>2. CASE server'.pc = "start"
    <3>1. /\ server'.job = inbox[1] /\ server'.next = "none"
          /\ accepted' = accepted \cup {inbox[1]}
      BY <1>5, <2>2
    <3>2. inbox[1] # NoMatch /\ inbox[1] \in jobs BY <1>2, <1>6
    <3>3. \A m \in Match : outcome[m] # "none" => m \in accepted BY <1>0 DEF JobInHand
    <3>4. accepted \subseteq jobs BY <1>0 DEF JobInHand
    <3> QED BY <1>1, <1>3, <2>1, <2>2, <3>1, <3>2, <3>3, <3>4 DEF JobInHand
  <2>3. CASE server'.pc # "start"
    BY <1>0, <1>1, <1>3, <1>5, <2>3 DEF JobInHand
  <2> QED BY <2>2, <2>3
<1>12. ProcessInHand'
  BY <1>0, <1>1, <1>2, <1>3, <1>5, <1>6 DEF ProcessInHand
<1> QED BY <1>7, <1>8, <1>9, <1>10, <1>11, <1>12 DEF Inv


\* A canceled loop closes the executor.
LEMMA FetchCanceledStep == ASSUME Inv, FetchCanceled PROVE Inv'
<1>0. /\ TypeOK /\ AcceptedJobAnswered /\ ResultIsGenuine /\ QuietBetweenMatches
      /\ StopNeverGivesUp /\ NothingLeftBehind /\ JobInHand /\ ProcessInHand
      /\ accepted \subseteq Match
  BY DEF Inv, TypeOK
<1>1. /\ UNCHANGED <<executor, process, canceled, inbox, jobs, outcome, faults, accepted, won, lost>>
      /\ server.pc = "fetch" /\ server' = Stopping(NoMatch, "closed")
  BY DEF FetchCanceled, Closing, historyVars
<1>2. server'.pc = "stop" /\ server'.job = NoMatch /\ server'.next = "closed"
  BY <1>1 DEF Stopping
<1>3. TypeOK'
  <2>1. server' \in ServerState BY <1>1, ServerRecords
  <2> QED BY <1>0, <1>1, <2>1 DEF TypeOK
<1>4. (AcceptedJobAnswered /\ ResultIsGenuine)'
  BY <1>0, <1>1, <1>2 DEF AcceptedJobAnswered, ResultIsGenuine, JobInHand
<1>5. (QuietBetweenMatches /\ StopNeverGivesUp)'
  BY <1>0, <1>1, <1>2 DEF QuietBetweenMatches, StopNeverGivesUp, Exited, ProcessInHand
<1>6. NothingLeftBehind'
  BY <1>0, <1>1, <1>2 DEF NothingLeftBehind
<1>7. JobInHand'
  BY <1>0, <1>1, <1>2 DEF JobInHand
<1>8. ProcessInHand'
  BY <1>0, <1>1, <1>2 DEF ProcessInHand
<1> QED BY <1>3, <1>4, <1>5, <1>6, <1>7, <1>8 DEF Inv


\* Start succeeds with a process of the job in hand, or leaves no process.
LEMMA StartStep == ASSUME Inv, Start PROVE Inv'
<1>0. /\ TypeOK /\ AcceptedJobAnswered /\ ResultIsGenuine /\ QuietBetweenMatches
      /\ StopNeverGivesUp /\ NothingLeftBehind /\ JobInHand /\ ProcessInHand
      /\ accepted \subseteq Match
  BY DEF Inv, TypeOK
<1>1. /\ UNCHANGED <<canceled, inbox, jobs, outcome, accepted, won, lost>>
      /\ server.pc = "start"
  BY DEF Start, historyVars
<1>2. server.job \in Job /\ server.next = "none"
  BY <1>0, <1>1 DEF TypeOK, JobInHand, ServerState
<1> DEFINE Started ==
      /\ executor' = [active |-> TRUE, files |-> {"config", "result"}, cmd |-> "started"]
      /\ process' = [leader |-> "running", match |-> server.job, children |-> FALSE]
      /\ server' = At("result", server.job)
    Failed ==
      /\ executor' \in ExecutorState /\ executor'.active /\ executor'.cmd # "started"
      /\ process' = process
      /\ server' = At("cancel", server.job)
<1>3. Started \/ Failed
  <2>1. executor \in ExecutorState /\ executor.cmd # "started"
    BY <1>0, <1>1 DEF TypeOK, ProcessInHand
  <2>2. ASSUME NEW files \in SUBSET {"config", "result"}, NEW cmd \in {"none", "failed"},
               executor' = [active |-> TRUE, files |-> files, cmd |-> cmd]
        PROVE  executor' \in ExecutorState /\ executor'.active /\ executor'.cmd # "started"
    BY <2>2 DEF ExecutorState
  <2>3. CASE executor.active BY <2>1, <2>3 DEF Start
  <2>4. CASE ~ executor.active
    <3>1. CASE Started BY <3>1
    <3>2. CASE /\ executor' \in {[active |-> TRUE, files |-> {}, cmd |-> "none"],
                                 [active |-> TRUE, files |-> {"config"}, cmd |-> "none"],
                                 [active |-> TRUE, files |-> {"config", "result"}, cmd |-> "failed"]}
               /\ server' = At("cancel", server.job) /\ UNCHANGED process
      BY <2>2, <3>2
    <3> QED BY <2>4, <3>1, <3>2 DEF Start
  <2> QED BY <2>3, <2>4
<1>4. TypeOK'
  <2>0. server' = At("result", server.job) \/ server' = At("cancel", server.job) BY <1>3
  <2>1. server' \in ServerState BY <1>2, <2>0, ServerRecords
  <2>2. executor' \in ExecutorState
    <3>1. Started => executor' \in ExecutorState BY DEF ExecutorState
    <3> QED BY <1>3, <3>1
  <2>3. process' \in ProcessState
    <3>1. Started => process' \in ProcessState BY <1>2 DEF ProcessState
    <3>2. process \in ProcessState BY <1>0 DEF TypeOK
    <3> QED BY <1>3, <3>1, <3>2
  <2>4. faults' \in 0 .. MaxFaults BY <1>0, FaultsBounded DEF Start, TypeOK
  <2> QED BY <1>0, <1>1, <2>1, <2>2, <2>3, <2>4 DEF TypeOK
<1>5. /\ server'.pc = (IF Started THEN "result" ELSE "cancel")
      /\ server'.job = server.job /\ server'.next = "none"
  BY <1>3 DEF At
<1>6. executor'.active /\ (executor'.cmd = "started" <=> Started)
  BY <1>3
<1>7. IF Started
      THEN process'.leader = "running" /\ process'.match = server.job /\ ~ process'.children
      ELSE process' = process
  BY <1>3
<1> HIDE DEF Started
<1>8. (AcceptedJobAnswered /\ ResultIsGenuine)'
  BY <1>0, <1>1, <1>2, <1>5, <1>6, <1>7 DEF AcceptedJobAnswered, ResultIsGenuine, JobInHand
<1>9. (QuietBetweenMatches /\ StopNeverGivesUp)'
  BY <1>0, <1>1, <1>2, <1>5, <1>6, <1>7 DEF QuietBetweenMatches, StopNeverGivesUp, Exited, ProcessInHand
<1>10. NothingLeftBehind'
  BY <1>0, <1>1, <1>2, <1>5, <1>6, <1>7 DEF NothingLeftBehind
<1>11. JobInHand'
  BY <1>0, <1>1, <1>2, <1>5, <1>6, <1>7 DEF JobInHand
<1>12. ProcessInHand'
  BY <1>0, <1>1, <1>2, <1>5, <1>6, <1>7 DEF ProcessInHand
<1> QED BY <1>4, <1>8, <1>9, <1>10, <1>11, <1>12 DEF Inv


\* The process has exited, or ctx is done.
LEMMA GetResultStep == ASSUME Inv, GetResult PROVE Inv'
<1>0. /\ TypeOK /\ AcceptedJobAnswered /\ ResultIsGenuine /\ QuietBetweenMatches
      /\ StopNeverGivesUp /\ NothingLeftBehind /\ JobInHand /\ ProcessInHand
      /\ accepted \subseteq Match
  BY DEF Inv, TypeOK
<1>1. /\ UNCHANGED <<executor, process, canceled, inbox, jobs, outcome, accepted, won, lost>>
      /\ server.pc = "result"
  BY DEF GetResult, historyVars
<1>2. PICK next \in {"publish", "cancel"} :
        /\ server' = Stopping(server.job, next)
        /\ next = "publish" => process.leader = "succeeded"
        /\ Exited \/ canceled
  BY DEF GetResult, Exited
<1>3. server'.pc = "stop" /\ server'.job = server.job /\ server'.next = next
  BY <1>2 DEF Stopping
<1>4. TypeOK'
  <2>1. server.job \in Job BY <1>0 DEF TypeOK, ServerState
  <2>2. server' \in ServerState BY <1>2, <2>1, ServerRecords
  <2>3. faults' \in 0 .. MaxFaults BY <1>0, FaultsBounded DEF GetResult, TypeOK
  <2> QED BY <1>0, <1>1, <2>2, <2>3 DEF TypeOK
<1>5. (AcceptedJobAnswered /\ ResultIsGenuine)'
  BY <1>0, <1>1, <1>2, <1>3 DEF AcceptedJobAnswered, ResultIsGenuine, JobInHand
<1>6. (QuietBetweenMatches /\ StopNeverGivesUp)'
  BY <1>0, <1>1, <1>2, <1>3 DEF QuietBetweenMatches, StopNeverGivesUp, Exited, ProcessInHand
<1>7. NothingLeftBehind'
  BY <1>0, <1>1, <1>2, <1>3 DEF NothingLeftBehind
<1>8. JobInHand'
  BY <1>0, <1>1, <1>2, <1>3 DEF JobInHand
<1>9. ProcessInHand'
  BY <1>0, <1>1, <1>2, <1>3 DEF ProcessInHand
<1> QED BY <1>4, <1>5, <1>6, <1>7, <1>8, <1>9 DEF Inv

\* Stop returns for an exited process, or goes to wait for one it has killed.
LEMMA StopServerStep == ASSUME Inv, StopServer PROVE Inv'
<1>0. /\ TypeOK /\ AcceptedJobAnswered /\ ResultIsGenuine /\ QuietBetweenMatches
      /\ StopNeverGivesUp /\ NothingLeftBehind /\ JobInHand /\ ProcessInHand
      /\ accepted \subseteq Match
  BY DEF Inv, TypeOK
<1>1. /\ UNCHANGED <<canceled, inbox, jobs, outcome, faults, accepted, won, lost>>
      /\ server.pc = "stop"
  BY DEF StopServer, historyVars
<1>2. /\ server.job \in Job /\ server.next \in {"publish", "cancel", "closed"}
      /\ process \in ProcessState /\ executor \in ExecutorState /\ server \in ServerState
  BY <1>0, <1>1 DEF TypeOK, JobInHand, ServerState
<1>3. \/ /\ executor' = Inactive /\ server' = At(server.next, server.job)
         /\ process'.leader \in {"none", "succeeded", "failed"} /\ process'.leader = process.leader
      \/ /\ executor' = executor /\ executor.cmd = "started"
         /\ server' = [server EXCEPT !.pc = "reap"]
         /\ canceled /\ server.next # "closed" /\ process'.leader # "running"
         /\ process'.leader \in {process.leader, "killed"}
  <2>1. CASE executor.cmd = "started"
    <3>1. executor.active /\ process' = KillGroup(process)
      BY <1>0, <2>1 DEF StopServer, ProcessInHand
    <3>2. process'.leader = (IF process.leader = "running" THEN "killed" ELSE process.leader)
      BY <1>2, <3>1 DEF KillGroup, ProcessState
    <3>3. Exited \/ (canceled /\ server.next # "closed")
      BY <1>0, <1>1, <2>1 DEF StopNeverGivesUp
    <3> QED BY <2>1, <3>1, <3>2, <3>3 DEF StopServer, Stopped, Exited
  <2>2. CASE executor.cmd # "started"
    <3>1. process.leader \in {"none", "succeeded", "failed"}
      BY <1>0, <1>2, <2>2 DEF ProcessInHand, ProcessState
    <3> QED BY <2>2, <3>1 DEF StopServer, Stopped
  <2> QED BY <2>1, <2>2
<1>4. process' \in ProcessState /\ ~ process'.children /\ process'.match = process.match
  <2>1. KillGroup(process) \in ProcessState /\ ~ KillGroup(process).children
        /\ KillGroup(process).match = process.match
    BY <1>2 DEF KillGroup, ProcessState
  <2>2. process' = KillGroup(process) \/ (process' = process /\ executor.cmd # "started")
    BY <1>0 DEF StopServer, ProcessInHand
  <2> QED BY <1>0, <1>2, <2>1, <2>2 DEF ProcessInHand
<1>5. \/ /\ executor' = Inactive /\ executor'.cmd = "none" /\ ~ executor'.active
         /\ server'.pc = server.next /\ server'.job = server.job /\ server'.next = "none"
      \/ /\ executor' = executor /\ executor.cmd = "started"
         /\ server'.pc = "reap" /\ server'.job = server.job /\ server'.next = server.next
         /\ server.next # "closed" /\ canceled
  BY <1>2, <1>3 DEF At, Inactive, ServerState
<1>6. TypeOK'
  <2>1. executor' \in ExecutorState
    <3>1. Inactive \in ExecutorState BY DEF Inactive, ExecutorState
    <3> QED BY <1>2, <1>3, <3>1
  <2>2. server' \in ServerState
    <3>1. [server EXCEPT !.pc = "reap"] \in ServerState BY <1>2 DEF ServerState
    <3> QED BY <1>2, <1>3, <3>1, ServerRecords
  <2> QED BY <1>0, <1>1, <1>4, <2>1, <2>2 DEF TypeOK
<1>7. (AcceptedJobAnswered /\ ResultIsGenuine)'
  BY <1>0, <1>1, <1>2, <1>3, <1>4, <1>5 DEF AcceptedJobAnswered, ResultIsGenuine, JobInHand
<1>8. (QuietBetweenMatches /\ StopNeverGivesUp)'
  BY <1>0, <1>1, <1>2, <1>3, <1>4, <1>5 DEF QuietBetweenMatches, StopNeverGivesUp, Exited, ProcessInHand
<1>9. NothingLeftBehind'
  BY <1>0, <1>1, <1>2, <1>3, <1>4, <1>5 DEF NothingLeftBehind
<1>10. JobInHand'
  BY <1>0, <1>1, <1>2, <1>3, <1>4, <1>5 DEF JobInHand
<1>11. ProcessInHand'
  BY <1>0, <1>1, <1>2, <1>3, <1>4, <1>5 DEF ProcessInHand
<1> QED BY <1>6, <1>7, <1>8, <1>9, <1>10, <1>11 DEF Inv

\* Stop returns for a process it has killed, which has exited now.
LEMMA ReapStep == ASSUME Inv, Reap PROVE Inv'
<1>0. /\ TypeOK /\ AcceptedJobAnswered /\ ResultIsGenuine /\ QuietBetweenMatches
      /\ StopNeverGivesUp /\ NothingLeftBehind /\ JobInHand /\ ProcessInHand
      /\ accepted \subseteq Match
  BY DEF Inv, TypeOK
<1>1. /\ UNCHANGED <<process, canceled, inbox, jobs, outcome, faults, accepted, won, lost>>
      /\ server.pc = "reap" /\ Exited
      /\ executor' = Inactive /\ server' = At(server.next, server.job)
  BY DEF Reap, Stopped, historyVars
<1>2. server.job \in Job /\ server.next \in {"publish", "cancel"}
  BY <1>0, <1>1 DEF TypeOK, JobInHand, ProcessInHand, ServerState
<1>3. /\ server'.pc = server.next /\ server'.job = server.job /\ server'.next = "none"
      /\ executor'.cmd = "none" /\ ~ executor'.active
  BY <1>1 DEF At, Inactive
<1>4. TypeOK'
  <2>1. executor' \in ExecutorState BY <1>1 DEF Inactive, ExecutorState
  <2>2. server' \in ServerState BY <1>1, <1>2, ServerRecords
  <2> QED BY <1>0, <1>1, <2>1, <2>2 DEF TypeOK
<1>5. (AcceptedJobAnswered /\ ResultIsGenuine)'
  BY <1>0, <1>1, <1>2, <1>3 DEF AcceptedJobAnswered, ResultIsGenuine, JobInHand
<1>6. (QuietBetweenMatches /\ StopNeverGivesUp)'
  BY <1>0, <1>1, <1>2, <1>3 DEF QuietBetweenMatches, StopNeverGivesUp, Exited, ProcessInHand
<1>7. NothingLeftBehind'
  BY <1>0, <1>1, <1>2, <1>3 DEF NothingLeftBehind
<1>8. JobInHand'
  BY <1>0, <1>1, <1>2, <1>3 DEF JobInHand
<1>9. ProcessInHand'
  BY <1>0, <1>1, <1>2, <1>3 DEF ProcessInHand, Exited
<1> QED BY <1>4, <1>5, <1>6, <1>7, <1>8, <1>9 DEF Inv

\* The result of a match whose process exited with 0 is on the stream, or the
\* match is to be canceled.
LEMMA SendResultStep == ASSUME Inv, SendResult PROVE Inv'
<1>0. /\ TypeOK /\ AcceptedJobAnswered /\ ResultIsGenuine /\ QuietBetweenMatches
      /\ StopNeverGivesUp /\ NothingLeftBehind /\ JobInHand /\ ProcessInHand
      /\ accepted \subseteq Match
  BY DEF Inv, TypeOK
<1>1. /\ UNCHANGED <<executor, process, canceled, inbox, jobs, accepted, won, lost>>
      /\ server.pc = "publish"
  BY DEF SendResult, historyVars
<1>2. /\ server.job \in Match /\ server.job \in accepted /\ server.job \in won
      /\ outcome[server.job] = "none" /\ server.next = "none"
  BY <1>0, <1>1 DEF JobInHand, ProcessInHand
<1>3. /\ \/ outcome' = [outcome EXCEPT ![server.job] = "result"]
         \/ outcome' = outcome /\ server' = At("cancel", server.job)
      /\ server' = Iterate \/ server' = At("cancel", server.job)
  BY <1>2 DEF SendResult, ResultStored
<1>4. outcome \in [Match -> {"none", "result", "cancel", "result, cancel"}]
  BY <1>0 DEF TypeOK
<1>5. /\ \A m \in Match : m # server.job => outcome'[m] = outcome[m]
      /\ outcome'[server.job] \in {"none", "result"}
      /\ outcome'[server.job] = "none" => server' = At("cancel", server.job)
  BY <1>2, <1>3, <1>4
<1>6. \/ /\ server'.pc = "cancel" /\ server'.next = "none" /\ server'.job = server.job
      \/ /\ outcome'[server.job] = "result" /\ server'.job = NoMatch
         /\ \/ server'.pc = "fetch" /\ server'.next = "none"
            \/ server'.pc = "stop" /\ server'.next = "closed"
  <2>1. CASE server' = Iterate BY <1>5, <2>1, Iterates DEF At
  <2>2. CASE server' = At("cancel", server.job) BY <2>2 DEF At
  <2> QED BY <1>3, <2>1, <2>2
<1>7. TypeOK'
  <2>1. server' \in ServerState BY <1>2, <1>3, ServerRecords, Iterates
  <2>2. faults' \in 0 .. MaxFaults BY <1>0, FaultsBounded DEF SendResult, TypeOK
  <2>3. outcome' \in [Match -> {"none", "result", "cancel", "result, cancel"}]
    BY <1>2, <1>3, <1>4
  <2> QED BY <1>0, <1>1, <2>1, <2>2, <2>3 DEF TypeOK
<1>8. (AcceptedJobAnswered /\ ResultIsGenuine)'
  BY <1>0, <1>1, <1>2, <1>5, <1>6 DEF AcceptedJobAnswered, ResultIsGenuine, JobInHand
<1>9. (QuietBetweenMatches /\ StopNeverGivesUp)'
  BY <1>0, <1>1, <1>2, <1>5, <1>6 DEF QuietBetweenMatches, StopNeverGivesUp, Exited, ProcessInHand
<1>10. NothingLeftBehind'
  BY <1>0, <1>1, <1>2, <1>5, <1>6 DEF NothingLeftBehind
<1>11. JobInHand'
  BY <1>0, <1>1, <1>2, <1>5, <1>6 DEF JobInHand
<1>12. ProcessInHand'
  BY <1>0, <1>1, <1>2, <1>5, <1>6 DEF ProcessInHand
<1> QED BY <1>7, <1>8, <1>9, <1>10, <1>11, <1>12 DEF Inv

\* The match is canceled on the stream, or lost.
LEMMA SendCancelStep == ASSUME Inv, SendCancel PROVE Inv'
<1>0. /\ TypeOK /\ AcceptedJobAnswered /\ ResultIsGenuine /\ QuietBetweenMatches
      /\ StopNeverGivesUp /\ NothingLeftBehind /\ JobInHand /\ ProcessInHand
      /\ accepted \subseteq Match
  BY DEF Inv, TypeOK
<1>1. /\ UNCHANGED <<executor, process, canceled, inbox, jobs, accepted, won>>
      /\ server.pc = "cancel" /\ server' = Iterate
  BY DEF SendCancel
<1>2. /\ server.job \in Match /\ server.job \in accepted
      /\ outcome[server.job] \in {"none", "result"} /\ server.next = "none"
  BY <1>0, <1>1 DEF JobInHand
<1>3. \/ /\ outcome' = [outcome EXCEPT ![server.job] = IF @ = "none" THEN "cancel" ELSE "result, cancel"]
         /\ lost' = lost
      \/ outcome' = outcome /\ lost' = lost \cup {server.job}
  BY DEF SendCancel, CancelStored
<1>4. outcome \in [Match -> {"none", "result", "cancel", "result, cancel"}]
  BY <1>0 DEF TypeOK
<1>5. /\ \A m \in Match : m # server.job => outcome'[m] = outcome[m]
      /\ outcome'[server.job] # "none" \/ server.job \in lost'
      /\ outcome'[server.job] = "result, cancel" => outcome[server.job] = "result"
      /\ outcome'[server.job] = "result" => outcome[server.job] = "result"
      /\ lost \subseteq lost'
  BY <1>2, <1>3, <1>4
<1>6. /\ server'.job = NoMatch
      /\ \/ server'.pc = "fetch" /\ server'.next = "none"
         \/ server'.pc = "stop" /\ server'.next = "closed"
  BY <1>1, Iterates
<1>7. TypeOK'
  <2>1. server' \in ServerState BY <1>1, Iterates
  <2>2. faults' \in 0 .. MaxFaults BY <1>0, FaultsBounded DEF SendCancel, TypeOK
  <2>3. outcome' \in [Match -> {"none", "result", "cancel", "result, cancel"}]
    BY <1>2, <1>3, <1>4
  <2>4. lost' \subseteq Match BY <1>0, <1>2, <1>3 DEF TypeOK
  <2> QED BY <1>0, <1>1, <2>1, <2>2, <2>3, <2>4 DEF TypeOK
<1>8. (AcceptedJobAnswered /\ ResultIsGenuine)'
  BY <1>0, <1>1, <1>2, <1>5, <1>6 DEF AcceptedJobAnswered, ResultIsGenuine, JobInHand
<1>9. (QuietBetweenMatches /\ StopNeverGivesUp)'
  BY <1>0, <1>1, <1>2, <1>5, <1>6 DEF QuietBetweenMatches, StopNeverGivesUp, Exited, ProcessInHand
<1>10. NothingLeftBehind'
  BY <1>0, <1>1, <1>2, <1>5, <1>6 DEF NothingLeftBehind
<1>11. JobInHand'
  BY <1>0, <1>1, <1>2, <1>5, <1>6 DEF JobInHand
<1>12. ProcessInHand'
  BY <1>0, <1>1, <1>2, <1>5, <1>6 DEF ProcessInHand
<1> QED BY <1>7, <1>8, <1>9, <1>10, <1>11, <1>12 DEF Inv

\* A new job is in the buffer, or dropped.
LEMMA RequestStep == ASSUME Inv, Request PROVE Inv'
<1>0. /\ TypeOK /\ AcceptedJobAnswered /\ ResultIsGenuine /\ QuietBetweenMatches
      /\ StopNeverGivesUp /\ NothingLeftBehind /\ JobInHand /\ ProcessInHand
      /\ accepted \subseteq Match
  BY DEF Inv, TypeOK
<1>1. /\ UNCHANGED <<server, executor, process, canceled, outcome, faults, accepted, won, lost>>
  BY DEF Request, loopVars, historyVars
<1>2. PICK m \in Match \ jobs :
        /\ jobs' = jobs \cup {m}
        /\ inbox' = <<m>> \/ inbox' = inbox
  BY DEF Request
<1>3. TypeOK'
  <2>1. inbox' \in Seq(Match) /\ Len(inbox') <= 1
    <3>1. inbox \in Seq(Match) /\ Len(inbox) <= 1 BY <1>0 DEF TypeOK
    <3>2. Len(<<m>>) = 1 /\ Len(<<m>>) <= 1 OBVIOUS
    <3>3. <<m>> \in Seq(Match) OBVIOUS
    <3>4. CASE inbox' = <<m>> BY <3>2, <3>3, <3>4, Zenon
    <3>5. CASE inbox' = inbox BY <3>1, <3>5, Zenon
    <3> QED BY <1>2, <3>4, <3>5
  <2>2. jobs' \subseteq Match BY <1>0, <1>2 DEF TypeOK
  <2> QED BY <1>0, <1>1, <2>1, <2>2 DEF TypeOK
<1>4. inbox' # <<>> => inbox'[1] \in jobs' \ accepted
  <2>1. CASE inbox' = <<m>>
    <3>1. accepted \subseteq jobs BY <1>0 DEF JobInHand
    <3>2. <<m>>[1] = m OBVIOUS
    <3> QED BY <1>2, <2>1, <3>1, <3>2
  <2>2. CASE inbox' = inbox BY <1>0, <1>2, <2>2 DEF JobInHand
  <2> QED BY <1>2, <2>1, <2>2
<1>5. (AcceptedJobAnswered /\ ResultIsGenuine)'
  BY <1>0, <1>1, <1>2, <1>4 DEF AcceptedJobAnswered, ResultIsGenuine, JobInHand
<1>6. (QuietBetweenMatches /\ StopNeverGivesUp)'
  BY <1>0, <1>1, <1>2, <1>4 DEF QuietBetweenMatches, StopNeverGivesUp, Exited, ProcessInHand
<1>7. NothingLeftBehind'
  BY <1>0, <1>1, <1>2, <1>4 DEF NothingLeftBehind
<1>8. JobInHand'
  BY <1>0, <1>1, <1>2, <1>4 DEF JobInHand
<1>9. ProcessInHand'
  BY <1>0, <1>1, <1>2, <1>4 DEF ProcessInHand
<1> QED BY <1>3, <1>5, <1>6, <1>7, <1>8, <1>9 DEF Inv

\* A running process is that of the job in hand: its end is noted for it.
LEMMA ProcessRunsStep == ASSUME Inv, ProcessRuns PROVE Inv'
<1>0. /\ TypeOK /\ AcceptedJobAnswered /\ ResultIsGenuine /\ QuietBetweenMatches
      /\ StopNeverGivesUp /\ NothingLeftBehind /\ JobInHand /\ ProcessInHand
      /\ accepted \subseteq Match
  BY DEF Inv, TypeOK
<1>1. /\ UNCHANGED <<server, executor, canceled, inbox, jobs, outcome, faults, accepted, lost>>
      /\ process.leader = "running"
  BY DEF ProcessRuns, loopVars
<1>2. process \in ProcessState /\ won \subseteq Match
  BY <1>0 DEF TypeOK
<1>3. /\ executor.cmd = "started" /\ process.match = server.job /\ server.pc \in {"result", "stop"}
      /\ process.match \in Match
  <2>1. executor.cmd = "started" /\ process.match = server.job /\ server.pc \in {"result", "stop"}
        /\ server.next # "closed"
    BY <1>0, <1>1 DEF ProcessInHand, JobInHand
  <2>2. server.job # NoMatch BY <1>0, <2>1 DEF JobInHand
  <2> QED BY <1>2, <2>1, <2>2 DEF ProcessState
<1>4. /\ process' \in ProcessState /\ process'.match = process.match
      /\ process'.leader \in {"running", "failed", "succeeded"}
      /\ IF process'.leader = "succeeded" THEN won' = won \cup {process.match} ELSE won' = won
  <2>1. CASE process' = [process EXCEPT !.children = TRUE] /\ UNCHANGED won
    BY <1>1, <1>2, <2>1 DEF ProcessState
  <2>2. CASE process' = [process EXCEPT !.leader = "failed"] /\ UNCHANGED won
    BY <1>2, <2>2 DEF ProcessState
  <2>3. CASE process' = [process EXCEPT !.leader = "succeeded"] /\ won' = won \cup {process.match}
    BY <1>2, <2>3 DEF ProcessState
  <2> QED BY <2>1, <2>2, <2>3 DEF ProcessRuns
<1>5. TypeOK'
  <2>1. won' \subseteq Match BY <1>2, <1>3, <1>4
  <2> QED BY <1>0, <1>1, <1>4, <2>1 DEF TypeOK
<1>6. (AcceptedJobAnswered /\ ResultIsGenuine)'
  BY <1>0, <1>1, <1>3, <1>4 DEF AcceptedJobAnswered, ResultIsGenuine, JobInHand
<1>7. (QuietBetweenMatches /\ StopNeverGivesUp)'
  BY <1>0, <1>1, <1>3, <1>4 DEF QuietBetweenMatches, StopNeverGivesUp, Exited, ProcessInHand
<1>8. NothingLeftBehind'
  BY <1>0, <1>1, <1>3, <1>4 DEF NothingLeftBehind
<1>9. JobInHand'
  BY <1>0, <1>1, <1>3, <1>4 DEF JobInHand
<1>10. ProcessInHand'
  BY <1>0, <1>1, <1>3, <1>4 DEF ProcessInHand
<1> QED BY <1>5, <1>6, <1>7, <1>8, <1>9, <1>10 DEF Inv

\* A killed process exits while Stop waits for it.
LEMMA ProcessDiesStep == ASSUME Inv, ProcessDies PROVE Inv'
<1>0. /\ TypeOK /\ AcceptedJobAnswered /\ ResultIsGenuine /\ QuietBetweenMatches
      /\ StopNeverGivesUp /\ NothingLeftBehind /\ JobInHand /\ ProcessInHand
      /\ accepted \subseteq Match
  BY DEF Inv, TypeOK
<1>1. /\ UNCHANGED <<server, executor, canceled, inbox, jobs, outcome, faults, accepted, won, lost>>
      /\ process.leader = "killed" /\ process' = [process EXCEPT !.leader = "failed"]
  BY DEF ProcessDies, loopVars, historyVars
<1>2. /\ process' \in ProcessState /\ process'.leader = "failed"
      /\ process'.match = process.match /\ process'.children = process.children
  <2>1. process \in ProcessState BY <1>0 DEF TypeOK
  <2> QED BY <1>1, <2>1 DEF ProcessState
<1>3. TypeOK'
  BY <1>0, <1>1, <1>2 DEF TypeOK
<1>4. (AcceptedJobAnswered /\ ResultIsGenuine)'
  BY <1>0, <1>1, <1>2 DEF AcceptedJobAnswered, ResultIsGenuine, JobInHand
<1>5. (QuietBetweenMatches /\ StopNeverGivesUp)'
  BY <1>0, <1>1, <1>2 DEF QuietBetweenMatches, StopNeverGivesUp, Exited, ProcessInHand
<1>6. NothingLeftBehind'
  BY <1>0, <1>1, <1>2 DEF NothingLeftBehind
<1>7. JobInHand'
  BY <1>0, <1>1, <1>2 DEF JobInHand
<1>8. ProcessInHand'
  BY <1>0, <1>1, <1>2 DEF ProcessInHand
<1> QED BY <1>3, <1>4, <1>5, <1>6, <1>7, <1>8 DEF Inv

\* A signal sets ctx only.
LEMMA TerminateStep == ASSUME Inv, Terminate PROVE Inv'
<1>0. /\ TypeOK /\ AcceptedJobAnswered /\ ResultIsGenuine /\ QuietBetweenMatches
      /\ StopNeverGivesUp /\ NothingLeftBehind /\ JobInHand /\ ProcessInHand
      /\ accepted \subseteq Match
  BY DEF Inv, TypeOK
<1>1. /\ UNCHANGED <<server, executor, process, inbox, jobs, outcome, faults, accepted, won, lost>>
      /\ canceled' = TRUE
  BY DEF Terminate, loopVars, historyVars
<1>2. TypeOK'
  BY <1>0, <1>1 DEF TypeOK
<1>3. (AcceptedJobAnswered /\ ResultIsGenuine)'
  BY <1>0, <1>1 DEF AcceptedJobAnswered, ResultIsGenuine, JobInHand
<1>4. (QuietBetweenMatches /\ StopNeverGivesUp)'
  BY <1>0, <1>1 DEF QuietBetweenMatches, StopNeverGivesUp, Exited, ProcessInHand
<1>5. NothingLeftBehind'
  BY <1>0, <1>1 DEF NothingLeftBehind
<1>6. JobInHand'
  BY <1>0, <1>1 DEF JobInHand
<1>7. ProcessInHand'
  BY <1>0, <1>1 DEF ProcessInHand
<1> QED BY <1>2, <1>3, <1>4, <1>5, <1>6, <1>7 DEF Inv

\* A restarted container has nothing in hand: what its host had is lost.
LEMMA RestartStep == ASSUME Inv, Restart PROVE Inv'
<1>0. /\ TypeOK /\ AcceptedJobAnswered /\ ResultIsGenuine /\ QuietBetweenMatches
      /\ StopNeverGivesUp /\ NothingLeftBehind /\ JobInHand /\ ProcessInHand
      /\ accepted \subseteq Match
  BY DEF Inv, TypeOK
<1>1. /\ UNCHANGED <<jobs, outcome, accepted, won>>
      /\ server' = At("open", NoMatch) /\ executor' = Inactive /\ process' = NoProcess
      /\ canceled' = FALSE /\ inbox' = <<>>
      /\ lost' = lost \cup ({server.job} \ {NoMatch})
  BY DEF Restart
<1>2. /\ server'.pc = "open" /\ server'.job = NoMatch /\ server'.next = "none"
      /\ ~ executor'.active /\ executor'.cmd = "none" /\ executor' = Inactive
      /\ process'.leader = "none" /\ ~ process'.children
  BY <1>1 DEF At, Inactive, NoProcess
<1>3. TypeOK'
  <2>1. server' \in ServerState BY <1>1 DEF At, ServerState
  <2>2. executor' \in ExecutorState BY <1>1 DEF Inactive, ExecutorState
  <2>3. process' \in ProcessState BY <1>1 DEF NoProcess, ProcessState
  <2>4. server.job \in Job /\ lost \subseteq Match BY <1>0 DEF TypeOK, ServerState
  <2>5. lost' \subseteq Match BY <1>1, <2>4
  <2>6. faults' \in 0 .. MaxFaults
    <3>1. faults \in 0 .. MaxFaults BY <1>0 DEF TypeOK
    <3> QED BY <3>1 DEF Restart
  <2>7. inbox' \in Seq(Match) /\ Len(inbox') <= 1 BY <1>1, EmptySeq
  <2>8. canceled' \in BOOLEAN BY <1>1
  <2> QED BY <1>0, <1>1, <2>1, <2>2, <2>3, <2>5, <2>6, <2>7, <2>8 DEF TypeOK
<1>4. (AcceptedJobAnswered /\ ResultIsGenuine)'
  BY <1>0, <1>1, <1>2 DEF AcceptedJobAnswered, ResultIsGenuine, JobInHand
<1>5. (QuietBetweenMatches /\ StopNeverGivesUp)'
  BY <1>0, <1>1, <1>2 DEF QuietBetweenMatches, StopNeverGivesUp, Exited, ProcessInHand
<1>6. NothingLeftBehind'
  BY <1>0, <1>1, <1>2 DEF NothingLeftBehind
<1>7. JobInHand'
  BY <1>0, <1>1, <1>2 DEF JobInHand
<1>8. ProcessInHand'
  BY <1>0, <1>1, <1>2 DEF ProcessInHand
<1> QED BY <1>3, <1>4, <1>5, <1>6, <1>7, <1>8 DEF Inv

-----------------------------------------------------------------------------
\* Every behaviour of the game server keeps the invariant.
THEOREM GameServerInvariance == Spec => []Inv
<1>1. Init => Inv
  <2> SUFFICES ASSUME Init PROVE Inv
    OBVIOUS
  <2>1. server \in ServerState /\ executor \in ExecutorState /\ process \in ProcessState
    BY DEF Init, At, Inactive, NoProcess, ServerState, ExecutorState, ProcessState
  <2>2. inbox \in Seq(Match) /\ Len(inbox) <= 1 BY EmptySeq DEF Init
  <2>3. TypeOK
    <3>1. outcome \in [Match -> {"none", "result", "cancel", "result, cancel"}] BY DEF Init
    <3>2. faults \in 0 .. MaxFaults BY DEF Init
    <3> QED BY <2>1, <2>2, <3>1, <3>2 DEF Init, TypeOK
  <2>4. /\ server.pc = "open" /\ server.job = NoMatch /\ server.next = "none"
        /\ ~ executor.active /\ executor.cmd = "none" /\ executor = Inactive
        /\ process.leader = "none" /\ ~ process.children
    BY DEF Init, At, Inactive, NoProcess
  <2>5. /\ AcceptedJobAnswered /\ ResultIsGenuine /\ QuietBetweenMatches
        /\ StopNeverGivesUp /\ NothingLeftBehind
    BY <2>4 DEF Init, AcceptedJobAnswered, ResultIsGenuine, QuietBetweenMatches,
                StopNeverGivesUp, NothingLeftBehind
  <2>6. JobInHand /\ ProcessInHand BY <2>4 DEF Init, JobInHand, ProcessInHand
  <2> QED BY <2>3, <2>5, <2>6 DEF Inv
<1>2. ASSUME Inv, UNCHANGED vars PROVE Inv'
  BY <1>2 DEF vars, loopVars, historyVars, Inv, TypeOK, AcceptedJobAnswered, ResultIsGenuine,
              QuietBetweenMatches, StopNeverGivesUp, NothingLeftBehind, JobInHand,
              ProcessInHand, Exited
<1>3. Inv /\ [Next]_vars => Inv'
  BY <1>2, OpenStep, GetMatchConfigStep, FetchCanceledStep, StartStep, GetResultStep,
     StopServerStep, ReapStep, SendResultStep, SendCancelStep, RequestStep, ProcessRunsStep,
     ProcessDiesStep, TerminateStep, RestartStep
     DEF Next, Run
<1> QED BY <1>1, <1>3, PTL DEF Spec

\* The variables keep their types, the subscription its one message.
THEOREM GameServerTypes == Spec => []TypeOK
<1>1. Inv => TypeOK BY DEF Inv
<1> QED BY <1>1, GameServerInvariance, PTL

\* An acknowledged job is in hand until it has an outcome, or its outcome is
\* lost by a failing broker or a killed container.
THEOREM AcceptedJobsAreAnswered == Spec => []AcceptedJobAnswered
<1>1. Inv => AcceptedJobAnswered BY DEF Inv
<1> QED BY <1>1, GameServerInvariance, PTL

\* A result is published only of a match whose own process succeeded.
THEOREM ResultsAreGenuine == Spec => []ResultIsGenuine
<1>1. Inv => ResultIsGenuine BY DEF Inv
<1> QED BY <1>1, GameServerInvariance, PTL

\* No process of a match survives into the next one.
THEOREM MatchesDoNotOverlap == Spec => []QuietBetweenMatches
<1>1. Inv => QuietBetweenMatches BY DEF Inv
<1> QED BY <1>1, GameServerInvariance, PTL

\* stopServer never runs into its timeout.
THEOREM StopDoesNotGiveUp == Spec => []StopNeverGivesUp
<1>1. Inv => StopNeverGivesUp BY DEF Inv
<1> QED BY <1>1, GameServerInvariance, PTL

\* The host ends without an active executor or a file.
THEOREM ExecutorIsCleanedUp == Spec => []NothingLeftBehind
<1>1. Inv => NothingLeftBehind BY DEF Inv
<1> QED BY <1>1, GameServerInvariance, PTL

\* The loop has a job exactly while it is unanswered.
THEOREM JobsAreInHand == Spec => []JobInHand
<1>1. Inv => JobInHand BY DEF Inv
<1> QED BY <1>1, GameServerInvariance, PTL

\* A process belongs to the job in hand.
THEOREM ProcessesAreInHand == Spec => []ProcessInHand
<1>1. Inv => ProcessInHand BY DEF Inv
<1> QED BY <1>1, GameServerInvariance, PTL

-----------------------------------------------------------------------------
(* The game server implements MatchOutcome. *)

\* Only Request, SendResult and SendCancel are seen on the broker.
LEMMA StepImplements ==
  ASSUME Inv, [Next]_vars
  PROVE  [Owed!Next]_<<jobs, outcome>>
<1>0. /\ JobInHand /\ accepted \subseteq Match
      /\ outcome \in [Match -> {"none", "result", "cancel", "result, cancel"}]
  BY DEF Inv, TypeOK
<1>1. CASE Request
  <2>1. PICK m \in Match \ jobs : jobs' = jobs \cup {m} BY <1>1 DEF Request
  <2>2. Owed!Request(m) BY <1>1, <2>1 DEF Request, Owed!Request
  <2> QED BY <2>1, <2>2 DEF Owed!Next
<1>2. CASE SendResult
  <2>1. server.job \in Match /\ server.job \in jobs /\ outcome[server.job] = "none"
    BY <1>0, <1>2 DEF SendResult, JobInHand
  <2>2. \/ outcome' = [outcome EXCEPT ![server.job] = "result"]
        \/ outcome' = outcome
    BY <1>2, <2>1 DEF SendResult, ResultStored
  <2>3. jobs' = jobs BY <1>2 DEF SendResult
  <2>4. CASE outcome' = outcome BY <2>3, <2>4
  <2>5. CASE outcome' # outcome
    <3>1. Owed!Publish(server.job) BY <2>1, <2>2, <2>3, <2>5 DEF Owed!Publish
    <3> QED BY <2>1, <3>1 DEF Owed!Next
  <2> QED BY <2>4, <2>5
<1>3. CASE SendCancel
  <2>1. /\ server.job \in Match /\ server.job \in jobs
        /\ outcome[server.job] \in {"none", "result"}
    BY <1>0, <1>3 DEF SendCancel, JobInHand
  <2>2. \/ outcome' = [outcome EXCEPT ![server.job] = IF @ = "none" THEN "cancel" ELSE "result, cancel"]
        \/ outcome' = outcome
    BY <1>3 DEF SendCancel, CancelStored
  <2>3. jobs' = jobs BY <1>3 DEF SendCancel
  <2>4. CASE outcome' = outcome BY <2>3, <2>4
  <2>5. CASE outcome' # outcome
    <3>1. CASE outcome[server.job] = "none"
      <4>1. Owed!Publish(server.job) BY <2>1, <2>2, <2>3, <2>5, <3>1 DEF Owed!Publish
      <4> QED BY <2>1, <4>1 DEF Owed!Next
    <3>2. CASE outcome[server.job] = "result"
      <4>1. Owed!CancelAfterResult(server.job)
        BY <2>1, <2>2, <2>3, <2>5, <3>2 DEF Owed!CancelAfterResult
      <4> QED BY <2>1, <4>1 DEF Owed!Next
    <3> QED BY <2>1, <3>1, <3>2
  <2> QED BY <2>4, <2>5
<1>4. ASSUME ~ Request, ~ SendResult, ~ SendCancel PROVE UNCHANGED <<jobs, outcome>>
  BY <1>4 DEF Next, Run, Open, GetMatchConfig, FetchCanceled, Start, GetResult, StopServer,
              Reap, ProcessRuns, ProcessDies, Terminate, Restart, vars
<1> QED BY <1>1, <1>2, <1>3, <1>4

\* Seen from the broker the game server does what the manager expects: one
\* outcome for a job it was sent, after its request, and a cancel only behind it.
THEOREM GameServerKeepsMatchOutcome == Spec => KeepsMatchOutcome
<1>1. Init => Owed!Init
  BY DEF Init, Owed!Init
<1>2. Inv /\ [Next]_vars => [Owed!Next]_<<jobs, outcome>>
  BY StepImplements
<1> QED BY <1>1, <1>2, GameServerInvariance, PTL DEF Spec, KeepsMatchOutcome, Owed!Spec
-----------------------------------------------------------------------------
(* A canceled host ends. *)

\* A step of the loop under a canceled context is one of those that are left.
LEMMA WindsDownStep ==
  ASSUME Inv, Next, canceled, canceled'
  PROVE  StepsLeft' < StepsLeft \/ UNCHANGED server
<1>0. JobInHand /\ ProcessInHand /\ server \in ServerState BY DEF Inv, TypeOK
<1>1. \A pc, job : At(pc, job).pc = pc /\ At(pc, job) # Closing
  BY DEF At, Closing, Stopping
<1>2. Iterate = Closing /\ Closing.pc = "stop" BY DEF Iterate, Closing, Stopping
<1>3. \A pc, job : server' = At(pc, job) =>
        StepsLeft' = [open |-> 9, fetch |-> 8, start |-> 7, result |-> 6, stop |-> 5,
                      reap |-> 4, publish |-> 3, cancel |-> 2, closed |-> 0][pc]
  BY <1>1 DEF StepsLeft, Closing, Stopping
<1>4. server' = Closing => StepsLeft' = 1 BY DEF StepsLeft, Closing, Stopping
<1>5. server.pc # "stop" =>
        StepsLeft = [open |-> 9, fetch |-> 8, start |-> 7, result |-> 6, stop |-> 5,
                     reap |-> 4, publish |-> 3, cancel |-> 2, closed |-> 0][server.pc]
  BY <1>2 DEF StepsLeft
<1>6. CASE Open BY <1>3, <1>5, <1>6 DEF Open
<1>7. CASE GetMatchConfig BY <1>2, <1>3, <1>4, <1>5, <1>7 DEF GetMatchConfig
<1>8. CASE FetchCanceled BY <1>4, <1>5, <1>8 DEF FetchCanceled
<1>9. CASE Start BY <1>3, <1>5, <1>9 DEF Start
<1>10. CASE GetResult
  <2>1. /\ StepsLeft = 6 /\ server'.pc = "stop" BY <1>5, <1>10 DEF GetResult, Stopping
  <2>2. StepsLeft' \in {1, 5} BY <2>1 DEF StepsLeft, Closing, Stopping
  <2> QED BY <2>1, <2>2
<1>11. CASE StopServer
  <2>1. CASE server.next = "closed"
    <3>1. server = Closing /\ StepsLeft = 1
      BY <1>0, <1>11, <2>1 DEF StopServer, JobInHand, ServerState, Closing, Stopping, StepsLeft
    <3>2. server' = At("closed", NoMatch)
      BY <1>11, <3>1 DEF StopServer, Stopped, Closing, Stopping
    <3> QED BY <1>3, <3>1, <3>2
  <2>2. CASE server.next # "closed"
    <3>1. StepsLeft = 5
      BY <1>11, <2>2 DEF StopServer, StepsLeft, Closing, Stopping
    <3>2. server.next \in {"publish", "cancel"}
      BY <1>0, <1>11, <2>2 DEF StopServer, JobInHand, ServerState
    <3>3. CASE Stopped BY <1>3, <3>1, <3>2, <3>3 DEF Stopped
    <3>4. CASE server' = [server EXCEPT !.pc = "reap"]
      <4>1. server'.pc = "reap" BY <1>0, <3>4 DEF ServerState
      <4>2. StepsLeft' = 4 BY <4>1 DEF StepsLeft, Closing, Stopping
      <4> QED BY <3>1, <4>2
    <3> QED BY <1>11, <3>3, <3>4 DEF StopServer
  <2> QED BY <2>1, <2>2
<1>12. CASE Reap
  <2>1. server.next \in {"publish", "cancel"}
    BY <1>0, <1>12 DEF Reap, JobInHand, ProcessInHand, ServerState
  <2> QED BY <1>3, <1>5, <1>12, <2>1 DEF Reap, Stopped
<1>13. CASE SendResult BY <1>2, <1>3, <1>4, <1>5, <1>13 DEF SendResult
<1>14. CASE SendCancel BY <1>2, <1>4, <1>5, <1>14 DEF SendCancel
<1>15. CASE Request \/ ProcessRuns \/ ProcessDies \/ Terminate
  BY <1>15 DEF Request, ProcessRuns, ProcessDies, Terminate, loopVars
<1>16. ~ Restart BY DEF Restart
<1> QED BY <1>6, <1>7, <1>8, <1>9, <1>10, <1>11, <1>12, <1>13, <1>14, <1>15, <1>16
        DEF Next, Run

\* From the signal on the host takes at most nine steps of its loop, and with them
\* at most one more job.
THEOREM HostWindsDown == Spec => WindsDown
<1>1. Inv /\ [Next]_vars
        => [canceled /\ canceled' => StepsLeft' < StepsLeft \/ UNCHANGED server]_vars
  BY WindsDownStep
<1> QED BY <1>1, GameServerInvariance, PTL DEF Spec, WindsDown

\* Stop waits without a limit only for a process that is dead or dying.
THEOREM ReapEndsSoon == Spec => []ReapEnds
<1>1. Init => ReapEnds
  BY DEF Init, ReapEnds, Inactive, At
<1>2. ASSUME Inv, ReapEnds, [Next]_vars PROVE ReapEnds'
  <2>0. ProcessInHand /\ server \in ServerState /\ process \in ProcessState
        /\ executor \in ExecutorState
    BY <1>2 DEF Inv, TypeOK
  <2> USE <1>2 DEF ReapEnds
  <2>1. CASE Open \/ GetMatchConfig \/ FetchCanceled \/ SendResult \/ SendCancel
    <3>1. UNCHANGED <<executor, process>> /\ server'.pc # "reap"
      BY <2>1 DEF Open, GetMatchConfig, FetchCanceled, SendResult, SendCancel, Iterate, Closing,
         Stopping, At
    <3> QED BY <3>1
  <2>2. CASE Start
    BY <2>2 DEF Start, At
  <2>3. CASE GetResult
    BY <2>3 DEF GetResult, Stopping
  <2>4. CASE StopServer
    <3>1. process'.leader = process.leader \/ process'.leader = "killed"
      BY <2>0, <2>4 DEF StopServer, KillGroup, ProcessState
    <3>2. CASE Stopped
      BY <2>0, <2>4, <3>2 DEF Stopped, Inactive, At, StopServer, ServerState, ProcessInHand
    <3>3. CASE server'.pc = "reap" /\ UNCHANGED executor /\ executor.cmd = "started"
      <4>1. process' = KillGroup(process) BY <2>0, <2>4, <3>3 DEF StopServer, Stopped, Inactive
      <4>2. process.leader # "none" BY <3>3
      <4> QED BY <2>0, <4>1, <4>2, <3>3 DEF KillGroup, ProcessState, Exited
    <3> QED BY <2>0, <2>4, <3>2, <3>3 DEF StopServer, ServerState
  <2>5. CASE Reap
    BY <2>0, <2>5 DEF Reap, Stopped, Inactive, At, ServerState
  <2>6. CASE ProcessRuns \/ ProcessDies
    BY <2>0, <2>6 DEF ProcessRuns, ProcessDies, ProcessState, loopVars, Exited
  <2>7. CASE Restart BY <2>7 DEF Restart, Inactive, At
  <2>8. CASE Request \/ Terminate \/ UNCHANGED vars
    BY <2>8 DEF Request, Terminate, loopVars, vars, Exited
  <2> QED BY <2>1, <2>2, <2>3, <2>4, <2>5, <2>6, <2>7, <2>8 DEF Next, Run
<1> QED BY <1>1, <1>2, GameServerInvariance, PTL DEF Spec
=============================================================================
