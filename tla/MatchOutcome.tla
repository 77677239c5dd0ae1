---------------------------- MODULE MatchOutcome ----------------------------
(***************************************************************************)
(* What a game server owes the rest of the system, seen on the broker: the *)
(* jobs it was sent and what the stream RESULT holds about each of them.   *)
(* A job gets one outcome, or none; only a result whose publication looked *)
(* failed to the game server is followed by a cancel.                      *)
(***************************************************************************)
CONSTANT Match

VARIABLES
  jobs,      \* matches whose job was sent to the game server
  outcome    \* what it published about each match, in this order

Outcomes == {"none", "result", "cancel", "result, cancel"}

Init == jobs = {} /\ outcome = [m \in Match |-> "none"]

Request(m) ==
  /\ m \notin jobs
  /\ jobs' = jobs \cup {m}
  /\ UNCHANGED outcome

Publish(m) ==
  /\ m \in jobs
  /\ outcome[m] = "none"
  /\ \E o \in {"result", "cancel"} : outcome' = [outcome EXCEPT ![m] = o]
  /\ UNCHANGED jobs

CancelAfterResult(m) ==
  /\ outcome[m] = "result"
  /\ outcome' = [outcome EXCEPT ![m] = "result, cancel"]
  /\ UNCHANGED jobs

Next == \E m \in Match : Request(m) \/ Publish(m) \/ CancelAfterResult(m)

Spec == Init /\ [][Next]_<<jobs, outcome>>
=============================================================================
