------------------------------- MODULE Worker -------------------------------
(***************************************************************************)
(* The Worker struct of server-manager/app/worker.go: what the manager     *)
(* knows of one game-server container, and the pure state changes on it.   *)
(*                                                                         *)
(* Time is abstracted to what isStateValid tells apart: a state without a  *)
(* deadline ("always"), one whose deadline is ahead ("until") and one      *)
(* whose deadline has passed ("expired").                                  *)
(***************************************************************************)
EXTENDS Integers

CONSTANT MaxPingRetries     \* workerMaxPingRetries of the manager (3)

ASSUME MaxPingRetriesAssumption == MaxPingRetries \in Nat

\* The zero value of MatchID: the worker has no match.
NoMatch == 0

WorkerState == {"Free", "Occupied", "Restarting"}

\* The part of the struct that changes after NewWorker.
WorkerRecord ==
  [State : WorkerState, StateID : Nat, validity : {"always", "until", "expired"},
   MatchID : Nat, failCount : Nat]

NewWorker ==
  [State |-> "Free", StateID |-> 0, validity |-> "always",
   MatchID |-> NoMatch, failCount |-> 0]

\* Every Set... function enters a new state, numbered one above the last one,
\* and forgets the missed pings of the previous state.
EnterState(wk, state, validity, match) ==
  [State |-> state, StateID |-> wk.StateID + 1, validity |-> validity,
   MatchID |-> match, failCount |-> 0]

\* Broken variant: the free worker keeps its match.
SetFreeKeepsMatch(wk) == EnterState(wk, "Free", "always", wk.MatchID)

SetFree(wk) == EnterState(wk, "Free", "always", NoMatch)

SetRestarting(wk) == EnterState(wk, "Restarting", "until", NoMatch)

SetOccupied(wk, match) == EnterState(wk, "Occupied", "always", match)

HandlePong(wk, pong) ==
  IF wk.State = "Restarting"
  THEN wk
  ELSE [wk EXCEPT !.failCount = IF pong THEN 0 ELSE @ + 1]

\* Broken variant: no state has a deadline.
StateAlwaysValid(wk) == TRUE

isStateValid(wk) == wk.validity # "expired"

IsHealthy(wk) == isStateValid(wk) /\ wk.failCount <= MaxPingRetries

=============================================================================
