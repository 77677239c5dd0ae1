---------------------------- MODULE MatchDispatch ----------------------------
(***************************************************************************)
(* What the worker manager promises its caller, with none of its locks,    *)
(* loops or channels.  A match is requested once and dispatched to at most *)
(* one slot, at most once; a slot is vacated only when the outcome of its  *)
(* match has been reported to the save loop; nothing is reported of a      *)
(* match that was never requested, and what was reported stays reported.   *)
(***************************************************************************)
EXTENDS Integers

CONSTANTS Slot,     \* the workers
          Match     \* the match ids: positive numbers

\* What a slot does when it runs no match.
Idle == 0
Down == -1

VARIABLES slot,        \* what each slot does: Idle, Down or a match
          requested,   \* the matches whose job was handed to a game server
          dispatched,  \* the matches the caller was told are running
          reported     \* the matches whose outcome was handed to the save loop

vars == <<slot, requested, dispatched, reported>>

Init ==
  /\ slot = [s \in Slot |-> Idle]
  /\ requested = {}
  /\ dispatched = {}
  /\ reported = {}

Request(m) ==
  /\ m \notin requested
  /\ requested' = requested \cup {m}
  /\ UNCHANGED <<slot, dispatched, reported>>

Dispatch(s, m) ==
  /\ slot[s] = Idle
  /\ m \in requested \ dispatched
  /\ slot' = [slot EXCEPT ![s] = m]
  /\ dispatched' = dispatched \cup {m}
  /\ UNCHANGED <<requested, reported>>

\* An outcome arrives: of a running match, of one whose outcome is already
\* known, or of a match that was requested and never counted as dispatched.
Report(m) ==
  /\ m \in requested
  /\ reported' = reported \cup {m}
  /\ UNCHANGED <<slot, requested, dispatched>>

\* The slot's match is over, and its outcome is known.
Vacate(s) ==
  /\ slot[s] \in dispatched \cap reported
  /\ slot' = [slot EXCEPT ![s] = Idle]
  /\ UNCHANGED <<requested, dispatched, reported>>

\* The slot's match is canceled: reporting it and giving up the slot is one step.
Cancel(s) ==
  /\ slot[s] \in dispatched
  /\ slot' = [slot EXCEPT ![s] = Down]
  /\ reported' = reported \cup {slot[s]}
  /\ UNCHANGED <<requested, dispatched>>

BreakDown(s) ==
  /\ slot[s] = Idle
  /\ slot' = [slot EXCEPT ![s] = Down]
  /\ UNCHANGED <<requested, dispatched, reported>>

Recover(s) ==
  /\ slot[s] = Down
  /\ slot' = [slot EXCEPT ![s] = Idle]
  /\ UNCHANGED <<requested, dispatched, reported>>

Next ==
  \/ \E m \in Match : Request(m) \/ Report(m)
  \/ \E s \in Slot, m \in Match : Dispatch(s, m)
  \/ \E s \in Slot : Vacate(s) \/ Cancel(s) \/ BreakDown(s) \/ Recover(s)

Spec == Init /\ [][Next]_vars
=============================================================================
