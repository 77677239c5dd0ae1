--------------------------- MODULE HomePage_proofs ---------------------------
(***************************************************************************)
(* What HomePage promises for any number of websockets, as consequences of *)
(* its inductive invariant.                                                *)
(***************************************************************************)
EXTENDS HomePage, TLAPS

\* A websocket is a number, and NoSocket is none of them.
LEMMA NoSocketIsNone == NoSocket \notin Socket
  BY HomePageAssumption DEF NoSocket, Socket

\* The values of intervals.
LEMMA NoneOrOne == 0 \in 0 .. 1 /\ 1 \in 0 .. 1
  OBVIOUS

\* What close() does to the page's state: whoever calls it, no websocket that
\* it knew as the current one is left to open, and Timer is stopped.
LEMMA CloseDrops ==
  ASSUME Inv, NEW states \in [Socket -> ReadyState], CloseFrom(states),
         \A s \in Socket : states[s] \in {"CONNECTING", "OPEN"} => s = socket
  PROVE  /\ socket' = NoSocket /\ timer' = FALSE /\ intervals' = 0
         /\ sockets' \in [Socket -> ReadyState]
         /\ NoOrphans'
<1>1. \A x \in ReadyState : Dropped(x) \in ReadyState \ {"CONNECTING", "OPEN"}
  BY DEF Dropped, ReadyState
<1>2. sockets' \in [Socket -> ReadyState]
  BY <1>1 DEF CloseFrom
<1>3. \A s \in Socket : sockets'[s] \notin {"CONNECTING", "OPEN"}
  BY <1>1 DEF CloseFrom
<1>4. intervals' = 0
  BY DEF CloseFrom, StopTimer, Inv, OneInterval
<1>5. socket' = NoSocket /\ timer' = FALSE
  BY DEF CloseFrom, StopTimer
<1> QED
  BY <1>2, <1>3, <1>4, <1>5 DEF NoOrphans

\* A close event ends the wait that is on, whichever websocket it is of.
LEMMA EndWaitInv ==
  ASSUME Inv, NEW s \in Socket, NEW error \in BOOLEAN, EndWait(s, error),
         UNCHANGED <<mounted, foundBy>>
  PROVE  Inv'
<1> DEFINE closed == [sockets EXCEPT ![s] = "CLOSED"]
<1>1. /\ closed \in [Socket -> ReadyState]
      /\ \A t \in Socket : closed[t] \in {"CONNECTING", "OPEN"} => t = socket
      /\ \A t \in Socket : t # s => closed[t] = sockets[t]
  BY DEF Inv, TypeOK, NoOrphans, ReadyState
<1>2. CASE /\ status = "PENDING" /\ status' = "NOT_ACTIVE"
           /\ errorMessage' = (errorMessage \/ error)
           /\ CloseFrom(closed)
  <2>1. /\ socket' = NoSocket /\ timer' = FALSE /\ intervals' = 0
        /\ sockets' \in [Socket -> ReadyState]
        /\ NoOrphans'
    BY <1>1, <1>2, CloseDrops
  <2>2. errorMessage' \in BOOLEAN
    BY <1>2
  <2>3. TypeOK'
    BY <1>2, <2>1, <2>2, NoneOrOne DEF Inv, TypeOK
  <2>4. WaitIsReal' /\ OneInterval'
    BY <1>2, <2>1 DEF WaitIsReal, OneInterval
  <2>5. MatchOfThisWait'
    BY <1>2 DEF Inv, MatchOfThisWait
  <2> QED
    BY <2>1, <2>3, <2>4, <2>5 DEF Inv
<1>3. CASE /\ status # "PENDING" /\ sockets' = closed
           /\ UNCHANGED <<status, errorMessage, socket, timer, intervals>>
  <2>1. TypeOK'
    BY <1>1, <1>3 DEF Inv, TypeOK
  <2>2. WaitIsReal' /\ OneInterval' /\ MatchOfThisWait'
    BY <1>3 DEF Inv, WaitIsReal, OneInterval, MatchOfThisWait
  <2>3. NoOrphans'
    BY <1>1, <1>3 DEF NoOrphans
  <2> QED
    BY <2>1, <2>2, <2>3 DEF Inv
<1> QED
  BY <1>2, <1>3 DEF EndWait

\* Every step keeps the invariant.
LEMMA NextInv == Inv /\ [Next]_vars => Inv'
<1> SUFFICES ASSUME Inv, [Next]_vars
             PROVE  Inv'
  OBVIOUS
<1> USE NoSocketIsNone
<1>1. CASE Start
  <2>1. PICK s \in Socket : /\ socket' = s
                            /\ sockets' = [sockets EXCEPT ![s] = "CONNECTING"]
    BY <1>1 DEF Start
  <2>2. ~ timer /\ socket = NoSocket
    BY <1>1 DEF Start, Inv, WaitIsReal
  <2>3. intervals' = 1 /\ timer' = TRUE /\ status' = "PENDING" /\ errorMessage' = FALSE
        /\ UNCHANGED <<mounted, foundBy>>
    BY <1>1, <2>2 DEF Start, Inv, OneInterval
  <2>4. sockets' \in [Socket -> ReadyState] /\ sockets'[s] = "CONNECTING"
    BY <2>1 DEF Inv, TypeOK, ReadyState
  <2>5. TypeOK'
    BY <2>1, <2>3, <2>4, NoneOrOne DEF Inv, TypeOK
  <2>6. WaitIsReal' /\ OneInterval'
    BY <2>1, <2>3, <2>4 DEF WaitIsReal, OneInterval
  <2>7. NoOrphans'
    BY <2>1, <2>2 DEF Inv, TypeOK, NoOrphans
  <2>8. MatchOfThisWait'
    BY <1>1, <2>3 DEF Start, Inv, MatchOfThisWait
  <2> QED
    BY <2>5, <2>6, <2>7, <2>8 DEF Inv
<1>2. CASE Cancel \/ Destroy
  <2>1. CloseFrom(sockets) /\ foundBy' = foundBy /\ errorMessage' = errorMessage
    BY <1>2 DEF Cancel, Destroy
  <2>2. /\ socket' = NoSocket /\ timer' = FALSE /\ intervals' = 0
        /\ sockets' \in [Socket -> ReadyState]
        /\ NoOrphans'
    BY <2>1, CloseDrops DEF Inv, TypeOK, NoOrphans
  <2>3. \/ mounted' = mounted /\ status = "PENDING" /\ status' = "NOT_ACTIVE"
        \/ mounted' = FALSE /\ status' = status
    BY <1>2 DEF Cancel, Destroy
  <2>4. TypeOK'
    BY <2>1, <2>2, <2>3, NoneOrOne DEF Inv, TypeOK
  <2>5. WaitIsReal' /\ OneInterval' /\ MatchOfThisWait'
    BY <2>1, <2>2, <2>3 DEF Inv, WaitIsReal, OneInterval, MatchOfThisWait
  <2> QED
    BY <2>2, <2>4, <2>5 DEF Inv
<1>3. CASE Reload
  <2>1. sockets' \in [Socket -> ReadyState]
    BY <1>3 DEF Reload, ReadyState
  <2>2. TypeOK'
    BY <1>3, <2>1, NoneOrOne DEF Reload, TypeOK
  <2>3. WaitIsReal' /\ OneInterval' /\ MatchOfThisWait' /\ NoOrphans'
    BY <1>3 DEF Reload, WaitIsReal, OneInterval, MatchOfThisWait, NoOrphans
  <2> QED
    BY <2>2, <2>3 DEF Inv
<1>4. ASSUME NEW s \in Socket, Opens(s) \/ ServerCloses(s)
      PROVE  Inv'
  <2>1. /\ UNCHANGED <<mounted, status, errorMessage, foundBy, socket, timer, intervals>>
        /\ \/ sockets[s] = "CONNECTING" /\ sockets' = [sockets EXCEPT ![s] = "OPEN"]
           \/ /\ sockets[s] \in {"closeOnOpen", "OPEN"}
              /\ sockets' = [sockets EXCEPT ![s] = "CLOSING"]
    BY <1>4 DEF Opens, ServerCloses, pageVars
  <2>2. TypeOK' /\ OneInterval' /\ MatchOfThisWait'
    BY <2>1 DEF Inv, TypeOK, OneInterval, MatchOfThisWait, ReadyState
  <2>3. WaitIsReal'
    BY <2>1 DEF Inv, TypeOK, WaitIsReal
  <2>4. NoOrphans'
    BY <2>1 DEF Inv, TypeOK, NoOrphans
  <2> QED
    BY <2>2, <2>3, <2>4 DEF Inv
<1>5. ASSUME NEW s \in Socket, Message(s)
      PROVE  Inv'
  <2>1. s = socket
    BY <1>5 DEF Message, Inv, NoOrphans
  <2> QED
    BY <1>5, <2>1 DEF Message, waitVars, Inv, TypeOK, WaitIsReal, OneInterval, NoOrphans,
                      MatchOfThisWait
<1>6. ASSUME NEW s \in Socket, Closes(s) \/ Fails(s)
      PROVE  Inv'
  <2>1. PICK error \in BOOLEAN : EndWait(s, error) /\ UNCHANGED <<mounted, foundBy>>
    BY <1>6 DEF Closes, Fails
  <2> QED
    BY <2>1, EndWaitInv
<1>7. CASE UNCHANGED vars
  BY <1>7 DEF vars, pageVars, waitVars, Inv, TypeOK, WaitIsReal, OneInterval, NoOrphans,
              MatchOfThisWait
<1> QED
  BY <1>1, <1>2, <1>3, <1>4, <1>5, <1>6, <1>7 DEF Next, Browser

\* The inductive invariant of the page holds whatever the user, the server and
\* the network do.
THEOREM HomePageInvariance == Spec => []Inv
<1>1. ASSUME Init
      PROVE  Inv
  <2>1. TypeOK
    BY <1>1, NoneOrOne DEF Init, TypeOK, ReadyState
  <2>2. WaitIsReal /\ OneInterval /\ NoOrphans /\ MatchOfThisWait
    BY <1>1 DEF Init, WaitIsReal, OneInterval, NoOrphans, MatchOfThisWait
  <2> QED
    BY <2>1, <2>2 DEF Inv
<1> QED
  BY <1>1, NextInv, PTL DEF Spec

\* Type correctness, with at most one ticking interval.
THEOREM HomePageTypes == Spec => []TypeOK
  BY HomePageInvariance, PTL DEF Inv

\* What the button offers is so: a wait has a websocket that lives.
THEOREM WaitsAreReal == Spec => []WaitIsReal
  BY HomePageInvariance, PTL DEF Inv

\* Timer's interval ticks exactly while the page counts the seconds of a wait.
THEOREM IntervalsDoNotAddUp == Spec => []OneInterval
  BY HomePageInvariance, PTL DEF Inv

\* A websocket the page has dropped closes, or will as soon as it opens.
THEOREM NoWebsocketIsOrphaned == Spec => []NoOrphans
  BY HomePageInvariance, PTL DEF Inv

\* A match is taken from the websocket of the current wait only.
THEOREM MatchesAreOfThisWait == Spec => []MatchOfThisWait
  BY HomePageInvariance, PTL DEF Inv
=============================================================================
