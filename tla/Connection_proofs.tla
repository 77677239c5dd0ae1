------------------------- MODULE Connection_proofs --------------------------
(***************************************************************************)
(* The watchdog of Connection: its misses are misses in a row, for every   *)
(* number of misses tolerated and every behaviour of the client.           *)
(***************************************************************************)
EXTENDS Connection, TLAPS

\* Before a connection is closed its misses are within the number tolerated, and
\* a ping that is waited for is one of those that may be sent.
WithinBounds ==
  /\ state # "CLOSED" => missedPongs <= maxMissedPongs /\ closed = "no"
  /\ state = "INIT" => ~ waitingForPing
  /\ state = "OPEN" /\ waitingForPing => pingSeq < MaxPings

Inv == TypeOK /\ WithinBounds /\ DeadlineSet /\ HeardBelow /\ MissesInARow

\* The actions of the server that close a connection and change nothing else that
\* the invariants of the misses speak of.
Closes ==
  \/ sendPingFails \/ sendMatchAndClose \/ close \/ onClose
  \/ open /\ state' = "CLOSED"

World == Pong \/ UnsolicitedPong \/ FallSilent \/ SocketCloses

-----------------------------------------------------------------------------
\* Initially no ping was sent and nothing was missed.
LEMMA Initially == Init => Inv
<1> SUFFICES ASSUME Init PROVE Inv
  OBVIOUS
<1>0. maxMissedPongs \in Nat /\ MaxPings \in Nat BY ConnectionAssumption DEF ConnectionAssumption
<1>1. TypeOK
  <2>1. pings \in Seq(0 .. MaxPings) /\ pongs \in Seq(-1 .. MaxPings) BY DEF Init
  <2>2. pingSeq \in 0 .. MaxPings /\ missedPongs \in 0 .. maxMissedPongs + 1 BY <1>0 DEF Init
  <2> QED BY <2>1, <2>2 DEF Init, TypeOK
<1>2. WithinBounds /\ DeadlineSet /\ HeardBelow BY <1>0 DEF Init, WithinBounds, DeadlineSet, HeardBelow
<1>3. MissesInARow
  <2>1. pingSeq - missedPongs .. pingSeq - 1 = {} BY DEF Init
  <2> QED BY <2>1 DEF Init, MissesInARow
<1> QED BY <1>1, <1>2, <1>3 DEF Inv

\* The client and the network touch the frames only.
LEMMA WorldStep == ASSUME Inv, World PROVE Inv'
<1>0. TypeOK /\ WithinBounds /\ DeadlineSet /\ HeardBelow /\ MissesInARow
  BY DEF Inv
<1>1. UNCHANGED <<serverVars, heard>>
  BY DEF World, Pong, UnsolicitedPong, FallSilent, SocketCloses
<1>2. /\ readyState' \in {"OPEN", "CLOSED"}
      /\ pings' \in Seq(0 .. MaxPings)
      /\ pongs' \in Seq(-1 .. MaxPings)
      /\ client' \in {"answers", "silent"}
  <2>1. CASE Pong
    <3>1. Head(pings) \in -1 .. MaxPings
      BY <1>0, <2>1, ConnectionAssumption DEF TypeOK, Pong, ConnectionAssumption
    <3> QED BY <1>0, <2>1, <3>1 DEF TypeOK, Pong, serverVars
  <2>2. CASE UnsolicitedPong BY <1>0, <2>2 DEF TypeOK, UnsolicitedPong, serverVars
  <2>3. CASE FallSilent BY <1>0, <2>3 DEF TypeOK, FallSilent, serverVars
  <2>4. CASE SocketCloses BY <1>0, <2>4 DEF TypeOK, SocketCloses, serverVars
  <2> QED BY <2>1, <2>2, <2>3, <2>4 DEF World
<1>3. TypeOK' BY <1>0, <1>1, <1>2 DEF TypeOK, serverVars
<1>4. (WithinBounds /\ DeadlineSet /\ HeardBelow /\ MissesInARow)'
  BY <1>0, <1>1 DEF WithinBounds, DeadlineSet, HeardBelow, MissesInARow, serverVars
<1> QED BY <1>3, <1>4 DEF Inv

\* A soft close stops both timers and leaves the misses as they are.
LEMMA ClosesStep == ASSUME Inv, Closes PROVE Inv'
<1>0. TypeOK /\ WithinBounds /\ DeadlineSet /\ HeardBelow /\ MissesInARow
  BY DEF Inv
<1>1. /\ state' = "CLOSED" /\ closed' = "soft"
      /\ pingTimer' = "none" /\ pongTimer' = "none"
      /\ waitingForPing' \in BOOLEAN /\ sent' \in BOOLEAN
      /\ UNCHANGED <<pingSeq, missedPongs, worldVars, heard>>
  <2>0. waitingForPing \in BOOLEAN /\ sent \in BOOLEAN BY <1>0 DEF TypeOK
  <2>1. CASE sendPingFails BY <2>0, <2>1 DEF sendPingFails, CloseConnection
  <2>2. CASE sendMatchAndClose BY <2>0, <2>2 DEF sendMatchAndClose, CloseConnection
  <2>3. CASE close BY <2>0, <2>3 DEF close, CloseConnection
  <2>4. CASE onClose BY <2>0, <2>4 DEF onClose, CloseConnection
  <2>5. CASE open /\ state' = "CLOSED" BY <2>0, <2>5 DEF open, CloseConnection
  <2> QED BY <2>1, <2>2, <2>3, <2>4, <2>5 DEF Closes
<1>2. TypeOK' BY <1>0, <1>1 DEF TypeOK, worldVars
<1>3. (WithinBounds /\ DeadlineSet)' BY <1>1 DEF WithinBounds, DeadlineSet
<1>4. (HeardBelow /\ MissesInARow)' BY <1>0, <1>1 DEF HeardBelow, MissesInARow
<1> QED BY <1>2, <1>3, <1>4 DEF Inv

\* A connection starts without misses, its first ping still to be sent.
LEMMA OpenStep == ASSUME Inv, open, state' # "CLOSED" PROVE Inv'
<1>0. TypeOK /\ WithinBounds /\ DeadlineSet /\ HeardBelow /\ MissesInARow
  BY DEF Inv
<1>1. /\ state = "INIT" /\ state' = "OPEN" /\ pingTimer' = "set"
      /\ UNCHANGED <<pongTimer, closed, pingSeq, missedPongs, waitingForPing, sent, worldVars, heard>>
  BY DEF open, CloseConnection
<1>2. TypeOK' BY <1>0, <1>1 DEF TypeOK, worldVars
<1>3. (WithinBounds /\ DeadlineSet)' BY <1>0, <1>1 DEF WithinBounds, DeadlineSet
<1>4. (HeardBelow /\ MissesInARow)' BY <1>0, <1>1 DEF HeardBelow, MissesInARow
<1> QED BY <1>2, <1>3, <1>4 DEF Inv

\* A ping is waited for with its deadline.
LEMMA SendPingStep == ASSUME Inv, sendPing PROVE Inv'
<1>0. TypeOK /\ WithinBounds /\ DeadlineSet /\ HeardBelow /\ MissesInARow
  BY DEF Inv
<1>1. TypeOK'
  <2>1. pingSeq \in 0 .. MaxPings /\ pings \in Seq(0 .. MaxPings) BY <1>0 DEF TypeOK
  <2>2. pings' \in Seq(0 .. MaxPings) BY <2>1 DEF sendPing
  <2> QED BY <1>0, <2>2 DEF TypeOK, sendPing
<1>2. (WithinBounds /\ DeadlineSet)' BY <1>0 DEF WithinBounds, DeadlineSet, sendPing
<1>3. (HeardBelow /\ MissesInARow)' BY <1>0 DEF HeardBelow, MissesInARow, sendPing
<1> QED BY <1>1, <1>2, <1>3 DEF Inv

\* The awaited pong ends the misses, with its number the latest one heard.  Any
\* other pong changes nothing.
LEMMA OnPongStep == ASSUME Inv, onPong PROVE Inv'
<1>0. TypeOK /\ WithinBounds /\ DeadlineSet /\ HeardBelow /\ MissesInARow
  BY DEF Inv
<1>1. UNCHANGED <<state, pingTimer, closed, sent, readyState, pings, client>>
  BY DEF onPong
<1>2. pongs' \in Seq(-1 .. MaxPings) BY <1>0 DEF TypeOK, onPong
<1>3. CASE state = "OPEN" /\ IsAwaited(Head(pongs))
  <2>1. /\ waitingForPing /\ pingSeq < MaxPings /\ pingSeq \in Nat
        /\ waitingForPing' = FALSE /\ missedPongs' = 0
        /\ pingSeq' = pingSeq + 1 /\ pongTimer' = "none"
        /\ heard' = heard \cup {pingSeq}
    <3>1. MaxPings \in Nat /\ pingSeq \in 0 .. MaxPings
      BY <1>0, ConnectionAssumption DEF TypeOK, ConnectionAssumption
    <3>2. waitingForPing /\ Head(pongs) = pingSeq BY <1>3 DEF IsAwaited
    <3>4. /\ waitingForPing' = FALSE /\ missedPongs' = 0
          /\ pingSeq' = pingSeq + 1 /\ pongTimer' = "none"
          /\ heard' = heard \cup {Head(pongs)}
      BY <1>3 DEF onPong
    <3>3. pingSeq < MaxPings BY <1>0, <1>3, <3>2 DEF WithinBounds
    <3> QED BY <3>1, <3>2, <3>3, <3>4
  <2>2. TypeOK'
    <3>1. maxMissedPongs \in Nat /\ MaxPings \in Nat BY ConnectionAssumption DEF ConnectionAssumption
    <3>2. heard \subseteq 0 .. MaxPings BY <1>0 DEF TypeOK
    <3>3. pingSeq' \in 0 .. MaxPings /\ missedPongs' \in 0 .. maxMissedPongs + 1 BY <2>1, <3>1
    <3>4. heard' \subseteq 0 .. MaxPings BY <2>1, <3>1, <3>2
    <3> QED BY <1>0, <1>1, <1>2, <2>1, <3>3, <3>4 DEF TypeOK
  <2>3. (WithinBounds /\ DeadlineSet)'
    BY <1>0, <1>1, <1>3, <2>1, ConnectionAssumption DEF WithinBounds, DeadlineSet, ConnectionAssumption
  <2>4. heard \subseteq Nat BY <1>0 DEF TypeOK
  <2>5. HeardBelow' BY <1>0, <2>1, <2>4 DEF HeardBelow
  <2>6. MissesInARow'
    <3>1. closed' # "hard" BY <1>0, <1>1, <1>3 DEF WithinBounds
    <3>2. pingSeq' - missedPongs' .. pingSeq' - 1 = {} BY <2>1
    <3>3. pingSeq' - missedPongs' - 1 = pingSeq BY <2>1
    <3> QED BY <2>1, <3>1, <3>2, <3>3 DEF MissesInARow
  <2> QED BY <2>2, <2>3, <2>5, <2>6 DEF Inv
<1>4. CASE ~ (state = "OPEN" /\ IsAwaited(Head(pongs)))
  <2>1. UNCHANGED <<waitingForPing, missedPongs, pingSeq, pongTimer, heard>>
    BY <1>4 DEF onPong
  <2>2. TypeOK' BY <1>0, <1>1, <1>2, <2>1 DEF TypeOK
  <2>3. (WithinBounds /\ DeadlineSet /\ HeardBelow /\ MissesInARow)'
    BY <1>0, <1>1, <2>1 DEF WithinBounds, DeadlineSet, HeardBelow, MissesInARow
  <2> QED BY <2>2, <2>3 DEF Inv
<1> QED BY <1>3, <1>4

\* A miss adds its ping to the row; the one too many ends the connection.
LEMMA OnPongMissStep == ASSUME Inv, onPongMiss PROVE Inv'
<1>0. TypeOK /\ WithinBounds /\ DeadlineSet /\ HeardBelow /\ MissesInARow
  BY DEF Inv
<1>1. /\ maxMissedPongs \in Nat /\ MaxPings \in Nat
      /\ pingSeq \in Nat /\ missedPongs \in Nat /\ heard \subseteq Nat
  BY <1>0, ConnectionAssumption DEF TypeOK, ConnectionAssumption
<1>2. /\ state = "OPEN" /\ waitingForPing /\ pingSeq < MaxPings /\ missedPongs <= maxMissedPongs
      /\ closed = "no"
      /\ waitingForPing' = FALSE
      /\ missedPongs' = missedPongs + 1
      /\ pingSeq' = pingSeq + 1
      /\ UNCHANGED <<sent, worldVars, heard>>
  BY <1>0 DEF onPongMiss, WaitingAfterMiss, WithinBounds
<1>3. \/ /\ missedPongs' = maxMissedPongs + 1
         /\ state' = "CLOSED" /\ closed' = "hard"
         /\ pingTimer' = "none" /\ pongTimer' = "none"
      \/ /\ missedPongs' <= maxMissedPongs
         /\ state' = "OPEN" /\ closed' = "no"
         /\ pingTimer' = pingTimer /\ pongTimer' = "none"
  <2>1. CASE TooMany(missedPongs + 1)
    BY <1>1, <1>2, <2>1 DEF onPongMiss, TooMany, CloseConnection
  <2>2. CASE ~ TooMany(missedPongs + 1)
    BY <1>1, <1>2, <2>2 DEF onPongMiss, TooMany
  <2> QED BY <2>1, <2>2
<1>4. TypeOK'
  <2>1. pingSeq' \in 0 .. MaxPings /\ missedPongs' \in 0 .. maxMissedPongs + 1 BY <1>1, <1>2, <1>3
  <2>2. pingTimer' \in {"none", "set"} /\ pongTimer' \in {"none", "set"} BY <1>0, <1>3 DEF TypeOK
  <2>3. /\ state' \in {"INIT", "OPEN", "CLOSED"}
        /\ closed' \in {"no", "soft", "hard"}
        /\ waitingForPing' \in BOOLEAN
    BY <1>2, <1>3
  <2> QED BY <1>0, <1>2, <2>1, <2>2, <2>3 DEF TypeOK, worldVars
<1>5. (WithinBounds /\ DeadlineSet)' BY <1>0, <1>2, <1>3 DEF WithinBounds, DeadlineSet
<1>6. HeardBelow' BY <1>0, <1>1, <1>2 DEF HeardBelow
<1>7. MissesInARow'
  <2>1. pingSeq \notin heard BY <1>0, <1>1 DEF HeardBelow
  <2>2. pingSeq' - missedPongs' = pingSeq - missedPongs BY <1>1, <1>2
  <2>3. ASSUME NEW seq \in pingSeq' - missedPongs' .. pingSeq' - 1 PROVE seq \notin heard'
    <3>1. seq = pingSeq \/ seq \in pingSeq - missedPongs .. pingSeq - 1 BY <1>1, <1>2, <2>2
    <3> QED BY <1>0, <1>2, <2>1, <3>1 DEF MissesInARow
  <2>4. missedPongs' <= pingSeq' /\ (missedPongs' < pingSeq' => pingSeq' - missedPongs' - 1 \in heard')
    BY <1>0, <1>1, <1>2, <2>2 DEF MissesInARow
  <2>5. closed' = "hard" => missedPongs' = maxMissedPongs + 1 BY <1>3
  <2> QED BY <2>3, <2>4, <2>5 DEF MissesInARow
<1> QED BY <1>4, <1>5, <1>6, <1>7 DEF Inv

-----------------------------------------------------------------------------
\* Every behaviour of the watchdog keeps the invariant.
THEOREM WatchdogInvariance == Spec => []Inv
<1>1. ASSUME Inv, [Next]_vars PROVE Inv'
  <2>1. CASE World BY <1>1, <2>1, WorldStep
  <2>2. CASE Closes BY <1>1, <2>2, ClosesStep
  <2>3. CASE open /\ state' # "CLOSED" BY <1>1, <2>3, OpenStep
  <2>4. CASE sendPing BY <1>1, <2>4, SendPingStep
  <2>5. CASE onPong BY <1>1, <2>5, OnPongStep
  <2>6. CASE onPongMiss BY <1>1, <2>6, OnPongMissStep
  <2>7. CASE UNCHANGED vars
    BY <1>1, <2>7 DEF vars, serverVars, worldVars, Inv, TypeOK, WithinBounds, DeadlineSet,
                      HeardBelow, MissesInARow
  <2> QED BY <1>1, <2>1, <2>2, <2>3, <2>4, <2>5, <2>6, <2>7 DEF Next, World, Closes
<1> QED BY <1>1, Initially, PTL DEF Spec

\* The misses that end a connection are maxMissedPongs + 1 in a row: no late and
\* no invented pong is counted for one, and no pong in time is overlooked.
THEOREM OnlyMissesInARowCount == Spec => []MissesInARow
<1>1. Inv => MissesInARow BY DEF Inv
<1> QED BY <1>1, WatchdogInvariance, PTL

\* A ping that is waited for has its deadline, and no timer outlives the connection.
THEOREM DeadlinesAreSet == Spec => []DeadlineSet
<1>1. Inv => DeadlineSet BY DEF Inv
<1> QED BY <1>1, WatchdogInvariance, PTL

\* Misses and ping numbers stay within their bounds, and a connection in any state
\* has a well-formed timer and queue of frames.
THEOREM WatchdogTypes == Spec => []TypeOK
<1>1. Inv => TypeOK BY DEF Inv
<1> QED BY <1>1, WatchdogInvariance, PTL
=============================================================================
