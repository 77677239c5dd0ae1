----------------------------- MODULE Connection -----------------------------
(***************************************************************************)
(* The Connection of api/src/lib/server/connection.js: one accepted        *)
(* websocket with its ping and pong watchdog.                              *)
(*                                                                         *)
(* Timers fire in any order the callbacks allow: the interval of the pings *)
(* and the deadline of the pong are not related to each other or to the    *)
(* time a ping and its pong take.  A control frame travels in order, and   *)
(* the client answers when it likes, or sends pongs nobody asked for.      *)
(***************************************************************************)
EXTENDS Integers, Sequences

CONSTANTS maxMissedPongs,   \* options.maxMissedPongs
          MaxPings,         \* bound: sequence numbers used
          MaxPongs          \* bound: pongs on the way at one time

ASSUME ConnectionAssumption ==
  /\ maxMissedPongs \in Nat
  /\ MaxPings \in Nat
  /\ MaxPongs \in Nat

VARIABLES
  state,           \* this.#state
  pingTimer,       \* the interval of sendPing is set
  pongTimer,       \* the deadline of onPongMiss is set
  pingSeq,
  missedPongs,
  waitingForPing,
  closed,          \* how the connection was closed
  sent,            \* the match payload was sent
  \* the websocket and the client
  readyState,      \* of the websocket
  pings, pongs,    \* frames under way
  client,          \* whether the client still answers pings
  \* history
  heard            \* sequences whose pong came while it was waited for

serverVars == <<state, pingTimer, pongTimer, pingSeq, missedPongs, waitingForPing, closed, sent>>
worldVars == <<readyState, pings, pongs, client>>
vars == <<serverVars, worldVars, heard>>

Init ==
  /\ state = "INIT"
  /\ pingTimer = "none" /\ pongTimer = "none"
  /\ pingSeq = 0
  /\ missedPongs = 0
  /\ waitingForPing = FALSE
  /\ closed = "no"
  /\ sent = FALSE
  /\ readyState \in {"OPEN", "CLOSED"}
  /\ pings = <<>> /\ pongs = <<>>
  /\ client = "answers"
  /\ heard = {}

\* close and cleanup; terminate for a hard close.
CloseConnection(how) ==
  /\ state' = "CLOSED"
  /\ closed' = how
  /\ pingTimer' = "none" /\ pongTimer' = "none"

-----------------------------------------------------------------------------
open ==
  /\ state = "INIT"
  /\ \/ /\ readyState = "OPEN"
        /\ state' = "OPEN"
        /\ pingTimer' = "set"
        /\ UNCHANGED <<pongTimer, closed>>
     \/ /\ readyState # "OPEN"
        /\ CloseConnection("soft")
  /\ UNCHANGED <<pingSeq, missedPongs, waitingForPing, sent, worldVars, heard>>

\* sendPing, as far as it sends one.
sendPing ==
  /\ pingTimer = "set" /\ state = "OPEN" /\ readyState = "OPEN"
  /\ ~ waitingForPing
  /\ pingSeq < MaxPings
  /\ waitingForPing' = TRUE
  /\ pings' = Append(pings, pingSeq)
  /\ pongTimer' = "set"
  /\ UNCHANGED <<state, pingTimer, pingSeq, missedPongs, closed, sent, readyState, pongs,
                 client, heard>>

\* sendPing finds the websocket closed, or ws.ping throws.
sendPingFails ==
  /\ pingTimer = "set" /\ state = "OPEN"
  /\ \/ readyState # "OPEN" /\ UNCHANGED waitingForPing
     \/ readyState = "OPEN" /\ ~ waitingForPing /\ waitingForPing' = TRUE
  /\ CloseConnection("soft")
  /\ UNCHANGED <<pingSeq, missedPongs, sent, worldVars, heard>>

\* Broken variant: a pong of an earlier ping will do.
IsAwaitedUpTo(seq) == waitingForPing /\ seq \in 0 .. pingSeq

\* The pong onPong accepts.
IsAwaited(seq) == waitingForPing /\ seq = pingSeq

\* onPong; a pong that is not awaited is ignored.
onPong ==
  /\ pongs # <<>>
  /\ pongs' = Tail(pongs)
  /\ \/ /\ state = "OPEN" /\ IsAwaited(Head(pongs))
        /\ waitingForPing' = FALSE
        /\ missedPongs' = 0
        /\ pingSeq' = pingSeq + 1
        /\ pongTimer' = "none"
        /\ heard' = heard \cup {Head(pongs)}
     \/ /\ ~ (state = "OPEN" /\ IsAwaited(Head(pongs)))
        /\ UNCHANGED <<waitingForPing, missedPongs, pingSeq, pongTimer, heard>>
  /\ UNCHANGED <<state, pingTimer, closed, sent, readyState, pings, client>>

\* Broken variant: the next ping waits for the missed one.
WaitingAfterMissKept == waitingForPing

TooMany(missed) == missed > maxMissedPongs
WaitingAfterMiss == FALSE

\* onPongMiss.  It reads pingSeq when it fires, so that its sequence is always
\* the current one: what keeps it from counting twice is that the timer is
\* cleared with every pong.
onPongMiss ==
  /\ pongTimer = "set" /\ state = "OPEN" /\ waitingForPing
  /\ waitingForPing' = WaitingAfterMiss
  /\ missedPongs' = missedPongs + 1
  /\ pingSeq' = pingSeq + 1
  /\ IF TooMany(missedPongs + 1)
     THEN CloseConnection("hard")
     ELSE pongTimer' = "none" /\ UNCHANGED <<state, closed, pingTimer>>
  /\ UNCHANGED <<sent, worldVars, heard>>

\* sendMatchAndClose: closes whether or not the payload could be sent.
sendMatchAndClose ==
  /\ state = "OPEN"
  /\ sent' \in IF readyState = "OPEN" THEN BOOLEAN ELSE {FALSE}
  /\ CloseConnection("soft")
  /\ UNCHANGED <<pingSeq, missedPongs, waitingForPing, worldVars, heard>>

\* close, called by the registry.
close ==
  /\ state # "CLOSED"
  /\ CloseConnection("soft")
  /\ UNCHANGED <<pingSeq, missedPongs, waitingForPing, sent, worldVars, heard>>

\* The close or error event of the websocket.
onClose ==
  /\ state = "OPEN" /\ readyState # "OPEN"
  /\ CloseConnection("soft")
  /\ UNCHANGED <<pingSeq, missedPongs, waitingForPing, sent, worldVars, heard>>

-----------------------------------------------------------------------------
(* The client and the network *)

Pong ==
  /\ client = "answers" /\ readyState = "OPEN"
  /\ pings # <<>> /\ Len(pongs) < MaxPongs
  /\ pings' = Tail(pings)
  /\ pongs' = Append(pongs, Head(pings))
  /\ UNCHANGED <<serverVars, readyState, client, heard>>

\* A pong for no ping, or with a payload that is not a sequence: -1.
UnsolicitedPong ==
  /\ client = "answers" /\ readyState = "OPEN" /\ Len(pongs) < MaxPongs
  /\ \E seq \in -1 .. MaxPings : pongs' = Append(pongs, seq)
  /\ UNCHANGED <<serverVars, readyState, pings, client, heard>>

\* The client can no longer be heard, without the websocket being closed.
FallSilent ==
  /\ client = "answers"
  /\ client' = "silent"
  /\ UNCHANGED <<serverVars, readyState, pings, pongs, heard>>

SocketCloses ==
  /\ readyState = "OPEN"
  /\ readyState' = "CLOSED"
  /\ UNCHANGED <<serverVars, pings, pongs, client, heard>>

-----------------------------------------------------------------------------
Next ==
  \/ open \/ sendPing \/ sendPingFails \/ onPong \/ onPongMiss
  \/ sendMatchAndClose \/ close \/ onClose
  \/ Pong \/ UnsolicitedPong \/ FallSilent \/ SocketCloses

Spec == Init /\ [][Next]_vars

\* Timers fire and frames arrive.
Fairness ==
  /\ WF_vars(open)
  /\ WF_vars(sendPing \/ sendPingFails)
  /\ WF_vars(onPong)
  /\ WF_vars(onPongMiss)

FairSpec == Spec /\ Fairness

-----------------------------------------------------------------------------
(* Correctness. *)

TypeOK ==
  /\ state \in {"INIT", "OPEN", "CLOSED"}
  /\ pingTimer \in {"none", "set"}
  /\ pongTimer \in {"none", "set"}
  /\ pingSeq \in 0 .. MaxPings
  /\ missedPongs \in 0 .. maxMissedPongs + 1
  /\ waitingForPing \in BOOLEAN
  /\ closed \in {"no", "soft", "hard"}
  /\ sent \in BOOLEAN
  /\ readyState \in {"OPEN", "CLOSED"}
  /\ pings \in Seq(0 .. MaxPings)
  /\ pongs \in Seq(-1 .. MaxPings)
  /\ client \in {"answers", "silent"}
  /\ heard \subseteq 0 .. MaxPings

\* A ping that is waited for has its deadline, and only that one; a connection
\* that is not open has no timer left that could fire.
DeadlineSet ==
  /\ state = "OPEN" => /\ pingTimer = "set"
                       /\ waitingForPing <=> pongTimer = "set"
  /\ state # "OPEN" => pingTimer = "none" /\ pongTimer = "none"

\* The misses counted are the latest pings in a row: a client whose pong came in
\* time for one of them is not terminated, and a pong that comes late, or was
\* never asked for, does not make up for a miss.
MissesInARow ==
  /\ missedPongs <= pingSeq
  /\ \A seq \in pingSeq - missedPongs .. pingSeq - 1 : seq \notin heard
  /\ missedPongs < pingSeq => pingSeq - missedPongs - 1 \in heard
  /\ closed = "hard" => missedPongs = maxMissedPongs + 1

\* Pings are answered by the pong with their number.
HeardBelow == \A seq \in heard : seq < pingSeq

\* A client that has fallen silent is found out, its last pongs still under way
\* notwithstanding, whether or not the websocket says so.
SilenceIsNoticed == client = "silent" ~> state = "CLOSED" \/ pingSeq = MaxPings
=============================================================================
