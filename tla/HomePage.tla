------------------------------- MODULE HomePage -------------------------------
(***************************************************************************)
(* The home page while its user waits for a match: the classes Matchmaking *)
(* and Timer of routes/+page.svelte and the websockets they open one after *)
(* the other.  A websocket the page has dropped lives on until its close   *)
(* event, whose handler is the one of the page's only Matchmaking.         *)
(*                                                                         *)
(* Each event handler runs to its end before the next one (JavaScript).    *)
(* The browser gives no message to a websocket that is not open, and the   *)
(* error and the close event of one that failed in the same task.          *)
(***************************************************************************)
EXTENDS Naturals

CONSTANT MaxSockets    \* bound: websockets opened

ASSUME HomePageAssumption == MaxSockets \in Nat

Socket == 1 .. MaxSockets
NoSocket == 0

VARIABLES
  mounted,        \* the page is shown
  status, errorMessage, socket,
  timer,          \* Timer's #timer is set
  intervals,      \* intervals of the browser that tick
  sockets,        \* readyState of each; "closeOnOpen" is CONNECTING with the
                  \* onopen that close() sets
  foundBy         \* history: the websocket whose message was taken for the match

pageVars == <<mounted, status, errorMessage, foundBy>>
waitVars == <<socket, timer, intervals, sockets>>
vars == <<pageVars, waitVars>>

Init ==
  /\ mounted = TRUE
  /\ status \in {"NOT_ACTIVE", "FOUND"}
  /\ errorMessage = FALSE
  /\ socket = NoSocket
  /\ timer = FALSE /\ intervals = 0
  /\ sockets = [s \in Socket |-> "none"]
  /\ foundBy = NoSocket

-----------------------------------------------------------------------------
(* Matchmaking.close *)

\* Broken variants: nothing is done about a websocket that connects, or only
\* about that.
DroppedOpenOnly(state) == IF state = "OPEN" THEN "CLOSING" ELSE state
DroppedConnectingOnly(state) == IF state = "CONNECTING" THEN "closeOnOpen" ELSE state

\* What becomes of the websocket.
Dropped(state) ==
  CASE state = "CONNECTING" -> "closeOnOpen"
    [] state = "OPEN" -> "CLOSING"
    [] OTHER -> state

StopTimer ==
  /\ timer' = FALSE
  /\ intervals' = IF timer THEN intervals - 1 ELSE intervals

\* close(), when the websockets are as in states.
CloseFrom(states) ==
  /\ StopTimer
  /\ sockets' = [s \in Socket |-> IF s = socket THEN Dropped(states[s]) ELSE states[s]]
  /\ socket' = NoSocket

-----------------------------------------------------------------------------
(* The button *)

Unused(s) == sockets[s] = "none" /\ \A t \in 1 .. s - 1 : sockets[t] # "none"

\* #start
Start ==
  /\ mounted
  /\ status = "NOT_ACTIVE"
  /\ status' = "PENDING"
  /\ errorMessage' = FALSE
  /\ timer' = TRUE /\ intervals' = intervals + 1
  /\ \E s \in Socket :
       /\ Unused(s)
       /\ socket' = s
       /\ sockets' = [sockets EXCEPT ![s] = "CONNECTING"]
  /\ UNCHANGED <<mounted, foundBy>>

\* #cancel
Cancel ==
  /\ mounted
  /\ status = "PENDING"
  /\ status' = "NOT_ACTIVE"
  /\ CloseFrom(sockets)
  /\ UNCHANGED <<mounted, errorMessage, foundBy>>

-----------------------------------------------------------------------------
(* The events of a websocket *)

\* A dropped one closes as soon as it opens.
Opens(s) ==
  /\ \/ sockets[s] = "CONNECTING" /\ sockets' = [sockets EXCEPT ![s] = "OPEN"]
     \/ sockets[s] = "closeOnOpen" /\ sockets' = [sockets EXCEPT ![s] = "CLOSING"]
  /\ UNCHANGED <<pageVars, socket, timer, intervals>>

\* onmessage: the match.
Message(s) ==
  /\ sockets[s] = "OPEN"
  /\ status = "PENDING"
  /\ status' = "FOUND"
  /\ foundBy' = s
  /\ UNCHANGED <<mounted, errorMessage, waitVars>>

\* The server's close frame has arrived.
ServerCloses(s) ==
  /\ sockets[s] = "OPEN"
  /\ sockets' = [sockets EXCEPT ![s] = "CLOSING"]
  /\ UNCHANGED <<pageVars, socket, timer, intervals>>

\* Broken variant: only the status is reset.
EndWaitStatusOnly(s, error) ==
  LET closed == [sockets EXCEPT ![s] = "CLOSED"] IN
  /\ sockets' = closed
  /\ status' = IF status = "PENDING" THEN "NOT_ACTIVE" ELSE status
  /\ errorMessage' = (errorMessage \/ (status = "PENDING" /\ error))
  /\ UNCHANGED <<socket, timer, intervals>>

\* The handlers onclose and onerror, which look at the status, and not at which
\* websocket has closed.
EndWait(s, error) ==
  LET closed == [sockets EXCEPT ![s] = "CLOSED"] IN
  \/ /\ status = "PENDING"
     /\ status' = "NOT_ACTIVE"
     /\ errorMessage' = (errorMessage \/ error)
     /\ CloseFrom(closed)
  \/ /\ status # "PENDING"
     /\ sockets' = closed
     /\ UNCHANGED <<status, errorMessage, socket, timer, intervals>>

\* onclose: without an error for code 4000, which asks for a Reload.
Closes(s) ==
  /\ sockets[s] = "CLOSING"
  /\ \E error \in BOOLEAN : EndWait(s, error)
  /\ UNCHANGED <<mounted, foundBy>>

\* onerror, and onclose right after it: refused, rejected, or connection lost.
Fails(s) ==
  /\ sockets[s] \in {"CONNECTING", "closeOnOpen", "OPEN", "CLOSING"}
  /\ EndWait(s, TRUE)
  /\ UNCHANGED <<mounted, foundBy>>

-----------------------------------------------------------------------------
(* The page *)

\* onDestroy: the user goes to another page.
Destroy ==
  /\ mounted
  /\ mounted' = FALSE
  /\ CloseFrom(sockets)
  /\ UNCHANGED <<status, errorMessage, foundBy>>

\* The page is loaded again, by the user or for code 4000: with a current match
\* or without one.
Reload ==
  /\ mounted' = TRUE
  /\ status' \in {"NOT_ACTIVE", "FOUND"}
  /\ errorMessage' = FALSE
  /\ socket' = NoSocket
  /\ timer' = FALSE /\ intervals' = 0
  /\ sockets' = [s \in Socket |-> IF sockets[s] = "none" THEN "none" ELSE "CLOSED"]
  /\ foundBy' = NoSocket

Browser(s) == Opens(s) \/ Closes(s) \/ Fails(s)

Next ==
  \/ Start \/ Cancel \/ Destroy \/ Reload
  \/ \E s \in Socket : Browser(s) \/ Message(s) \/ ServerCloses(s)

Spec == Init /\ [][Next]_vars

\* Connecting ends one way or the other, and so does closing.
FairSpec ==
  Spec /\ \A s \in Socket : WF_vars(sockets[s] # "OPEN" /\ Browser(s))

-----------------------------------------------------------------------------
(* Correctness. *)

ReadyState == {"none", "CONNECTING", "closeOnOpen", "OPEN", "CLOSING", "CLOSED"}

TypeOK ==
  /\ mounted \in BOOLEAN /\ errorMessage \in BOOLEAN /\ timer \in BOOLEAN
  /\ status \in {"NOT_ACTIVE", "PENDING", "FOUND"}
  /\ socket \in Socket \cup {NoSocket}
  /\ intervals \in 0 .. 1
  /\ sockets \in [Socket -> ReadyState]
  /\ foundBy \in Socket \cup {NoSocket}

\* What the button shows is so: a page that offers to cancel has a websocket
\* whose match or close event is still to come, one that offers to play has none
\* and counts no seconds.
WaitIsReal ==
  mounted =>
    /\ status = "PENDING" =>
         timer /\ socket # NoSocket /\ sockets[socket] \in {"CONNECTING", "OPEN", "CLOSING"}
    /\ status = "NOT_ACTIVE" => ~ timer /\ socket = NoSocket

\* Timer.start clears no interval, and never finds one that ticks.
OneInterval == intervals = IF timer THEN 1 ELSE 0

\* Nothing waits in the queue on behalf of a page that has forgotten it: a
\* websocket the page has dropped is closing, or closes as soon as it opens.
NoOrphans == \A s \in Socket : sockets[s] \in {"CONNECTING", "OPEN"} => s = socket

\* The handlers do not look at which websocket they are called for; a game is
\* launched with the match of the current one all the same, and the wait is over.
MatchOfThisWait ==
  foundBy # NoSocket => status = "FOUND" /\ (mounted => foundBy = socket)

\* The inductive invariant of the page.
Inv == TypeOK /\ WaitIsReal /\ OneInterval /\ NoOrphans /\ MatchOfThisWait

\* A websocket the page has dropped is closed in the end, also one that was still
\* connecting, so that its user does not stay in the queue.
DroppedAreClosed ==
  \A s \in Socket : sockets[s] # "none" /\ socket # s ~> sockets[s] = "CLOSED"

-----------------------------------------------------------------------------
(* What the source says, and does not do. *)

\* The error says that there was an issue with the connection, and the page's
\* tests expect it when the server closes or the connection fails: the wait that
\* it ends has lost its own websocket.
ErrorEndsOwnWait ==
  [][status = "PENDING" /\ status' = "NOT_ACTIVE" /\ errorMessage'
       => sockets'[socket] = "CLOSED"]_vars
=============================================================================
