----------------------------- MODULE LiveSocket -----------------------------
(***************************************************************************)
(* How a page keeps its live WebSocket and, without it, its polls going    *)
(* (frontend/src/contexts/LiveDataContext.tsx, livePolling.ts).            *)
(*                                                                         *)
(* An attempt to connect first fetches a viewer token and then opens a     *)
(* socket; a later attempt supersedes an earlier one that still waits for  *)
(* its token.  Failures in a row are counted; at the limit the page stops  *)
(* trying until it is looked at again.  A hidden page neither reconnects   *)
(* nor polls.  The server ends a viewer's time with viewer_expired.        *)
(* Attempts are numbered modulo the bound: a number is free again when its *)
(* token request has ended.                                                *)
(***************************************************************************)
EXTENDS Integers, FiniteSets

CONSTANTS
    Attempts,   \* names of attempts to connect that can wait for their token at once
    Break       \* LIVE_WS_FAILURE_CIRCUIT_BREAK

SocketAssumption == IsFiniteSet(Attempts) /\ Cardinality(Attempts) >= 2 /\ Break \in Nat \ {0}

VARIABLES
    hidden,     \* document.hidden
    blocked,    \* whether something between page and server breaks WebSockets
    waiting,    \* attempts that wait for their token
    newest,     \* connectionRequest: the attempt that counts
    ws,         \* wsRef: "none", "connecting", "open"
    sockets,    \* sockets the page has created and that are not closed
    streak,     \* wsFailStreakRef
    timer,      \* reconnectTimeoutRef: "off", "later" (scheduleReconnect), "now" (reconnectLiveWebSocket)
    pollTimer,  \* timeoutRef of the poll
    polling     \* a poll is under way

vars == <<hidden, blocked, waiting, newest, ws, sockets, streak, timer, pollTimer, polling>>
pollVars == <<pollTimer, polling>>

\* isLiveWsCircuitOpen.
CircuitOpen(n) == n >= Break

\* shouldPollLiveData.
MayPoll(hid, sock) == ~(hid /\ sock # "open")

\* scheduleNextPoll: the timer it leaves behind, for a page and socket in this condition.
Scheduled(hid, sock) == IF MayPoll(hid, sock) THEN "set" ELSE "off"

TypeOK ==
    /\ hidden \in BOOLEAN /\ blocked \in BOOLEAN
    /\ waiting \subseteq Attempts /\ newest \in Attempts
    /\ ws \in {"none", "connecting", "open"} /\ sockets \in 0..2
    /\ streak \in 0..Break /\ timer \in {"off", "later", "now"}
    /\ pollTimer \in {"off", "set"} /\ polling \in BOOLEAN

\* Mounted: connect() and poll() run at once, whether the page is visible or not.
Init ==
    /\ hidden \in BOOLEAN /\ blocked \in BOOLEAN
    /\ newest \in Attempts /\ waiting = {newest}
    /\ ws = "none" /\ sockets = 0 /\ streak = 0 /\ timer = "off"
    /\ polling = MayPoll(hidden, "none") /\ pollTimer = "off"

-----------------------------------------------------------------------------
\* connect(), first half: this attempt is the newest.
Connect(a) ==
    /\ a \notin waiting
    /\ waiting' = waiting \cup {a}
    /\ newest' = a

\* scheduleReconnect after failure number n.
ScheduleReconnect(n) ==
    timer' = IF ~CircuitOpen(n) /\ ~hidden THEN "later" ELSE "off"

\* Mutant: a token opens a socket whoever connected in the meantime.
TokenArrivesAnyway(a) ==
    /\ a \in waiting
    /\ waiting' = waiting \ {a}
    /\ ws' = "connecting" /\ sockets' = sockets + 1
    /\ UNCHANGED <<hidden, blocked, newest, streak, timer, pollVars>>

\* connect(), second half: the token is there, and nobody connected in the meantime.
TokenArrives(a) ==
    /\ a \in waiting
    /\ waiting' = waiting \ {a}
    /\ IF newest = a
       THEN ws' = "connecting" /\ sockets' = sockets + 1
       ELSE UNCHANGED <<ws, sockets>>
    /\ UNCHANGED <<hidden, blocked, newest, streak, timer, pollVars>>

\* No token: that counts as a failure, else the connection would never heal.
TokenFails(a) ==
    /\ a \in waiting
    /\ waiting' = waiting \ {a}
    /\ IF newest = a
       THEN streak' = streak + 1 /\ ScheduleReconnect(streak + 1)
       ELSE UNCHANGED <<streak, timer>>
    /\ UNCHANGED <<hidden, blocked, newest, ws, sockets, pollVars>>

\* open: the count of failures starts again.
Opens ==
    /\ ws = "connecting" /\ ~blocked
    /\ ws' = "open" /\ streak' = 0
    /\ UNCHANGED <<hidden, blocked, waiting, newest, sockets, timer, pollVars>>

\* close: of a socket that never opened, or of an open one.
Closes ==
    /\ ws # "none"
    /\ ws = "connecting" => blocked
    /\ ws' = "none" /\ sockets' = sockets - 1
    /\ streak' = streak + 1
    /\ ScheduleReconnect(streak')
    /\ UNCHANGED <<hidden, blocked, waiting, newest, pollVars>>

\* viewer_expired: a hidden page lets the socket go, a visible one connects anew at once.
ViewerExpires ==
    /\ ws = "open"
    /\ ws' = "none" /\ sockets' = sockets - 1
    /\ timer' = IF hidden THEN timer ELSE "now"
    /\ UNCHANGED <<hidden, blocked, waiting, newest, streak, pollVars>>

\* The timer of scheduleReconnect looks again whether the page is hidden, the one of reconnectLiveWebSocket does not.
TimerFires ==
    /\ timer # "off"
    /\ timer' = "off"
    /\ IF timer = "later" /\ hidden
       THEN UNCHANGED <<waiting, newest>>
       ELSE \E a \in Attempts : Connect(a)
    /\ UNCHANGED <<hidden, blocked, ws, sockets, streak, pollVars>>

\* handleWsVisibility: a fresh start for a page that is looked at.
LookedAt ==
    /\ streak' = 0
    /\ IF ws = "none"
       THEN timer' = "off" /\ \E a \in Attempts : Connect(a)
       ELSE UNCHANGED <<timer, waiting, newest>>

\* visibilitychange to visible: both listeners, the one of the socket and the one of the poll.
Show ==
    /\ hidden /\ hidden' = FALSE
    /\ LookedAt
    /\ pollTimer' = Scheduled(FALSE, ws)
    /\ UNCHANGED <<blocked, ws, sockets, polling>>

\* visibilitychange to hidden: only the poll listens.
Hide ==
    /\ ~hidden /\ hidden' = TRUE
    /\ pollTimer' = Scheduled(TRUE, ws)
    /\ UNCHANGED <<blocked, waiting, newest, ws, sockets, streak, timer, polling>>

\* focus of a visible window.
Focus ==
    /\ ~hidden
    /\ LookedAt
    /\ UNCHANGED <<hidden, blocked, ws, sockets, pollVars>>

\* poll(): when the timer fires, or on user activity.
Poll ==
    /\ pollTimer = "set"
    /\ \/ polling /\ pollTimer' = "off" /\ UNCHANGED polling
       \/ ~polling /\ ws = "open" /\ pollTimer' = Scheduled(hidden, ws) /\ UNCHANGED polling
       \/ ~polling /\ ws # "open" /\ ~MayPoll(hidden, ws) /\ pollTimer' = "off" /\ UNCHANGED polling
       \/ ~polling /\ ws # "open" /\ MayPoll(hidden, ws) /\ pollTimer' = "off" /\ polling' = TRUE
    /\ UNCHANGED <<hidden, blocked, waiting, newest, ws, sockets, streak, timer>>

\* The read of a poll ends, well or badly.
PollEnds ==
    /\ polling /\ polling' = FALSE
    /\ pollTimer' = Scheduled(hidden, ws)
    /\ UNCHANGED <<hidden, blocked, waiting, newest, ws, sockets, streak, timer>>

\* The network changes: a proxy that breaks WebSockets comes or goes.
NetworkChanges ==
    /\ blocked' = ~blocked
    /\ UNCHANGED <<hidden, waiting, newest, ws, sockets, streak, timer, pollVars>>

Next ==
    \/ \E a \in Attempts : TokenArrives(a) \/ TokenFails(a)
    \/ Opens \/ Closes \/ ViewerExpires \/ TimerFires \/ Show \/ Hide \/ Focus \/ Poll \/ PollEnds \/ NetworkChanges

Spec == Init /\ [][Next]_vars

\* Timers fire and requests end; a socket that nothing blocks opens; and of the attempts that count, made again
\* and again, one gets its token: nobody gives the window the focus faster than a request takes for ever.
Fairness ==
    /\ WF_vars(TimerFires) /\ WF_vars(Opens) /\ WF_vars(Poll) /\ WF_vars(PollEnds)
    /\ \A a \in Attempts : WF_vars(TokenArrives(a) \/ TokenFails(a))
    /\ SF_vars(\E a \in Attempts : newest = a /\ TokenArrives(a))

-----------------------------------------------------------------------------
\* OneSocket: however timers, tokens, focus and visibility events overlap, the page never holds two sockets,
\* and it knows the one it holds.
OneSocket == sockets = IF ws = "none" THEN 0 ELSE 1

\* CircuitHolds: at the limit of failures nothing is scheduled any more.
CircuitHolds == CircuitOpen(streak) => timer # "later"

\* Heals: a page that stays in view on a network that lets sockets through gets its socket, again and again,
\* unless the failures in a row have reached the limit.
Heals == <>[](~hidden /\ ~blocked) => []<>(ws = "open" \/ CircuitOpen(streak))

=============================================================================
