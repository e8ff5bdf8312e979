--------------------------- MODULE ViewerSessions ---------------------------
(***************************************************************************)
(* The browsers that watch live data over a WebSocket                      *)
(* (worker/src/routes/websocket.ts, worker/src/auth/viewer-token.ts,       *)
(* worker/src/do/live-data.ts).  A browser gets a short-lived token that   *)
(* is bound to its network, opens a socket with it, and LiveDataDO admits  *)
(* it within two limits; between the two checks of the limits the request  *)
(* waits for the settings in SQL.  Every socket has a window after which   *)
(* it is closed by the object's single alarm, which also serves the HTTP   *)
(* agents and does other work that waits for the network.                  *)
(*                                                                         *)
(* A signature cannot be made without the secret: a token is its fields.   *)
(* Storage calls of one handler are one step (input gates); the clock      *)
(* ticks in units of the alarm's one-second granularity.                   *)
(***************************************************************************)
EXTENDS Integers, FiniteSets

CONSTANTS
    Viewers,        \* sockets, in the order of their random ids
    Ips,            \* addresses of browsers
    Net,            \* normalizeIpForBinding: the network of each address
    MaxTotal,       \* VIEWER_MAX_TOTAL_SESSIONS
    MaxPerIp,       \* VIEWER_MAX_SESSIONS_PER_IP
    ViewerTtl,      \* live_poll_active_max_duration_sec
    TokenTtl,       \* VIEWER_TOKEN_TTL_MS
    ClientTtl,      \* life of an HTTP report
    Never,          \* no alarm
    NoToken,        \* the browser has not asked for a token
    MaxTime         \* bound: ticks of the clock

ViewerAssumption ==
    /\ Net \in [Ips -> Ips]
    /\ MaxTotal \in Nat \ {0} /\ MaxPerIp \in Nat \ {0} /\ MaxTime \in Nat
    /\ ViewerTtl \in Nat \ {0} /\ TokenTtl \in Nat \ {0} /\ ClientTtl \in Nat \ {0}
    /\ Never \notin Nat

Times == 0..(MaxTime + ViewerTtl + TokenTtl + ClientTtl)

VARIABLES
    now,        \* Date.now
    token,      \* the last token given out: its network and its expiry
    sock,       \* sockets: state, address, expiry (the attachment)
    client,     \* expiry of an HTTP agent's last report, 0 without one
    alarm,      \* the stored alarm
    busy        \* the alarm handler waits for the network

vars == <<now, token, sock, client, alarm, busy>>

Fresh == [pc |-> "new", ip |-> CHOOSE i \in Ips : TRUE, exp |-> 0]

Open == {v \in Viewers : sock[v].pc = "open"}

\* countViewers, activeViewerCount: a socket whose window is over does not count.
Counted == {v \in Open : sock[v].exp > now}

\* enforceViewerConnectionLimit.
WithinLimits(ip) ==
    /\ Cardinality(Counted) < MaxTotal
    /\ Cardinality({v \in Counted : sock[v].ip = ip}) < MaxPerIp

Earliest(S) == IF S = {} THEN Never ELSE CHOOSE t \in S : \A u \in S : t <= u

\* scheduleExpiryAlarm: the next expiry after the time that the caller took.
Scheduled(s, c, since) ==
    Earliest({t \in {s[v].exp : v \in {u \in Viewers : s[u].pc = "open"}} \cup {c} : t > since})

-----------------------------------------------------------------------------

\* createViewerToken.
NewToken(ip) == [net |-> Net[ip], exp |-> now + TokenTtl]

\* GET /ws/live-token.
GetToken(ip) ==
    /\ token' = NewToken(ip)
    /\ UNCHANGED <<now, sock, client, alarm, busy>>

\* verifyViewerToken: not expired, and from the network it was given to.
ValidToken(ip) == token # NoToken /\ token.exp >= now /\ token.net = Net[ip]

\* GET /ws/live: the token, which is not used up, and the first check of the limits; then
\* the settings are read.
Knock(v, ip) ==
    /\ sock[v].pc = "new"
    /\ ValidToken(ip)
    /\ WithinLimits(ip)
    /\ sock' = [sock EXCEPT ![v] = [pc |-> "waiting", ip |-> ip, exp |-> now + ViewerTtl]]
    /\ UNCHANGED <<now, token, client, alarm, busy>>

\* Mutant: the limits are not checked again after the wait.
AdmitUnchecked(v) ==
    LET s == [sock EXCEPT ![v].pc = "open"]
        began == sock[v].exp - ViewerTtl
    IN  /\ sock[v].pc = "waiting"
        /\ sock' = s
        /\ alarm' = Scheduled(s, client, began)
        /\ UNCHANGED <<now, token, client, busy>>

\* After the wait: the second check, registerSession, scheduleExpiryAlarm.
Admit(v) ==
    LET s == [sock EXCEPT ![v].pc = "open"]
        began == sock[v].exp - ViewerTtl
    IN  /\ sock[v].pc = "waiting"
        /\ IF WithinLimits(sock[v].ip)
           THEN sock' = s /\ alarm' = Scheduled(s, client, began)
           ELSE sock' = [sock EXCEPT ![v] = Fresh] /\ UNCHANGED alarm
        /\ UNCHANGED <<now, token, client, busy>>

\* webSocketClose, webSocketError: cleanupSession; the alarm stays as it is.
Close(v) ==
    /\ sock[v].pc = "open"
    /\ sock' = [sock EXCEPT ![v] = Fresh]
    /\ UNCHANGED <<now, token, client, alarm, busy>>

\* A report of an HTTP agent ends with scheduleExpiryAlarm.
HttpReport ==
    /\ client' = now + ClientTtl
    /\ alarm' = Scheduled(sock, client', now)
    /\ UNCHANGED <<now, token, sock, busy>>

-----------------------------------------------------------------------------
(* alarm *)

\* expireViewer for every window that is over.
Expired(s) == [v \in Viewers |-> IF s[v].pc = "open" /\ s[v].exp <= now THEN Fresh ELSE s[v]]

\* The runtime clears the alarm and runs the handler: removeExpiredClients and
\* removeExpiredViewers, then rechecks and policies, which wait for the network.
AlarmFires ==
    /\ alarm # Never /\ alarm <= now /\ ~busy
    /\ alarm' = Never
    /\ sock' = Expired(sock)
    /\ client' = IF client <= now THEN 0 ELSE client
    /\ busy' = TRUE
    /\ UNCHANGED <<now, token>>

\* The finally clause.
AlarmEnds ==
    /\ busy
    /\ busy' = FALSE
    /\ alarm' = Scheduled(sock, client, now)
    /\ UNCHANGED <<now, token, sock, client>>

\* The object stops or hibernates: requests that wait are lost, a handler that was
\* running is run again, sockets are taken from their attachments and those whose
\* window is over are closed (hydrateSessionsFromAcceptedWebSockets).
Restart ==
    /\ sock' = Expired([v \in Viewers |-> IF sock[v].pc = "waiting" THEN Fresh ELSE sock[v]])
    /\ alarm' = IF busy THEN now
                ELSE IF client # 0 THEN Scheduled(sock', client, now) ELSE alarm
    /\ busy' = FALSE
    /\ UNCHANGED <<now, token, client>>

Tick == now < MaxTime /\ now' = now + 1 /\ UNCHANGED <<token, sock, client, alarm, busy>>

-----------------------------------------------------------------------------
Init ==
    /\ now = 0
    /\ token = NoToken
    /\ sock = [v \in Viewers |-> Fresh]
    /\ client = 0
    /\ alarm = Never
    /\ busy = FALSE

Next ==
    \/ \E ip \in Ips : GetToken(ip) \/ \E v \in Viewers : Knock(v, ip)
    \/ \E v \in Viewers : Admit(v) \/ Close(v)
    \/ HttpReport \/ AlarmFires \/ AlarmEnds \/ Restart \/ Tick

Spec == Init /\ [][Next]_vars

-----------------------------------------------------------------------------
(* Properties *)

\* The variables have their types.
TypeOK ==
    /\ now \in 0..MaxTime
    /\ token = NoToken \/ (token.net \in Ips /\ token.exp \in Times)
    /\ sock \in [Viewers -> [pc : {"new", "waiting", "open"}, ip : Ips, exp : Times]]
    /\ client \in Times
    /\ alarm \in Times \cup {Never}
    /\ busy \in BOOLEAN

\* However many requests wait for the settings at the same time, no more viewers are
\* admitted than the two limits allow (the second enforceViewerConnectionLimit).
LimitsHold ==
    /\ Cardinality(Counted) <= MaxTotal
    /\ \A ip \in Ips : Cardinality({v \in Counted : sock[v].ip = ip}) <= MaxPerIp

\* A viewer whose window is still open will be seen by an alarm at its end or before,
\* whichever requests, closes and restarts came after its own (scheduleExpiryAlarm).
AlarmCovers ==
    \A v \in Counted : busy \/ (alarm # Never /\ alarm <= sock[v].exp)

=============================================================================
