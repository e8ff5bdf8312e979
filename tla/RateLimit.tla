------------------------------ MODULE RateLimit ------------------------------
(***************************************************************************)
(* The limits on requests of an address, and of the tokens that agents     *)
(* present (worker/src/do/rate-limit.ts).                                  *)
(* RateLimitDO counts in fixed windows kept in its storage, drops expired  *)
(* windows on an alarm and now and then on a request, and drops the        *)
(* oldest live ones when there are more than MaxBuckets.  When the object  *)
(* cannot be asked, the isolate counts by itself, in memory                *)
(* (worker/src/routes/public.ts, websocket.ts and client.ts).              *)
(*                                                                         *)
(* Storage operations of the object are gated: an event handler that only  *)
(* awaits storage is one step.                                             *)
(***************************************************************************)
EXTENDS Integers, FiniteSets, FiniteSetsExt

CONSTANTS
    Clients,        \* keys of windows: an address, or a token presented from one
    Isolates,
    Limit,          \* requests allowed in a window
    Window,         \* its length
    MaxBuckets,     \* RATE_LIMIT_MAX_BUCKETS
    AlarmAfter      \* RATE_LIMIT_CLEANUP_ALARM_MS

RateAssumption == {Limit, Window, MaxBuckets, AlarmAfter} \subseteq Nat \ {0}

VARIABLES
    stored,     \* storage of the object: count and time left of the clients' windows
    alarm,      \* the time left until its alarm, Off if there is none
    memory,     \* as stored, in an isolate
    allowed,    \* history: requests allowed by each counter in the last Window ticks
    squeezed    \* history: a live window was dropped

vars == <<stored, alarm, memory, allowed, squeezed>>

Counters == Isolates \cup {"object"}
Ages == 0..Window - 1
Off == AlarmAfter + 1
None == [count |-> 0, left |-> 0]

\* The window of a client after one request more.
Counted(w) == IF w.left = 0 THEN [count |-> 1, left |-> Window] ELSE [w EXCEPT !.count = @ + 1]

\* readRateLimitResult and the answer: within the limit the request goes on.  The history
\* counts no further than LimitHolds looks.
Passed(history, c, by, w) ==
    IF w.count <= Limit THEN [history EXCEPT ![<<c, by>>][0] = IF @ > 2 * Limit THEN @ ELSE @ + 1] ELSE history
Let(c, by, w) == allowed' = Passed(allowed, c, by, w)

Keys(s) == {c \in Clients : s[c] # None}
Live(s) == {c \in Clients : s[c].left > 0}
Without(s, gone) == [c \in Clients |-> IF c \in gone THEN None ELSE s[c]]

\* cleanupExpiredBuckets.
Swept(s) == Without(s, Keys(s) \ Live(s))

\* enforceBucketLimit: with too many windows, the expired ones go and of the live ones above
\* the limit those that end first.
Compacted(s) ==
    IF Cardinality(Keys(s)) <= MaxBuckets THEN s
    ELSE Without(s, (Keys(s) \ Live(s)) \cup
            CHOOSE gone \in SUBSET Live(s) :
                /\ Cardinality(Live(s) \ gone) <= MaxBuckets
                /\ gone = {} \/ Cardinality(Live(s) \ gone) = MaxBuckets
                /\ \A c \in gone, d \in Live(s) \ gone : s[c].left <= s[d].left)

Squeezes(s) == squeezed' = (squeezed \/ \E c \in Live(s) : stored'[c] = None)

\* scheduleCleanupAlarm.
AlarmSet == IF alarm = Off THEN AlarmAfter ELSE alarm

\* checkRateLimit: every 256th request sweeps first, every 1024th compacts at the end.
Check(c, sweep, compact) ==
    LET s == IF sweep THEN Swept(stored) ELSE stored
        next == [s EXCEPT ![c] = Counted(@)] IN
    /\ compact => sweep
    /\ stored' = IF compact THEN Compacted(next) ELSE next
    /\ alarm' = AlarmSet
    /\ Let(c, "object", next[c]) /\ Squeezes(next)
    /\ UNCHANGED memory

\* localPublicApiRateLimit, localWsRateLimit: the object cannot be asked, so the isolate counts.
CheckLocally(c, i) ==
    LET next == Counted(memory[i][c]) IN
    /\ memory' = [memory EXCEPT ![i][c] = next]
    /\ Let(c, i, next)
    /\ UNCHANGED <<stored, alarm, squeezed>>

\* localAgentRateLimit: the windows of the isolate that ended go first.
AgentCounted(s, c) == [Swept(s) EXCEPT ![c] = Counted(@)]

AgentCheckLocally(c, i) ==
    /\ memory' = [memory EXCEPT ![i] = AgentCounted(@, c)]
    /\ Let(c, i, memory'[i][c])
    /\ UNCHANGED <<stored, alarm, squeezed>>

\* enforceAgentAuthAttemptLimit: only an attempt that its address lets through is counted for
\* the token it presents, and it goes on if both do.
AgentAttempt(c, token, i) ==
    LET first == AgentCounted(memory[i], c)
        passes == first[c].count <= Limit IN
    /\ c # token /\ memory[i][c].count <= Limit /\ memory[i][token].count <= Limit
    /\ memory' = [memory EXCEPT ![i] = IF passes THEN AgentCounted(first, token) ELSE first]
    /\ allowed' = IF passes THEN Passed(Passed(allowed, c, i, first[c]), token, i, memory'[i][token])
                  ELSE allowed
    /\ UNCHANGED <<stored, alarm, squeezed>>

\* The isolate sweeps.  (An evicted isolate is another one when it is back.)
SweepLocally(i) ==
    /\ memory' = [memory EXCEPT ![i] = Swept(@)]
    /\ memory' # memory
    /\ UNCHANGED <<stored, alarm, allowed, squeezed>>

\* alarm(): windows that are left get the next alarm.
AlarmRings ==
    /\ alarm = 0 /\ stored' = Compacted(Swept(stored))
    /\ alarm' = IF Keys(stored') # {} THEN AlarmAfter ELSE Off
    /\ Squeezes(stored)
    /\ UNCHANGED <<memory, allowed>>

Later(w) == [w EXCEPT !.left = IF @ > 0 THEN @ - 1 ELSE 0]

Tick ==
    /\ stored' = [c \in Clients |-> Later(stored[c])]
    /\ memory' = [i \in Isolates |-> [c \in Clients |-> Later(memory[i][c])]]
    /\ alarm' = IF alarm \in {0, Off} THEN alarm ELSE alarm - 1
    /\ allowed' = [x \in Clients \X Counters |-> [a \in Ages |-> IF a = 0 THEN 0 ELSE allowed[x][a - 1]]]
    /\ UNCHANGED squeezed

Init ==
    /\ alarm = Off /\ squeezed = FALSE
    /\ stored = [c \in Clients |-> None]
    /\ memory = [i \in Isolates |-> [c \in Clients |-> None]]
    /\ allowed = [x \in Clients \X Counters |-> [a \in Ages |-> 0]]

\* The object is asked.  A refused request changes nothing but the count: one of them is
\* enough.
Ask(c) == \E sweep, compact \in BOOLEAN : stored[c].count <= Limit /\ Check(c, sweep, compact)

\* publicApiRateLimit, enforceWsRateLimit: the object is asked, or it fails.
Request(c) ==
    \/ Ask(c)
    \/ \E i \in Isolates : memory[i][c].count <= Limit /\ CheckLocally(c, i)

\* enforceAgentBucketRateLimit, of the reports, the results and the failed attempts of agents.
AgentRequest(c) ==
    \/ Ask(c)
    \/ \E i \in Isolates : memory[i][c].count <= Limit /\ AgentCheckLocally(c, i)

Next ==
    \/ \E c \in Clients : Request(c) \/ AgentRequest(c)
    \/ \E c, token \in Clients, i \in Isolates : AgentAttempt(c, token, i)
    \/ \E i \in Isolates : SweepLocally(i)
    \/ AlarmRings \/ Tick

Spec == Init /\ [][Next]_vars /\ WF_vars(Tick) /\ WF_vars(AlarmRings)

-----------------------------------------------------------------------------
TypeOK ==
    /\ alarm \in 0..Off
    /\ \A c \in Clients : stored[c].count \in 0..Limit + 1 /\ stored[c].left \in 0..Window
    /\ \A i \in Isolates, c \in Clients : memory[i][c].count \in 0..Limit + 1 /\ memory[i][c].left \in 0..Window

\* Whatever is swept in between, a counter lets at most 2 * Limit requests of an address
\* through in a time as long as a window, unless live windows had to be dropped.
LimitHolds ==
    \A c \in Clients, by \in Counters :
        (by = "object" => ~squeezed) => MapThenSumSet(LAMBDA a : allowed[c, by][a], Ages) <= 2 * Limit

=============================================================================
