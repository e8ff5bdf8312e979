---------------------------- MODULE LoginLimits ----------------------------
(***************************************************************************)
(* Logging in with a password (POST /login in worker/src/routes/public.ts).*)
(* Wrong passwords are counted in SQL, for the address and for the address *)
(* with the user name; enough of them in one window lock the bucket.  A    *)
(* login that succeeds removes the rows it saw when it began, in the       *)
(* background, and may write the password under a stronger hash.  The      *)
(* routes of the second factor count their failures in the same way.       *)
(*                                                                         *)
(* Attempts come from one address; they overlap freely.                    *)
(***************************************************************************)
EXTENDS Integers, FiniteSets

CONSTANTS
    Users,          \* user names tried
    Attempts,       \* attempts that can be under way together
    Threshold,      \* failures that lock a bucket: 5
    Window,         \* of the count: 15 minutes
    MaxLock,        \* longest lock: 15 minutes
    CleanupAge,     \* LOGIN_RATE_LIMIT_CLEANUP_AGE_MS
    MaxTime,        \* bound: the clock
    MaxFailures     \* bound: wrong passwords

LimitAssumption ==
    /\ {Threshold, Window, MaxLock, MaxFailures} \subseteq Nat \ {0}
    /\ CleanupAge \in Nat /\ CleanupAge > Window /\ MaxTime \in Nat

VARIABLES
    now,
    rows,       \* SQL: login_rate_limits
    attempt,    \* the attempts under way
    password,   \* SQL: the password of the account, and whether its hash is old
    failed,     \* wrong passwords so far; also the revision of a row
    newest,     \* history: the password set last
    open        \* history: the failures of each bucket that no later login has forgiven

vars == <<now, rows, attempt, password, failed, newest, open>>

Buckets == {"ip"} \cup Users
\* loginRateLimitBuckets.
BucketsOf(u) == {"ip", u}
NoRow == [failures |-> 0, first |-> 0, last |-> 0, until |-> 0, revision |-> 0]
Idle == [todo |-> "none"]
Greater(a, b) == IF a > b THEN a ELSE b
Least(a, b) == IF a < b THEN a ELSE b

-----------------------------------------------------------------------------
\* getLoginRetryAfterSeconds: is one of the rows locked?
Locked(u) == \E b \in BucketsOf(u) : rows[b].until > now

\* POST /login: the rows are loaded, and a locked bucket ends the attempt.
Begin(a, u) ==
    /\ attempt[a] = Idle /\ ~Locked(u)
    /\ attempt' = [attempt EXCEPT ![a] = [todo |-> "load", user |-> u, began |-> failed,
                                          seen |-> [b \in BucketsOf(u) |-> rows[b].revision]]]
    /\ UNCHANGED <<now, rows, password, failed, newest, open>>

\* getUserByUsername: the hash that the password is compared with.
LoadUser(a) ==
    /\ attempt[a].todo = "load"
    /\ attempt' = [attempt EXCEPT ![a] = [todo |-> "verify", user |-> @.user, seen |-> @.seen,
                                          began |-> @.began, hash |-> password]]
    /\ UNCHANGED <<now, rows, password, failed, newest, open>>

\* 30 seconds and twice as long for each failure more, up to MaxLock.
LockFor(failures) == Least(MaxLock, 2 ^ (failures - Threshold))

\* cfm_record_login_failures for one bucket, whatever the attempt saw.  The route reads the
\* clock before the call and SQL takes the latest of such times: here, that of the call.
AfterFailure(row) ==
    LET same == row # NoRow /\ now - row.first <= Window
        n == IF same THEN row.failures + 1 ELSE 1
        kept == IF row.until > now THEN row.until ELSE 0 IN
    [failures |-> n, first |-> IF same THEN row.first ELSE now, last |-> now,
     until |-> IF n >= Threshold THEN Greater(now + LockFor(n), kept) ELSE kept, revision |-> failed + 1]

\* The password is wrong, or the user is not there: recordLoginFailure, and 401.
Wrong(a) ==
    LET s == attempt[a] IN
    /\ s.todo = "verify" /\ failed < MaxFailures
    /\ rows' = [b \in Buckets |-> IF b \in BucketsOf(s.user) THEN AfterFailure(rows[b]) ELSE rows[b]]
    /\ failed' = failed + 1
    /\ open' = [b \in Buckets |->
            IF b \in BucketsOf(s.user) THEN open[b] \cup {[id |-> failed + 1, at |-> now]} ELSE open[b]]
    /\ attempt' = [attempt EXCEPT ![a] = Idle]
    /\ UNCHANGED <<now, password, newest>>

\* The password is right, and after it the second factor if there is one: what is left runs in
\* the background.  The new hash and the removal touch different rows, so that one order of
\* the two stands for both.
Right(a) ==
    /\ attempt[a].todo = "verify"
    /\ attempt' = [attempt EXCEPT ![a].todo = "background"]
    /\ UNCHANGED <<now, rows, password, failed, newest, open>>

\* cfm_clear_observed_login_failures: the rows that are still the ones the attempt saw.
Cleared(a) == {b \in BucketsOf(attempt[a].user) : rows[b] # NoRow /\ rows[b].revision = attempt[a].seen[b]}

\* clearLoginFailures, and then the attempt is over (or it stops before).
Clear(a) ==
    /\ attempt[a].todo = "background"
    /\ rows' = [b \in Buckets |-> IF b \in Cleared(a) THEN NoRow ELSE rows[b]]
    \* The login forgives what was counted before it began, if nothing was counted since.
    /\ open' = [b \in Buckets |->
            IF b \in BucketsOf(attempt[a].user) /\ \A f \in open[b] : f.id <= attempt[a].began THEN {} ELSE open[b]]
    /\ attempt' = [attempt EXCEPT ![a] = Idle]
    /\ UNCHANGED <<now, password, failed, newest>>

\* needsPasswordRehash, rehashUserPassword: only where the hash is still the one verified.
Rehash(a) ==
    /\ attempt[a].todo = "background" /\ attempt[a].hash.old
    /\ password = attempt[a].hash /\ password' = [of |-> password.of, old |-> FALSE]
    /\ UNCHANGED <<now, rows, attempt, failed, newest, open>>

\* A background task fails, or the second factor does not follow.
Dropped(a) ==
    /\ attempt[a].todo = "background"
    /\ attempt' = [attempt EXCEPT ![a] = Idle]
    /\ UNCHANGED <<now, rows, password, failed, newest, open>>

\* POST /account/chpasswd, once.
ChangePassword ==
    /\ newest = 1 /\ newest' = 2
    /\ password' = [of |-> 2, old |-> FALSE]
    /\ UNCHANGED <<now, rows, attempt, failed, open>>

\* cleanupExpiredLoginRateLimits.
Cleanup ==
    LET gone == {b \in Buckets : rows[b] # NoRow /\ rows[b].last < now - CleanupAge /\ rows[b].until < now} IN
    /\ gone # {}
    /\ rows' = [b \in Buckets |-> IF b \in gone THEN NoRow ELSE rows[b]]
    /\ UNCHANGED <<now, attempt, password, failed, newest, open>>

Tick ==
    /\ now < MaxTime /\ now' = now + 1
    /\ UNCHANGED <<rows, attempt, password, failed, newest, open>>

Init ==
    /\ now = 1 /\ failed = 0 /\ newest = 1 /\ password = [of |-> 1, old |-> TRUE]
    /\ rows = [b \in Buckets |-> NoRow] /\ open = [b \in Buckets |-> {}]
    /\ attempt = [a \in Attempts |-> Idle]

Next ==
    \/ \E a \in Attempts :
        \/ LoadUser(a) \/ Wrong(a) \/ Right(a) \/ Clear(a) \/ Rehash(a) \/ Dropped(a)
        \/ \E u \in Users : Begin(a, u)
    \/ ChangePassword \/ Cleanup \/ Tick

Spec == Init /\ [][Next]_vars

-----------------------------------------------------------------------------
TypeOK ==
    /\ now \in 1..MaxTime /\ failed \in 0..MaxFailures
    /\ \A b \in Buckets : rows[b] = NoRow \/
        /\ rows[b].failures \in 1..failed /\ rows[b].first <= rows[b].last /\ rows[b].last <= now
        /\ rows[b].until <= rows[b].last + MaxLock /\ rows[b].revision \in 1..failed

Recent(b) == {f \in open[b] : now - f.at <= Window}
CountedIn(b) == Cardinality({f \in Recent(b) : f.at >= rows[b].first})

\* The failures of one window that no later login has forgiven are all counted in the row of
\* their bucket, however attempts overlap: none is lost to a concurrent failure or to the
\* clean-up of a login that began before it.
FailuresAreCounted ==
    \A b \in Buckets : Recent(b) # {} => rows[b] # NoRow /\ CountedIn(b) <= rows[b].failures

\* Enough of them lock the bucket from the last one on, for as long as their number asks.
FailuresLock ==
    \A b \in Buckets : CountedIn(b) >= Threshold =>
        \A f \in Recent(b) : rows[b].until >= f.at + LockFor(CountedIn(b))

\* Writing the password under a stronger hash after a login never brings back a password that
\* was changed in the meantime.
PasswordIsNewest == password.of = newest
=============================================================================
