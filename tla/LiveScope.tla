------------------------------ MODULE LiveScope ------------------------------
(***************************************************************************)
(* What a page shows of a node while snapshots and patches reach it in any *)
(* order (frontend/src/contexts/LiveDataContext.tsx).                      *)
(*                                                                         *)
(* LiveDataDO counts what happens to the node: event v is a report or its  *)
(* going offline.  A page gets to know of it over HTTP reads, which return *)
(* the newest event at some moment between request and response, and over  *)
(* a socket, which starts with a snapshot and goes on with one patch per   *)
(* event, in order.  A mounted page in one authorization is a scope: a     *)
(* login or logout starts another one, while the reads of the old scope    *)
(* are still under way.  The first read of a scope is the bootstrap, which *)
(* a cache may answer with an old event; the poll follows at once.         *)
(***************************************************************************)
EXTENDS Integers, Sequences

CONSTANTS
    Reads,       \* slots for reads under way
    MaxEvents,   \* bound: events of the node
    MaxTime,     \* bound: milliseconds
    MaxScopes,   \* bound: logins and logouts
    MaxSockets   \* bound: sockets opened

ScopeAssumption == Reads \subseteq Nat \ {0} /\ MaxEvents \in Nat /\ MaxTime \in Nat /\ MaxScopes \in Nat /\ MaxSockets \in Nat

VARIABLES
    now,      \* the clock of LiveDataDO
    sv,       \* the last event of the node
    at,       \* when each event happened
    scope,    \* the scope of the page: createLiveSnapshotScope
    reads,    \* the HTTP reads under way
    sock,     \* the live WebSocket
    opened    \* sockets opened so far

vars == <<now, sv, at, scope, reads, sock, opened>>

Events == 0..MaxEvents
Times  == 0..MaxTime

None    == 0
NoRead  == [pc |-> "idle", id |-> 0, auth |-> FALSE, old |-> FALSE, v |-> 0, t |-> 0, prior |-> 0, upd |-> 0]
NoSock  == [open |-> FALSE, got |-> FALSE, q |-> <<>>]

\* The times at which event v was the newest.
Newest(v) == {t \in 0..now : at[v] <= t /\ (v < sv => t <= at[v + 1])}

\* A new scope: loadSettings starts the bootstrap, poll at once the read that takes its place.
Mount(id, auth, others) ==
    LET boot == CHOOSE r \in Reads : others[r].pc = "idle"
        live == CHOOSE r \in Reads \ {boot} : others[r].pc = "idle"
        new  == [NoRead EXCEPT !.pc = "sent", !.id = id, !.auth = auth]
    IN  [scope |-> [id |-> id, auth |-> auth, has |-> FALSE, shown |-> 0, private |-> FALSE, initial |-> 0, pending |-> live],
         reads |-> [others EXCEPT ![boot] = [new EXCEPT !.old = TRUE], ![live] = new]]

TypeOK ==
    /\ now \in Times /\ sv \in Events /\ at \in [Events -> Times]
    /\ scope \in [id: 1..MaxScopes, auth: BOOLEAN, has: BOOLEAN, shown: Events, private: BOOLEAN,
                  initial: Events, pending: Reads \cup {None}]
    /\ reads \in [Reads -> [pc: {"idle", "sent", "read"}, id: 0..MaxScopes, auth: BOOLEAN, old: BOOLEAN,
                            v: Events, t: Times, prior: Events, upd: Events]]
    /\ sock \in [open: BOOLEAN, got: BOOLEAN, q: Seq([snapshot: BOOLEAN, v: Events])]
    /\ opened \in 0..MaxSockets

Init ==
    /\ now = 0 /\ sv = 0 /\ at = [v \in Events |-> 0]
    /\ \E auth \in BOOLEAN : LET m == Mount(1, auth, [r \in Reads |-> NoRead]) IN scope = m.scope /\ reads = m.reads
    /\ sock = NoSock /\ opened = 0

-----------------------------------------------------------------------------
Tick ==
    /\ now < MaxTime /\ now' = now + 1
    /\ UNCHANGED <<sv, at, scope, reads, sock, opened>>

\* A report or the end of the node's time: broadcast to the viewers.
Event ==
    /\ sv < MaxEvents
    /\ sv' = sv + 1
    /\ at' = [at EXCEPT ![sv + 1] = now]
    /\ sock' = IF sock.open THEN [sock EXCEPT !.q = Append(@, [snapshot |-> FALSE, v |-> sv + 1])] ELSE sock
    /\ UNCHANGED <<now, scope, reads, opened>>

\* beginRead: the read owns the patches from now on, and those that no snapshot has taken in yet.
BeginRead(r) ==
    /\ reads[r].pc = "idle"
    /\ reads' = [reads EXCEPT ![r] = [NoRead EXCEPT !.pc = "sent", !.id = scope.id, !.auth = scope.auth,
                                                    !.prior = scope.initial]]
    /\ scope' = [scope EXCEPT !.pending = r]

\* fetchLiveData, or a bootstrap without caches.
Fetch(r) == BeginRead(r) /\ UNCHANGED <<now, sv, at, sock, opened>>

\* The server answers the read; a cached bootstrap is an old answer.
Serve(r) ==
    /\ reads[r].pc = "sent"
    /\ \E v \in IF reads[r].old THEN 0..sv ELSE {sv} : \E t \in IF reads[r].old THEN Newest(v) ELSE {now} :
        reads' = [reads EXCEPT ![r].pc = "read", ![r].v = v, ![r].t = t]
    /\ UNCHANGED <<now, sv, at, scope, sock, opened>>

\* mergePrior: of the patches from before the read those that are newer than the snapshot.
MergePrior(v, t, prior) == IF prior # 0 /\ at[prior] > t THEN prior ELSE v

\* merge: the patches that came during the read are applied in any case.
Merge(v, upd) == IF upd # 0 THEN upd ELSE v

\* A read completes or fails for the scope that began it, and only while it is the newest read of the scope.
IsCurrent(r) == reads[r].id = scope.id /\ scope.pending = r

Complete(r) ==
    LET x == reads[r] IN
    /\ x.pc = "read"
    /\ scope' = IF IsCurrent(r)
                THEN [scope EXCEPT !.shown = Merge(MergePrior(x.v, x.t, x.prior), x.upd), !.private = x.auth,
                                   !.has = TRUE, !.initial = 0, !.pending = None]
                ELSE scope
    /\ reads' = [reads EXCEPT ![r] = NoRead]
    /\ UNCHANGED <<now, sv, at, sock, opened>>

\* finishRead after an error.
Fail(r) ==
    /\ reads[r].pc \in {"sent", "read"}
    /\ scope' = IF IsCurrent(r) THEN [scope EXCEPT !.pending = None] ELSE scope
    /\ reads' = [reads EXCEPT ![r] = NoRead]
    /\ UNCHANGED <<now, sv, at, sock, opened>>

\* seed: what an earlier visit stored, for a guest who has no snapshot yet.
Seed ==
    /\ ~scope.auth /\ ~scope.has
    /\ \E v \in 0..sv : \E t \in Newest(v) :
        scope' = [scope EXCEPT !.shown = MergePrior(v, t, scope.initial), !.has = TRUE, !.initial = 0]
    /\ UNCHANGED <<now, sv, at, reads, sock, opened>>

\* The viewer is accepted; the snapshot is sent on a best effort.
Open ==
    /\ ~sock.open /\ opened < MaxSockets
    /\ \E sent \in BOOLEAN :
        sock' = [open |-> TRUE, got |-> FALSE,
                 q |-> IF sent THEN <<[snapshot |-> TRUE, v |-> sv]>> ELSE <<>>]
    /\ opened' = opened + 1
    /\ UNCHANGED <<now, sv, at, scope, reads>>

\* scope.snapshot: the socket's snapshot stands for everything, a read under way is given up.
TakeSnapshot(v) ==
    /\ scope' = [scope EXCEPT !.shown = v, !.private = scope.auth, !.has = TRUE, !.initial = 0, !.pending = None]
    /\ UNCHANGED reads

\* scope.patch: shown at once, and kept for the read under way.
TakePatch(v) ==
    /\ scope' = [scope EXCEPT !.shown = v, !.private = scope.auth, !.initial = IF scope.has THEN @ ELSE v]
    /\ reads' = IF scope.pending = None THEN reads ELSE [reads EXCEPT ![scope.pending].upd = v]

Deliver ==
    /\ sock.open /\ sock.q # <<>>
    /\ IF Head(sock.q).snapshot THEN TakeSnapshot(Head(sock.q).v) ELSE TakePatch(Head(sock.q).v)
    /\ sock' = [sock EXCEPT !.q = Tail(@), !.got = @ \/ Head(sock.q).snapshot]
    /\ UNCHANGED <<now, sv, at, opened>>

\* The socket breaks; what it still carried is lost, and the page reads over HTTP.
Close(r) ==
    /\ sock.open
    /\ sock' = NoSock
    /\ BeginRead(r)
    /\ UNCHANGED <<now, sv, at, opened>>

\* Login or logout: the old scope is disposed of, its socket closed.
ChangeScope ==
    /\ scope.id < MaxScopes
    /\ \E r1, r2 \in Reads : r1 # r2 /\ reads[r1].pc = "idle" /\ reads[r2].pc = "idle"
    /\ LET m == Mount(scope.id + 1, ~scope.auth, reads) IN scope' = m.scope /\ reads' = m.reads
    /\ sock' = NoSock
    /\ UNCHANGED <<now, sv, at, opened>>

Next ==
    \/ Tick \/ Event \/ Seed \/ Open \/ Deliver \/ ChangeScope
    \/ \E r \in Reads : Fetch(r) \/ Serve(r) \/ Complete(r) \/ Fail(r) \/ Close(r)

Spec == Init /\ [][Next]_vars

-----------------------------------------------------------------------------
\* PageSettles: whenever a socket that brought its snapshot has nothing more under way, and no read is
\* pending, the page shows the node's last event: no order of snapshots, patches, old bootstraps, reads
\* that fail and reads that are given up makes it keep an older one.
PageSettles ==
    sock.open /\ sock.got /\ sock.q = <<>> /\ scope.pending = None => scope.shown = sv

\* NothingPrivateForGuests: after a logout, no response of the administrator's reads reaches the page.
NothingPrivateForGuests == ~scope.auth => ~scope.private

=============================================================================
