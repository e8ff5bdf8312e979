---------------------------- MODULE LiveReports ----------------------------
(***************************************************************************)
(* The live state of one node in LiveDataDO (worker/src/do/live-data.ts):  *)
(* reports over a socket or over HTTP wait in the node's queue, are written*)
(* to storage, to memory and to the socket's attachment and shown to the   *)
(* visitors, while the node is hidden, removed or restored, sockets come   *)
(* and go and the object restarts.                                         *)
(*                                                                         *)
(* An await is the end of an action.  Storage operations that follow each  *)
(* other without any other await are one action where nothing but a stop   *)
(* of the object could come between them (the input gate of a Durable      *)
(* Object); the steps of a report are kept apart, since its code does not  *)
(* rely on the gate.                                                       *)
(***************************************************************************)
EXTENDS Integers, Sequences

CONSTANTS
    MaxReports,     \* bound: reports in a behaviour
    MaxQueue,       \* bound: reports of the node waiting at a time
    MaxConnects,    \* bound: sockets
    MaxChanges,     \* bound: changes by the administrator
    MaxFaults,      \* bound: restarts of the object, failed calls
    MaxStreak       \* where a streak stops being told apart, OFFLINE_CONFIRM_ROUNDS

ASSUME LiveAssumption ==
    /\ MaxReports \in Nat /\ MaxQueue \in Nat /\ MaxConnects \in Nat
    /\ MaxChanges \in Nat /\ MaxFaults \in Nat /\ MaxStreak \in Nat \ {0}

VARIABLES
    meta,       \* the node in the administration snapshot
    complete,   \* the snapshot is there and complete
    cred,       \* the agent's credential is current
    stored,     \* storage: http-live:<uuid>
    clients,    \* memory: the node is online with this report
    known,      \* memory: lastKnownClients
    sock,       \* the node's open socket, 0 when there is none
    att,        \* the attachment of that socket, which outlives the object
    chain,      \* clientReportWrites: the queue of reports
    removal,    \* clientRemovalVersions
    restores,   \* restoreVersion
    removing,   \* a removeClient between its writes
    streak,     \* storage: offline:streak:<uuid>
    pub,        \* a visitor's page shows the node
    arrived,    \* reports so far; the number of a report is its time
    ttl,        \* reports up to this one have outlived their expiresAt
    old,        \* reports up to this one are older than the grace period
    acked,      \* history: newest acknowledged report since the node exists
    connects, changes, faults

boundVars == <<connects, changes, faults>>
timeVars == <<arrived, ttl, old>>
vars == <<meta, complete, cred, stored, clients, known, sock, att, chain, removal, restores,
          removing, streak, pub, timeVars, acked, boundVars>>

\* A report as it is kept: its time, the node's visibility, whether it expires
\* (HTTP), whether it came over a socket.
Entries == [time : 0..MaxReports, hidden : BOOLEAN, exp : BOOLEAN, ws : BOOLEAN]
None == [time |-> 0, hidden |-> FALSE, exp |-> FALSE, ws |-> FALSE]

Reports == [id : 1..MaxReports, sock : 0..MaxConnects, hidden : BOOLEAN, rv : Nat, xv : Nat,
            pc : {"queued", "update", "write", "check", "retire", "results"}]

Max2(a, b) == IF a > b THEN a ELSE b

-----------------------------------------------------------------------------
(* Control: what the administrator decided about the node *)

Gone == meta = "removed" \/ (complete /\ meta = "none")

\* controlledClientState.
Controlled(e) ==
    IF e = None \/ Gone THEN None
    ELSE [e EXCEPT !.hidden = IF meta = "none" THEN @ ELSE meta = "hidden"]

\* resolveReportClientControl, for a caller that believes h.
Resolved(h) ==
    IF meta # "none" THEN meta = "hidden"
    ELSE IF clients # None THEN clients.hidden
    ELSE IF known # None THEN known.hidden ELSE h

Expired(e) == e.exp /\ e.time <= ttl

\* buildSnapshot for a visitor: online, or kept as the last known report.
Visible(c, k) ==
    \E e \in {c, k} : Controlled(e) # None /\ ~Controlled(e).hidden

\* broadcastToViewers: a message about a hidden node goes to administrators only.
Shown(hidden) == pub' = IF hidden THEN pub ELSE TRUE

\* broadcastOfflineClient: the last report stays on the page.
ShownOffline(e) ==
    IF Controlled(e) = None THEN UNCHANGED pub ELSE Shown(Controlled(e).hidden)

\* cleanupSession.
Disconnected == sock' = 0 /\ att' = None /\ clients' = None /\ ShownOffline(clients)

-----------------------------------------------------------------------------
(* Reports *)

Head1 == chain[1]
AtHead(pc) == chain # <<>> /\ Head1.pc = pc

\* isReportCurrent.
Current(r) == r.rv = removal /\ r.xv = restores

\* Reports run one after the other, in the order of their arrival.
Advance(pc, h) == chain' = [chain EXCEPT ![1].pc = pc, ![1].hidden = h]

\* Mutant: the version goes with every report, also while others wait.
LeaveForgetting ==
    /\ chain' = Tail(chain)
    /\ removal' = 0

\* The finally of runClientReport.
Leave ==
    /\ chain' = Tail(chain)
    /\ removal' = IF Len(chain) = 1 THEN 0 ELSE removal

Enqueue(s, h) ==
    /\ arrived < MaxReports /\ Len(chain) < MaxQueue
    /\ arrived' = arrived + 1
    /\ chain' = Append(chain, [id |-> arrived + 1, sock |-> s, hidden |-> h, rv |-> removal,
                               xv |-> restores, pc |-> "queued"])

\* webSocketMessage with a credential that is current; otherwise the socket goes.
WsReport ==
    /\ sock # 0
    /\ \/ /\ cred
          /\ Enqueue(sock, att.hidden)
          /\ UNCHANGED <<clients, sock, att, pub>>
       \/ /\ ~cred
          /\ Disconnected
          /\ UNCHANGED <<arrived, chain>>
    /\ UNCHANGED <<meta, complete, cred, stored, known, removal, restores, removing, streak,
                   ttl, old, acked, boundVars>>

\* updateHttpClientReport; the payload says what the agent's row said.
HttpReport ==
    /\ \E h \in BOOLEAN : Enqueue(0, h)
    /\ UNCHANGED <<meta, complete, cred, stored, clients, known, sock, att, removal, restores,
                   removing, streak, pub, ttl, old, acked, boundVars>>

\* The report's turn comes: its lifecycle, the credential (HTTP), the control row.
\* Earlier reports of the same batch are persisted after this.
Begin ==
    /\ AtHead("queued")
    /\ IF Current(Head1) /\ (Head1.sock = 0 => cred) /\ ~Gone
       THEN Advance("update", Resolved(Head1.hidden)) /\ UNCHANGED removal
       ELSE Leave
    /\ UNCHANGED <<meta, complete, cred, stored, clients, known, sock, att, restores, removing,
                   streak, pub, timeVars, acked, boundVars>>

\* updateClientReport up to its first write.
Update ==
    /\ AtHead("update")
    /\ IF Current(Head1) /\ ~Gone
       THEN Advance("write", Resolved(Head1.hidden)) /\ UNCHANGED removal
       ELSE Leave
    /\ UNCHANGED <<meta, complete, cred, stored, clients, known, sock, att, restores, removing,
                   streak, pub, timeVars, acked, boundVars>>

EntryOf(r) == [time |-> r.id, hidden |-> r.hidden, exp |-> r.sock = 0, ws |-> r.sock # 0]

\* persistClientSnapshot.
Write ==
    /\ AtHead("write")
    /\ stored' = EntryOf(Head1)
    /\ Advance("check", Head1.hidden)
    /\ UNCHANGED <<meta, complete, cred, clients, known, sock, att, removal, restores, removing,
                   streak, pub, timeVars, acked, boundVars>>

\* Mutant: what was written is not compared with the control row again.
CheckOnce ==
    /\ AtHead("check")
    /\ Current(Head1) /\ ~Gone
    /\ LET e == EntryOf(Head1)
       IN  /\ known' = e
           /\ clients' = IF Head1.sock \in {0, sock} THEN e ELSE clients
           /\ att' = IF Head1.sock = sock THEN e ELSE att
           /\ Shown(e.hidden)
    /\ Advance("results", Head1.hidden)
    /\ UNCHANGED <<meta, complete, cred, stored, sock, removal, restores, removing, streak,
                   timeVars, acked, boundVars>>

\* The end of the loop of updateClientReport: again when the control row changed,
\* otherwise memory, attachment and visitors follow.
Check ==
    /\ AtHead("check")
    /\ IF ~Current(Head1) \/ Gone
       THEN Advance("retire", Head1.hidden) /\ UNCHANGED <<known, clients, att, pub>>
       ELSE IF Resolved(Head1.hidden) # Head1.hidden
       THEN Advance("write", Resolved(Head1.hidden)) /\ UNCHANGED <<known, clients, att, pub>>
       ELSE LET e == EntryOf(Head1)
            IN  /\ known' = e
                /\ clients' = IF Head1.sock \in {0, sock} THEN e ELSE clients
                /\ att' = IF sock # 0 /\ Head1.sock = sock THEN e ELSE att
                /\ Shown(e.hidden)
                /\ Advance("results", Head1.hidden)
    /\ UNCHANGED <<meta, complete, cred, stored, sock, removal, restores, removing, streak,
                   timeVars, acked, boundVars>>

\* The catch of updateClientReport: the write is taken back.
Retire ==
    /\ AtHead("retire")
    /\ stored' = IF Current(Head1) THEN Controlled(known) ELSE None
    /\ Leave
    /\ UNCHANGED <<meta, complete, cred, clients, known, sock, att, restores, removing, streak,
                   pub, timeVars, acked, boundVars>>

\* Probe results and basic information are persisted outside; then the answer.
Answer ==
    /\ AtHead("results")
    /\ Leave
    /\ acked' = IF Current(Head1) /\ Head1.sock \in {0, sock} THEN Head1.id ELSE acked
    /\ UNCHANGED <<meta, complete, cred, stored, clients, known, sock, att, restores, removing,
                   streak, pub, timeVars, boundVars>>

\* One of these calls fails: the agent is told to send again.
ResultsFail ==
    /\ AtHead("results") /\ faults < MaxFaults
    /\ faults' = faults + 1
    /\ Leave
    /\ UNCHANGED <<meta, complete, cred, stored, clients, known, sock, att, restores, removing,
                   streak, pub, timeVars, acked, connects, changes>>

\* syncNetworkMetadataFromReport: what was inferred about the address is added to
\* the report in memory.
InferNetwork ==
    LET e == Controlled(clients)
    IN  /\ e # None /\ ~Expired(e)
        /\ clients' = e /\ known' = e
        /\ att' = IF sock # 0 THEN [e EXCEPT !.ws = TRUE] ELSE att
        /\ Shown(e.hidden)
        /\ UNCHANGED <<meta, complete, cred, stored, sock, chain, removal, restores, removing,
                       streak, timeVars, acked, boundVars>>

-----------------------------------------------------------------------------
(* Sockets, expiry, visitors *)

\* The upgrade of an agent: the new socket replaces the old one.
Connect ==
    /\ cred /\ connects < MaxConnects
    /\ connects' = connects + 1
    /\ sock' = connects + 1
    /\ \E h \in BOOLEAN : att' = [None EXCEPT !.hidden = h]
    /\ UNCHANGED <<meta, complete, cred, stored, clients, known, chain, removal, restores,
                   removing, streak, pub, timeVars, acked, changes, faults>>

\* Mutant: the node stays online when its socket closes.
SocketClosesQuietly ==
    /\ sock # 0
    /\ sock' = 0 /\ att' = None
    /\ UNCHANGED <<meta, complete, cred, stored, clients, known, chain, removal, restores,
                   removing, streak, pub, timeVars, acked, boundVars>>

\* webSocketClose, webSocketError.
SocketCloses ==
    /\ sock # 0
    /\ Disconnected
    /\ UNCHANGED <<meta, complete, cred, stored, known, chain, removal, restores, removing,
                   streak, timeVars, acked, boundVars>>

\* The alarm: removeExpiredClients.
Alarm ==
    /\ clients # None /\ Expired(clients)
    /\ clients' = None
    /\ ShownOffline(clients)
    /\ UNCHANGED <<meta, complete, cred, stored, known, sock, att, chain, removal, restores,
                   removing, streak, timeVars, acked, boundVars>>

\* A visitor opens the page and gets a snapshot.
ViewerConnects ==
    /\ pub' = Visible(IF Expired(clients) THEN None ELSE clients, known)
    /\ UNCHANGED <<meta, complete, cred, stored, clients, known, sock, att, chain, removal,
                   restores, removing, streak, timeVars, acked, boundVars>>

\* A report outlives its expiresAt, or the grace period of the offline rule.
TimePasses ==
    /\ \/ ttl < arrived /\ ttl' = ttl + 1 /\ UNCHANGED old
       \/ old < arrived /\ old' = old + 1 /\ UNCHANGED ttl
    /\ UNCHANGED <<meta, complete, cred, stored, clients, known, sock, att, chain, removal,
                   restores, removing, streak, pub, arrived, acked, boundVars>>

LastSeen == Max2(clients.time, known.time)

\* evaluateOfflineLiveness, with or without a newer time from the database.
EvaluateOffline ==
    /\ \E seen \in {LastSeen, Max2(LastSeen, acked)} :
         streak' = IF seen <= old THEN IF streak < MaxStreak THEN streak + 1 ELSE streak ELSE 0
    /\ UNCHANGED <<meta, complete, cred, stored, clients, known, sock, att, chain, removal,
                   restores, removing, pub, timeVars, acked, boundVars>>

-----------------------------------------------------------------------------
(* The administrator *)

Changing == removing = "no" /\ changes < MaxChanges /\ changes' = changes + 1

\* updateClientMeta, by itself or at the end of a synchronization that stored the
\* credential: the control row, then memory, attachment and visitors.
UpdateMeta(h) ==
    /\ Changing
    /\ meta' = IF h THEN "hidden" ELSE "shown"
    /\ \/ cred' = TRUE
       \/ UNCHANGED cred
    /\ LET online == clients # None /\ ~Expired(clients)
           kept == IF clients # None THEN clients ELSE known
           next == IF kept = None THEN None ELSE [kept EXCEPT !.hidden = h]
       IN  /\ clients' = IF online THEN next ELSE None
           /\ known' = IF next = None THEN known ELSE next
           /\ att' = IF online /\ sock # 0 THEN [next EXCEPT !.ws = TRUE] ELSE att
           /\ pub' = IF h THEN FALSE ELSE pub \/ next # None
    /\ UNCHANGED <<complete, stored, sock, chain, removal, restores, removing, streak, timeVars,
                   acked, connects, faults>>

\* removeClient: memory, live state and credential; "keep" is the change of a token,
\* which keeps the control row.
RemoveClient ==
    /\ Changing
    /\ removal' = IF chain # <<>> THEN removal + 1 ELSE removal
    /\ sock' = 0 /\ att' = None /\ clients' = None /\ known' = None
    /\ stored' = None /\ streak' = 0
    /\ cred' = FALSE
    /\ acked' = 0
    /\ \E what \in {"all", "keep"} : removing' = what
    /\ UNCHANGED <<meta, complete, chain, restores, pub, timeVars, connects, faults>>

\* ... then the tombstone and the messages.
RemoveClientDone ==
    /\ removing # "no"
    /\ removing' = "no"
    /\ meta' = IF removing = "all" THEN "removed" ELSE meta
    /\ pub' = FALSE
    /\ UNCHANGED <<complete, cred, stored, clients, known, sock, att, chain, removal, restores,
                   streak, timeVars, acked, boundVars>>

\* restoreClients under blockConcurrencyWhile.
RestoreClients(m) ==
    /\ Changing
    /\ restores' = restores + 1
    /\ stored' = None /\ meta' = m /\ complete' = TRUE
    /\ sock' = 0 /\ att' = None /\ clients' = None /\ known' = None
    /\ pub' = FALSE /\ acked' = 0
    /\ UNCHANGED <<cred, chain, removal, removing, streak, timeVars, connects, faults>>

-----------------------------------------------------------------------------
(* The object stops; the constructor runs again *)

\* hydrateSessionsFromAcceptedWebSockets.
FromSocket ==
    IF sock # 0 /\ att.time # 0 /\ ~Expired(att) THEN [att EXCEPT !.ws = TRUE] ELSE None

\* Mutant: a socket's attachment is believed even when storage has a newer report.
HydrateFromSocket(st) ==
    LET k == Controlled(st)
        f == Controlled(FromSocket)
        c == IF f # None THEN f ELSE IF k.time # 0 /\ ~k.ws /\ ~Expired(k) THEN k ELSE None
    IN  /\ clients' = c
        /\ known' = IF f # None THEN f ELSE k
        /\ stored' = IF f # None THEN f ELSE k

\* hydrateHttpClients: the newest of attachment and storage, under the control row.
Hydrate(st) ==
    LET k == Controlled(st)
        f == Controlled(IF FromSocket # None THEN FromSocket
                        ELSE IF ~st.ws /\ ~Expired(st) THEN st ELSE None)
        c == IF f # None /\ k.time > f.time THEN [f EXCEPT !.time = k.time] ELSE f
    IN  /\ clients' = c
        /\ known' = IF k.time < c.time THEN c ELSE k
        /\ stored' = IF k.time < c.time THEN c ELSE k

Forget ==
    /\ faults < MaxFaults /\ faults' = faults + 1
    /\ chain' = <<>> /\ removal' = 0 /\ restores' = 0 /\ removing' = "no"

\* Sockets outlive a hibernation; a deployment closes them.
Restart ==
    /\ Forget
    /\ \/ /\ Hydrate(stored) /\ UNCHANGED <<sock, att>>
       \/ /\ sock # 0 /\ sock' = 0 /\ att' = None
          /\ LET k == Controlled(stored)
             IN  /\ known' = k /\ stored' = k
                 /\ clients' = IF ~k.ws /\ ~Expired(k) THEN k ELSE None
    /\ UNCHANGED <<meta, complete, cred, streak, pub, timeVars, acked, connects, changes>>

\* The object stops while a restore deletes the live states.
RestoreStops ==
    /\ changes < MaxChanges /\ changes' = changes + 1
    /\ Forget
    /\ Hydrate(None)
    /\ acked' = 0
    /\ UNCHANGED <<meta, complete, cred, sock, att, streak, pub, timeVars, connects>>

-----------------------------------------------------------------------------
Init ==
    /\ meta \in {"none", "shown", "hidden"} /\ complete \in BOOLEAN
    /\ cred = TRUE
    /\ stored = None /\ clients = None /\ known = None
    /\ sock = 0 /\ att = None
    /\ chain = <<>> /\ removal = 0 /\ restores = 0 /\ removing = "no"
    /\ streak = 0 /\ pub = FALSE
    /\ arrived = 0 /\ ttl = 0 /\ old = 0 /\ acked = 0
    /\ connects = 0 /\ changes = 0 /\ faults = 0

Next ==
    \/ WsReport \/ HttpReport
    \/ Begin \/ Update \/ Write \/ Check \/ Retire \/ Answer \/ ResultsFail
    \/ InferNetwork
    \/ Connect \/ SocketCloses \/ Alarm \/ ViewerConnects \/ TimePasses \/ EvaluateOffline
    \/ \E h \in BOOLEAN : UpdateMeta(h)
    \/ RemoveClient \/ RemoveClientDone
    \/ \E m \in {"none", "shown", "hidden"} : RestoreClients(m)
    \/ Restart \/ RestoreStops

Spec == Init /\ [][Next]_vars

-----------------------------------------------------------------------------
TypeOK ==
    /\ meta \in {"none", "shown", "hidden", "removed"} /\ complete \in BOOLEAN
    /\ cred \in BOOLEAN
    /\ stored \in Entries /\ clients \in Entries /\ known \in Entries /\ att \in Entries
    /\ sock \in 0..MaxConnects /\ chain \in Seq(Reports) /\ Len(chain) <= MaxQueue
    /\ \A i \in 2..Len(chain) : chain[i].pc = "queued"
    /\ removal \in Nat /\ restores \in Nat /\ removing \in {"no", "all", "keep"}
    /\ streak \in 0..MaxStreak /\ pub \in BOOLEAN
    /\ arrived \in 0..MaxReports /\ ttl \in 0..arrived /\ old \in 0..arrived
    /\ acked \in 0..arrived

\* A removed node stays removed: once the reports that were under way are done with,
\* nothing of it is left in memory or in storage (runClientReport, updateClientReport).
RemovedStaysRemoved ==
    meta = "removed" /\ chain = <<>> => stored = None /\ clients = None /\ known = None

\* Visitors do not see a node that is hidden or removed, whatever report was under
\* way when that was decided (updateClientReport, updateClientMeta, removeClient).
HiddenFromPublic == pub => meta \notin {"hidden", "removed"}

\* A node that reports over a socket is online only as long as it has one
\* (cleanupSession, hydrateHttpClients, the end of updateClientReport).
OnlineMeansConnected == clients # None /\ ~clients.exp => sock # 0

\* A node counts as offline only when its newest acknowledged report is older than
\* the grace period, also after the object restarted (evaluateOfflineLiveness).
NoFalseOffline == [][streak' > streak => acked <= old]_vars

-----------------------------------------------------------------------------
(* What the steps keep, and why the properties above hold *)

\* The queue: reports in the order of their numbers, newer than what was acknowledged,
\* begun under versions that have not been given out since.
QueueInOrder ==
    /\ \A i \in DOMAIN chain :
         /\ chain[i].id \in (acked + 1)..arrived /\ chain[i].sock <= connects
         /\ chain[i].rv <= removal /\ chain[i].xv <= restores
    /\ \A i, j \in DOMAIN chain : i < j => chain[i].id < chain[j].id

\* A report kept came over a socket or expires.
IsKept(e) == e = None \/ (e.time > 0 /\ (e.ws \/ e.exp))
EntriesAreReports == \A e \in {stored, clients, known} : IsKept(e)

\* Memory and storage are as new as what was acknowledged.
NewerThan(n) == known.time >= n /\ (clients # None => clients.time >= n)
AcknowledgedIsKept == acked <= stored.time /\ NewerThan(acked)

\* The report under way: overtaken by a removal or a restore, after which nothing has
\* been acknowledged, or what storage and memory hold.
HeadIsKept ==
    chain # <<>> /\ Head1.pc # "queued" =>
      IF Current(Head1)
      THEN /\ Head1.pc \in {"check", "results"} => stored.time = Head1.id
           /\ Head1.pc = "results" /\ Head1.sock \in {0, sock} => NewerThan(Head1.id)
      ELSE acked = 0

Stale(r) == r.rv < removal \/ r.xv < restores

\* A node that is gone or going has nothing in memory, and no report that is under way
\* can bring it back.
GoneIsForgotten ==
    Gone \/ removing # "no" =>
      /\ acked = 0 /\ clients = None /\ known = None
      /\ \A i \in DOMAIN chain : chain[i].pc = "queued" \/ Stale(chain[i])

\* Until the tombstone is written, no agent gets in.
RemovingIsClosed ==
    removing # "no" =>
      /\ ~cred /\ sock = 0
      /\ \A i \in DOMAIN chain : chain[i].sock = 0 \/ Stale(chain[i])

\* What a report under way writes after the removal is taken back by the same report.
WriteIsTakenBack ==
    (meta = "removed" \/ removing # "no") /\ stored # None =>
      AtHead("check") \/ AtHead("retire")

IndInv ==
    /\ TypeOK /\ connects \in 0..MaxConnects /\ sock <= connects
    /\ HiddenFromPublic /\ OnlineMeansConnected
    /\ QueueInOrder /\ EntriesAreReports /\ AcknowledgedIsKept /\ HeadIsKept
    /\ GoneIsForgotten /\ RemovingIsClosed /\ WriteIsTakenBack
=============================================================================
