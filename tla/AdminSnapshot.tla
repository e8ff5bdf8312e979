--------------------------- MODULE AdminSnapshot ---------------------------
(***************************************************************************)
(* The list of nodes that the administration pages show.  SQL has the rows *)
(* (clients); LiveDataDO keeps a copy with a version and tombstones        *)
(* (worker/src/do/live-data.ts, admin-clients:snapshot); a Worker isolate  *)
(* keeps a list for a short time (adminClientsCache).  Changes reach the   *)
(* copy through the outbox (ClientSync has its protocol: here a change is  *)
(* listed and later applied, and an older one is never applied after a     *)
(* newer one).  GET /clients repairs the copy from what it read in SQL,    *)
(* a reorder writes the order it read, a restore replaces everything.      *)
(*                                                                         *)
(* A row is the revision that wrote its metadata, the revision that wrote  *)
(* its sort_order and updated_at, also a revision: every SQL change takes  *)
(* the next one.  The tombstones, which the code lists newest first, are   *)
(* kept as the version that made each of them (0: none).                   *)
(***************************************************************************)
EXTENDS Integers, FiniteSets

CONSTANTS
    Clients,        \* node UUIDs
    Readers,        \* requests GET /clients
    Backups,        \* backups that may be restored: sets of nodes
    Orders,         \* requests POST /clients/reorder
    NoRow,          \* the node is not in this list
    NoList,         \* nothing cached in the isolate
    MaxTombstones,  \* 200 in removeAdminClientSnapshot
    MaxAttempts,    \* 3 attempts of a restore
    MaxRevision,    \* bound: changes in a behaviour
    MaxVersion      \* bound: versions of the snapshot

ASSUME SnapshotAssumption ==
    /\ MaxTombstones \in Nat \ {0} /\ MaxAttempts \in Nat \ {0}
    /\ MaxRevision \in Nat /\ MaxVersion \in Nat
    /\ Backups \subseteq SUBSET Clients

Revisions == 0..MaxRevision
Rows == [meta : Revisions, ord : Revisions, at : Revisions]
Lists == [Clients -> Rows \cup {NoRow}]

\* The absent values are no values.
ASSUME AbsentAssumption == NoRow \notin Rows /\ NoList \notin Lists

VARIABLES
    row,        \* SQL: clients
    revision,   \* SQL: the last revision given to a change
    pend,       \* SQL: client_sync_queue, 0 without an entry
    carry,      \* changes listed by synchronizations and not applied yet, by node
    applied,    \* LiveDataDO: CLIENT_SYNC_REVISION_PREFIX
    snap,       \* LiveDataDO: ADMIN_CLIENTS_SNAPSHOT_KEY
    cache,      \* a Worker isolate: adminClientsCache
    get,        \* GET /clients requests
    order,      \* POST /clients/reorder requests
    restore     \* the restore of a backup

sqlVars == <<row, revision, pend>>
reqVars == <<get, order, restore>>
vars == <<sqlVars, carry, applied, snap, cache, reqVars>>

Has(list) == {c \in Clients : list[c] # NoRow}
Tombs(s) == {c \in Clients : s.removed[c] # 0}
NoTombs == [c \in Clients |-> 0]
Empty == [c \in Clients |-> NoRow]
\* Version 0: nothing is stored.
Missing == [ver |-> 0, clients |-> Empty, removed |-> NoTombs, complete |-> FALSE]
Stored == snap.ver # 0

\* updatedAt = max(now, previous + 1).
NextVersion == snap.ver + 1

\* Bound: readers and agents stop writing.
MayWrite == NextVersion <= MaxVersion

\* No change of the node is on its way to LiveDataDO.
Settled(c) == pend[c] = 0 /\ carry[c] = {}

-----------------------------------------------------------------------------
(* The administrator's changes: SQL, with the trigger on clients.  The caches *)
(* of the isolate that served the request are cleared as well, before or      *)
(* after the synchronization; other isolates keep theirs (CacheExpires).      *)

Write(S, list) ==
    /\ S # {}
    /\ revision < MaxRevision
    /\ revision' = revision + 1
    /\ row' = list
    /\ pend' = [c \in Clients |-> IF c \in S THEN revision + 1 ELSE pend[c]]
    /\ UNCHANGED <<carry, applied, snap, cache, reqVars>>

Fresh(c) == [meta |-> revision + 1,
             ord |-> IF row[c] = NoRow THEN revision + 1 ELSE row[c].ord,
             at |-> revision + 1]
Changed(S) == [c \in Clients |-> IF c \in S THEN Fresh(c) ELSE row[c]]

AddClient(c) == row[c] = NoRow /\ Write({c}, Changed({c}))
EditClient(c) == row[c] # NoRow /\ Write({c}, Changed({c}))
RotateToken(c) == row[c] # NoRow /\ Write({c}, Changed({c}))
BatchHide(S) == S \subseteq Has(row) /\ Write(S, Changed(S))
Without(S) == [c \in Clients |-> IF c \in S THEN NoRow ELSE row[c]]
RemoveClient(c) == row[c] # NoRow /\ Write({c}, Without({c}))
BatchRemove(S) == S \subseteq Has(row) /\ Write(S, Without(S))

CacheExpires == cache # NoList /\ cache' = NoList
                /\ UNCHANGED <<sqlVars, carry, applied, snap, reqVars>>

\* synchronizePendingClientChanges: the row as it is when the outbox is listed.
ListPending(c) ==
    /\ pend[c] # 0
    /\ carry' = [carry EXCEPT ![c] = @ \cup {[rev |-> pend[c], row |-> row[c]]}]
    /\ UNCHANGED <<sqlVars, applied, snap, cache, reqVars>>

-----------------------------------------------------------------------------
(* LiveDataDO: one request handler at a time touches the stored snapshot *)

\* upsertAdminClientSnapshot for a synchronized row.
Upsert(c, r) ==
    snap' = [ver |-> NextVersion,
             clients |-> [snap.clients EXCEPT ![c] = r],
             removed |-> [snap.removed EXCEPT ![c] = 0],
             complete |-> Stored /\ snap.complete]

\* removeAdminClientSnapshot: the newest MaxTombstones tombstones stay.
Remove(c) ==
    LET stamped == [snap.removed EXCEPT ![c] = NextVersion]
        newer(d) == {t \in Clients : stamped[t] > stamped[d]}
    IN  snap' = [ver |-> NextVersion,
                 clients |-> [snap.clients EXCEPT ![c] = NoRow],
                 removed |-> [d \in Clients |-> IF Cardinality(newer(d)) < MaxTombstones
                                                THEN stamped[d] ELSE 0],
                 complete |-> Stored /\ snap.complete]

\* applyClientSynchronization, then the acknowledgement in SQL.
ApplyChange(c) ==
    \E e \in carry[c] :
      /\ carry' = [carry EXCEPT ![c] = @ \ {e}]
      /\ pend' = [pend EXCEPT ![c] = IF @ = e.rev THEN 0 ELSE @]
      /\ applied' = [applied EXCEPT ![c] = IF @ > e.rev THEN @ ELSE e.rev]
      /\ IF applied[c] >= e.rev THEN UNCHANGED snap
         ELSE IF e.row = NoRow THEN Remove(c) ELSE Upsert(c, e.row)
      /\ UNCHANGED <<row, revision, cache, reqVars>>

\* upsertAdminClientSnapshot with fromAgent: the technical fields are not kept here.
AgentUpsert(c) ==
    /\ Stored /\ MayWrite
    /\ snap.clients[c] # NoRow /\ c \notin Tombs(snap)
    /\ snap' = [snap EXCEPT !.ver = NextVersion]
    /\ UNCHANGED <<sqlVars, carry, applied, cache, reqVars>>

\* Mutant: the version that the reader saw is not compared.
StoreListAlways(base, list, confirmed) ==
    snap' = [ver |-> NextVersion,
             clients |-> [c \in Clients |-> IF c \in Tombs(snap) THEN NoRow ELSE list[c]],
             removed |-> [c \in Clients |-> IF c \in confirmed THEN 0 ELSE snap.removed[c]],
             complete |-> TRUE]

\* writeAdminClientsSnapshot without a mode: 409 when the version has moved.
StoreList(base, list, confirmed) ==
    IF base # snap.ver THEN UNCHANGED snap
    ELSE snap' = [ver |-> NextVersion,
                  clients |-> [c \in Clients |-> IF c \in Tombs(snap) THEN NoRow ELSE list[c]],
                  removed |-> [c \in Clients |-> IF c \in confirmed THEN 0 ELSE snap.removed[c]],
                  complete |-> TRUE]

\* writeAdminClientsSnapshot with mode 'reorder': only the order, whatever the version.
StoreOrder(list) ==
    IF Stored
    THEN snap' = [snap EXCEPT !.ver = NextVersion,
                              !.clients = [c \in Clients |->
                                IF @[c] = NoRow \/ list[c] = NoRow THEN @[c]
                                ELSE [@[c] EXCEPT !.ord = list[c].ord]]]
    ELSE snap' = [ver |-> 1, clients |-> list, removed |-> NoTombs, complete |-> TRUE]

-----------------------------------------------------------------------------
(* GET /clients *)

\* refresh, forced: the list comes from SQL; ver, had: the snapshot read first; conf: the
\* tombstones that SQL confirms; since, quiet, owed: history, what SQL held when the
\* request began of the nodes without a change on its way; current: history, about the answer.
Quiet == [pc |-> "idle", refresh |-> FALSE, forced |-> FALSE, ver |-> 0, had |-> {},
          list |-> Empty, conf |-> {}, answer |-> Empty, since |-> 0, quiet |-> {},
          owed |-> Empty, current |-> TRUE]

\* For a request that saw `was` in SQL at revision `since`, when SQL has `now`: a row that
\* it may answer with, a node that it may leave out, and an entry of a list that it may use.
NotOlder(x, was, since) ==
    /\ (was = NoRow /\ x # NoRow) => x.meta > since
    /\ (was # NoRow /\ x # NoRow) => x.meta >= was.meta
Lost(now, since) == now = NoRow \/ now.meta > since
Good(x, now, was, since) ==
    /\ NotOlder(x, was, since)
    /\ (was # NoRow /\ x = NoRow) => Lost(now, since)

\* The answer has every change that was complete when the request began.
Current(g, answer) == \A c \in g.quiet : Good(answer[c], row[c], g.owed[c], g.since)

Done(g, answer) == [Quiet EXCEPT !.current = Current(g, answer)]

NeedsRepair(s) == s.ver # 0 /\ (~s.complete \/ Tombs(s) # {})

\* Mutant: a repair takes the list that the isolate has kept.
ForcedByRefresh(refresh) == refresh

\* listAdminClientsCached is forced by a refresh and by a repair.
Forced(refresh) == refresh \/ NeedsRepair(snap)

GetBegins(r, refresh) ==
    LET hit == ~refresh /\ Stored /\ snap.complete /\ Tombs(snap) = {}
        g == [Quiet EXCEPT !.pc = "list", !.refresh = refresh, !.forced = Forced(refresh),
                           !.ver = snap.ver, !.had = Has(snap.clients), !.since = revision,
                           !.quiet = {c \in Clients : Settled(c)}, !.owed = row]
    IN  /\ get[r].pc = "idle"
        /\ get' = [get EXCEPT ![r] = IF hit THEN Done(g, snap.clients) ELSE g]
        /\ UNCHANGED <<sqlVars, carry, applied, snap, cache, order, restore>>

GetLists(r) ==
    LET list == IF ~get[r].forced /\ cache # NoList THEN cache ELSE row
    IN  /\ get[r].pc = "list"
        /\ get' = [get EXCEPT ![r].pc = "again", ![r].list = list]
        /\ cache' = list
        /\ UNCHANGED <<sqlVars, carry, applied, snap, order, restore>>

\* applyAdminClientsSnapshot: SQL owns membership, except for a node first seen
\* after the query started; of two versions of a node the newer one counts.
Overlay(list, s, ver, had) ==
    LET newcomer(c) == s.ver > ver /\ c \notin had
        pick(c) == IF c \in Tombs(s) THEN NoRow
                   ELSE IF s.clients[c] = NoRow THEN list[c]
                   ELSE IF list[c] = NoRow
                        THEN IF newcomer(c) THEN s.clients[c] ELSE NoRow
                   ELSE IF list[c].at > s.clients[c].at THEN list[c]
                   ELSE s.clients[c]
    IN  IF s.ver = 0 THEN list ELSE [c \in Clients |-> pick(c)]

GetAnswers(r) ==
    LET g == get[r]
        answer == Overlay(g.list, snap, g.ver, g.had)
    IN  /\ g.pc = "again"
        /\ get' = [get EXCEPT ![r] =
             IF g.refresh \/ ~Stored \/ NeedsRepair(snap)
             THEN [Done(g, answer) EXCEPT !.pc = "save", !.ver = g.ver, !.answer = answer,
                                          !.conf = Tombs(snap) \ Has(g.list)]
             ELSE Done(g, answer)]
        /\ UNCHANGED <<sqlVars, carry, applied, snap, cache, order, restore>>

\* The write in the background, which may be lost.
GetSaves(r) ==
    LET g == get[r]
    IN  /\ g.pc = "save"
        /\ \/ MayWrite /\ StoreList(g.ver, g.answer, g.conf)
           \/ UNCHANGED snap
        /\ get' = [get EXCEPT ![r] = Quiet]
        /\ UNCHANGED <<sqlVars, carry, applied, cache, order, restore>>

-----------------------------------------------------------------------------
(* POST /clients/reorder *)

\* cfm_reorder_clients gives every node its place; the trigger queues the moved ones.
ReorderSql(o, S) ==
    /\ order[o].pc = "idle"
    /\ S # {} /\ S \subseteq Has(row)
    /\ revision < MaxRevision
    /\ revision' = revision + 1
    /\ row' = [c \in Clients |-> IF c \in S THEN [row[c] EXCEPT !.ord = revision + 1,
                                                                !.at = revision + 1] ELSE row[c]]
    /\ pend' = [c \in Clients |-> IF c \in S THEN revision + 1 ELSE pend[c]]
    /\ order' = [order EXCEPT ![o].pc = "list"]
    /\ UNCHANGED <<carry, applied, snap, cache, get, restore>>

ReorderLists(o) ==
    /\ order[o].pc = "list"
    /\ order' = [order EXCEPT ![o] = [pc |-> "put", list |-> row]]
    /\ cache' = row
    /\ UNCHANGED <<sqlVars, carry, applied, snap, get, restore>>

ReorderStores(o) ==
    /\ order[o].pc = "put"
    /\ StoreOrder(order[o].list)
    /\ order' = [order EXCEPT ![o] = [pc |-> "idle", list |-> Empty]]
    /\ UNCHANGED <<sqlVars, carry, applied, cache, get, restore>>

-----------------------------------------------------------------------------
(* POST /upload/backup *)

\* restoreBackupData: every row is the backup's, and the trigger queues each node.
RestoreSql(S) ==
    /\ S \in Backups
    /\ restore.pc = "idle"
    /\ revision < MaxRevision
    /\ revision' = revision + 1
    /\ row' = [c \in Clients |-> IF c \in S THEN [meta |-> revision + 1, ord |-> revision + 1,
                                                  at |-> revision + 1] ELSE NoRow]
    /\ pend' = [c \in Clients |-> IF c \in S \/ row[c] # NoRow THEN revision + 1 ELSE pend[c]]
    /\ restore' = [pc |-> "read", base |-> 0, list |-> Empty, tries |-> 0]
    /\ UNCHANGED <<carry, applied, snap, cache, get, order>>

RestoreReads ==
    /\ restore.pc = "read"
    /\ restore' = [restore EXCEPT !.pc = "list", !.base = snap.ver]
    /\ UNCHANGED <<sqlVars, carry, applied, snap, cache, get, order>>

RestoreLists ==
    /\ restore.pc = "list"
    /\ restore' = [restore EXCEPT !.pc = "put", !.list = row]
    /\ UNCHANGED <<sqlVars, carry, applied, snap, cache, get, order>>

\* restoreClients: on CLIENT_SNAPSHOT_CHANGED it reads again, three times at most.
RestoreClients ==
    IF restore.base = snap.ver
    THEN /\ snap' = [ver |-> NextVersion, clients |-> restore.list, removed |-> NoTombs,
                     complete |-> TRUE]
         /\ restore' = [restore EXCEPT !.pc = "idle", !.list = Empty]
    ELSE /\ restore' = [restore EXCEPT !.pc = IF restore.tries + 1 < MaxAttempts THEN "read" ELSE "idle",
                                       !.tries = @ + 1, !.list = Empty]
         /\ UNCHANGED snap

RestoreStores ==
    /\ restore.pc = "put"
    /\ RestoreClients
    /\ UNCHANGED <<sqlVars, carry, applied, cache, get, order>>

-----------------------------------------------------------------------------
Init ==
    /\ row \in [Clients -> {NoRow, [meta |-> 0, ord |-> 0, at |-> 0]}]
    /\ revision = 0
    /\ pend = [c \in Clients |-> 0]
    /\ carry = [c \in Clients |-> {}]
    /\ applied = [c \in Clients |-> 0]
    /\ snap = Missing
    /\ cache = NoList
    /\ get = [r \in Readers |-> Quiet]
    /\ order = [o \in Orders |-> [pc |-> "idle", list |-> Empty]]
    /\ restore = [pc |-> "idle", base |-> 0, list |-> Empty, tries |-> 0]

Next ==
    \/ \E c \in Clients : \/ AddClient(c) \/ EditClient(c) \/ RotateToken(c) \/ RemoveClient(c)
                          \/ ListPending(c) \/ ApplyChange(c) \/ AgentUpsert(c)
    \/ \E S \in SUBSET Clients : BatchHide(S) \/ BatchRemove(S) \/ RestoreSql(S)
    \/ CacheExpires
    \/ \E r \in Readers : \/ \E refresh \in BOOLEAN : GetBegins(r, refresh)
                          \/ GetLists(r) \/ GetAnswers(r) \/ GetSaves(r)
    \/ \E o \in Orders : \/ \E S \in SUBSET Clients : ReorderSql(o, S)
                         \/ ReorderLists(o) \/ ReorderStores(o)
    \/ RestoreReads \/ RestoreLists \/ RestoreStores

Spec == Init /\ [][Next]_vars

-----------------------------------------------------------------------------
(* Properties *)

Changes == [rev : Revisions, row : Rows \cup {NoRow}]
Snapshots == [ver : Nat, clients : Lists, removed : [Clients -> Nat], complete : BOOLEAN]
Gets == [pc : {"idle", "list", "again", "save"}, refresh : BOOLEAN, forced : BOOLEAN, ver : Nat,
         had : SUBSET Clients, list : Lists, conf : SUBSET Clients, answer : Lists,
         since : Revisions, quiet : SUBSET Clients, owed : Lists, current : BOOLEAN]

\* The variables have their types.
TypeOK ==
    /\ row \in Lists
    /\ revision \in Revisions
    /\ pend \in [Clients -> Revisions] /\ applied \in [Clients -> Revisions]
    /\ carry \in [Clients -> SUBSET Changes]
    /\ snap \in Snapshots
    /\ cache \in Lists \cup {NoList}
    /\ get \in [Readers -> Gets]
    /\ order \in [Orders -> [pc : {"idle", "list", "put"}, list : Lists]]
    /\ restore \in [pc : {"idle", "read", "list", "put"}, base : Nat, list : Lists, tries : Nat]

\* What a snapshot may hold of a node that SQL has as `now`.
Fits(s, c, now) ==
    /\ now = NoRow => s.clients[c] = NoRow
    /\ now # NoRow => /\ c \notin Tombs(s)
                      /\ s.complete => s.clients[c] # NoRow
                      /\ s.clients[c] # NoRow => s.clients[c].meta = now.meta

\* A node none of whose changes is on its way is in LiveDataDO's list as it is in SQL:
\* a list that a slow GET /clients, a restore or a reorder read before the change does
\* not undo it, and no removed node comes back (writeAdminClientsSnapshot, restoreClients).
SnapshotSettles == \A c \in Clients : (Settled(c) /\ Stored) => Fits(snap, c, row[c])

\* The answer of GET /clients has every change whose synchronization was complete
\* when the request began, from whichever of the three lists it is put together.
AnswerIsCurrent ==
    \A r \in Readers : get[r].current

-----------------------------------------------------------------------------
(* The inductive invariant behind SnapshotSettles and AnswerIsCurrent *)

\* The outbox: what has been applied is older than what waits, and a listed change is
\* either applied, outdated or the one that waits, with the row as it is.
OutboxInOrder ==
    \A c \in Clients :
        /\ applied[c] <= revision /\ pend[c] <= revision
        /\ pend[c] # 0 => applied[c] < pend[c]
        /\ \A e \in carry[c] :
             /\ e.rev >= 1
             /\ e.rev <= applied[c] \/ e.rev <= pend[c]
             /\ e.rev = pend[c] => e.row = row[c]

\* No row is newer than the last revision.
RowsAreOld == \A c \in Clients : row[c] # NoRow => row[c].meta <= revision

\* The same node with the same metadata as in SQL.
Same(x, now) == /\ x = NoRow <=> now = NoRow
                /\ x # NoRow => x.meta = now.meta

\* A list agrees with SQL on every node without a change that waits.
Matches(list) == \A c \in Clients : pend[c] = 0 => Same(list[c], row[c])

SnapshotMatches == Stored => \A c \in Clients : pend[c] = 0 => Fits(snap, c, row[c])

\* A list that may still be stored, under the version that it was read for, matches.
ListsMatch ==
    /\ ~Stored => /\ snap = Missing
                  /\ \A c \in Clients : applied[c] = 0
                  /\ cache # NoList => Matches(cache)
    /\ \A r \in Readers :
         /\ get[r].ver <= snap.ver
         /\ (get[r].pc = "list" /\ ~get[r].forced) => get[r].ver = 0
         /\ (get[r].pc = "again" /\ get[r].ver = snap.ver) => Matches(get[r].list)
         /\ (get[r].pc = "save" /\ get[r].ver = snap.ver) => Matches(get[r].answer)
    /\ \A o \in Orders : (order[o].pc = "put" /\ ~Stored) => Matches(order[o].list)
    /\ restore.pc \in {"list", "put"} => restore.base <= snap.ver
    /\ (restore.pc = "put" /\ restore.base = snap.ver) => Matches(restore.list)

\* Everything that the answer may be put together from is good for one node of a request.
Sources(g, c, was, since) ==
    /\ NotOlder(row[c], was, since) /\ NotOlder(snap.clients[c], was, since)
    /\ was # NoRow => was.meta <= since
    /\ \A e \in carry[c] : Good(e.row, row[c], was, since)
    /\ (was # NoRow /\ c \in Tombs(snap)) => Lost(row[c], since)
    /\ g.pc = "again" => Good(g.list[c], row[c], was, since)
    /\ ((~g.forced \/ ~Stored) /\ cache # NoList) => Good(cache[c], row[c], was, since)
    /\ \A r \in Readers : get[r].ver = snap.ver =>
         /\ get[r].pc = "again" => Good(get[r].list[c], row[c], was, since)
         /\ get[r].pc = "save" => Good(get[r].answer[c], row[c], was, since)
    /\ \A o \in Orders : (order[o].pc = "put" /\ ~Stored) => Good(order[o].list[c], row[c], was, since)
    /\ (restore.pc = "put" /\ restore.base = snap.ver) => Good(restore.list[c], row[c], was, since)

AnswersAreOwed ==
    \A r \in Readers : get[r].pc \in {"list", "again"} =>
        /\ get[r].since <= revision
        /\ \A c \in get[r].quiet : Sources(get[r], c, get[r].owed[c], get[r].since)

IndInv ==
    /\ TypeOK /\ OutboxInOrder /\ RowsAreOld /\ SnapshotMatches /\ ListsMatch
    /\ AnswersAreOwed /\ AnswerIsCurrent
=============================================================================
