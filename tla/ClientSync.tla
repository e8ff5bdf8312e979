----------------------------- MODULE ClientSync -----------------------------
(***************************************************************************)
(* How an administrator's change of a node reaches the Durable Object that *)
(* decides which agent credentials are good.  The SQL transaction that     *)
(* changes clients queues the node under a new revision                    *)
(* (supabase/migrations/4_rpc_api.sql); a Worker request or the cron lists *)
(* the queue, has LiveDataDO apply the batch and acknowledges it           *)
(* (worker/src/utils/client-sync.ts, worker/src/do/live-data.ts).          *)
(* Meanwhile agents authenticate (worker/src/routes/client.ts): a token    *)
(* that LiveDataDO does not know is looked up in SQL and the row found is  *)
(* written to LiveDataDO without a revision.                               *)
(*                                                                         *)
(* A row is its token and the time the token was given out; the metadata   *)
(* of a node and its live reports are not in this module.                  *)
(***************************************************************************)
EXTENDS Integers, FiniteSets, TLAPS

CONSTANTS
    Clients,        \* node UUIDs
    Hashes,         \* token hashes
    Times,          \* values of token_rotated_at
    NoRow,          \* the node is not in SQL
    NoHash,         \* no pointer, or no token
    NoControl,      \* LiveDataDO has no control entry of the node
    Syncs,          \* runs of synchronizePendingClientChanges
    Agents,         \* agent requests that missed in LiveDataDO
    NoRead,         \* the agent request is not between SQL and LiveDataDO
    BatchLimit,     \* the limit of cfm_pending_client_syncs
    MaxRevision,    \* bound: changes in a behaviour
    MaxFaults       \* bound: stops of LiveDataDO, lost calls and restores

Rows == [hash : Hashes, rot : Times]

Entries == [uuid : Clients, rev : Nat \ {0}, row : Rows \cup {NoRow}]

ASSUME SyncAssumption ==
    /\ NoHash \notin Hashes
    /\ NoRow \notin Rows
    /\ Times \subseteq Nat
    /\ BatchLimit \in Nat \ {0}
    /\ MaxRevision \in Nat /\ MaxFaults \in Nat

Controls == [hash : Hashes \cup {NoHash}, rot : Nat, rev : Nat, removed : BOOLEAN]

ASSUME NoControlAssumption == NoControl \notin Controls
ASSUME NoReadAssumption == NoRead \notin Clients \X Rows

VARIABLES
    row,        \* SQL: clients
    queue,      \* SQL: client_sync_queue, 0 without an entry
    revision,   \* SQL: client_sync_revision_seq
    last,       \* history: the revision of the last change of each node
    mark,       \* LiveDataDO: CLIENT_SYNC_REVISION_PREFIX; row is history
    ctl,        \* LiveDataDO: AGENT_AUTH_CONTROL_PREFIX
    ptr,        \* LiveDataDO: AGENT_AUTH_UUID_PREFIX
    snap,       \* LiveDataDO: AGENT_AUTH_SNAPSHOT_PREFIX, by node
    sync,       \* the synchronizations under way
    read,       \* agent requests that have read SQL
    faults      \* faults so far (bound only)

sqlVars == <<row, queue, revision, last>>
authVars == <<ctl, ptr, snap>>
vars == <<sqlVars, mark, authVars, sync, read, faults>>

\* all: the batch; todo: the changes not applied yet; cur: the change that holds the
\* node's control write; alive: somebody waits for the answer.
Idle == [pc |-> "idle", all |-> {}, todo |-> {}, cur |-> {}, alive |-> TRUE]

Holding == {"remove", "store", "complete"}

\* runClientControlWrite: another request writes the node's control entries.
Locked(c) == \E v \in Syncs : sync[v].pc \in Holding /\ \E e \in sync[v].cur : e.uuid = c

-----------------------------------------------------------------------------
(* SQL *)

\* A transaction on clients with the trigger queue_client_control_change: insert,
\* update or delete; an update of other columns leaves the row here as it is.
ChangeClient(c, new) ==
    /\ row[c] # NoRow \/ new # NoRow
    /\ revision < MaxRevision
    /\ revision' = revision + 1
    /\ row' = [row EXCEPT ![c] = new]
    /\ queue' = [queue EXCEPT ![c] = revision + 1]
    /\ last' = [last EXCEPT ![c] = revision + 1]
    /\ UNCHANGED <<mark, authVars, sync, read, faults>>

\* cfm_pending_client_syncs: the oldest changes of the nodes U, with the rows as
\* they are in the same snapshot.
Pending(U) ==
    LET Q == {c \in U : queue[c] # 0}
        First == {c \in Q : Cardinality({d \in Q : queue[d] < queue[c]}) < BatchLimit}
    IN  {[uuid |-> c, rev |-> queue[c], row |-> row[c]] : c \in First}

ListPending(w, U) ==
    /\ sync[w].pc = "idle"
    /\ Pending(U) # {}
    /\ sync' = [sync EXCEPT ![w] = [pc |-> "next", all |-> Pending(U), todo |-> Pending(U),
                                    cur |-> {}, alive |-> TRUE]]
    /\ UNCHANGED <<sqlVars, mark, authVars, read, faults>>

\* Mutant: an answer clears the node's entry whatever its revision is now.
AcknowledgeAnyRevision(w) ==
    /\ sync[w].pc = "ack"
    /\ queue' = [c \in Clients |-> IF \E e \in sync[w].all : e.uuid = c THEN 0 ELSE queue[c]]
    /\ sync' = [sync EXCEPT ![w] = Idle]
    /\ UNCHANGED <<row, revision, last, mark, authVars, read, faults>>

\* cfm_acknowledge_client_syncs after a complete answer.
Acknowledge(w) ==
    /\ sync[w].pc = "ack"
    /\ queue' = [c \in Clients |-> IF \E e \in sync[w].all : e.uuid = c /\ e.rev = queue[c]
                                   THEN 0 ELSE queue[c]]
    /\ sync' = [sync EXCEPT ![w] = Idle]
    /\ UNCHANGED <<row, revision, last, mark, authVars, read, faults>>

-----------------------------------------------------------------------------
(* LiveDataDO: applyClientSynchronizationBatch, applyClientSynchronization *)

\* The synchronization w once the change e is done with.
Advance(w, e) ==
    LET rest == sync[w].todo \ {e}
    IN  IF rest # {} THEN [sync[w] EXCEPT !.pc = "next", !.todo = rest, !.cur = {}]
        ELSE IF sync[w].alive THEN [sync[w] EXCEPT !.pc = "ack", !.todo = {}, !.cur = {}]
        ELSE Idle

\* A newer change, or this one, has been applied.
Seen(e) ==
    LET m == mark[e.uuid]
    IN  m.rev > e.rev \/ (m.rev = e.rev /\ m.complete)

\* Mutant: a change already applied is an error.
BeginRefusingReplay(w) ==
    /\ sync[w].pc = "next"
    /\ \E e \in sync[w].todo :
         /\ \A f \in sync[w].todo : e.rev <= f.rev
         /\ ~Locked(e.uuid)
         /\ IF Seen(e)
            THEN sync' = [sync EXCEPT ![w] = Idle] /\ UNCHANGED mark
            ELSE /\ sync' = [sync EXCEPT ![w].pc = "remove", ![w].cur = {e}]
                 /\ mark' = [mark EXCEPT ![e.uuid] =
                               [rev |-> e.rev, complete |-> FALSE, row |-> e.row]]
    /\ UNCHANGED <<sqlVars, authVars, read, faults>>

\* The high-water mark is written before the effects.
Begin(w) ==
    /\ sync[w].pc = "next"
    /\ \E e \in sync[w].todo :
         /\ \A f \in sync[w].todo : e.rev <= f.rev
         /\ ~Locked(e.uuid)
         /\ IF Seen(e)
            THEN sync' = [sync EXCEPT ![w] = Advance(w, e)] /\ UNCHANGED mark
            ELSE /\ sync' = [sync EXCEPT ![w].pc = "remove", ![w].cur = {e}]
                 /\ mark' = [mark EXCEPT ![e.uuid] =
                               [rev |-> e.rev, complete |-> FALSE, row |-> e.row]]
    /\ UNCHANGED <<sqlVars, authVars, read, faults>>

\* removeAgentAuthByUuid; without a control entry rotatedAt is the time of the removal.
RemoveAuth(c) ==
    /\ ptr' = [ptr EXCEPT ![c] = NoHash]
    /\ snap' = [snap EXCEPT ![c] = @ \ {ptr[c]}]
    /\ \E t \in Times :
         ctl' = [ctl EXCEPT ![c] =
                   [hash |-> NoHash, rot |-> IF @ = NoControl THEN t ELSE @.rot,
                    rev |-> IF @ = NoControl THEN 0 ELSE @.rev, removed |-> TRUE]]

\* removeClient: of a deleted node, or of one whose token was replaced.
Remove(w) ==
    /\ sync[w].pc = "remove"
    /\ \E e \in sync[w].cur :
         /\ IF e.row = NoRow \/ ptr[e.uuid] \notin {NoHash, e.row.hash}
            THEN RemoveAuth(e.uuid) ELSE UNCHANGED authVars
         /\ sync' = [sync EXCEPT ![w].pc = IF e.row = NoRow THEN "complete" ELSE "store"]
    /\ UNCHANGED <<sqlVars, mark, read, faults>>

\* storeAgentAuthSnapshot once it is not refused; the writes are one commit.
StoreAuth(c, r, rev) ==
    /\ ptr' = [ptr EXCEPT ![c] = r.hash]
    /\ snap' = [snap EXCEPT ![c] = (@ \ {ptr[c]}) \cup {r.hash}]
    /\ ctl' = [ctl EXCEPT ![c] = [hash |-> r.hash, rot |-> r.rot, rev |-> rev,
                                  removed |-> FALSE]]

ControlRevision(c) == IF ctl[c] = NoControl THEN 0 ELSE ctl[c].rev

\* storeAgentAuthSnapshot with the change's revision; a refusal ends the batch.
Store(w) ==
    /\ sync[w].pc = "store"
    /\ \E e \in sync[w].cur :
         IF e.rev < ControlRevision(e.uuid)
         THEN sync' = [sync EXCEPT ![w] = Idle] /\ UNCHANGED authVars
         ELSE /\ StoreAuth(e.uuid, e.row, e.rev)
              /\ sync' = [sync EXCEPT ![w].pc = "complete"]
    /\ UNCHANGED <<sqlVars, mark, read, faults>>

Complete(w) ==
    /\ sync[w].pc = "complete"
    /\ \E e \in sync[w].cur :
         /\ mark' = [mark EXCEPT ![e.uuid].complete = TRUE]
         /\ sync' = [sync EXCEPT ![w] = Advance(w, e)]
    /\ UNCHANGED <<sqlVars, authVars, read, faults>>

-----------------------------------------------------------------------------
(* Agents: getAgentClientByToken, upsertAgentAuthSnapshot *)

\* SQL knows the token; the lookup in LiveDataDO that missed came before.
AgentReads(a, c) ==
    /\ read[a] = NoRead
    /\ row[c] # NoRow
    /\ read' = [read EXCEPT ![a] = <<c, row[c]>>]
    /\ UNCHANGED <<sqlVars, mark, authVars, sync, faults>>

\* Mutant: only the time of the rotation protects the token.
SupersededByTime(c, r) ==
    ptr[c] \notin {NoHash, r.hash} /\ ctl[c] # NoControl /\ r.rot <= ctl[c].rot

\* What storeAgentAuthSnapshot refuses without a revision.
Superseded(c, r) ==
    /\ ctl[c] # NoControl
    /\ \/ ctl[c].removed
       \/ ctl[c].rev # 0 /\ ctl[c].hash # r.hash
       \/ ptr[c] \notin {NoHash, r.hash} /\ r.rot <= ctl[c].rot

\* The row read from SQL arrives, or is refused, or is older than the copy.
AgentUpserts(a) ==
    /\ read[a] # NoRead
    /\ LET c == read[a][1]
           r == read[a][2]
       IN  /\ ~Locked(c)
           /\ \/ ~Superseded(c, r) /\ StoreAuth(c, r, ControlRevision(c))
              \/ Superseded(c, r) /\ UNCHANGED authVars
              \/ ptr[c] = r.hash /\ r.hash \in snap[c] /\ UNCHANGED authVars
    /\ read' = [read EXCEPT ![a] = NoRead]
    /\ UNCHANGED <<sqlVars, mark, sync, faults>>

-----------------------------------------------------------------------------
(* Faults *)

Fault == faults < MaxFaults /\ faults' = faults + 1

\* Synchronizations whose request LiveDataDO has.
Applying(w) == sync[w].pc \in {"next"} \cup Holding

\* LiveDataDO stops between two writes: the requests it has fail.
ObjectStops ==
    /\ Fault
    /\ sync' = [w \in Syncs |-> IF Applying(w) THEN Idle ELSE sync[w]]
    /\ UNCHANGED <<sqlVars, mark, authVars, read>>

\* The Worker stops or its call fails: before the request, while LiveDataDO works
\* on it, which it goes on to do, or before the acknowledgement.
CallLost(w) ==
    /\ Fault
    /\ \/ /\ (sync[w].pc = "next" /\ sync[w].todo = sync[w].all) \/ sync[w].pc = "ack"
          /\ sync' = [sync EXCEPT ![w] = Idle]
       \/ /\ Applying(w) /\ sync[w].alive
          /\ sync' = [sync EXCEPT ![w].alive = FALSE]
    /\ UNCHANGED <<sqlVars, mark, authVars, read>>

AgentLost(a) ==
    /\ Fault
    /\ read[a] # NoRead
    /\ read' = [read EXCEPT ![a] = NoRead]
    /\ UNCHANGED <<sqlVars, mark, authVars, sync>>

\* restoreClients deletes all snapshots, then all pointers, and no control entry; when
\* the object stops on the way only the snapshots of the nodes D are gone.
RestoreClients(D) ==
    /\ Fault
    /\ snap' = [c \in Clients |-> IF c \in D THEN {} ELSE snap[c]]
    /\ \/ /\ D = Clients
          /\ ptr' = [c \in Clients |-> NoHash]
          /\ UNCHANGED sync
       \/ /\ sync' = [w \in Syncs |-> IF Applying(w) THEN Idle ELSE sync[w]]
          /\ UNCHANGED ptr
    /\ UNCHANGED <<sqlVars, mark, ctl, read>>

-----------------------------------------------------------------------------
Init ==
    /\ row = [c \in Clients |-> NoRow]
    /\ queue = [c \in Clients |-> 0]
    /\ revision = 0
    /\ last = [c \in Clients |-> 0]
    /\ mark = [c \in Clients |-> [rev |-> 0, complete |-> TRUE, row |-> NoRow]]
    /\ ctl = [c \in Clients |-> NoControl]
    /\ ptr = [c \in Clients |-> NoHash]
    /\ snap = [c \in Clients |-> {}]
    /\ sync = [w \in Syncs |-> Idle]
    /\ read = [a \in Agents |-> NoRead]
    /\ faults = 0

Next ==
    \/ \E c \in Clients, new \in Rows \cup {NoRow} : ChangeClient(c, new)
    \/ \E w \in Syncs, U \in SUBSET Clients : ListPending(w, U)
    \/ \E w \in Syncs : Begin(w)
    \/ \E w \in Syncs : Remove(w)
    \/ \E w \in Syncs : Store(w)
    \/ \E w \in Syncs : Complete(w)
    \/ \E w \in Syncs : Acknowledge(w)
    \/ \E a \in Agents, c \in Clients : AgentReads(a, c)
    \/ \E a \in Agents : AgentUpserts(a)
    \/ ObjectStops
    \/ \E w \in Syncs : CallLost(w)
    \/ \E a \in Agents : AgentLost(a)
    \/ \E D \in SUBSET Clients : RestoreClients(D)

Spec == Init /\ [][Next]_vars

-----------------------------------------------------------------------------
(* Properties *)

PCs == {"idle", "next", "ack"} \cup Holding

TypeOK ==
    /\ row \in [Clients -> Rows \cup {NoRow}]
    /\ queue \in [Clients -> Nat]
    /\ revision \in Nat
    /\ last \in [Clients -> Nat]
    /\ mark \in [Clients -> [rev : Nat, complete : BOOLEAN, row : Rows \cup {NoRow}]]
    /\ ctl \in [Clients -> Controls \cup {NoControl}]
    /\ ptr \in [Clients -> Hashes \cup {NoHash}]
    /\ snap \in [Clients -> SUBSET Hashes]
    /\ sync \in [Syncs -> [pc : PCs, all : SUBSET Entries, todo : SUBSET Entries,
                           cur : SUBSET Entries, alive : BOOLEAN]]
    /\ read \in [Agents -> (Clients \X Rows) \cup {NoRead}]
    /\ faults \in Nat

\* lookupAgentAuthSnapshot finds the token, and isAgentCredentialCurrent lets its
\* reports in.
Accepts(c, h) ==
    /\ h \in snap[c] /\ ptr[c] = h
    /\ ctl[c] = NoControl \/ (~ctl[c].removed /\ ctl[c].hash = h)

\* An empty queue means that LiveDataDO agrees with SQL, whatever synchronizations,
\* agent requests, stops and restores came in between: no token but the current one is
\* accepted, and the current one is not refused.
SyncedAuthority ==
    \A c \in Clients : queue[c] = 0 =>
        /\ \A h \in Hashes : Accepts(c, h) => row[c] # NoRow /\ row[c].hash = h
        /\ row[c] # NoRow => ~Superseded(c, row[c])

\* Once a node has been removed or a revision applied to its control entry, a token
\* becomes good only as that of the newest revision LiveDataDO has seen, or as the one
\* the control entry already names (its pointer lost in a restore): a replayed change or
\* a late agent request cannot bring back a revoked token.
RevokedStaysRevoked ==
    [][\A c \in Clients, h \in Hashes :
         /\ Accepts(c, h)' /\ ~Accepts(c, h)
         /\ ctl[c] # NoControl /\ (ctl[c].removed \/ ctl[c].rev # 0)
         => h = ctl[c].hash \/ (mark[c].row # NoRow /\ h = mark[c].row.hash)]_vars

-----------------------------------------------------------------------------
(* The inductive invariant *)

\* The parts of a revision number: last is the newest of each node, the queue holds that
\* one or nothing, and what carries it carries the row that SQL has.
RevisionsAreRows ==
    /\ \A c \in Clients :
         /\ queue[c] \in {0, last[c]} /\ last[c] <= revision
         /\ mark[c].rev <= last[c]
         /\ mark[c].rev = last[c] => mark[c].row = row[c]
    /\ \A w \in Syncs : \A e \in sync[w].all :
         /\ e.rev <= last[e.uuid]
         /\ e.rev = last[e.uuid] => e.row = row[e.uuid]

\* One synchronization at a time writes a node, and the mark is its change's.
HoldersOwnTheMark ==
    /\ \A w \in Syncs :
         /\ sync[w].todo \subseteq sync[w].all
         /\ sync[w].pc = "ack" => sync[w].todo = {}
         /\ \A e \in sync[w].cur :
              /\ e \in sync[w].todo
              /\ \A f \in sync[w].cur : e = f
              /\ mark[e.uuid].rev = e.rev /\ ~mark[e.uuid].complete /\ mark[e.uuid].row = e.row
              /\ sync[w].pc \in Holding
    /\ \A v, w \in Syncs : v # w =>
         \A e \in sync[v].cur, f \in sync[w].cur : e.uuid # f.uuid

\* The changes of a batch that are not to do any more have been applied.
DoneIsSeen == \A w \in Syncs : \A e \in sync[w].all \ sync[w].todo : Seen(e)

\* The control entries are those of the row r.
AuthMatches(c, r) ==
    /\ ctl[c] # NoControl
    /\ IF r = NoRow THEN ctl[c].removed
       ELSE /\ ~ctl[c].removed /\ ctl[c].rev # 0 /\ ctl[c].hash = r.hash
            /\ ptr[c] \in {NoHash, r.hash}

AppliedMeansMatched ==
    /\ \A c \in Clients : mark[c].complete /\ mark[c].rev # 0 => AuthMatches(c, mark[c].row)
    /\ \A w \in Syncs : \A e \in sync[w].cur :
         /\ sync[w].pc = "complete" => AuthMatches(e.uuid, e.row)
         /\ sync[w].pc = "store" => e.row # NoRow

\* What an acknowledgement leaves behind.
EmptyMeansApplied ==
    \A c \in Clients : queue[c] = 0 => mark[c].rev = last[c] /\ mark[c].complete

NewNodesAreUnknown ==
    \A c \in Clients : last[c] = 0 =>
        /\ row[c] = NoRow /\ ctl[c] = NoControl /\ snap[c] = {}
        /\ \A a \in Agents : read[a] # NoRead => read[a][1] # c

IndInv ==
    /\ TypeOK
    /\ RevisionsAreRows
    /\ HoldersOwnTheMark
    /\ DoneIsSeen
    /\ AppliedMeansMatched
    /\ EmptyMeansApplied
    /\ NewNodesAreUnknown

-----------------------------------------------------------------------------
(* Liveness *)

\* The cron synchronizes every two minutes, and Cloudflare runs what was started.
Fairness ==
    \A w \in Syncs :
        /\ WF_vars(ListPending(w, Clients))
        /\ WF_vars(Begin(w))
        /\ WF_vars(Remove(w))
        /\ WF_vars(Store(w))
        /\ WF_vars(Complete(w))
        /\ WF_vars(Acknowledge(w))

FairSpec == Spec /\ Fairness

\* A change does not stay in the queue: a node whose removal or whose new token was
\* half applied when the object stopped is finished.
ChangesAreApplied == \A c \in Clients : queue[c] # 0 ~> queue[c] = 0

-----------------------------------------------------------------------------
(* Proofs, for all nodes, tokens, synchronizations and agent requests, any batch limit and *)
(* all bounds *)

\* The records of the idle synchronization have the type of sync.
LEMMA IdleType ==
    Idle \in [pc : PCs, all : SUBSET Entries, todo : SUBSET Entries,
              cur : SUBSET Entries, alive : BOOLEAN]
BY DEF Idle, PCs, Holding

\* Init: the invariant holds of the empty system.
LEMMA InitInv == Init => IndInv
<1>1. Init => TypeOK
    BY IdleType, SyncAssumption DEF Init, TypeOK
<1>2. Init => RevisionsAreRows /\ HoldersOwnTheMark /\ DoneIsSeen /\ AppliedMeansMatched
              /\ EmptyMeansApplied /\ NewNodesAreUnknown
    BY DEF Init, RevisionsAreRows, HoldersOwnTheMark, DoneIsSeen, AppliedMeansMatched,
           EmptyMeansApplied, NewNodesAreUnknown, Idle, Holding
<1> QED BY <1>1, <1>2 DEF IndInv

\* Synchronizations that end, for whatever reason, leave the others as they were.
LEMMA ToIdleInv ==
    ASSUME IndInv, UNCHANGED <<mark, ctl, ptr>>,
           \A v \in Syncs : sync'[v] \in {sync[v], Idle}
    PROVE  HoldersOwnTheMark' /\ DoneIsSeen' /\ AppliedMeansMatched'
<1>1. HoldersOwnTheMark'
    BY DEF IndInv, HoldersOwnTheMark, Idle, Holding
<1>2. DoneIsSeen'
    BY DEF IndInv, DoneIsSeen, Seen, Idle
<1>3. AppliedMeansMatched'
    BY DEF IndInv, AppliedMeansMatched, AuthMatches, Idle
<1> QED BY <1>1, <1>2, <1>3

\* ChangeClient: the new revision is newer than all that is under way.
LEMMA ChangeInv ==
    ASSUME IndInv, NEW c \in Clients, NEW new \in Rows \cup {NoRow}, ChangeClient(c, new)
    PROVE  IndInv'
<1>1. TypeOK'
    BY DEF IndInv, TypeOK, ChangeClient, authVars
<1>2. RevisionsAreRows'
    BY DEF IndInv, TypeOK, ChangeClient, authVars, RevisionsAreRows, Entries
<1>0. UNCHANGED <<mark, ctl, ptr, snap, sync, read>>
    BY DEF ChangeClient, authVars
<1>3. HoldersOwnTheMark' /\ DoneIsSeen' /\ AppliedMeansMatched'
  <2>1. HoldersOwnTheMark'
    BY <1>0 DEF IndInv, HoldersOwnTheMark
  <2>2. DoneIsSeen'
    BY <1>0 DEF IndInv, DoneIsSeen, Seen
  <2>3. AppliedMeansMatched'
    BY <1>0 DEF IndInv, AppliedMeansMatched, AuthMatches
  <2> QED BY <2>1, <2>2, <2>3
<1>4. EmptyMeansApplied'
    BY DEF IndInv, TypeOK, ChangeClient, authVars, EmptyMeansApplied
<1>5. NewNodesAreUnknown'
    BY DEF IndInv, TypeOK, ChangeClient, authVars, NewNodesAreUnknown
<1> QED BY <1>1, <1>2, <1>3, <1>4, <1>5 DEF IndInv

\* ListPending: the batch is of the newest revisions.
LEMMA ListInv ==
    ASSUME IndInv, NEW w \in Syncs, NEW U \in SUBSET Clients, ListPending(w, U)
    PROVE  IndInv'
<1> DEFINE P == Pending(U)
           S == [pc |-> "next", all |-> P, todo |-> P, cur |-> {}, alive |-> TRUE]
<1>1. /\ P \subseteq Entries
      /\ \A e \in P : e.rev = last[e.uuid] /\ e.row = row[e.uuid]
  <2> SUFFICES ASSUME NEW e \in P
               PROVE  e \in Entries /\ e.rev = last[e.uuid] /\ e.row = row[e.uuid]
    OBVIOUS
  <2>1. PICK c \in U : queue[c] # 0 /\ e = [uuid |-> c, rev |-> queue[c], row |-> row[c]]
    BY DEF Pending
  <2> QED BY <2>1 DEF IndInv, TypeOK, RevisionsAreRows, Entries
<1>2. sync' = [sync EXCEPT ![w] = S] /\ UNCHANGED <<sqlVars, mark, authVars, read, faults>>
    BY DEF ListPending
<1> HIDE DEF P
<1>3. TypeOK'
  <2>1. S \in [pc : PCs, all : SUBSET Entries, todo : SUBSET Entries, cur : SUBSET Entries,
               alive : BOOLEAN]
    BY <1>1 DEF PCs
  <2> HIDE DEF S
  <2> QED BY <1>2, <2>1 DEF IndInv, TypeOK, sqlVars, authVars
<1>4. RevisionsAreRows'
  <2>1. \A e \in P : e.rev <= last[e.uuid]
    BY <1>1 DEF IndInv, TypeOK, Entries
  <2> QED BY <1>1, <1>2, <2>1 DEF IndInv, TypeOK, sqlVars, authVars, RevisionsAreRows
<1>5. HoldersOwnTheMark'
  <2>1. /\ mark' = mark
        /\ \A v \in Syncs : sync'[v] = IF v = w THEN S ELSE sync[v]
    BY <1>2 DEF IndInv, TypeOK
  <2> QED BY <2>1 DEF IndInv, HoldersOwnTheMark, Holding
<1>6. DoneIsSeen' /\ AppliedMeansMatched'
    BY <1>2 DEF IndInv, TypeOK, sqlVars, authVars, DoneIsSeen, Seen, AppliedMeansMatched,
                AuthMatches
<1>7. EmptyMeansApplied' /\ NewNodesAreUnknown'
    BY <1>2 DEF IndInv, sqlVars, authVars, EmptyMeansApplied, NewNodesAreUnknown
<1> QED BY <1>3, <1>4, <1>5, <1>6, <1>7 DEF IndInv

\* Acknowledge: an entry is cleared only when its newest change has been applied.
LEMMA AcknowledgeInv ==
    ASSUME IndInv, NEW w \in Syncs, Acknowledge(w)
    PROVE  IndInv'
<1>1. /\ sync' = [sync EXCEPT ![w] = Idle]
      /\ UNCHANGED <<row, revision, last, mark, authVars, read, faults>>
      /\ \A v \in Syncs : sync'[v] \in {sync[v], Idle}
    BY DEF Acknowledge, IndInv, TypeOK
<1>2. TypeOK'
    BY <1>1, IdleType DEF IndInv, TypeOK, Acknowledge, authVars
<1>3. RevisionsAreRows'
    BY <1>1 DEF IndInv, TypeOK, Acknowledge, authVars, RevisionsAreRows, Idle
<1>4. HoldersOwnTheMark' /\ DoneIsSeen' /\ AppliedMeansMatched'
    BY <1>1, ToIdleInv DEF authVars
<1>5. EmptyMeansApplied'
  <2> SUFFICES ASSUME NEW c \in Clients, queue'[c] = 0, queue[c] # 0
               PROVE  mark[c].rev = last[c] /\ mark[c].complete
    BY <1>1 DEF IndInv, TypeOK, EmptyMeansApplied, Acknowledge
  <2>1. PICK e \in sync[w].all : e.uuid = c /\ e.rev = queue[c]
    BY DEF IndInv, TypeOK, Acknowledge
  <2>2. Seen(e)
    BY DEF Acknowledge, IndInv, HoldersOwnTheMark, DoneIsSeen
  <2>3. queue[c] = last[c] /\ mark[c].rev <= last[c] /\ mark[c].rev \in Nat /\ last[c] \in Nat
    BY DEF IndInv, RevisionsAreRows, TypeOK
  <2> QED BY <2>1, <2>2, <2>3 DEF Seen
<1>6. NewNodesAreUnknown'
    BY <1>1 DEF IndInv, authVars, NewNodesAreUnknown
<1> QED BY <1>2, <1>3, <1>4, <1>5, <1>6 DEF IndInv

SyncRecords == [pc : PCs, all : SUBSET Entries, todo : SUBSET Entries,
                cur : SUBSET Entries, alive : BOOLEAN]

\* Advance: what becomes of a synchronization that is done with e.
LEMMA AdvanceFacts ==
    ASSUME IndInv, NEW w \in Syncs, NEW e \in sync[w].todo
    PROVE  /\ Advance(w, e) \in SyncRecords
           /\ Advance(w, e).cur = {}
           /\ Advance(w, e).pc \notin Holding
           /\ \/ Advance(w, e).all = sync[w].all /\ Advance(w, e).todo = sync[w].todo \ {e}
              \/ Advance(w, e).all = {} /\ Advance(w, e).todo = {}
           /\ Advance(w, e).pc = "ack" => Advance(w, e).todo = {}
<1> DEFINE R == sync[w]
           rest == R.todo \ {e}
<1>1. R \in SyncRecords
    BY DEF IndInv, TypeOK, SyncRecords
<1> HIDE DEF R
<1>2. CASE rest # {}
  <2>1. Advance(w, e) = [R EXCEPT !.pc = "next", !.todo = rest, !.cur = {}]
    BY <1>2 DEF Advance, R
  <2> QED BY <1>1, <2>1 DEF SyncRecords, PCs, Holding, R
<1>3. CASE rest = {} /\ R.alive
  <2>1. Advance(w, e) = [R EXCEPT !.pc = "ack", !.todo = {}, !.cur = {}]
    BY <1>3 DEF Advance, R
  <2>2. /\ Advance(w, e) \in SyncRecords /\ Advance(w, e).all = R.all
        /\ Advance(w, e).todo = {} /\ Advance(w, e).cur = {} /\ Advance(w, e).pc = "ack"
    BY <1>1, <2>1 DEF SyncRecords, PCs
  <2> QED BY <1>3, <2>2 DEF Holding, R
<1>4. CASE rest = {} /\ ~R.alive
  <2>1. Advance(w, e) = Idle
    BY <1>4 DEF Advance, R
  <2> QED BY <2>1, IdleType DEF SyncRecords, Idle, Holding
<1> QED BY <1>2, <1>3, <1>4

\* A synchronization goes on once its change is done with, applied now or before.
LEMMA AdvanceInv ==
    ASSUME IndInv, NEW w \in Syncs, NEW e \in sync[w].todo,
           sync' = [sync EXCEPT ![w] = Advance(w, e)],
           UNCHANGED <<row, queue, revision, last, mark, ctl, ptr, snap, read, faults>>,
           Seen(e)
    PROVE  IndInv'
<1> DEFINE S == Advance(w, e)
<1>1. /\ S \in SyncRecords /\ S.cur = {} /\ S.pc \notin Holding
      /\ \/ S.all = sync[w].all /\ S.todo = sync[w].todo \ {e}
         \/ S.all = {} /\ S.todo = {}
      /\ S.pc = "ack" => S.todo = {}
    BY AdvanceFacts
<1> HIDE DEF S
<1>2. \A v \in Syncs : sync'[v] = IF v = w THEN S ELSE sync[v]
    BY DEF IndInv, TypeOK, S
<1>3. TypeOK'
    BY <1>1 DEF IndInv, TypeOK, SyncRecords, S
<1>4. RevisionsAreRows'
    BY <1>1, <1>2 DEF IndInv, RevisionsAreRows
<1>5. HoldersOwnTheMark'
    BY <1>1, <1>2 DEF IndInv, HoldersOwnTheMark
<1>6. DoneIsSeen'
    BY <1>1, <1>2 DEF IndInv, DoneIsSeen, Seen
<1>7. AppliedMeansMatched'
    BY <1>1, <1>2 DEF IndInv, AppliedMeansMatched, AuthMatches
<1>8. EmptyMeansApplied' /\ NewNodesAreUnknown'
    BY DEF IndInv, EmptyMeansApplied, NewNodesAreUnknown
<1> QED BY <1>3, <1>4, <1>5, <1>6, <1>7, <1>8 DEF IndInv

\* Begin: a change that is newer than the mark takes it over; what was seen before
\* still is.
LEMMA BeginInv ==
    ASSUME IndInv, NEW w \in Syncs, Begin(w)
    PROVE  IndInv'
<1>1. PICK e \in sync[w].todo :
         /\ ~Locked(e.uuid)
         /\ IF Seen(e)
            THEN sync' = [sync EXCEPT ![w] = Advance(w, e)] /\ UNCHANGED mark
            ELSE /\ sync' = [sync EXCEPT ![w].pc = "remove", ![w].cur = {e}]
                 /\ mark' = [mark EXCEPT ![e.uuid] =
                               [rev |-> e.rev, complete |-> FALSE, row |-> e.row]]
    BY DEF Begin
<1>2. UNCHANGED <<row, queue, revision, last, ctl, ptr, snap, read, faults>>
    BY DEF Begin, sqlVars, authVars
<1>3. sync[w].pc = "next" /\ sync[w].cur = {}
    BY DEF Begin, IndInv, HoldersOwnTheMark, Holding
<1>4. e \in Entries /\ e \in sync[w].all /\ sync[w] \in SyncRecords /\ sync \in [Syncs -> SyncRecords]
    BY DEF IndInv, TypeOK, HoldersOwnTheMark, SyncRecords
<1>5. CASE Seen(e)
    BY <1>1, <1>2, <1>4, <1>5, AdvanceInv
<1>6. CASE ~Seen(e)
  <2> DEFINE S == [sync[w] EXCEPT !.pc = "remove", !.cur = {e}]
  <2>1. /\ S \in SyncRecords
        /\ S.pc = "remove" /\ S.all = sync[w].all /\ S.todo = sync[w].todo /\ S.cur = {e}
    BY <1>4 DEF SyncRecords, PCs, Holding
  <2> HIDE DEF S
  <2>2. \A v \in Syncs : sync'[v] = IF v = w THEN S ELSE sync[v]
    BY <1>1, <1>4, <1>6 DEF S
  <2>3. sync' \in [Syncs -> SyncRecords]
    BY <1>1, <1>4, <1>6, <2>1 DEF S
  <2>4. mark' = [mark EXCEPT ![e.uuid] = [rev |-> e.rev, complete |-> FALSE, row |-> e.row]]
    BY <1>1, <1>6
  <2>5. TypeOK'
    BY <1>2, <1>4, <2>3, <2>4 DEF IndInv, TypeOK, Entries, SyncRecords
  <2>6. /\ e.uuid \in Clients /\ e.rev \in Nat \ {0}
        /\ mark'[e.uuid].rev = e.rev /\ ~mark'[e.uuid].complete /\ mark'[e.uuid].row = e.row
        /\ \A c \in Clients \ {e.uuid} : mark'[c] = mark[c]
    BY <1>4, <2>4 DEF IndInv, TypeOK, Entries
  <2>7. RevisionsAreRows'
    <3>1. /\ e.rev <= last[e.uuid]
          /\ e.rev = last[e.uuid] => e.row = row[e.uuid]
      BY <1>4 DEF IndInv, RevisionsAreRows
    <3>2. \A c \in Clients :
            /\ mark'[c].rev <= last[c]
            /\ mark'[c].rev = last[c] => mark'[c].row = row[c]
      BY <2>6, <3>1 DEF IndInv, RevisionsAreRows
    <3>3. \A v \in Syncs : sync'[v].all = sync[v].all
      BY <2>1, <2>2
    <3> QED BY <1>2, <3>2, <3>3 DEF IndInv, RevisionsAreRows
  <2>8. \A v \in Syncs : \A f \in sync[v].cur : v # w => f.uuid # e.uuid
    BY <1>1, <1>3 DEF Locked, IndInv, HoldersOwnTheMark
  <2>9. HoldersOwnTheMark'
    <3>1. \A v \in Syncs : \A f \in sync[v].cur : f.uuid \in Clients
      BY <1>4 DEF SyncRecords, Entries
    <3>2. \A v \in Syncs \ {w} : \A f \in sync[v].cur : mark'[f.uuid] = mark[f.uuid]
      BY <2>6, <2>8, <3>1
    <3>3. \A v \in Syncs :
           /\ sync'[v].todo \subseteq sync'[v].all
           /\ sync'[v].pc = "ack" => sync'[v].todo = {}
           /\ \A f \in sync'[v].cur :
                /\ f \in sync'[v].todo
                /\ \A g \in sync'[v].cur : f = g
                /\ sync'[v].pc \in Holding
      BY <1>3, <2>1, <2>2 DEF IndInv, HoldersOwnTheMark, Holding
    <3>4. \A v \in Syncs : \A f \in sync'[v].cur :
            mark'[f.uuid].rev = f.rev /\ ~mark'[f.uuid].complete /\ mark'[f.uuid].row = f.row
      BY <2>1, <2>2, <2>6, <3>2 DEF IndInv, HoldersOwnTheMark
    <3>5. \A v, u \in Syncs : v # u =>
            \A f \in sync'[v].cur, g \in sync'[u].cur : f.uuid # g.uuid
      BY <2>1, <2>2, <2>8 DEF IndInv, HoldersOwnTheMark
    <3> QED BY <3>3, <3>4, <3>5 DEF HoldersOwnTheMark
  <2>10. \A f \in Entries : Seen(f) => Seen(f)'
    BY <1>6, <2>6, <1>4 DEF Seen, IndInv, TypeOK, Entries
  <2>11. DoneIsSeen'
    <3>1. \A v \in Syncs : sync'[v].all = sync[v].all /\ sync'[v].todo = sync[v].todo
      BY <2>1, <2>2
    <3>2. \A v \in Syncs : sync[v].all \subseteq Entries
      BY <1>4 DEF SyncRecords
    <3> QED BY <2>10, <3>1, <3>2 DEF IndInv, DoneIsSeen
  <2>12. AppliedMeansMatched'
    BY <1>2, <2>1, <2>2, <2>6 DEF IndInv, AppliedMeansMatched, AuthMatches
  <2>13. EmptyMeansApplied'
    <3>1. queue[e.uuid] # 0
      <4>1. mark[e.uuid].rev \in Nat /\ last[e.uuid] \in Nat /\ e.rev <= last[e.uuid]
        BY <1>4, <2>6 DEF IndInv, TypeOK, RevisionsAreRows
      <4> QED BY <1>6, <2>6, <4>1 DEF Seen, IndInv, EmptyMeansApplied
    <3> QED BY <1>2, <2>6, <3>1 DEF IndInv, EmptyMeansApplied
  <2>14. NewNodesAreUnknown'
    BY <1>2 DEF IndInv, NewNodesAreUnknown
  <2> QED BY <2>5, <2>7, <2>9, <2>11, <2>12, <2>13, <2>14 DEF IndInv
<1> QED BY <1>5, <1>6

\* The effects on the control entries of the node c: removed, or those of a row.
LEMMA RemoveAuthFacts ==
    ASSUME IndInv, NEW c \in Clients, RemoveAuth(c)
    PROVE  /\ ctl' \in [Clients -> Controls \cup {NoControl}]
           /\ ptr' \in [Clients -> Hashes \cup {NoHash}]
           /\ snap' \in [Clients -> SUBSET Hashes]
           /\ ctl'[c] \in Controls /\ ctl'[c].removed /\ ptr'[c] = NoHash
           /\ \A d \in Clients \ {c} : ctl'[d] = ctl[d] /\ ptr'[d] = ptr[d] /\ snap'[d] = snap[d]
<1>1. PICK t \in Times :
         ctl' = [ctl EXCEPT ![c] =
                   [hash |-> NoHash, rot |-> IF ctl[c] = NoControl THEN t ELSE ctl[c].rot,
                    rev |-> IF ctl[c] = NoControl THEN 0 ELSE ctl[c].rev, removed |-> TRUE]]
    BY DEF RemoveAuth
<1>2. [hash |-> NoHash, rot |-> IF ctl[c] = NoControl THEN t ELSE ctl[c].rot,
       rev |-> IF ctl[c] = NoControl THEN 0 ELSE ctl[c].rev, removed |-> TRUE] \in Controls
    BY SyncAssumption DEF IndInv, TypeOK, Controls
<1>3. /\ ctl' \in [Clients -> Controls \cup {NoControl}]
      /\ ctl'[c] \in Controls /\ ctl'[c].removed
      /\ \A d \in Clients \ {c} : ctl'[d] = ctl[d]
    BY <1>1, <1>2 DEF IndInv, TypeOK
<1>4. /\ ptr' \in [Clients -> Hashes \cup {NoHash}]
      /\ ptr'[c] = NoHash
      /\ \A d \in Clients \ {c} : ptr'[d] = ptr[d]
    BY DEF IndInv, TypeOK, RemoveAuth
<1>5. /\ snap' \in [Clients -> SUBSET Hashes]
      /\ \A d \in Clients \ {c} : snap'[d] = snap[d]
    BY DEF IndInv, TypeOK, RemoveAuth
<1> QED BY <1>3, <1>4, <1>5

LEMMA StoreAuthFacts ==
    ASSUME IndInv, NEW c \in Clients, NEW r \in Rows, NEW v \in Nat, StoreAuth(c, r, v)
    PROVE  /\ ctl' \in [Clients -> Controls \cup {NoControl}]
           /\ ptr' \in [Clients -> Hashes \cup {NoHash}]
           /\ snap' \in [Clients -> SUBSET Hashes]
           /\ ctl'[c] \in Controls /\ ~ctl'[c].removed /\ ctl'[c].hash = r.hash /\ ctl'[c].rev = v
           /\ ptr'[c] = r.hash
           /\ \A d \in Clients \ {c} : ctl'[d] = ctl[d] /\ ptr'[d] = ptr[d] /\ snap'[d] = snap[d]
<1>1. [hash |-> r.hash, rot |-> r.rot, rev |-> v, removed |-> FALSE] \in Controls
    BY SyncAssumption DEF Controls, Rows
<1>2. /\ ctl' \in [Clients -> Controls \cup {NoControl}]
      /\ ctl'[c] \in Controls /\ ~ctl'[c].removed /\ ctl'[c].hash = r.hash /\ ctl'[c].rev = v
      /\ \A d \in Clients \ {c} : ctl'[d] = ctl[d]
    BY <1>1 DEF IndInv, TypeOK, StoreAuth
<1>3. r.hash \in Hashes
    BY DEF Rows
<1>4. /\ ptr' \in [Clients -> Hashes \cup {NoHash}]
      /\ ptr'[c] = r.hash
      /\ \A d \in Clients \ {c} : ptr'[d] = ptr[d]
    BY <1>3 DEF IndInv, TypeOK, StoreAuth
<1>5. /\ snap' \in [Clients -> SUBSET Hashes]
      /\ \A d \in Clients \ {c} : snap'[d] = snap[d]
    BY <1>3 DEF IndInv, TypeOK, StoreAuth
<1> QED BY <1>2, <1>4, <1>5

\* A step of a holder, from one of its writes to the next, that writes only the control
\* entries of its node.
LEMMA HolderInv ==
    ASSUME IndInv, NEW w \in Syncs, NEW e \in sync[w].cur, NEW p \in {"store", "complete"},
           sync[w].pc \in Holding,
           sync' = [sync EXCEPT ![w].pc = p],
           UNCHANGED <<row, queue, revision, last, mark, read, faults>>,
           ctl' \in [Clients -> Controls \cup {NoControl}],
           ptr' \in [Clients -> Hashes \cup {NoHash}],
           snap' \in [Clients -> SUBSET Hashes],
           \A d \in Clients \ {e.uuid} : ctl'[d] = ctl[d] /\ ptr'[d] = ptr[d] /\ snap'[d] = snap[d],
           p = "complete" => AuthMatches(e.uuid, e.row)',
           p = "store" => e.row # NoRow
    PROVE  IndInv'
<1> DEFINE S == [sync[w] EXCEPT !.pc = p]
<1>1. sync \in [Syncs -> SyncRecords] /\ sync[w] \in SyncRecords
    BY DEF IndInv, TypeOK, SyncRecords
<1>2. /\ S \in SyncRecords
      /\ S.pc = p /\ S.all = sync[w].all /\ S.todo = sync[w].todo /\ S.cur = sync[w].cur
    BY <1>1 DEF SyncRecords, PCs, Holding
<1> HIDE DEF S
<1>3. \A v \in Syncs : sync'[v] = IF v = w THEN S ELSE sync[v]
    BY <1>1 DEF S
<1>4. sync' \in [Syncs -> SyncRecords]
    BY <1>1, <1>2 DEF S
<1>5. TypeOK'
    BY <1>4 DEF IndInv, TypeOK, SyncRecords
<1>6. \A v \in Syncs : sync'[v].all = sync[v].all /\ sync'[v].todo = sync[v].todo
                       /\ sync'[v].cur = sync[v].cur
                       /\ (v # w => sync'[v].pc = sync[v].pc)
    BY <1>2, <1>3
<1>7. e \in Entries /\ e.uuid \in Clients /\ e.rev \in Nat \ {0} /\ e \in sync[w].all
    BY <1>1 DEF SyncRecords, Entries, IndInv, HoldersOwnTheMark
<1>8. RevisionsAreRows'
    BY <1>6 DEF IndInv, RevisionsAreRows
<1>9. HoldersOwnTheMark'
  <2>1. sync'[w].pc \in Holding /\ sync'[w].pc # "ack"
    BY <1>2, <1>3 DEF Holding
  <2> QED BY <1>6, <2>1 DEF IndInv, HoldersOwnTheMark
<1>10. DoneIsSeen'
    BY <1>6 DEF IndInv, DoneIsSeen, Seen
<1>11. AppliedMeansMatched'
  <2>1. ~mark[e.uuid].complete
    BY DEF IndInv, HoldersOwnTheMark
  <2>2. \A c \in Clients : mark[c].complete /\ mark[c].rev # 0 => AuthMatches(c, mark[c].row)'
    BY <2>1 DEF IndInv, AppliedMeansMatched, AuthMatches
  <2>3. \A f \in sync[w].cur : f = e
    BY DEF IndInv, HoldersOwnTheMark
  <2>4. \A v \in Syncs \ {w} : \A f \in sync[v].cur :
          f.uuid \in Clients \ {e.uuid}
    BY <1>1 DEF IndInv, HoldersOwnTheMark, SyncRecords, Entries
  <2>5. \A v \in Syncs \ {w} : \A f \in sync[v].cur :
          /\ sync[v].pc = "complete" => AuthMatches(f.uuid, f.row)'
          /\ sync[v].pc = "store" => f.row # NoRow
    BY <2>4 DEF IndInv, AppliedMeansMatched, AuthMatches
  <2>6. \A f \in sync[w].cur :
          /\ p = "complete" => AuthMatches(f.uuid, f.row)'
          /\ p = "store" => f.row # NoRow
    BY <2>3
  <2> QED BY <1>2, <1>3, <1>6, <2>2, <2>5, <2>6 DEF AppliedMeansMatched, AuthMatches
<1>12. EmptyMeansApplied'
    BY DEF IndInv, EmptyMeansApplied
<1>13. NewNodesAreUnknown'
  <2>1. last[e.uuid] # 0
    BY <1>7 DEF IndInv, TypeOK, RevisionsAreRows
  <2> QED BY <2>1 DEF IndInv, NewNodesAreUnknown
<1> QED BY <1>5, <1>8, <1>9, <1>10, <1>11, <1>12, <1>13 DEF IndInv

\* What a holder knows of its change.
LEMMA HolderFacts ==
    ASSUME IndInv, NEW w \in Syncs, NEW e \in sync[w].cur
    PROVE  /\ e \in sync[w].todo /\ e \in Entries /\ e.uuid \in Clients /\ e.rev \in Nat \ {0}
           /\ e.row \in Rows \cup {NoRow}
           /\ mark[e.uuid].rev = e.rev /\ ~mark[e.uuid].complete /\ mark[e.uuid].row = e.row
BY DEF IndInv, TypeOK, HoldersOwnTheMark, Entries

\* Remove: a deleted node ends removed, and another goes on to be stored.
LEMMA RemoveInv ==
    ASSUME IndInv, NEW w \in Syncs, Remove(w)
    PROVE  IndInv'
<1>1. PICK e \in sync[w].cur :
         /\ IF e.row = NoRow \/ ptr[e.uuid] \notin {NoHash, e.row.hash}
            THEN RemoveAuth(e.uuid) ELSE UNCHANGED authVars
         /\ sync' = [sync EXCEPT ![w].pc = IF e.row = NoRow THEN "complete" ELSE "store"]
    BY DEF Remove
<1>2. sync[w].pc \in Holding /\ UNCHANGED <<row, queue, revision, last, mark, read, faults>>
    BY DEF Remove, sqlVars, Holding
<1>3. e.uuid \in Clients
    BY HolderFacts
<1>4. /\ ctl' \in [Clients -> Controls \cup {NoControl}]
      /\ ptr' \in [Clients -> Hashes \cup {NoHash}]
      /\ snap' \in [Clients -> SUBSET Hashes]
      /\ \A d \in Clients \ {e.uuid} : ctl'[d] = ctl[d] /\ ptr'[d] = ptr[d] /\ snap'[d] = snap[d]
      /\ e.row = NoRow => ctl'[e.uuid] \in Controls /\ ctl'[e.uuid].removed
  <2>1. CASE e.row = NoRow \/ ptr[e.uuid] \notin {NoHash, e.row.hash}
    BY <1>1, <1>3, <2>1, RemoveAuthFacts
  <2>2. CASE ~(e.row = NoRow \/ ptr[e.uuid] \notin {NoHash, e.row.hash})
    BY <1>1, <2>2 DEF authVars, IndInv, TypeOK
  <2> QED BY <2>1, <2>2
<1>5. CASE e.row = NoRow
  <2>1. AuthMatches(e.uuid, e.row)'
    BY <1>4, <1>5, NoControlAssumption DEF AuthMatches
  <2> QED BY <1>1, <1>2, <1>4, <1>5, <2>1, HolderInv
<1>6. CASE e.row # NoRow
    BY <1>1, <1>2, <1>4, <1>6, HolderInv
<1> QED BY <1>5, <1>6

\* A synchronization that ends without an answer.
LEMMA EndInv ==
    ASSUME IndInv, sync' \in [Syncs -> SyncRecords],
           \A v \in Syncs : sync'[v] \in {sync[v], Idle},
           UNCHANGED <<row, queue, revision, last, mark, ctl, ptr, snap, read>>, faults' \in Nat
    PROVE  IndInv'
<1>1. TypeOK'
    BY DEF IndInv, TypeOK, SyncRecords
<1>2. RevisionsAreRows'
    BY DEF IndInv, RevisionsAreRows, Idle
<1>3. HoldersOwnTheMark' /\ DoneIsSeen' /\ AppliedMeansMatched'
    BY ToIdleInv
<1>4. EmptyMeansApplied' /\ NewNodesAreUnknown'
    BY DEF IndInv, EmptyMeansApplied, NewNodesAreUnknown
<1> QED BY <1>1, <1>2, <1>3, <1>4 DEF IndInv

\* Store: the control entries become those of the change's row.
LEMMA StoreInv ==
    ASSUME IndInv, NEW w \in Syncs, Store(w)
    PROVE  IndInv'
<1>1. PICK e \in sync[w].cur :
         IF e.rev < ControlRevision(e.uuid)
         THEN sync' = [sync EXCEPT ![w] = Idle] /\ UNCHANGED authVars
         ELSE /\ StoreAuth(e.uuid, e.row, e.rev)
              /\ sync' = [sync EXCEPT ![w].pc = "complete"]
    BY DEF Store
<1>2. sync[w].pc = "store" /\ sync[w].pc \in Holding
      /\ UNCHANGED <<row, queue, revision, last, mark, read, faults>>
    BY DEF Store, sqlVars, Holding
<1>3. e.uuid \in Clients /\ e.rev \in Nat \ {0} /\ e.row \in Rows
    BY <1>2, HolderFacts DEF IndInv, AppliedMeansMatched
<1>4. CASE e.rev < ControlRevision(e.uuid)
  <2>1. sync' = [sync EXCEPT ![w] = Idle] /\ UNCHANGED <<ctl, ptr, snap>>
    BY <1>1, <1>4 DEF authVars
  <2>2. /\ sync' \in [Syncs -> SyncRecords]
        /\ \A v \in Syncs : sync'[v] \in {sync[v], Idle}
        /\ faults' \in Nat
    BY <1>2, <2>1, IdleType DEF IndInv, TypeOK, SyncRecords
  <2> QED BY <1>2, <2>1, <2>2, EndInv
<1>5. CASE ~(e.rev < ControlRevision(e.uuid))
  <2>1. StoreAuth(e.uuid, e.row, e.rev) /\ sync' = [sync EXCEPT ![w].pc = "complete"]
    BY <1>1, <1>5
  <2>2. /\ ctl' \in [Clients -> Controls \cup {NoControl}]
        /\ ptr' \in [Clients -> Hashes \cup {NoHash}]
        /\ snap' \in [Clients -> SUBSET Hashes]
        /\ ctl'[e.uuid] \in Controls /\ ~ctl'[e.uuid].removed
        /\ ctl'[e.uuid].hash = e.row.hash /\ ctl'[e.uuid].rev = e.rev
        /\ ptr'[e.uuid] = e.row.hash
        /\ \A d \in Clients \ {e.uuid} : ctl'[d] = ctl[d] /\ ptr'[d] = ptr[d] /\ snap'[d] = snap[d]
    BY <1>3, <2>1, StoreAuthFacts
  <2>3. AuthMatches(e.uuid, e.row)'
    BY <1>3, <2>2, NoControlAssumption, SyncAssumption DEF AuthMatches
  <2> QED BY <1>2, <2>1, <2>2, <2>3, HolderInv
<1> QED BY <1>4, <1>5

\* The mark of the change that a holder has applied becomes complete.
LEMMA MarkInv ==
    ASSUME IndInv, NEW w \in Syncs, NEW e \in sync[w].cur, sync[w].pc = "complete", Complete(w)
    PROVE  \A c \in Clients :
             /\ mark'[c].rev = mark[c].rev /\ mark'[c].row = mark[c].row
             /\ c # e.uuid => mark'[c] = mark[c]
             /\ mark'[e.uuid].complete
             /\ mark' \in [Clients -> [rev : Nat, complete : BOOLEAN, row : Rows \cup {NoRow}]]
<1>1. PICK f \in sync[w].cur : mark' = [mark EXCEPT ![f.uuid].complete = TRUE]
    BY DEF Complete
<1>2. f = e
    BY DEF IndInv, HoldersOwnTheMark
<1>3. e.uuid \in Clients
    BY HolderFacts
<1> DEFINE Marks == [rev : Nat, complete : BOOLEAN, row : Rows \cup {NoRow}]
           M == [mark[e.uuid] EXCEPT !.complete = TRUE]
<1>4. mark \in [Clients -> Marks] /\ mark[e.uuid] \in Marks
    BY <1>3 DEF IndInv, TypeOK
<1>5. M \in Marks /\ M.rev = mark[e.uuid].rev /\ M.row = mark[e.uuid].row /\ M.complete = TRUE
    BY <1>4
<1>6. mark' = [mark EXCEPT ![e.uuid] = M]
    BY <1>1, <1>2
<1> HIDE DEF M, Marks
<1>7. mark' \in [Clients -> Marks] /\ mark'[e.uuid] = M /\ \A c \in Clients \ {e.uuid} : mark'[c] = mark[c]
    BY <1>3, <1>4, <1>5, <1>6
<1> QED BY <1>3, <1>5, <1>7 DEF Marks

\* Complete: the control entries are those of the mark's row.
LEMMA CompleteInv ==
    ASSUME IndInv, NEW w \in Syncs, Complete(w)
    PROVE  IndInv'
<1>1. PICK e \in sync[w].cur : sync' = [sync EXCEPT ![w] = Advance(w, e)]
    BY DEF Complete
<1>2. sync[w].pc = "complete" /\ UNCHANGED <<row, queue, revision, last, ctl, ptr, snap, read, faults>>
    BY DEF Complete, sqlVars, authVars
<1>3. /\ e \in sync[w].todo /\ e \in Entries /\ e.uuid \in Clients
      /\ mark[e.uuid].rev = e.rev /\ ~mark[e.uuid].complete /\ mark[e.uuid].row = e.row
    BY HolderFacts
<1>4. \A c \in Clients :
        /\ mark'[c].rev = mark[c].rev /\ mark'[c].row = mark[c].row
        /\ c # e.uuid => mark'[c] = mark[c]
        /\ mark'[e.uuid].complete
        /\ mark' \in [Clients -> [rev : Nat, complete : BOOLEAN, row : Rows \cup {NoRow}]]
    BY <1>2, MarkInv
<1> DEFINE S == Advance(w, e)
<1>5. /\ S \in SyncRecords /\ S.cur = {} /\ S.pc \notin Holding
      /\ \/ S.all = sync[w].all /\ S.todo = sync[w].todo \ {e}
         \/ S.all = {} /\ S.todo = {}
      /\ S.pc = "ack" => S.todo = {}
    BY <1>3, AdvanceFacts
<1> HIDE DEF S
<1>6. sync \in [Syncs -> SyncRecords] /\ sync' \in [Syncs -> SyncRecords]
    BY <1>1, <1>5 DEF IndInv, TypeOK, SyncRecords, S
<1>7. \A v \in Syncs : sync'[v] = IF v = w THEN S ELSE sync[v]
    BY <1>1, <1>6 DEF S
<1>8. TypeOK'
    BY <1>2, <1>3, <1>4, <1>6 DEF IndInv, TypeOK, SyncRecords
<1>9. RevisionsAreRows'
    BY <1>2, <1>4, <1>5, <1>7 DEF IndInv, RevisionsAreRows
<1>10. HoldersOwnTheMark'
  <2>1. \A v \in Syncs \ {w} : \A f \in sync[v].cur : f.uuid \in Clients /\ mark'[f.uuid] = mark[f.uuid]
    BY <1>4, <1>6 DEF IndInv, HoldersOwnTheMark, SyncRecords, Entries
  <2> QED BY <1>5, <1>7, <2>1 DEF IndInv, HoldersOwnTheMark
<1>11. DoneIsSeen'
  <2>1. \A f \in Entries : Seen(f) => Seen(f)'
    BY <1>3, <1>4 DEF Seen, Entries, IndInv, TypeOK
  <2>2. Seen(e)'
    BY <1>3, <1>4 DEF Seen
  <2>3. \A v \in Syncs : sync[v].all \subseteq Entries
    BY <1>6 DEF SyncRecords
  <2> QED BY <1>5, <1>7, <2>1, <2>2, <2>3 DEF IndInv, DoneIsSeen
<1>12. AppliedMeansMatched'
  <2>1. AuthMatches(e.uuid, mark[e.uuid].row)
    BY <1>2, <1>3 DEF IndInv, AppliedMeansMatched
  <2>2. \A c \in Clients : mark'[c].complete /\ mark'[c].rev # 0 => AuthMatches(c, mark'[c].row)
    BY <1>4, <2>1 DEF IndInv, AppliedMeansMatched
  <2>3. \A v \in Syncs : \A f \in sync'[v].cur :
          /\ sync'[v].pc = "complete" => AuthMatches(f.uuid, f.row)
          /\ sync'[v].pc = "store" => f.row # NoRow
    BY <1>5, <1>7 DEF IndInv, AppliedMeansMatched
  <2> QED BY <1>2, <2>2, <2>3 DEF AppliedMeansMatched, AuthMatches
<1>13. EmptyMeansApplied' /\ NewNodesAreUnknown'
    BY <1>2, <1>4 DEF IndInv, EmptyMeansApplied, NewNodesAreUnknown
<1> QED BY <1>8, <1>9, <1>10, <1>11, <1>12, <1>13 DEF IndInv

\* AgentReads: SQL has the row, so the node is not new.
LEMMA AgentReadsInv ==
    ASSUME IndInv, NEW a \in Agents, NEW c \in Clients, AgentReads(a, c)
    PROVE  IndInv'
<1>1. /\ UNCHANGED <<row, queue, revision, last, mark, ctl, ptr, snap, sync, faults>>
      /\ read' = [read EXCEPT ![a] = <<c, row[c]>>] /\ row[c] # NoRow
    BY DEF AgentReads, sqlVars, authVars
<1>2. TypeOK'
    BY <1>1 DEF IndInv, TypeOK
<1>3. RevisionsAreRows'
    BY <1>1 DEF IndInv, RevisionsAreRows
<1>4. HoldersOwnTheMark' /\ DoneIsSeen' /\ AppliedMeansMatched'
    BY <1>1, ToIdleInv
<1>5. EmptyMeansApplied'
    BY <1>1 DEF IndInv, EmptyMeansApplied
<1>6. NewNodesAreUnknown'
  <2>1. last[c] # 0
    BY <1>1 DEF IndInv, NewNodesAreUnknown
  <2> QED BY <1>1, <2>1 DEF IndInv, TypeOK, NewNodesAreUnknown
<1> QED BY <1>2, <1>3, <1>4, <1>5, <1>6 DEF IndInv

\* AgentUpserts: a node whose mark is complete keeps its token, and nobody holds it.
LEMMA AgentUpsertsInv ==
    ASSUME IndInv, NEW a \in Agents, AgentUpserts(a)
    PROVE  IndInv'
<1>0. PICK c \in Clients, r \in Rows : read[a] = <<c, r>>
    BY DEF AgentUpserts, IndInv, TypeOK
<1>1. /\ read[a] # NoRead /\ ~Locked(c)
      /\ \/ ~Superseded(c, r) /\ StoreAuth(c, r, ControlRevision(c))
         \/ UNCHANGED <<ctl, ptr, snap>>
      /\ read' = [read EXCEPT ![a] = NoRead]
      /\ UNCHANGED <<row, queue, revision, last, mark, sync, faults>>
    BY <1>0 DEF AgentUpserts, sqlVars, authVars
<1>2. c \in Clients /\ r \in Rows
    OBVIOUS
<1>3. read' \in [Agents -> (Clients \X Rows) \cup {NoRead}]
    BY <1>1 DEF IndInv, TypeOK
<1>4. \A b \in Agents : read'[b] # NoRead => read'[b] = read[b]
    BY <1>1 DEF IndInv, TypeOK
<1>5. ControlRevision(c) \in Nat
    BY <1>2 DEF ControlRevision, IndInv, TypeOK, Controls
<1>6. last[c] # 0
    BY <1>0, <1>1 DEF IndInv, NewNodesAreUnknown
<1>7. /\ ctl' \in [Clients -> Controls \cup {NoControl}]
      /\ ptr' \in [Clients -> Hashes \cup {NoHash}]
      /\ snap' \in [Clients -> SUBSET Hashes]
      /\ \A d \in Clients \ {c} : ctl'[d] = ctl[d] /\ ptr'[d] = ptr[d] /\ snap'[d] = snap[d]
  <2>1. CASE StoreAuth(c, r, ControlRevision(c))
    BY <1>2, <1>5, <2>1, StoreAuthFacts
  <2>2. CASE UNCHANGED <<ctl, ptr, snap>>
    BY <2>2 DEF IndInv, TypeOK
  <2> QED BY <1>1, <2>1, <2>2
<1>8. \A q \in Rows \cup {NoRow} : AuthMatches(c, q) => AuthMatches(c, q)'
  <2>1. CASE UNCHANGED <<ctl, ptr, snap>>
    BY <2>1 DEF AuthMatches
  <2>2. CASE ~Superseded(c, r) /\ StoreAuth(c, r, ControlRevision(c))
    <3> SUFFICES ASSUME NEW q \in Rows \cup {NoRow}, AuthMatches(c, q)
                 PROVE  AuthMatches(c, q)'
      OBVIOUS
    <3>1. /\ ctl[c] # NoControl /\ ~ctl[c].removed
          /\ ctl[c].rev = 0 \/ ctl[c].hash = r.hash
      BY <2>2 DEF Superseded, AuthMatches
    <3>2. q # NoRow /\ ctl[c].rev # 0 /\ ctl[c].hash = q.hash
      BY <3>1 DEF AuthMatches
    <3>3. ControlRevision(c) = ctl[c].rev /\ r.hash = q.hash
      BY <3>1, <3>2 DEF ControlRevision
    <3>4. /\ ctl'[c] \in Controls /\ ~ctl'[c].removed /\ ctl'[c].hash = r.hash
          /\ ctl'[c].rev = ControlRevision(c) /\ ptr'[c] = r.hash
      BY <1>2, <1>5, <2>2, StoreAuthFacts
    <3> QED BY <3>2, <3>3, <3>4, NoControlAssumption DEF AuthMatches
  <2> QED BY <1>1, <2>1, <2>2
<1>9. TypeOK'
    BY <1>1, <1>3, <1>7 DEF IndInv, TypeOK
<1>10. RevisionsAreRows' /\ HoldersOwnTheMark' /\ DoneIsSeen' /\ EmptyMeansApplied'
  <2>1. RevisionsAreRows' /\ EmptyMeansApplied'
    BY <1>1 DEF IndInv, RevisionsAreRows, EmptyMeansApplied
  <2>2. HoldersOwnTheMark'
    BY <1>1 DEF IndInv, HoldersOwnTheMark
  <2>3. DoneIsSeen'
    BY <1>1 DEF IndInv, DoneIsSeen, Seen
  <2> QED BY <2>1, <2>2, <2>3
<1>11. AppliedMeansMatched'
  <2>1. \A d \in Clients : \A q \in Rows \cup {NoRow} : AuthMatches(d, q) => AuthMatches(d, q)'
    BY <1>7, <1>8 DEF AuthMatches
  <2>2. \A d \in Clients : mark[d].row \in Rows \cup {NoRow}
    BY DEF IndInv, TypeOK
  <2>3. \A v \in Syncs : \A f \in sync[v].cur : f.uuid \in Clients /\ f.row \in Rows \cup {NoRow}
    BY DEF IndInv, TypeOK, Entries
  <2> QED BY <1>1, <2>1, <2>2, <2>3 DEF IndInv, AppliedMeansMatched
<1>12. NewNodesAreUnknown'
    BY <1>1, <1>4, <1>6, <1>7 DEF IndInv, NewNodesAreUnknown
<1> QED BY <1>9, <1>10, <1>11, <1>12 DEF IndInv

\* ObjectStops and the losses: synchronizations end, or nobody waits for them any more.
LEMMA ObjectStopsInv ==
    ASSUME IndInv, ObjectStops
    PROVE  IndInv'
<1>1. /\ sync' = [w \in Syncs |-> IF Applying(w) THEN Idle ELSE sync[w]]
      /\ UNCHANGED <<row, queue, revision, last, mark, ctl, ptr, snap, read>>
      /\ faults' \in Nat
    BY DEF ObjectStops, Fault, IndInv, TypeOK, sqlVars, authVars
<1>2. sync' \in [Syncs -> SyncRecords] /\ \A v \in Syncs : sync'[v] \in {sync[v], Idle}
    BY <1>1, IdleType DEF IndInv, TypeOK, SyncRecords
<1> QED BY <1>1, <1>2, EndInv

LEMMA CallLostInv ==
    ASSUME IndInv, NEW w \in Syncs, CallLost(w)
    PROVE  IndInv'
<1>1. /\ UNCHANGED <<row, queue, revision, last, mark, ctl, ptr, snap, read>>
      /\ faults' \in Nat
    BY DEF CallLost, Fault, IndInv, TypeOK, sqlVars, authVars
<1>2. CASE sync' = [sync EXCEPT ![w] = Idle]
  <2>1. sync' \in [Syncs -> SyncRecords] /\ \A v \in Syncs : sync'[v] \in {sync[v], Idle}
    BY <1>2, IdleType DEF IndInv, TypeOK, SyncRecords
  <2> QED BY <1>1, <2>1, EndInv
<1>3. CASE sync' = [sync EXCEPT ![w].alive = FALSE]
  <2>1. /\ sync' \in [Syncs -> SyncRecords]
        /\ \A v \in Syncs : /\ sync'[v].pc = sync[v].pc /\ sync'[v].all = sync[v].all
                            /\ sync'[v].todo = sync[v].todo /\ sync'[v].cur = sync[v].cur
    BY <1>3 DEF IndInv, TypeOK, SyncRecords
  <2>2. TypeOK'
    BY <1>1, <2>1 DEF IndInv, TypeOK, SyncRecords
  <2>3. RevisionsAreRows' /\ EmptyMeansApplied' /\ NewNodesAreUnknown'
    BY <1>1, <2>1 DEF IndInv, RevisionsAreRows, EmptyMeansApplied, NewNodesAreUnknown
  <2>4. HoldersOwnTheMark'
    BY <1>1, <2>1 DEF IndInv, HoldersOwnTheMark
  <2>5. DoneIsSeen'
    BY <1>1, <2>1 DEF IndInv, DoneIsSeen, Seen
  <2>6. AppliedMeansMatched'
    BY <1>1, <2>1 DEF IndInv, AppliedMeansMatched, AuthMatches
  <2> QED BY <2>2, <2>3, <2>4, <2>5, <2>6 DEF IndInv
<1> QED BY <1>2, <1>3 DEF CallLost

LEMMA AgentLostInv ==
    ASSUME IndInv, NEW a \in Agents, AgentLost(a)
    PROVE  IndInv'
<1>1. /\ UNCHANGED <<row, queue, revision, last, mark, ctl, ptr, snap, sync>>
      /\ faults' \in Nat /\ read' = [read EXCEPT ![a] = NoRead]
    BY DEF AgentLost, Fault, IndInv, TypeOK, sqlVars, authVars
<1>2. TypeOK'
    BY <1>1 DEF IndInv, TypeOK
<1>3. RevisionsAreRows' /\ EmptyMeansApplied'
    BY <1>1 DEF IndInv, RevisionsAreRows, EmptyMeansApplied
<1>4. HoldersOwnTheMark' /\ DoneIsSeen' /\ AppliedMeansMatched'
    BY <1>1, ToIdleInv
<1>5. NewNodesAreUnknown'
    BY <1>1 DEF IndInv, TypeOK, NewNodesAreUnknown
<1> QED BY <1>2, <1>3, <1>4, <1>5 DEF IndInv

\* RestoreClients: snapshots and pointers only go.
LEMMA RestoreInv ==
    ASSUME IndInv, NEW D \in SUBSET Clients, RestoreClients(D)
    PROVE  IndInv'
<1>1. /\ UNCHANGED <<row, queue, revision, last, mark, ctl, read>>
      /\ faults' \in Nat
      /\ snap' = [c \in Clients |-> IF c \in D THEN {} ELSE snap[c]]
    BY DEF RestoreClients, Fault, IndInv, TypeOK, sqlVars
<1>2. /\ sync' \in [Syncs -> SyncRecords] /\ \A v \in Syncs : sync'[v] \in {sync[v], Idle}
      /\ ptr' \in [Clients -> Hashes \cup {NoHash}]
      /\ \A c \in Clients : ptr'[c] \in {ptr[c], NoHash}
    BY IdleType DEF RestoreClients, IndInv, TypeOK, SyncRecords
<1>3. TypeOK'
    BY <1>1, <1>2 DEF IndInv, TypeOK, SyncRecords
<1>4. RevisionsAreRows'
    BY <1>1, <1>2 DEF IndInv, RevisionsAreRows, Idle
<1>5. HoldersOwnTheMark'
    BY <1>1, <1>2 DEF IndInv, HoldersOwnTheMark, Idle
<1>6. DoneIsSeen'
    BY <1>1, <1>2 DEF IndInv, DoneIsSeen, Seen, Idle
<1>7. AppliedMeansMatched'
  <2>1. \A c \in Clients : \A q : AuthMatches(c, q) => AuthMatches(c, q)'
    BY <1>1, <1>2 DEF AuthMatches
  <2>2. \A v \in Syncs : \A f \in sync[v].cur : f.uuid \in Clients
    BY DEF IndInv, TypeOK, Entries
  <2> QED BY <1>1, <1>2, <2>1, <2>2 DEF IndInv, AppliedMeansMatched, Idle
<1>8. EmptyMeansApplied' /\ NewNodesAreUnknown'
    BY <1>1 DEF IndInv, EmptyMeansApplied, NewNodesAreUnknown
<1> QED BY <1>3, <1>4, <1>5, <1>6, <1>7, <1>8 DEF IndInv

\* A step that changes nothing.
LEMMA StutterInv ==
    ASSUME IndInv, UNCHANGED vars
    PROVE  IndInv'
<1>1. UNCHANGED <<row, queue, revision, last, mark, ctl, ptr, snap, sync, read, faults>>
    BY DEF vars, sqlVars, authVars
<1>2. /\ sync' \in [Syncs -> SyncRecords] /\ faults' \in Nat
      /\ \A v \in Syncs : sync'[v] \in {sync[v], Idle}
    BY <1>1 DEF IndInv, TypeOK, SyncRecords
<1> QED BY <1>1, <1>2, EndInv

LEMMA NextInv == IndInv /\ [Next]_vars => IndInv'
BY ChangeInv, ListInv, BeginInv, RemoveInv, StoreInv, CompleteInv, AcknowledgeInv,
   AgentReadsInv, AgentUpsertsInv, ObjectStopsInv, CallLostInv, AgentLostInv, RestoreInv,
   StutterInv DEF Next

\* The invariant of the synchronization holds whatever the calls, stops and restores.
THEOREM SyncInvariant == Spec => []IndInv
BY InitInv, NextInv, PTL DEF Spec

\* Rows, outbox, marks and calls keep their types (client change synchronization).
THEOREM SyncTypes == Spec => []TypeOK
<1>1. IndInv => TypeOK BY DEF IndInv
<1> QED BY <1>1, SyncInvariant, PTL

\* LiveDataDO agrees with SQL about the credentials of every node that has no change
\* queued.
THEOREM QueueEmptyMeansSynced == Spec => []SyncedAuthority
<1>1. IndInv => SyncedAuthority
  <2> SUFFICES ASSUME IndInv, NEW c \in Clients, queue[c] = 0
               PROVE  /\ \A h \in Hashes : Accepts(c, h) => row[c] # NoRow /\ row[c].hash = h
                      /\ row[c] # NoRow => ~Superseded(c, row[c])
    BY DEF SyncedAuthority
  <2>1. mark[c].rev = last[c] /\ mark[c].complete /\ mark[c].row = row[c]
    BY DEF IndInv, EmptyMeansApplied, RevisionsAreRows
  <2>2. CASE last[c] = 0
    BY <2>2 DEF IndInv, NewNodesAreUnknown, Accepts
  <2>3. CASE last[c] # 0
    <3>1. AuthMatches(c, row[c])
      BY <2>1, <2>3 DEF IndInv, AppliedMeansMatched
    <3> QED BY <3>1 DEF AuthMatches, Accepts, Superseded
  <2> QED BY <2>2, <2>3
<1> QED BY <1>1, SyncInvariant, PTL

\* Who is accepted depends on the three authentication entries only.
LEMMA AcceptsKept ==
    ASSUME NEW c \in Clients, NEW h \in Hashes, UNCHANGED <<ctl, ptr, snap>>, Accepts(c, h)'
    PROVE  Accepts(c, h)
BY DEF Accepts

\* A step makes no token good that a change has revoked.
THEOREM RevokedTokensStayRevoked == Spec => RevokedStaysRevoked
<1> DEFINE Step ==
      \A c \in Clients, h \in Hashes :
         /\ Accepts(c, h)' /\ ~Accepts(c, h)
         /\ ctl[c] # NoControl /\ (ctl[c].removed \/ ctl[c].rev # 0)
         => h = ctl[c].hash \/ (mark[c].row # NoRow /\ h = mark[c].row.hash)
<1>1. ASSUME IndInv, Next PROVE Step
  <2> SUFFICES ASSUME IndInv, Next, NEW c \in Clients, NEW h \in Hashes,
                      Accepts(c, h)', ~Accepts(c, h), ctl[c] # NoControl, ctl[c].removed \/ ctl[c].rev # 0
               PROVE  h = ctl[c].hash \/ (mark[c].row # NoRow /\ h = mark[c].row.hash)
    BY <1>1
  <2>0. ~UNCHANGED <<ctl, ptr, snap>>
    BY AcceptsKept
  <2>1. ASSUME NEW w \in Syncs, Store(w)
        PROVE  mark[c].row # NoRow /\ h = mark[c].row.hash
    <3>1. PICK e \in sync[w].cur : StoreAuth(e.uuid, e.row, e.rev)
      BY <2>0, <2>1 DEF Store, authVars
    <3>2. /\ e.uuid \in Clients /\ e.rev \in Nat /\ e.row \in Rows \cup {NoRow}
          /\ mark[e.uuid].row = e.row
      BY HolderFacts
    <3>3. e.row \in Rows /\ e.row # NoRow
      BY <2>1, <3>2 DEF IndInv, AppliedMeansMatched, Store
    <3>4. /\ ptr'[e.uuid] = e.row.hash
          /\ \A d \in Clients \ {e.uuid} : ctl'[d] = ctl[d] /\ ptr'[d] = ptr[d] /\ snap'[d] = snap[d]
      BY <3>1, <3>2, <3>3, StoreAuthFacts
    <3>5. c = e.uuid
      BY <3>4 DEF Accepts
    <3>6. h = e.row.hash
      BY <3>4, <3>5 DEF Accepts
    <3> QED BY <3>2, <3>3, <3>5, <3>6
  <2>2. ASSUME NEW w \in Syncs, Remove(w) PROVE FALSE
    <3>1. PICK e \in sync[w].cur : RemoveAuth(e.uuid)
      BY <2>0, <2>2 DEF Remove, authVars
    <3>2. e.uuid \in Clients
      BY HolderFacts
    <3>3. /\ ptr'[e.uuid] = NoHash
          /\ \A d \in Clients \ {e.uuid} : ctl'[d] = ctl[d] /\ ptr'[d] = ptr[d] /\ snap'[d] = snap[d]
      BY <3>1, <3>2, RemoveAuthFacts
    <3>4. c = e.uuid
      BY <3>3 DEF Accepts
    <3> QED BY <3>3, <3>4, SyncAssumption DEF Accepts
  <2>3. ASSUME NEW a \in Agents, AgentUpserts(a)
        PROVE  h = ctl[c].hash
    <3>1. PICK d \in Clients, r \in Rows : read[a] = <<d, r>>
      BY <2>3 DEF AgentUpserts, IndInv, TypeOK
    <3>2. ~Superseded(d, r) /\ StoreAuth(d, r, ControlRevision(d))
      BY <2>0, <2>3, <3>1 DEF AgentUpserts, authVars
    <3>3. ControlRevision(d) \in Nat
      BY DEF IndInv, TypeOK, ControlRevision, Controls
    <3>4. /\ ptr'[d] = r.hash
          /\ \A f \in Clients \ {d} : ctl'[f] = ctl[f] /\ ptr'[f] = ptr[f] /\ snap'[f] = snap[f]
      BY <3>2, <3>3, StoreAuthFacts
    <3>5. c = d
      BY <3>4 DEF Accepts
    <3>6. h = r.hash
      BY <3>4, <3>5 DEF Accepts
    <3> QED BY <3>2, <3>5, <3>6 DEF Superseded
  <2>4. ASSUME NEW D \in SUBSET Clients, RestoreClients(D) PROVE FALSE
    BY <2>4, SyncAssumption DEF RestoreClients, Accepts, IndInv, TypeOK
  <2> QED BY <2>0, <2>1, <2>2, <2>3, <2>4
          DEF authVars, Next, ChangeClient, ListPending, Begin, Complete, Acknowledge, AgentReads,
              ObjectStops, CallLost, AgentLost
<1>2. UNCHANGED vars => Step
    BY AcceptsKept DEF vars, authVars
<1> QED BY <1>1, <1>2, SyncInvariant, PTL DEF Spec, RevokedStaysRevoked
=============================================================================
