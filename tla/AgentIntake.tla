---------------------------- MODULE AgentIntake ----------------------------
(***************************************************************************)
(* How an agent is recognised and how what it says of its machine reaches  *)
(* the clients row (worker/src/routes/client.ts).  A request is recognised *)
(* by the copy of the row that LiveDataDO keeps, or else by SQL, whose     *)
(* answer LiveDataDO then keeps.  uploadBasicInfo and report compare what  *)
(* the agent says with that copy and write the fields that differ; the     *)
(* copy follows SQL through the synchronization of clients, which only     *)
(* administrative fields and addresses wake.  Requests overlap: an agent   *)
(* that got no answer asks again, and part of a report is written in the   *)
(* background.  Limits on requests are in module RateLimit.                *)
(***************************************************************************)
EXTENDS Naturals, FiniteSets

CONSTANTS
    Addresses,  \* public addresses
    None,       \* no address; also stands for one that is not public
    Missing,    \* an older agent does not send the field
    Nil,        \* no row, no copy
    Machines,   \* what agents say: ip, disk, ver, and src, where they connect from
    MaxChanges, \* bound: changes of the machine and of the administrator
    MaxJobs,    \* bound: requests and background writes under way
    MaxLost     \* bound: calls that fail

Capacities == {0, 1}       \* disk_total: 0 is unknown
Releases == {1, 2}         \* versions of the agent; a row without one has 0

\* a row and its copies; adm stands for the administrator's fields, at for updated_at
Fields == [ip : Addresses \cup {None}, disk : Capacities, ver : Releases \cup {0},
           adm : 0 .. MaxChanges, at : Nat]

IntakeAssumption ==
    /\ None \notin Addresses /\ Missing \notin Capacities
    /\ Machines \subseteq [ip : Addresses \cup {None}, src : Addresses \cup {None},
                           disk : Capacities \cup {Missing}, ver : Releases]
    /\ {MaxChanges, MaxJobs, MaxLost} \subseteq Nat
    /\ Nil \notin Fields

VARIABLES
    agent,      \* the machine
    row,        \* SQL: clients
    snap,       \* LiveDataDO: the agent-auth copy of the row
    removed,    \* LiveDataDO: the agent-auth control row says removed
    live,       \* LiveDataDO: the node in the administration snapshot
    queue,      \* SQL: client_sync_queue has the node
    negative,   \* the isolate: lookups ("client", "identity") remembered as unknown
    jobs,       \* requests and background writes
    changes, lost

vars == <<agent, row, snap, removed, live, queue, negative, jobs, changes, lost>>

(***************************************************************************)
(* What a field becomes.                                                   *)
(***************************************************************************)
\* publicIpPatch, preferredPublicIp: the address said, the one connected from, the one known
PublicIp(said, src, known) ==
    IF said \in Addresses THEN said ELSE IF src \in Addresses THEN src ELSE known

\* diskTotalFromReport: a field left out keeps, an explicit unknown clears
DiskTotal(said, known) == IF said = Missing THEN known ELSE said

\* The fields that a job is about: syncClientIpsFromReport, the version of a report, or all.
About(j) == CASE j.kind = "ips" -> {"ip"} [] j.kind = "version" -> {"ver"} [] OTHER -> {"ip", "disk", "ver"}

\* What the fields become, compared with the copy that the request was recognised by.
Said(j) ==
    [ip |-> PublicIp(j.said.ip, j.said.src, j.old.ip), disk |-> DiskTotal(j.said.disk, j.old.disk),
     ver |-> j.said.ver]

\* buildChangedClientPatch: fields that equal the copy are not written
Changed(j) == {f \in About(j) : Said(j)[f] # j.old[f]}

Patched(j, target) == [f \in DOMAIN target |-> IF f \in Changed(j) THEN Said(j)[f] ELSE target[f]]

(***************************************************************************)
(* Times of rows are compared and nothing else: they are kept as ranks.  A *)
(* row without a time (0) is older than every other.                       *)
(***************************************************************************)
Times == {snap.at : s \in {snap} \ {Nil}} \cup {j.old.at : j \in {k \in jobs : k.st = "upsert"}}
Rank(t) == Cardinality({s \in Times : 0 < s /\ s <= t})
Newest == Cardinality(Times \ {0}) + 1
Reranked(js) ==
    {IF j.st = "upsert" THEN [j EXCEPT !.old = [j.old EXCEPT !.at = Rank(j.old.at)]] ELSE j : j \in js}

\* the row changes; the trigger cfm_client_control_sync queues what administrators and agents
\* are told of, and an update of a row that is gone does nothing
Stores(r, js) ==
    /\ row' = IF row = Nil THEN Nil ELSE [r EXCEPT !.at = Newest]
    /\ queue' = (queue \/ (row # Nil /\ <<r.ip, r.adm>> # <<row.ip, row.adm>>))
    /\ snap' = IF snap = Nil \/ row = Nil THEN snap ELSE [snap EXCEPT !.at = Rank(@)]
    /\ jobs' = IF row = Nil THEN js ELSE Reranked(js)

(***************************************************************************)
(* Recognising the agent.                                                  *)
(***************************************************************************)
\* a report becomes two jobs
Doubles(kind) == kind \in {"report", "plain"}
Room(kind) ==
    Cardinality(jobs) + Cardinality({j \in jobs : Doubles(j.kind) /\ j.st \in {"read", "upsert"}})
        + (IF Doubles(kind) THEN 2 ELSE 1) <= MaxJobs

\* positive entries of the caches are written and never read
CacheOf(kind) == IF kind = "identity" THEN "identity" ELSE "client"

\* What a request does once its agent is recognised by the copy old: POST /uploadBasicInfo;
\* POST /report (the addresses in the background, then the newest basic_info if there is
\* one); the routes that only need an identity.
Work(kind, said, old) ==
    LET job(k, st) == [kind |-> k, st |-> st, said |-> said, old |-> [old EXCEPT !.at = 0]] IN
    CASE kind = "basic" -> {job("basic", "write")}
      [] kind = "report" -> {job("ips", "write"), job("report", "write")}
      [] kind = "plain" -> {job("ips", "write"), job("plain", "live")}
      [] kind = "identity" -> {}

\* clientAuth, clientIdentityAuth: refused from the negative cache, recognised by the copy of
\* LiveDataDO, or, when that has none or cannot be asked, by SQL
Arrives(kind) ==
    /\ Room(kind) /\ CacheOf(kind) \notin negative
    /\ \/ /\ snap # Nil
          /\ jobs' = jobs \cup Work(kind, agent, snap)
          /\ UNCHANGED lost
       \/ /\ snap # Nil => lost < MaxLost
          /\ lost' = IF snap = Nil THEN lost ELSE lost + 1
          /\ jobs' = jobs \cup {[kind |-> kind, st |-> "read", said |-> agent, old |-> Nil]}
    /\ UNCHANGED <<agent, row, snap, removed, live, queue, negative, changes>>

UploadBasicInfo == Arrives("basic")

\* POST /report, with basic_info or without
Report == Arrives("report") \/ Arrives("plain")

\* GET /policy, GET /ping/tasks, POST /ping/result and the WebSocket
Identify == Arrives("identity")

\* normalizeLiveAgentAuthClient: of an identity only the name and the visibility are there
Normalized(kind, r) == IF kind = "identity" THEN [r EXCEPT !.ip = None, !.disk = 0, !.ver = 0, !.at = 0] ELSE r

\* getClientByToken, getClientIdentityByToken: an unknown token is remembered
Read(j) ==
    /\ j.st = "read"
    /\ IF row = Nil
       THEN /\ negative' = negative \cup {CacheOf(j.kind)}
            /\ jobs' = jobs \ {j}
       ELSE /\ jobs' = (jobs \ {j}) \cup {[j EXCEPT !.st = "upsert", !.old = Normalized(j.kind, row)]}
            /\ UNCHANGED negative
    /\ UNCHANGED <<agent, row, snap, removed, live, queue, changes, lost>>

\* storeAgentAuthSnapshot without a revision: kept out by a removal, and by a newer copy
Upserted(old) == IF snap # Nil /\ snap.at > old.at THEN snap ELSE old

\* upsertAgentAuthSnapshot; a copy that is refused ends the request
Upsert(j) ==
    /\ j.st = "upsert"
    /\ snap' = IF removed THEN snap ELSE Upserted(j.old)
    /\ jobs' = (jobs \ {j}) \cup (IF removed THEN {} ELSE Work(j.kind, j.said, j.old))
    /\ UNCHANGED <<agent, row, removed, live, queue, negative, changes, lost>>

NegativeExpires ==
    /\ negative # {} /\ negative' = {}
    /\ UNCHANGED <<agent, row, snap, removed, live, queue, jobs, changes, lost>>

(***************************************************************************)
(* Writing and showing.                                                    *)
(***************************************************************************)
\* mutant: a report writes the whole row it compared with
WrittenWhole(j) == Patched(j, j.old)

\* updateClient with the patch
Written(j) == Patched(j, row)

\* what is written is shown next, and a report is stored after its basic information
AfterWrite(j) ==
    CASE j.kind \in {"basic", "report"} /\ Changed(j) # {} -> {[j EXCEPT !.st = "meta"]}
      [] j.kind = "report" /\ Changed(j) = {} -> {[j EXCEPT !.st = "live"]}
      [] OTHER -> {}

\* the patch is written, if there is one; the notice of a new address changes nothing here
Write(j) ==
    /\ j.st = "write"
    /\ LET js == (jobs \ {j}) \cup AfterWrite(j) IN
       IF Changed(j) = {} \/ row = Nil
       THEN jobs' = js /\ UNCHANGED <<row, snap, queue>>
       ELSE Stores(Written(j), js)
    /\ UNCHANGED <<agent, removed, live, negative, changes, lost>>

\* buildSafeLiveBasicInfoClient, projectAgentClientMetadata, updateClientMeta: technical fields
\* only, those that did not change as in the copy, and none of a node that is not there
Shown(j) ==
    IF live = Nil THEN Nil
    ELSE [Patched(j, live) EXCEPT !.disk = Said(j).disk, !.ver = Said(j).ver]

AfterShow(j) == {k \in {[j EXCEPT !.st = "live"]} : j.kind = "report"}

\* syncLiveBasicInfoMetadata; a failure is ignored
Show(j, arrives) ==
    /\ j.st = "meta"
    /\ ~arrives => lost < MaxLost
    /\ live' = IF arrives THEN Shown(j) ELSE live
    /\ lost' = IF arrives THEN lost ELSE lost + 1
    /\ jobs' = (jobs \ {j}) \cup AfterShow(j)
    /\ UNCHANGED <<agent, row, snap, removed, queue, negative, changes>>

\* updateLiveReport (module LiveReports), and the version of the report in the background
StoreReport(j) ==
    /\ j.st = "live"
    /\ jobs' = (jobs \ {j}) \cup
           {k \in {[j EXCEPT !.kind = "version", !.st = "write"]} : j.said.ver # j.old.ver}
    /\ UNCHANGED <<agent, row, snap, removed, live, queue, negative, changes, lost>>

\* a call fails: the request ends there, and the agent asks again sooner or later
Lose(j) ==
    /\ j.st # "meta" /\ lost < MaxLost
    /\ lost' = lost + 1
    /\ jobs' = jobs \ {j}
    /\ UNCHANGED <<agent, row, snap, removed, live, queue, negative, changes>>

(***************************************************************************)
(* The machine, the administrator, and the synchronization of clients.     *)
(***************************************************************************)
MachineChanges ==
    /\ changes < MaxChanges
    /\ changes' = changes + 1
    /\ agent' \in Machines \ {agent}
    /\ UNCHANGED <<row, snap, removed, live, queue, negative, jobs, lost>>

AdminEdits ==
    /\ changes < MaxChanges /\ row # Nil
    /\ changes' = changes + 1
    /\ Stores([row EXCEPT !.adm = changes'], jobs)
    /\ UNCHANGED <<agent, removed, live, negative, lost>>

AdminDeletes ==
    /\ changes < MaxChanges /\ row # Nil
    /\ changes' = changes + 1
    /\ row' = Nil /\ queue' = TRUE
    /\ UNCHANGED <<agent, snap, removed, live, negative, jobs, lost>>

\* synchronizePendingClientChanges (module ClientSync)
Synchronize ==
    /\ queue
    /\ snap' = row /\ live' = row /\ removed' = (row = Nil)
    /\ queue' = FALSE
    /\ UNCHANGED <<agent, row, negative, jobs, changes, lost>>

\* The node has just been created.
Init ==
    /\ agent \in Machines
    /\ row = [ip |-> None, disk |-> 0, ver |-> 0, adm |-> 0, at |-> 1]
    /\ snap = Nil /\ live = Nil /\ removed = FALSE /\ queue = TRUE
    /\ negative = {} /\ jobs = {} /\ changes = 0 /\ lost = 0

Proceed(j) == Read(j) \/ Upsert(j) \/ Write(j) \/ Show(j, TRUE) \/ StoreReport(j)

Next ==
    \/ UploadBasicInfo \/ Report \/ Identify \/ NegativeExpires
    \/ \E j \in jobs : Proceed(j) \/ Show(j, FALSE) \/ Lose(j)
    \/ MachineChanges \/ AdminEdits \/ AdminDeletes \/ Synchronize

Spec == Init /\ [][Next]_vars

\* Agents report for ever, requests are worked off, and the cron synchronizes.
FairSpec ==
    /\ Spec
    /\ SF_vars(UploadBasicInfo)
    /\ WF_vars(\E j \in jobs : Proceed(j))
    /\ WF_vars(Synchronize)

(***************************************************************************)
(* Properties.                                                             *)
(***************************************************************************)
TypeOK ==
    /\ {row, snap, live} \subseteq Fields \cup {Nil}
    /\ {queue, removed} \subseteq BOOLEAN
    /\ negative \subseteq {"client", "identity"}
    /\ Cardinality(jobs) <= MaxJobs
    /\ \A j \in jobs : IF j.st = "read" THEN j.old = Nil ELSE j.old \in Fields

\* What the administrator wrote is not taken back by an agent's request that began before,
\* and a node that is deleted does not come back: once synchronized, the row and both copies
\* have the newest edit, or are gone, although requests store the copy they read earlier.
AdminKept ==
    /\ row' # Nil => row # Nil /\ row'.adm >= row.adm
    /\ ~queue' => IF row' = Nil THEN snap' = Nil /\ live' = Nil
                  ELSE {snap'.adm, live'.adm} = {row'.adm}

\* Once the machine is left alone its row gets and keeps its address, although
\* requests compare with a copy that may be older and may be written out of order.
HasAddress == row = Nil \/ row.ip = PublicIp(agent.ip, agent.src, row.ip)

=============================================================================
