---------------------------- MODULE PublicCaches ----------------------------
(***************************************************************************)
(* What the Worker answers from its caches while the administrator edits   *)
(* what they hold (worker/src/routes/public.ts, admin.ts, client.ts).      *)
(*                                                                         *)
(* SQL holds the truth.  An isolate keeps, in memory, the loaded rows      *)
(* ("rows") and finished answers ("answer"); a data centre keeps finished  *)
(* answers in its edge cache, shared by its isolates.  A route looks at    *)
(* the answer, the edge and the rows in this order and then asks SQL; what *)
(* it finds further down it puts into the layers above.  An edit writes    *)
(* SQL, forgets the memory of its own isolate and purges the edge of its   *)
(* own data centre; every other copy only expires.  A purge can fail and   *)
(* nobody hears of it.                                                     *)
(*                                                                         *)
(* The data is one row whose version counts its edits; a node of an odd    *)
(* version is hidden from guests.  One behaviour is about one route of     *)
(* rows or lists, one route of history and one edit, chosen at the start.  *)
(* The lives of the cached copies are in ticks.  A request is shorter than *)
(* a tick.                                                                 *)
(***************************************************************************)
EXTENDS Integers, FiniteSets, FiniteSetsExt, TLC

CONSTANTS
    Isolates,        \* isolates of the Worker
    OneCentre,       \* whether the isolates share a data centre or each has its own
    Slots,           \* requests under way at once
    MetaTtl,         \* PUBLIC_METADATA_CACHE_MS
    HistoryTtl,      \* PUBLIC_HISTORY_CACHE_MS
    LiveTtl,         \* PUBLIC_LIVE_CACHE_SECONDS
    AdminEdgeTtl,    \* ADMIN_PING_TASKS_EDGE_CACHE_SECONDS
    AdminMemoryTtl,  \* ADMIN_PING_TASKS_CACHE_MS
    SettingsTtl,     \* ADMIN_SETTINGS_SCOPE_CACHE_MS
    AgentTtl,        \* AGENT_PING_TASK_CACHE_MS
    MaxEdits         \* bound: edits of the row

CacheAssumption ==
    /\ OneCentre \in BOOLEAN
    /\ {MetaTtl, HistoryTtl, LiveTtl, AdminEdgeTtl, AdminMemoryTtl, SettingsTtl, AgentTtl} \subseteq Nat \ {0}
    /\ HistoryTtl <= MetaTtl
    /\ MaxEdits \in Nat

(***************************************************************************)
(* The routes.  A route is the life of its copies in the answer cache, in  *)
(* the edge cache and in the row cache (0: it has no such copy), whether a *)
(* caller may ask for fresh rows, what fresh rows are put into, whether it *)
(* has a private form for administrators, and whether purges know the key  *)
(* of its edge copy.  Routes with the same copies are the same here.       *)
(***************************************************************************)
Metadata(rows, fresh, purged) ==
    [data |-> "public", answer |-> MetaTtl, edge |-> MetaTtl, rows |-> rows,
     fresh |-> fresh, keeps |-> {"answer", "rows"}, private |-> TRUE, purged |-> purged]

GetClients   == Metadata(MetaTtl, TRUE, TRUE)
GetSettings  == [Metadata(MetaTtl, TRUE, TRUE) EXCEPT !.private = FALSE]
GetBootstrap == Metadata(MetaTtl, TRUE, TRUE)
GetPingTasks == Metadata(MetaTtl, TRUE, TRUE)
GetNodes     == Metadata(MetaTtl, FALSE, TRUE)
GetWebsites  == Metadata(0, TRUE, FALSE)
GetWebsite   == Metadata(0, FALSE, FALSE)
GetChecks    == [Metadata(0, FALSE, FALSE) EXCEPT !.answer = HistoryTtl, !.edge = HistoryTtl]
GetLive      == [Metadata(0, FALSE, FALSE) EXCEPT !.answer = 0, !.edge = LiveTtl]

Inner(data) ==
    [data |-> data, answer |-> 0, edge |-> 0, rows |-> 0,
     fresh |-> FALSE, keeps |-> {}, private |-> FALSE, purged |-> TRUE]

AdminPing      == [Inner("ping") EXCEPT !.edge = AdminEdgeTtl, !.rows = AdminMemoryTtl,
                                                      !.fresh = TRUE, !.keeps = {"rows"}]
AdminSettings  == [Inner("settings") EXCEPT !.answer = SettingsTtl, !.fresh = TRUE]
AgentPing      == [Inner("agent") EXCEPT !.rows = AgentTtl]

Routes == {GetClients, GetSettings, GetBootstrap, GetPingTasks, GetNodes, GetWebsites, GetWebsite,
           GetChecks, GetLive, AdminPing, AdminSettings, AgentPing}

(***************************************************************************)
(* The edits: what of the own isolate's memory they forget and whose edge  *)
(* copies they purge.  forgets and purges name the data of the routes.     *)
(***************************************************************************)
Edit(forgets, purges) == [forgets |-> forgets, purges |-> purges]

PingChange      == Edit({"public", "ping", "agent"}, {"public", "ping"})
WebsiteChange   == Edit({"public"}, {"public"})
SiteLogo        == Edit({"public", "settings"}, {"public"})
SettingsSave    == Edit({"public", "settings", "agent"}, {"public"})
UploadBasicInfo == Edit({"public"}, {})

Edits == {PingChange, WebsiteChange, SiteLogo, SettingsSave, UploadBasicInfo}

\* An edit is about a route when it forgets the data of the route.
Concerns(e, r) == r.data \in e.forgets
Purges(e, r)   == r.data \in e.purges /\ r.purged

VARIABLES
    route,           \* the route of lists of this behaviour
    purging,         \* whether its edit purges the edge copies of the route
    sql,             \* the version in SQL
    past,            \* how long each version has been replaced, in ticks
    answer, rows,    \* [Isolates -> copy]: publicMetadataResponseCache, publicClientsSnapshotCache, ...
    edge,            \* [Centres -> copy]: caches.default
    seen,            \* [Isolates -> copy]: publicClientVisibilityCache
    history,         \* [Isolates -> copy]: publicHistoryCache
    hedge,           \* [Centres -> copy]: caches.default, answers of history
    editor,          \* the edit under way
    req,             \* [Slots -> request]
    lower            \* [Isolates -> the newest version that an undisturbed edit brought here]

vars == <<route, purging, sql, past, answer, rows, edge, seen, history, hedge, editor, req, lower>>

\* A data centre is named after one of its isolates.
Centres   == IF OneCentre THEN {CHOOSE i \in Isolates : TRUE} ELSE Isolates
Centre(i) == IF OneCentre THEN CHOOSE j \in Isolates : TRUE ELSE i

Versions == 0..MaxEdits
Horizon  == Max({route.answer, route.edge}) + route.rows + MetaTtl + HistoryTtl + 1

\* The node is hidden from guests in the odd versions.
Hidden(v) == v % 2 = 1

NoCopy == [v |-> 0, left |-> 0, private |-> FALSE]

Copy(v, ttl, private) == IF ttl = 0 THEN NoCopy ELSE [v |-> v, left |-> ttl, private |-> private]
Copies == [v: Versions, left: 0..Max({MetaTtl, AgentTtl, AdminEdgeTtl, SettingsTtl}), private: BOOLEAN]

\* cacheIsFresh.
IsFresh(copy) == copy.left > 0
Older(copy)   == IF copy.left <= 1 THEN NoCopy ELSE [copy EXCEPT !.left = @ - 1]

NoRequest == [pc |-> "idle", at |-> CHOOSE i \in Isolates : TRUE, kind |-> "list", v |-> 0, base |-> 0,
              fresh |-> FALSE, private |-> FALSE, empty |-> FALSE]
Requests  == [pc: {"idle", "edge", "fill", "histedge", "rows", "answered"}, at: Isolates,
              kind: {"list", "history"}, v: Versions, base: Versions, fresh: BOOLEAN, private: BOOLEAN, empty: BOOLEAN]

TypeOK ==
    /\ sql \in Versions /\ past \in [Versions -> 0..Horizon]
    /\ answer \in [Isolates -> Copies] /\ rows \in [Isolates -> Copies] /\ edge \in [Centres -> Copies]
    /\ seen \in [Isolates -> Copies] /\ history \in [Isolates -> Copies] /\ hedge \in [Centres -> Copies]
    /\ editor \in [pc: {"idle", "forget", "purge"}, at: Isolates, alone: BOOLEAN]
    /\ req \in [Slots -> Requests]
    /\ lower \in [Isolates -> Versions]

Init ==
    /\ route \in Routes /\ \E e \in Edits : Concerns(e, route) /\ purging = (Purges(e, route))
    /\ sql = 0 /\ past = [v \in Versions |-> 0]
    /\ answer = [i \in Isolates |-> NoCopy] /\ rows = [i \in Isolates |-> NoCopy]
    /\ edge = [c \in Centres |-> NoCopy] /\ seen = [i \in Isolates |-> NoCopy]
    /\ history = [i \in Isolates |-> NoCopy] /\ hedge = [c \in Centres |-> NoCopy]
    /\ editor = [pc |-> "idle", at |-> CHOOSE i \in Isolates : TRUE, alone |-> TRUE]
    /\ req = [s \in Slots |-> NoRequest]
    /\ lower = [i \in Isolates |-> 0]

Caches == <<answer, rows, edge, seen, history, hedge>>
Fixed  == <<route, purging>>

Answer(s, v, empty) ==
    req' = [req EXCEPT ![s] = [NoRequest EXCEPT !.pc = "answered", !.kind = req[s].kind, !.base = req[s].base,
                                                !.v = v, !.empty = empty]]

(***************************************************************************)
(* A list.                                                                 *)
(***************************************************************************)
\* getPublicMetadataResponse, first half: the answer in memory.
StartList(s, i) ==
    \E fresh \in IF route.fresh THEN BOOLEAN ELSE {FALSE}, private \in IF route.private THEN BOOLEAN ELSE {FALSE} :
        LET start == [NoRequest EXCEPT !.at = i, !.base = lower[i], !.fresh = fresh, !.private = private]
            hit   == ~fresh /\ ~private /\ IsFresh(answer[i])
        IN  /\ req[s].pc \in {"idle", "answered"}
            /\ req' = [req EXCEPT ![s] =
                   CASE hit -> [NoRequest EXCEPT !.pc = "answered", !.base = lower[i], !.v = answer[i].v]
                     [] ~hit /\ ~fresh /\ ~private -> [start EXCEPT !.pc = "edge"]
                     [] OTHER -> [start EXCEPT !.pc = "rows"]]
            /\ UNCHANGED <<Fixed, sql, past, Caches, editor, lower>>

\* getPublicMetadataEdgeCache: an edge copy is passed on, memory keeps nothing of it.
LookAtEdge(s) ==
    LET copy == edge[Centre(req[s].at)] IN
    /\ req[s].pc = "edge"
    /\ IF IsFresh(copy) THEN Answer(s, copy.v, FALSE) ELSE req' = [req EXCEPT ![s].pc = "rows"]
    /\ UNCHANGED <<Fixed, sql, past, Caches, editor, lower>>

\* The answer of a list from the rows v: setPublicMetadataResponse, or privateJsonResponse.
Finish(s, v) ==
    LET r == req[s] IN
    /\ Answer(s, v, FALSE)
    /\ answer' = IF r.private \/ (r.fresh /\ "answer" \notin route.keeps) THEN answer
                 ELSE [answer EXCEPT ![r.at] = Copy(v, route.answer, r.private)]
    /\ edge' = IF r.private \/ r.fresh THEN edge
               ELSE [edge EXCEPT ![Centre(r.at)] = Copy(v, route.edge, r.private)]

\* The rows kept in memory serve unless the caller wants fresh or private ones; otherwise SQL is asked.
LookAtRows(s) ==
    LET r == req[s] IN
    /\ r.pc = "rows"
    /\ \/ /\ ~r.fresh /\ ~r.private /\ IsFresh(rows[r.at])
          /\ Finish(s, rows[r.at].v)
       \/ /\ r.fresh \/ r.private \/ ~IsFresh(rows[r.at])
          /\ req' = [req EXCEPT ![s].pc = "fill", ![s].v = sql]
          /\ UNCHANGED <<answer, edge>>
    /\ UNCHANGED <<Fixed, sql, past, rows, seen, history, hedge, editor, lower>>

\* Mutant: the rows of an administrator become the rows of everybody.
FillPrivate(s) ==
    LET r == req[s] IN
    /\ r.pc = "fill" /\ r.kind = "list"
    /\ Finish(s, r.v)
    /\ rows' = [rows EXCEPT ![r.at] = Copy(r.v, route.rows, r.private)]
    /\ UNCHANGED <<Fixed, sql, past, seen, history, hedge, editor, lower>>

\* getPublicClientsSnapshot and its kin after the query: the overlay of LiveDataDO may already know a later
\* version, the rows are kept unless they are private ones, and what is visible is kept in either case.
Fill(s) ==
    LET r == req[s] IN
    /\ r.pc = "fill"
    /\ r.kind = "list"
    /\ \E v \in (IF route.data = "public" THEN r.v..sql ELSE {r.v}) :
        /\ Finish(s, v)
        /\ rows' = IF r.private \/ (r.fresh /\ "rows" \notin route.keeps) THEN rows
                   ELSE [rows EXCEPT ![r.at] = Copy(v, route.rows, r.private)]
        /\ seen' = IF route.data = "public" /\ route.rows > 0
                   THEN [seen EXCEPT ![r.at] = Copy(v, MetaTtl, r.private)] ELSE seen
    /\ UNCHANGED <<Fixed, sql, past, history, hedge, editor, lower>>

(***************************************************************************)
(* The history of the node: /recent/:uuid, /records/load, /records/gpu,    *)
(* /records/ping and /records/ping/batch.  An answer is empty when the     *)
(* node is hidden, and is kept either way.                                 *)
(***************************************************************************)
HistoryRoutes == route = GetClients

\* preparePublicHistoryRequest: what memory says of the visibility, or the rows, or SQL.
StartHistory(s, i) ==
    /\ HistoryRoutes
    /\ req[s].pc \in {"idle", "answered"}
    /\ req' = [req EXCEPT ![s] = [NoRequest EXCEPT !.at = i, !.kind = "history", !.base = lower[i],
                                  !.pc = IF IsFresh(seen[i]) \/ IsFresh(rows[i]) THEN "histedge" ELSE "fill",
                                  !.v = IF IsFresh(seen[i]) THEN seen[i].v
                                        ELSE IF IsFresh(rows[i]) THEN rows[i].v ELSE sql]]
    /\ UNCHANGED <<Fixed, sql, past, Caches, editor, lower>>

\* The rows arrive; memory keeps them.
FillHistory(s) ==
    LET r == req[s] IN
    /\ r.pc = "fill" /\ r.kind = "history"
    /\ \E v \in r.v..sql :
        /\ req' = [req EXCEPT ![s].pc = "histedge", ![s].v = v]
        /\ rows' = [rows EXCEPT ![r.at] = Copy(v, MetaTtl, FALSE)]
        /\ seen' = [seen EXCEPT ![r.at] = Copy(v, MetaTtl, FALSE)]
    /\ UNCHANGED <<Fixed, sql, past, answer, edge, history, hedge, editor, lower>>

\* setPublicHistoryCache.
KeepHistory(s, v) ==
    LET i == req[s].at IN
    /\ history' = [history EXCEPT ![i] = Copy(v, HistoryTtl, FALSE)]
    /\ hedge' = [hedge EXCEPT ![Centre(i)] = Copy(v, HistoryTtl, FALSE)]

\* getPublicHistoryCache, only when the node counts as visible; then the records of SQL.
AnswerHistory(s) ==
    LET r == req[s]
        i == r.at
        c == Centre(i)
    IN  /\ r.pc = "histedge"
        /\ \/ /\ Hidden(r.v)
              /\ Answer(s, r.v, TRUE) /\ KeepHistory(s, r.v)
           \/ /\ ~Hidden(r.v) /\ IsFresh(history[i])
              /\ Answer(s, r.v, Hidden(history[i].v)) /\ UNCHANGED <<history, hedge>>
           \/ /\ ~Hidden(r.v) /\ ~IsFresh(history[i]) /\ IsFresh(hedge[c])
              /\ Answer(s, r.v, Hidden(hedge[c].v)) /\ UNCHANGED <<history, hedge>>
           \/ /\ ~Hidden(r.v) /\ ~IsFresh(history[i]) /\ ~IsFresh(hedge[c])
              /\ Answer(s, r.v, FALSE) /\ KeepHistory(s, r.v)
        /\ UNCHANGED <<Fixed, sql, past, answer, rows, edge, seen, editor, lower>>

(***************************************************************************)
(* The edit.                                                               *)
(***************************************************************************)
WriteSql(i) ==
    /\ editor.pc = "idle"
    /\ sql < MaxEdits
    /\ sql' = sql + 1
    /\ editor' = [pc |-> "forget", at |-> i, alone |-> TRUE]
    /\ UNCHANGED <<Fixed, past, Caches, req, lower>>

\* Whether the edit is alone: no request of the data centre holds rows that it loaded before.
Alone == \A s \in Slots : Centre(req[s].at) = Centre(editor.at) => req[s].pc # "fill" \/ req[s].v = sql
OnlyIsolate(i) == \A j \in Isolates : Centre(j) = Centre(i) => j = i

\* Mutant: the rows are not forgotten.
ForgetAnswers ==
    /\ editor.pc = "forget"
    /\ answer' = [answer EXCEPT ![editor.at] = NoCopy]
    /\ editor' = [editor EXCEPT !.pc = "purge", !.alone = Alone]
    /\ UNCHANGED <<Fixed, sql, past, rows, seen, history, edge, hedge, req, lower>>

\* invalidatePublicMetadataCache and the other invalidations, in one step of the isolate.
Forget ==
    LET i == editor.at IN
    /\ editor.pc = "forget"
    /\ answer' = [answer EXCEPT ![i] = NoCopy]
    /\ rows' = [rows EXCEPT ![i] = NoCopy]
    /\ seen' = [seen EXCEPT ![i] = NoCopy]
    /\ history' = [history EXCEPT ![i] = NoCopy]
    /\ editor' = [editor EXCEPT !.pc = "purge", !.alone = Alone]
    /\ UNCHANGED <<Fixed, sql, past, edge, hedge, req, lower>>

\* purgePublicMetadataEdgeCache, purgeAdminPingTasksEdgeCache: runs after the response, may fail unheard.
Purge ==
    LET i == editor.at
    IN  /\ editor.pc = "purge"
        /\ \E done \in BOOLEAN :
            /\ edge' = IF done /\ purging THEN [edge EXCEPT ![Centre(i)] = NoCopy] ELSE edge
            /\ lower' = IF ((done /\ purging) \/ route.edge = 0) /\ editor.alone /\ OnlyIsolate(i)
                        THEN [lower EXCEPT ![i] = sql] ELSE lower
        /\ editor' = [editor EXCEPT !.pc = "idle"]
        /\ UNCHANGED <<Fixed, sql, past, answer, rows, seen, history, hedge, req>>

\* Time passes between the requests.
Tick ==
    /\ \A s \in Slots : req[s].pc \in {"idle", "answered"}
    /\ req' = [s \in Slots |-> NoRequest]
    /\ editor.pc = "idle"
    /\ past' = [v \in Versions |-> IF v < sql /\ past[v] < Horizon THEN past[v] + 1 ELSE past[v]]
    /\ answer' = [i \in Isolates |-> Older(answer[i])] /\ rows' = [i \in Isolates |-> Older(rows[i])]
    /\ edge' = [c \in Centres |-> Older(edge[c])] /\ seen' = [i \in Isolates |-> Older(seen[i])]
    /\ history' = [i \in Isolates |-> Older(history[i])] /\ hedge' = [c \in Centres |-> Older(hedge[c])]
    /\ UNCHANGED <<Fixed, sql, editor, lower>>

Next ==
    \/ \E s \in Slots, i \in Isolates : StartList(s, i) \/ StartHistory(s, i)
    \/ \E s \in Slots : LookAtEdge(s) \/ LookAtRows(s) \/ Fill(s) \/ FillHistory(s) \/ AnswerHistory(s)
    \/ \E i \in Isolates : WriteSql(i)
    \/ Forget \/ Purge \/ Tick

Spec == Init /\ [][Next]_vars

-----------------------------------------------------------------------------
Answered(s) == req[s].pc = "answered"

\* A copy is last used in the tick before its life ends.
LastUse(ttl) == Max({ttl - 1, 0})

\* AnswersAreRecent: a list that a cache answers shows no row that was replaced longer ago than the life of
\* a row copy and of an answer copy together, whatever the isolates, the purges and the overlapping reads do.
AnswersAreRecent ==
    \A s \in Slots : Answered(s) /\ req[s].kind = "list" =>
        past[req[s].v] <= LastUse(Max({route.answer, route.edge})) + LastUse(route.rows)

\* HiddenGoesDark: once a node is hidden, its history is out of reach after the life of one visibility copy,
\* although the answers with its history live on in memory and at the edge: each one asks for the visibility first.
HiddenGoesDark ==
    \A s \in Slots : Answered(s) /\ req[s].kind = "history" /\ ~req[s].empty =>
        ~Hidden(req[s].v) /\ past[req[s].v] <= LastUse(MetaTtl)

\* NothingPrivateIsKept: the rows an administrator asked for with include_hidden are in no copy that a guest is
\* answered from.
NothingPrivateIsKept ==
    \A i \in Isolates : ~answer[i].private /\ ~rows[i].private /\ ~edge[Centre(i)].private

\* OwnEditsShow: in a data centre with one isolate, an edit that met no read under way is visible to every
\* request that starts after it, cached or not.
OwnEditsShow == \A s \in Slots : Answered(s) => req[s].v >= req[s].base

=============================================================================
