---------------------------- MODULE PublicPatches ----------------------------
(***************************************************************************)
(* The list of nodes on the public page while edits are told and loaded    *)
(* (frontend/src/utils/publicBootstrap.ts, publicDataEvents.ts,            *)
(* publicClients.ts, the loaders of pages/Index.tsx and                    *)
(* contexts/LiveDataContext.tsx).                                          *)
(*                                                                         *)
(* An administrator edits a node; edit number v makes version v.  The page *)
(* is told of it over its socket, with the change itself (a delta) or as a *)
(* reason to load everything.  Two loaders, of the page and of the live    *)
(* data, share one request and write one list.  A request that is not      *)
(* fresh can be answered from a cache that is CacheAge minutes old, so the *)
(* browser keeps deltas for PatchLife minutes and lays them over what it   *)
(* loads.  A fresh request passes by the caches.  An administrator's page  *)
(* (auth) reads past all caches and keeps no deltas.  A request takes less *)
(* than two minutes, and the visible page loads every minute.              *)
(***************************************************************************)
EXTENDS Integers, Sequences

CONSTANTS
    Slots,       \* requests under way at once
    PatchLife,   \* PUBLIC_BOOTSTRAP_CLIENT_PATCH_MAX_AGE_MS, and that of the stored list, in minutes
    CacheAge,    \* how old an answer of the server's caches may be
    MaxEdits,    \* bound: edits
    MaxTime,     \* bound: minutes
    MaxBreaks,   \* bound: sockets lost
    MaxReloads,  \* bound: times the page is loaded anew
    MaxFails     \* bound: requests that fail

PatchAssumption ==
    /\ Slots \subseteq Nat \ {0} /\ PatchLife \in Nat /\ CacheAge \in Nat /\ MaxEdits \in Nat
    /\ MaxTime \in Nat /\ MaxBreaks \in Nat /\ MaxReloads \in Nat /\ MaxFails \in Nat

VARIABLES
    auth,      \* isAuthenticated: the page includes hidden nodes
    now, due,  \* minutes; the load of this minute is still to come
    sv, when,  \* the last edit, and when each was made
    notices,   \* what the socket carries to the page
    deaf,      \* the socket is broken
    patch,     \* clientPatchCache and its copy in localStorage
    stored,    \* the bootstrap in localStorage
    req, slot, \* requests, and the one others may join: bootstrapInFlight
    con,       \* the loaders: their current request and the deltas told since
    list,      \* clientMetadata: the version shown
    told,      \* the last delta the page was told, since it last dropped what it kept
    shaky,     \* a load failed or was given up, and no fresh one has succeeded since
    breaks, reloads, fails

vars == <<auth, now, due, sv, when, notices, deaf, patch, stored, req, slot, con, list, told, shaky, breaks, reloads, fails>>

Versions  == 0..MaxEdits
None      == -1
NoPatch   == [v |-> None, age |-> 0]
Idle      == [pc |-> "idle", fresh |-> FALSE, plain |-> FALSE, v |-> 0, old |-> FALSE]
Loaders   == {"index", "live"}

TypeOK ==
    /\ auth \in BOOLEAN /\ now \in 0..MaxTime /\ due \in BOOLEAN /\ deaf \in BOOLEAN
    /\ sv \in Versions /\ when \in [Versions -> 0..MaxTime]
    /\ notices \in Seq([full: BOOLEAN, v: Versions])
    /\ patch \in [v: Versions \cup {None}, age: 0..PatchLife]
    /\ stored \in [v: Versions \cup {None}, age: 0..PatchLife]
    /\ req \in [Slots -> [pc: {"idle", "sent", "served"}, fresh: BOOLEAN, plain: BOOLEAN, v: Versions, old: BOOLEAN]]
    /\ slot \in Slots \cup {0}
    /\ con \in [Loaders -> [req: Slots \cup {0}, fresh: BOOLEAN, pend: Versions \cup {None}]]
    /\ list \in Versions \cup {None} /\ told \in Versions /\ shaky \in BOOLEAN /\ breaks \in 0..MaxBreaks /\ reloads \in 0..MaxReloads /\ fails \in 0..MaxFails
    /\ auth => patch = NoPatch /\ stored = NoPatch

-----------------------------------------------------------------------------
Free(rs) == {r \in Slots : rs[r].pc = "idle"}

\* applyClientPatch: the deltas kept win over what was loaded.
Overlay(v, p) == IF p.v = None THEN v ELSE p.v

\* fetchPublicBootstrap: which request the caller gets, r being a free slot, and what is left of the deltas.
Joins(fresh) == slot # 0 /\ (~fresh \/ req[slot].fresh)

\* Loaders ask for the list, all with one request; updates are the deltas each of them keeps.
Load(cs, fresh, updates) ==
    /\ IF Joins(fresh)
       THEN con' = [c \in Loaders |-> IF c \in cs THEN [req |-> slot, fresh |-> fresh, pend |-> updates[c]] ELSE con[c]]
            /\ UNCHANGED <<req, slot, patch>>
       ELSE \E r \in Free(req) :
            /\ req' = [req EXCEPT ![r] = [Idle EXCEPT !.pc = "sent", !.fresh = fresh]]
            /\ slot' = r
            /\ con' = [c \in Loaders |-> IF c \in cs THEN [req |-> r, fresh |-> fresh, pend |-> updates[c]] ELSE con[c]]
            /\ patch' = IF fresh THEN NoPatch ELSE patch

NoUpdates == [c \in Loaders |-> None]

Init ==
    /\ auth \in BOOLEAN /\ now = 0 /\ due = FALSE
    /\ sv = 0 /\ when = [v \in Versions |-> 0]
    /\ notices = <<>> /\ deaf = FALSE /\ patch = NoPatch /\ stored = NoPatch
    /\ \E r \in Slots :
        /\ req = [x \in Slots |-> IF x = r THEN [Idle EXCEPT !.pc = "sent"] ELSE Idle]
        /\ slot = r
        /\ con = [c \in Loaders |-> [req |-> r, fresh |-> FALSE, pend |-> None]]
    /\ list = None /\ told = 0 /\ shaky = FALSE /\ breaks = 0 /\ reloads = 0 /\ fails = 0

Aged(p) == IF p.v = None \/ p.age = PatchLife THEN NoPatch ELSE [p EXCEPT !.age = @ + 1]

Tick ==
    /\ now < MaxTime /\ ~due /\ \A r \in Slots : ~req[r].old
    /\ now' = now + 1 /\ due' = TRUE
    /\ patch' = Aged(patch) /\ stored' = Aged(stored)
    /\ req' = [r \in Slots |-> IF req[r].pc = "idle" THEN Idle ELSE [req[r] EXCEPT !.old = TRUE]]
    /\ UNCHANGED <<auth, sv, when, notices, deaf, slot, con, list, told, shaky, breaks, reloads, fails>>

\* sanitizePublicDataUpdate: a hidden row never travels; where it may be shown it is a reason to load everything,
\* for the others it is a removal.
Sanitize(detailed, hides) == [full |-> ~detailed \/ (hides /\ auth), v |-> sv + 1]

\* An edit: metadata_changed with the row for those who may see it, or without details.
Edit ==
    /\ sv < MaxEdits
    /\ sv' = sv + 1 /\ when' = [when EXCEPT ![sv + 1] = now]
    /\ \E detailed, hides \in BOOLEAN : notices' = IF deaf THEN notices ELSE Append(notices, Sanitize(detailed, hides))
    /\ UNCHANGED <<auth, now, due, deaf, patch, stored, req, slot, con, list, shaky, told, breaks, reloads, fails>>

\* refreshPublicClients, and the subscriber of the live data, with a delta: shown, kept, and noted for the load under way.
Delta(v) ==
    /\ list' = IF list = None THEN None ELSE v
    /\ con' = [c \in Loaders |-> IF con[c].req # 0 THEN [con[c] EXCEPT !.pend = v] ELSE con[c]]
    /\ patch' = IF auth THEN patch ELSE [v |-> v, age |-> 0]
    /\ stored' = IF auth \/ stored.v = None THEN stored ELSE [v |-> v, age |-> 0]
    /\ UNCHANGED <<req, slot, shaky>>

\* Mutant: a request under way is joined although what it reads may be from before the notice.
FullJoins ==
    /\ stored' = NoPatch
    /\ Load(Loaders, TRUE, NoUpdates)
    /\ UNCHANGED <<list, shaky>>

\* Without details, everything kept is dropped, and both loaders share one fresh request.
Full ==
    /\ stored' = NoPatch /\ patch' = NoPatch
    /\ \E r \in Free(req) :
        /\ req' = [req EXCEPT ![r] = [Idle EXCEPT !.pc = "sent", !.fresh = TRUE]]
        /\ slot' = r
        /\ con' = [c \in Loaders |-> [req |-> r, fresh |-> TRUE, pend |-> None]]
    /\ UNCHANGED <<list, shaky>>

Told ==
    /\ notices # <<>> /\ notices' = Tail(notices)
    /\ IF Head(notices).full THEN Full /\ told' = 0 ELSE Delta(Head(notices).v) /\ told' = Head(notices).v
    /\ UNCHANGED <<auth, now, due, sv, when, deaf, breaks, reloads, fails>>

\* The socket breaks: what it carried is lost.
Break ==
    /\ ~deaf /\ breaks < MaxBreaks /\ deaf' = TRUE /\ notices' = <<>> /\ breaks' = breaks + 1
    /\ UNCHANGED <<auth, now, due, sv, when, patch, stored, req, slot, con, list, told, shaky, reloads, fails>>

\* The next socket starts with a snapshot; its metadata_version differs, or nothing was missed.
Reconnect ==
    /\ deaf /\ deaf' = FALSE /\ notices' = <<[full |-> TRUE, v |-> sv]>>
    /\ UNCHANGED <<auth, now, due, sv, when, patch, stored, req, slot, con, list, shaky, told, breaks, reloads, fails>>

\* loadWhenVisible: every minute; deltas noted for a load under way go on to the new one.
Poll ==
    /\ due /\ due' = FALSE
    /\ Load({"index"}, FALSE, [c \in Loaders |-> con[c].pend])
    /\ UNCHANGED <<auth, now, sv, when, notices, deaf, stored, list, shaky, told, breaks, reloads, fails>>

\* The versions a request that is served now can find.
Servable(r) == {v \in 0..sv : v = sv \/ (~req[r].fresh /\ ~auth /\ when[v + 1] + CacheAge >= now)}

Serve(r) ==
    /\ req[r].pc = "sent"
    /\ \E v \in Servable(r) : req' = [req EXCEPT ![r].pc = "served", ![r].v = v]
    /\ UNCHANGED <<auth, now, due, sv, when, notices, deaf, patch, stored, slot, con, list, shaky, told, breaks, reloads, fails>>

\* What a loader makes of the answer: the deltas told since it asked come on top.
Replay(c, v) == IF con[c].pend = None THEN v ELSE con[c].pend

\* The answer: only the request others may join is stored; loaders that asked again since ignore theirs.
Arrive(r) ==
    /\ req[r].pc = "served"
    /\ LET v  == IF auth \/ req[r].plain THEN req[r].v ELSE Overlay(req[r].v, patch)
           cs == {c \in Loaders : con[c].req = r}
       IN  /\ stored' = IF auth \/ slot # r THEN stored ELSE [v |-> v, age |-> 0]
           /\ IF cs = {} THEN UNCHANGED <<list, shaky>> ELSE \E c \in cs : list' = Replay(c, v) /\ shaky' = (shaky /\ ~req[r].fresh)
           /\ con' = [c \in Loaders |-> IF c \in cs THEN [con[c] EXCEPT !.req = 0, !.pend = None] ELSE con[c]]
    /\ slot' = IF slot = r THEN 0 ELSE slot
    /\ req' = [req EXCEPT ![r] = Idle]
    /\ UNCHANGED <<auth, now, due, sv, when, notices, deaf, patch, told, breaks, reloads, fails>>

\* The request fails: the page asks again, without the caches passed by, or for the plain list of nodes.
Fail(r) ==
    /\ req[r].pc # "idle" /\ fails < MaxFails /\ fails' = fails + 1
    /\ shaky' = TRUE
    /\ slot' = IF slot = r /\ ~(con["index"].req = r /\ con["index"].fresh) THEN 0
               ELSE IF slot = r THEN r ELSE slot
    /\ LET live == IF con["live"].req = r THEN [con["live"] EXCEPT !.req = 0, !.pend = None] ELSE con["live"]
           ask  == con["index"].req = r /\ ~req[r].plain
       IN  /\ con' = [c \in Loaders |-> IF c = "live" THEN live
                                        ELSE IF ask THEN [con[c] EXCEPT !.fresh = FALSE]
                                        ELSE IF con[c].req = r THEN [con[c] EXCEPT !.req = 0, !.pend = None] ELSE con[c]]
           /\ req' = [req EXCEPT ![r] = IF ~ask THEN Idle
                                        ELSE [Idle EXCEPT !.pc = "sent", !.plain = ~con["index"].fresh]]
    /\ UNCHANGED <<auth, now, due, sv, when, notices, deaf, patch, stored, list, told, breaks, reloads>>

\* The page is loaded anew: it starts with what is stored, and with a socket whose snapshot can have
\* another metadata_version than what is stored.
Reload ==
    /\ reloads < MaxReloads /\ reloads' = reloads + 1
    /\ list' = stored.v
    /\ deaf' = FALSE /\ due' = FALSE
    /\ notices' \in {<<>>, <<[full |-> TRUE, v |-> sv]>>}
    /\ \E r \in Slots :
        /\ req' = [x \in Slots |-> IF x = r THEN [Idle EXCEPT !.pc = "sent"] ELSE Idle]
        /\ slot' = r
        /\ con' = [c \in Loaders |-> [req |-> r, fresh |-> FALSE, pend |-> None]]
    /\ shaky' = (shaky \/ \E x \in Slots : req[x].fresh)
    /\ UNCHANGED <<auth, now, sv, when, patch, stored, told, breaks, fails>>

Next ==
    \/ Tick \/ Edit \/ Told \/ Break \/ Reconnect \/ Poll \/ Reload
    \/ \E r \in Slots : Serve(r) \/ Arrive(r) \/ Fail(r)

Spec == Init /\ [][Next]_vars

-----------------------------------------------------------------------------
\* ToldStays: what the page was told is not undone: as long as no load fails, neither an answer that was on its
\* way before the edit, nor one from a cache, nor an older list from the browser's storage hides it again, until
\* a notice without details makes the browser drop the deltas it kept.
ToldStays == list # None /\ ~shaky => list >= told

\* PageIsRecent: with a working socket a page that is not loaded anew never shows for longer than two minutes and the age of the
\* caches what has been changed: no order of notices, joined requests and kept deltas leaves an older list behind.
PageIsRecent ==
    (list # None /\ list < sv /\ reloads = 0 /\ ~deaf /\ notices = <<>> /\ ~shaky /\ \A c \in Loaders : con[c].req = 0)
        => when[list + 1] + CacheAge + 2 >= now

=============================================================================
