--------------------------- MODULE MCPublicPages ----------------------------
(*****************************************************************************)
(* The public pages: the caches of the worker, what the browser keeps, the   *)
(* live page and the themes, each on a small instance.  A behaviour of this  *)
(* module is a behaviour of one of them: the others stay in their initial    *)
(* states, so that their state spaces add up and TLC checks them in one run. *)
(*****************************************************************************)
EXTENDS Integers

CONSTANT Nil   \* a model value: the absent value of every component

VARIABLES
    part,       \* the component that moves in this behaviour
    auth, patchesNow, due, patchesSv, when, notices, deaf, patch, stored, patchesReq, slot,
    con, list, told, shaky, breaks, reloads, fails,   \* PublicPatches
    scopeNow, scopeSv, at, scope, reads, sock, opened,   \* LiveScope
    themeRows, active, job, cards, fresh, editing, asked, cut,   \* Themes
    route, purging, sql, past, answer, cachesRows, edge, seen, history, hedge, editor,
    cachesReq, lower   \* PublicCaches

Patches == INSTANCE PublicPatches WITH
    Slots <- {1, 2}, PatchLife <- 2, CacheAge <- 1, MaxEdits <- 1, MaxTime <- 3, MaxBreaks <- 1,
    MaxReloads <- 1, MaxFails <- 1, now <- patchesNow, sv <- patchesSv, req <- patchesReq

Edits == INSTANCE PublicPatches WITH
    Slots <- {1}, PatchLife <- 3, CacheAge <- 1, MaxEdits <- 2, MaxTime <- 5, MaxBreaks <- 1,
    MaxReloads <- 0, MaxFails <- 0, now <- patchesNow, sv <- patchesSv, req <- patchesReq

Scope == INSTANCE LiveScope WITH
    Reads <- {1, 2}, MaxEvents <- 2, MaxTime <- 1, MaxScopes <- 2, MaxSockets <- 2,
    now <- scopeNow, sv <- scopeSv

Theme == INSTANCE Themes WITH
    Tabs <- {"t1"}, Customs <- {"c"}, MaxRequests <- 3, Faults <- TRUE, rows <- themeRows

Caches == INSTANCE PublicCaches WITH
    Isolates <- {"i1"}, OneCentre <- TRUE, Slots <- {"s1", "s2"}, MetaTtl <- 2, HistoryTtl <- 1,
    LiveTtl <- 1, AdminEdgeTtl <- 2, AdminMemoryTtl <- 1, SettingsTtl <- 1, AgentTtl <- 1,
    MaxEdits <- 1, rows <- cachesRows, req <- cachesReq

\* The values above are values that the components are made for.
ASSUME InstanceAssumption ==
    /\ Patches!PatchAssumption /\ Edits!PatchAssumption /\ Scope!ScopeAssumption
    /\ Theme!ThemesAssumption /\ Caches!CacheAssumption

-----------------------------------------------------------------------------
patchesVars == <<auth, patchesNow, due, patchesSv, when, notices, deaf, patch, stored,
                 patchesReq, slot, con, list, told, shaky, breaks, reloads, fails>>
scopeVars == <<scopeNow, scopeSv, at, scope, reads, sock, opened>>
themesVars == <<themeRows, active, job, cards, fresh, editing, asked, cut>>
cachesVars == <<route, purging, sql, past, answer, cachesRows, edge, seen, history, hedge,
                editor, cachesReq, lower>>

Parts == {"patches", "edits", "scope", "themes", "caches"}

\* Every component is in an initial state, all but one for good.
Init ==
    /\ part \in Parts
    /\ IF part = "edits" THEN Edits!Init ELSE Patches!Init
    /\ part # "patches" => (part # "edits" => ~auth /\ slot = 1)
    /\ Scope!Init
    /\ part # "scope" => ~scope.auth
    /\ Theme!Init
    /\ part # "themes" => active = "default" /\ themeRows["next"] = Theme!Absent
    /\ Caches!Init
    /\ part # "caches" => route = Caches!GetClients /\ purging

\* In a behaviour only one component moves.
InPatches == part = "patches" /\ UNCHANGED <<part, scopeVars, themesVars, cachesVars>>
InEdits == part = "edits" /\ UNCHANGED <<part, scopeVars, themesVars, cachesVars>>
InScope == part = "scope" /\ UNCHANGED <<part, patchesVars, themesVars, cachesVars>>
InTheme == part = "themes" /\ UNCHANGED <<part, patchesVars, scopeVars, cachesVars>>
InCaches == part = "caches" /\ UNCHANGED <<part, patchesVars, scopeVars, themesVars>>

Next ==
    \/ InPatches /\ Patches!Next
    \/ InEdits /\ Edits!Next
    \/ InScope /\ Scope!Next
    \/ InTheme /\ Theme!Next
    \/ InCaches /\ Caches!Next

vars == <<part, patchesVars, scopeVars, themesVars, cachesVars>>

Spec == Init /\ [][Next]_vars

-----------------------------------------------------------------------------
\* The component that moves keeps the types of its module.
TypesAreKept ==
    /\ part = "patches" => Patches!TypeOK
    /\ part = "edits" => Edits!TypeOK
    /\ part = "scope" => Scope!TypeOK
    /\ part = "caches" => Caches!TypeOK

\* What is shown is recent.  Caches of the worker: an answer is at most as old as the copies
\* it may come from, and an editor alone in a data centre sees the own edit.  The browser: a
\* page is not older than its polls and the caches, what it was told is not undone by an
\* answer that was on its way, and a page whose socket is quiet shows the last event.
ShownIsRecent ==
    /\ TypesAreKept
    /\ Caches!OwnEditsShow /\ Caches!AnswersAreRecent
    /\ Patches!PageIsRecent /\ Patches!ToldStays
    /\ Scope!PageSettles

\* Nothing private is shown: a hidden node goes dark in the history when the copies have run
\* out, no copy keeps an administrator's answer, and after a logout no response of the
\* administrator's reads reaches the page.
NothingPrivateIsShown ==
    Caches!HiddenGoesDark /\ Caches!NothingPrivateIsKept /\ Scope!NothingPrivateForGuests

\* Whatever uploads, deletions, activations and failing database calls overlap, the settings
\* of a theme fit the package they are stored with, the active theme exists, and a page that
\* has loaded shows what is there; and an upgrade keeps the settings that the new package
\* still declares.
ThemesFit ==
    /\ [](Theme!ConfigFits /\ Theme!ActiveExists /\ Theme!PageIsTrue)
    /\ Theme!UpgradeKeepsSettings
=============================================================================
