--------------------------- MODULE SettingsPages ---------------------------
(***************************************************************************)
(* The settings pages of the administration panel: the copies of a scope   *)
(* that the layout keeps for its pages, the forms of the site and general  *)
(* pages, and the handlers of /api/admin/settings and /api/admin/site-logo *)
(* with the copies that the Worker keeps for ten seconds.                  *)
(*                                                                         *)
(* A form sends the keys that differ from what it believes is stored, and  *)
(* the administrator goes on typing while a save is under way.  A value is *)
(* 1 or 2, both allowed, or Beyond, which is out of the range of its key.  *)
(* "keep" and "pingKeep" stand for record_preserve_time and                *)
(* ping_record_preserve_time, one input of the general page; "rounds" for  *)
(* a key the general page sends as it was typed; "name" for a field of the *)
(* site page.                                                              *)
(***************************************************************************)
EXTENDS Integers, FiniteSets, TLC

CONSTANTS
    Acts,         \* what the administrator does besides typing and saving
    MaxTyped,     \* bound: values typed
    MaxMoves,     \* bound: visits of a page, logo changes and restores
    MaxSaves,     \* bound: saves begun
    MaxFaults,    \* bound: requests that fail
    MaxElsewhere  \* bound: changes made by another administrator

ActsAssumption == Acts \subseteq {"enter", "logo", "restore"}

VARIABLES
    db,         \* the settings table
    copy,       \* adminSettingsScopeCache of the Worker
    gets,       \* reads of a scope whose answer has not been handled
    cache,      \* settingsCacheRef of the layout
    registered, \* settingsRequestsRef of the layout; 0: no request
    page,       \* the page on the screen
    writes,     \* changes whose answer has not been handled
    nextId,     \* numbers requests and visits of a page
    typed,      \* values typed
    moves,      \* visits, logo changes and restores
    elsewhere,  \* changes made by another administrator
    saves,      \* saves begun
    faults,     \* requests that failed
    restored,   \* a restore was confirmed to this page
    doubt       \* why a page may not know what is stored

vars == <<db, copy, gets, cache, registered, page, writes, nextId, typed, moves,
          elsewhere, saves, faults, restored, doubt>>

Beyond == 3
Good == {1, 2}
Scopes == {"site", "general"}
KeysOf(s) == IF s = "site" THEN {"name", "logo"} ELSE {"keep", "pingKeep", "rounds"}
AllKeys == KeysOf("site") \cup KeysOf("general")
NoCopy == <<>>
Held == [k \in {} |-> 1]

\* the stored settings of a scope, each within its range
Stored(s) == [k \in KeysOf(s) |-> db[k]]

(***************************************************************************)
(* The layout: one copy and one request for each scope.                    *)
(***************************************************************************)
SetSettingsScope(s, val) == [cache EXCEPT ![s] = val]

\* setSettingsScope with a function of the confirmed copy
Confirmed(s) == IF cache[s] = NoCopy THEN Held ELSE cache[s]

\* loadSettingsScope when there is no copy: join the request under way, or
\* begin one
Joins(reg, s) == reg[s] # 0
RequestFor(reg, s) == IF Joins(reg, s) THEN reg[s] ELSE nextId
GetsWith(reg, s) ==
    IF Joins(reg, s) THEN {} ELSE {[id |-> nextId, scope |-> s, at |-> "sent", val |-> Held]}

(***************************************************************************)
(* GET /api/admin/settings?scope=...                                       *)
(***************************************************************************)
\* a copy is answered with; otherwise the table is read
ServeGet(g) ==
    /\ g.at = "sent"
    /\ gets' = (gets \ {g}) \cup
          {IF copy[g.scope] # NoCopy THEN [g EXCEPT !.at = "answered", !.val = copy[g.scope]]
           ELSE [g EXCEPT !.at = "read", !.val = Stored(g.scope)]}
    /\ UNCHANGED <<db, copy, cache, registered, page, writes, nextId, typed, moves, elsewhere,
                   restored, doubt, saves, faults>>

\* what was read is kept, whatever was stored since
FillCopy(g) ==
    /\ g.at = "read"
    /\ copy' = [copy EXCEPT ![g.scope] = g.val]
    /\ gets' = (gets \ {g}) \cup {[g EXCEPT !.at = "answered"]}
    /\ UNCHANGED <<db, cache, registered, page, writes, nextId, typed, moves, elsewhere,
                   restored, doubt, saves, faults>>

\* ADMIN_SETTINGS_SCOPE_CACHE_MS pass
CopyExpires(s) ==
    /\ copy[s] # NoCopy
    /\ copy' = [copy EXCEPT ![s] = NoCopy]
    /\ UNCHANGED <<db, gets, cache, registered, page, writes, nextId, typed, moves, elsewhere,
                   restored, doubt, saves, faults>>

NoCopies == [s \in Scopes |-> NoCopy]

Doubted(cond, why) == IF cond THEN doubt \cup {why} ELSE doubt

(***************************************************************************)
(* The answer of a read, in the layout and in the page that waits for it.  *)
(***************************************************************************)
\* the layout keeps the answer of the request it still has on record
LayoutKeeps(g) == registered[g.scope] = g.id

PageGets(g) ==
    IF page.waits = g.id
      THEN [page EXCEPT !.state = "ready", !.waits = 0, !.draft = g.val, !.original = g.val,
                        !.typed = Held]
      ELSE page

\* after a restore the page confirms the scope once more by itself
GetArrives(g) ==
    /\ g.at = "answered"
    /\ gets' = gets \ {g}
    /\ cache' = IF LayoutKeeps(g) \/ (page.waits = g.id /\ page.state = "ready")
                  THEN SetSettingsScope(g.scope, g.val) ELSE cache
    /\ registered' = IF LayoutKeeps(g) THEN [registered EXCEPT ![g.scope] = 0] ELSE registered
    /\ page' = PageGets(g)
    /\ UNCHANGED <<db, copy, writes, nextId, typed, moves, elsewhere, restored, doubt, saves, faults>>

GetFails(g) ==
    /\ faults < MaxFaults
    /\ faults' = faults + 1
    /\ gets' = gets \ {g}
    /\ registered' = IF LayoutKeeps(g) THEN [registered EXCEPT ![g.scope] = 0] ELSE registered
    /\ page' = IF page.waits = g.id
                 THEN [page EXCEPT !.waits = 0, !.state = IF @ = "ready" THEN @ ELSE "failed"]
                 ELSE page
    /\ doubt' = Doubted(page.waits = g.id /\ page.state = "ready", "lost")
    /\ UNCHANGED <<db, copy, cache, writes, nextId, typed, moves, elsewhere, restored, saves>>

(***************************************************************************)
(* The pages.                                                              *)
(***************************************************************************)
\* a page is shown: from the copy of the layout, or when the request ends
Enter(s) ==
    /\ page' = [visit |-> nextId, scope |-> s, saving |-> FALSE, typed |-> Held,
                state |-> IF cache[s] = NoCopy THEN "loading" ELSE "ready",
                waits |-> IF cache[s] = NoCopy THEN RequestFor(registered, s) ELSE 0,
                draft |-> Confirmed(s), original |-> Confirmed(s),
                sure |-> \A w \in writes : w.scope # s]
    /\ gets' = IF cache[s] = NoCopy THEN gets \cup GetsWith(registered, s) ELSE gets
    /\ registered' = IF cache[s] = NoCopy
                       THEN [registered EXCEPT ![s] = RequestFor(registered, s)] ELSE registered
    /\ nextId' = nextId + 1

\* the other tab of the layout; the general page confirms all of its form
\* when a save ends that was left behind
Leave ==
    /\ "enter" \in Acts
    /\ moves < MaxMoves
    /\ moves' = moves + 1
    /\ \E s \in Scopes \ {page.scope} : Enter(s)
    /\ doubt' = Doubted(\E w \in writes : w.kind = "save" /\ w.scope = "general", "left")
    /\ UNCHANGED <<db, copy, cache, writes, typed, elsewhere, restored, saves, faults>>

Retry ==
    /\ page.state = "failed"
    /\ moves < MaxMoves
    /\ moves' = moves + 1
    /\ Enter(page.scope)
    /\ UNCHANGED <<db, copy, cache, writes, typed, elsewhere, restored, doubt, saves, faults>>

\* one input of the general page is two keys
Typing(s) == IF s = "site" THEN {{"name"}} ELSE {{"keep", "pingKeep"}, {"rounds"}}

\* updateSetting, updateRetentionHours
Type ==
    /\ page.state = "ready"
    /\ typed < MaxTyped
    /\ typed' = typed + 1
    /\ \E ks \in Typing(page.scope), v \in Good \cup {Beyond} :
         LET entered == [k \in ks |-> v]
         IN  page' = [page EXCEPT !.draft = entered @@ @, !.typed = entered @@ @]
    /\ UNCHANGED <<db, copy, gets, cache, registered, writes, nextId, moves, elsewhere,
                   restored, doubt, saves, faults>>

\* clampInteger
Clamped(v) == IF v = Beyond THEN 2 ELSE v

\* what the general page saves: both retention times are the one of its
\* input, within its range
Payload(p) ==
    IF p.scope = "site" THEN p.draft
    ELSE LET hours == Clamped(p.draft["keep"])
         IN  [p.draft EXCEPT !["keep"] = hours, !["pingKeep"] = hours]

ChangedSettings(current, original) ==
    LET ks == {k \in DOMAIN current : k \notin DOMAIN original \/ current[k] # original[k]}
    IN  [k \in ks |-> current[k]]

CanSave == page.state = "ready" /\ ~page.saving

\* a restore is under way or its settings are being read
Unsettled == page.waits # 0 \/ (\E w \in writes : w.kind = "restore")

Sends(kind, body, payload) ==
    writes' = writes \cup
        {[id |-> nextId, visit |-> page.visit, kind |-> kind, scope |-> page.scope, at |-> "sent",
          body |-> body, diff |-> body, payload |-> payload, submitted |-> page.draft,
          meant |-> DOMAIN page.typed]}

HandleSave ==
    /\ CanSave
    /\ saves < MaxSaves
    /\ saves' = saves + 1
    /\ LET payload == Payload(page)
           changed == ChangedSettings(payload, page.original)
       IN  /\ DOMAIN changed # {}
           /\ Sends("save", changed, payload)
    /\ page' = [page EXCEPT !.saving = TRUE]
    /\ nextId' = nextId + 1
    /\ doubt' = Doubted(Unsettled, "mixed") \cup
                Doubted(\E w \in writes : w.kind = "save" /\ w.scope = page.scope, "left")
    /\ UNCHANGED <<db, copy, gets, cache, registered, typed, moves, elsewhere, restored, faults>>

\* handleUploadLogo, handleResetLogo
HandleLogo(v) ==
    /\ "logo" \in Acts
    /\ page.scope = "site" /\ page.state = "ready"
    /\ ~ \E w \in writes : w.kind = "logo" /\ w.visit = page.visit
    /\ moves < MaxMoves
    /\ moves' = moves + 1
    /\ Sends("logo", [k \in {"logo"} |-> v], Held)
    /\ nextId' = nextId + 1
    /\ doubt' = Doubted(Unsettled, "mixed")
    /\ UNCHANGED <<db, copy, gets, cache, registered, page, typed, elsewhere, restored, saves, faults>>

\* handleUploadBackup, once the passwords are given and the current settings
\* are downloaded
HandleUploadBackup(v) ==
    /\ "restore" \in Acts
    /\ page.scope = "site" /\ page.state = "ready"
    /\ moves < MaxMoves
    /\ moves' = moves + 1
    /\ Sends("restore", [k \in AllKeys |-> v], Held)
    /\ nextId' = nextId + 1
    /\ doubt' = Doubted(writes # {} \/ page.waits # 0, "mixed")
    /\ UNCHANGED <<db, copy, gets, cache, registered, page, typed, elsewhere, restored, saves, faults>>

(***************************************************************************)
(* The handlers of the Worker.                                             *)
(***************************************************************************)

\* sanitizeSettingsForStorage: one value out of range rejects them all
Sanitized(body) == \A k \in DOMAIN body : body[k] \in Good

\* POST /settings compares with the table, and then stores what differs
SettingsHandlerReads(w) ==
    /\ w.kind = "save" /\ w.at = "sent"
    /\ writes' = (writes \ {w}) \cup
          {IF Sanitized(w.body)
             THEN [w EXCEPT !.at = "read", !.diff = ChangedSettings(w.body, db)]
             ELSE [w EXCEPT !.at = "refused"]}
    /\ UNCHANGED <<db, copy, gets, cache, registered, page, nextId, typed, moves, elsewhere,
                   restored, doubt, saves, faults>>

\* setSettings and the copies dropped with it; nothing is written, and no
\* copy dropped, when nothing differs
SettingsHandlerStores(w) ==
    /\ w.kind = "save" /\ w.at = "read"
    /\ db' = w.diff @@ db
    /\ copy' = IF DOMAIN w.diff = {} THEN copy ELSE NoCopies
    /\ writes' = (writes \ {w}) \cup {[w EXCEPT !.at = "done"]}
    /\ UNCHANGED <<gets, cache, registered, page, nextId, typed, moves, elsewhere, restored, doubt, saves, faults>>

\* POST /site-logo and /site-logo/reset
LogoHandler(w) ==
    /\ w.kind = "logo" /\ w.at = "sent"
    /\ db' = w.body @@ db
    /\ copy' = NoCopies
    /\ writes' = (writes \ {w}) \cup {[w EXCEPT !.at = "done"]}
    /\ UNCHANGED <<gets, cache, registered, page, nextId, typed, moves, elsewhere, restored, doubt, saves, faults>>

\* POST /upload/backup: the copies of the settings are not among the ones it drops
RestoreHandler(w) ==
    /\ w.kind = "restore" /\ w.at = "sent"
    /\ db' = w.body
    /\ writes' = (writes \ {w}) \cup {[w EXCEPT !.at = "done"]}
    /\ UNCHANGED <<copy, gets, cache, registered, page, nextId, typed, moves, elsewhere,
                   restored, doubt, saves, faults>>

(***************************************************************************)
(* The answer of a change.                                                 *)
(***************************************************************************)
Mine(w) == page.visit = w.visit

\* mergeConfirmedSettingsDraft: what was typed since the save stays
Merged(current, submitted, confirmed) ==
    [k \in DOMAIN confirmed |->
        IF current[k] = submitted[k] THEN confirmed[k] ELSE current[k]]

\* what was typed and is not confirmed
StillTyped(p, w) ==
    LET ks == {k \in DOMAIN p.typed : k \notin DOMAIN w.submitted \/ p.typed[k] # w.submitted[k]}
    IN  [k \in ks |-> p.typed[k]]

\* the site page confirms the keys it sent and leaves its form alone
SiteSaved(w) ==
    /\ w.kind = "save" /\ w.scope = "site"
    /\ cache' = SetSettingsScope("site", w.body @@ Confirmed("site"))
    /\ page' = IF Mine(w)
                 THEN [page EXCEPT !.saving = FALSE, !.original = w.body @@ @,
                                   !.typed = StillTyped(page, w)]
                 ELSE page
    /\ UNCHANGED <<gets, registered, nextId, restored>>

\* the general page confirms all that it would have saved
GeneralSaved(w) ==
    /\ w.kind = "save" /\ w.scope = "general"
    /\ cache' = SetSettingsScope("general", w.payload)
    /\ page' = IF Mine(w)
                 THEN [page EXCEPT !.saving = FALSE, !.original = w.payload,
                                   !.draft = Merged(page.draft, w.submitted, w.payload),
                                   !.typed = StillTyped(page, w)]
                 ELSE page
    /\ UNCHANGED <<gets, registered, nextId, restored>>

LogoSaved(w) ==
    /\ w.kind = "logo"
    /\ cache' = SetSettingsScope("site", w.body @@ Confirmed("site"))
    /\ page' = IF Mine(w) THEN [page EXCEPT !.draft = w.body @@ @, !.original = w.body @@ @] ELSE page
    /\ UNCHANGED <<gets, registered, nextId, restored>>

\* invalidateSettingsScopes, and the site scope is loaded again
RestoreDone(w) ==
    /\ w.kind = "restore"
    /\ cache' = NoCopies
    /\ registered' = [s \in Scopes |-> IF s = "site" THEN nextId ELSE 0]
    /\ gets' = gets \cup {[id |-> nextId, scope |-> "site", at |-> "sent", val |-> Held]}
    /\ page' = IF Mine(w) THEN [page EXCEPT !.waits = nextId] ELSE page
    /\ nextId' = nextId + 1
    /\ restored' = TRUE

AnswerArrives(w) ==
    /\ w.at = "done"
    /\ writes' = writes \ {w}
    /\ SiteSaved(w) \/ GeneralSaved(w) \/ LogoSaved(w) \/ RestoreDone(w)
    /\ doubt' = Doubted(w.kind = "restore" /\ ~Mine(w), "mixed")
    /\ UNCHANGED <<db, copy, typed, moves, elsewhere, saves, faults>>

\* refused, failed, or the answer lost: the form stays as it is
AnswerFails(w) ==
    /\ w.at = "refused" \/ faults < MaxFaults
    /\ faults' = IF w.at = "refused" THEN faults ELSE faults + 1
    /\ writes' = writes \ {w}
    /\ page' = IF Mine(w) /\ w.kind = "save" THEN [page EXCEPT !.saving = FALSE] ELSE page
    /\ doubt' = Doubted(w.at = "done", "lost")
    /\ UNCHANGED <<db, copy, gets, cache, registered, nextId, typed, moves, elsewhere, restored, saves>>

\* another administrator saves one key; this Worker instance may not have
\* been the one to handle it
Elsewhere ==
    /\ elsewhere < MaxElsewhere
    /\ elsewhere' = elsewhere + 1
    /\ \E k \in AllKeys, v \in Good : db[k] # v /\ db' = [db EXCEPT ![k] = v]
    /\ copy' \in {copy, NoCopies}
    /\ UNCHANGED <<gets, cache, registered, page, writes, nextId, typed, moves, restored, doubt, saves, faults>>

\* the layout asks for both scopes when it is shown
Init ==
    /\ db = [k \in AllKeys |-> 1]
    /\ copy = NoCopies /\ cache = NoCopies
    /\ gets = {[id |-> IF s = "site" THEN 1 ELSE 2, scope |-> s, at |-> "sent", val |-> Held] : s \in Scopes}
    /\ registered = [s \in Scopes |-> IF s = "site" THEN 1 ELSE 2]
    /\ \E s \in Scopes :
         page = [visit |-> 3, scope |-> s, saving |-> FALSE, typed |-> Held, state |-> "loading",
                 waits |-> IF s = "site" THEN 1 ELSE 2, draft |-> Held, original |-> Held,
                 sure |-> TRUE]
    /\ writes = {} /\ nextId = 4
    /\ typed = 0 /\ moves = 0 /\ elsewhere = 0 /\ saves = 0 /\ faults = 0
    /\ restored = FALSE /\ doubt = {}

Next ==
    \/ \E g \in gets : ServeGet(g) \/ FillCopy(g) \/ GetArrives(g) \/ GetFails(g)
    \/ \E s \in Scopes : CopyExpires(s)
    \/ Leave \/ Retry \/ Type \/ HandleSave
    \/ \E v \in Good : HandleLogo(v) \/ HandleUploadBackup(v)
    \/ \E w \in writes : \/ SettingsHandlerReads(w) \/ SettingsHandlerStores(w) \/ LogoHandler(w)
                         \/ RestoreHandler(w) \/ AnswerArrives(w) \/ AnswerFails(w)
    \/ Elsewhere

Spec == Init /\ [][Next]_vars

(***************************************************************************)
(* Properties.                                                             *)
(***************************************************************************)
Partial(s) == UNION {[ks -> Good \cup {Beyond}] : ks \in SUBSET KeysOf(s)}

\* every variable holds what its declaration says
TypeOK ==
    /\ db \in [AllKeys -> Good]
    /\ \A s \in Scopes : copy[s] = NoCopy \/ copy[s] \in [KeysOf(s) -> Good]
    /\ \A s \in Scopes : cache[s] = NoCopy \/ cache[s] \in Partial(s)
    /\ \A g \in gets : g.scope \in Scopes /\ g.at \in {"sent", "read", "answered"}
    /\ page.state \in {"loading", "failed", "ready"}
    /\ page.draft \in Partial(page.scope) /\ page.original \in Partial(page.scope)
    /\ \A w \in writes : w.at \in {"sent", "read", "refused", "done"}

\* What the administrator typed stays in the form until a save that sent it is
\* confirmed: an answer that arrives while one goes on typing takes nothing
\* back (mergeConfirmedSettingsDraft, and the site page leaving its form alone).
TypedStays ==
    \A k \in DOMAIN page.typed : page.draft[k] = page.typed[k]

Quiet == writes = {} /\ gets = {}

\* When nothing is under way, and no other administrator and no lost answer is
\* involved, what a form compares with and what the layout gives to the next
\* page is what the table holds: a value typed back to the old one is sent
\* again, and a logo confirmed during a slow save is not rolled back.
ConfirmedIsStored ==
    (Quiet /\ doubt = {} /\ elsewhere = 0 /\ ~restored) =>
        /\ \A s \in Scopes : cache[s] # NoCopy => cache[s] = Stored(s)
        /\ (page.state = "ready" /\ page.sure) => page.original = Stored(page.scope)

\* A save writes only what its form was asked to change: a key that another
\* administrator set meanwhile stays as set.  The two retention times are one
\* input and are made equal by every save of the general page; a save that
\* overlaps a restore is excepted.
OnlyWhatWasTyped ==
    [][\A w \in writes :
         ("mixed" \notin doubt /\ SettingsHandlerStores(w)) =>
            \A k \in AllKeys \ (w.meant \cup {"keep", "pingKeep"}) : db'[k] = db[k]]_vars

=============================================================================
