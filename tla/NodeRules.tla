------------------------------ MODULE NodeRules ------------------------------
(***************************************************************************)
(* The offline and the expiry tab of the notification page: one rule per   *)
(* node (on or off, and a grace period or a number of days), edited by a   *)
(* switch, by a dialog, or by a dialog for the selected nodes.  Every edit *)
(* is followed by a read of its tab; reads have no number, so an older one *)
(* can end after a newer one.                                              *)
(***************************************************************************)
EXTENDS Integers, FiniteSets, Functions, TLC

CONSTANTS
    Tabs,       \* the tabs in use: "offline", "expiry"
    Nodes,
    Values,     \* what a number field can hold
    Valid,      \* what validate...NotificationInput accepts
    Default,    \* DEFAULT_GRACE_PERIOD_SEC, DEFAULT_EXPIRY_ADVANCE_DAYS
    MaxEdits,   \* bound: edits begun
    MaxOpens,   \* bound: dialogs opened
    MaxLoads,   \* bound: reads of a tab
    MaxLost,    \* bound: failed requests
    MaxDeletes  \* bound: nodes deleted elsewhere

ValuesAssumption == Default \in Valid /\ Valid \subseteq Values

VARIABLES
    nodes,    \* the clients table
    stored,   \* the rules in the database, by tab
    shown,    \* offlineNotifications, expiryNotifications
    flags,    \* loadedTabs, tabErrors, tabLoading
    tab,      \* activeTab
    clients,  \* ensureClientsLoaded: "none", "asked", "have"
    listed,   \* clientsRef: the nodes the page lists
    selected, \* selectedClients
    dialog,   \* the open dialog, its session and its form
    loads,    \* reads under way
    writes,   \* actions of useAdminAction under way
    ended,    \* ghost: the newest read that has ended, by tab
    doubt,    \* ghost: shown may differ until a newer read has ended, by tab
    count

vars == <<nodes, stored, shown, flags, tab, clients, listed, selected, dialog,
          loads, writes, ended, doubt, count>>

Rule(on, val) == [on |-> on, val |-> val]
Unset == Rule(FALSE, Default)
Of(rules, n) == IF n \in DOMAIN rules THEN rules[n] ELSE Unset
Closed == [kind |-> "none", tab |-> tab, node |-> CHOOSE n \in Nodes : TRUE, form |-> Unset, session |-> 0]
CanEdit(t) == flags[t].loaded /\ ~flags[t].error /\ ~flags[t].loading

(***************************************************************************)
(* Reading a tab.                                                          *)
(***************************************************************************)
\* a read asks for the rules and, unless the page has them, for the nodes
LoadOf(t, id, by) ==
    [id |-> id, tab |-> t, at |-> "sent", val |-> <<>>, fresh |-> TRUE, by |-> by,
     cl |-> IF clients = "have" THEN "ok" ELSE "wait"]

EnsureClientsLoaded == clients' = IF clients = "none" THEN "asked" ELSE clients

NoWrite == [tab |-> "none", kind |-> "none", node |-> "none"]
KeyOf(w) == [tab |-> w.tab, kind |-> w.kind, node |-> w.node]

\* loadOfflineTab and loadExpiryTab are the same but for the path: the start
Begin(t, by, rest) ==
    /\ count.loads < MaxLoads
    /\ loads' = rest \cup {LoadOf(t, count.loads, by)}
    /\ EnsureClientsLoaded
    /\ flags' = [flags EXCEPT ![t].loading = TRUE]

ServeLoad(l) ==
    /\ l.at = "sent"
    /\ loads' = (loads \ {l}) \cup {[l EXCEPT !.at = "answered", !.val = stored[l.tab], !.fresh = TRUE]}
    /\ UNCHANGED <<nodes, stored, shown, flags, tab, clients, listed, selected, dialog, writes, ended, doubt, count>>

LoseLoad(l) ==
    /\ l.at = "sent"
    /\ count.lost < MaxLost
    /\ count' = [count EXCEPT !.lost = @ + 1]
    /\ loads' = (loads \ {l}) \cup {[l EXCEPT !.at = "failed"]}
    /\ UNCHANGED <<nodes, stored, shown, flags, tab, clients, listed, selected, dialog, writes, ended, doubt>>

WaitersTold(how) == {IF l.cl = "wait" THEN [l EXCEPT !.cl = how] ELSE l : l \in loads}

ClientsArrive ==
    /\ clients = "asked"
    /\ clients' = "have" /\ listed' = nodes
    /\ loads' = WaitersTold("ok")
    /\ UNCHANGED <<nodes, stored, shown, flags, tab, selected, dialog, writes, ended, doubt, count>>

ClientsFail ==
    /\ clients = "asked"
    /\ count.lost < MaxLost
    /\ count' = [count EXCEPT !.lost = @ + 1]
    /\ clients' = "none"
    /\ loads' = WaitersTold("fail")
    /\ UNCHANGED <<nodes, stored, shown, flags, tab, listed, selected, dialog, writes, ended, doubt>>

Told(l, ok) ==
    [flags EXCEPT ![l.tab] = [loaded |-> @.loaded \/ ok, error |-> ~ok, loading |-> FALSE]]

\* The end, when both requests have ended.  A tab that becomes loaded lets the effect run
\* again: an active tab that is not loaded yet is read once more.
EndLoad(l) ==
    LET ok == l.at = "answered" /\ l.cl = "ok"
        again == ok /\ ~flags[l.tab].loaded /\ l.tab # tab /\ ~flags[tab].loaded
        told == Told(l, ok)
    IN  /\ l.at # "sent" /\ l.cl # "wait"
        /\ again => count.loads < MaxLoads
        /\ shown' = IF l.at = "answered" THEN [shown EXCEPT ![l.tab] = l.val] ELSE shown
        /\ flags' = IF again THEN [told EXCEPT ![tab].loading = TRUE] ELSE told
        /\ loads' = (loads \ {l}) \cup (IF again THEN {LoadOf(tab, count.loads, NoWrite)} ELSE {})
        /\ clients' = IF again /\ clients = "none" THEN "asked" ELSE clients
        /\ count' = IF again THEN [count EXCEPT !.loads = @ + 1] ELSE count
        /\ writes' = {w \in writes : KeyOf(w) # l.by}
        /\ ended' = IF l.id > ended[l.tab] THEN [ended EXCEPT ![l.tab] = l.id] ELSE ended
        /\ doubt' = IF l.at # "answered" THEN doubt
                    ELSE [doubt EXCEPT ![l.tab] = l.id < ended[l.tab] \/ ~l.fresh]
        /\ UNCHANGED <<nodes, stored, tab, listed, selected, dialog>>

\* handleTabChange, and the effect that reads a tab not loaded yet
ShowTab(t) ==
    /\ dialog.kind = "none"
    /\ tab' = t /\ selected' = {}
    /\ IF flags[t].loaded THEN UNCHANGED <<loads, clients, flags, count>>
       ELSE Begin(t, NoWrite, loads) /\ count' = [count EXCEPT !.loads = @ + 1]
    /\ UNCHANGED <<nodes, stored, shown, listed, dialog, writes, ended, doubt>>

Retry(t) ==
    /\ t = tab /\ dialog.kind = "none"
    /\ flags[t].error /\ ~flags[t].loading
    /\ Begin(t, NoWrite, loads)
    /\ count' = [count EXCEPT !.loads = @ + 1]
    /\ UNCHANGED <<nodes, stored, shown, tab, listed, selected, dialog, writes, ended, doubt>>

(***************************************************************************)
(* Editing.  useAdminAction lets an action run once at a time.             *)
(***************************************************************************)
Free(key) == \A w \in writes : KeyOf(w) # key

Send(key, items) ==
    /\ CanEdit(key.tab) /\ Free(key)
    /\ count.edits < MaxEdits
    /\ count' = [count EXCEPT !.edits = @ + 1]
    /\ writes' = writes \cup {[tab |-> key.tab, kind |-> key.kind, node |-> key.node,
                               items |-> items, session |-> dialog.session, at |-> "sent"]}
    /\ UNCHANGED <<nodes, stored, shown, flags, tab, clients, listed, selected, dialog, loads, ended, doubt>>

\* the rows of a tab are on the screen when it is not loading
OfflineTable(n) == tab = "offline" /\ ~flags[tab].loading /\ n \in listed
ExpiryTable(n) == tab = "expiry" /\ ~flags[tab].loading /\ n \in listed
Row(n) == dialog.kind = "none" /\ (OfflineTable(n) \/ ExpiryTable(n))

Toggle(t, n) ==
    LET old == Of(shown[t], n)
    IN  /\ t = tab /\ Row(n)
        /\ Send([tab |-> t, kind |-> "toggle", node |-> n], (n :> Rule(~old.on, old.val)))

ToggleOffline(n) == "offline" \in Tabs /\ Toggle("offline", n)
ToggleExpiry(n) == "expiry" \in Tabs /\ Toggle("expiry", n)

Select(n) ==
    /\ Row(n)
    /\ selected' = IF n \in selected THEN selected \ {n} ELSE selected \cup {n}
    /\ UNCHANGED <<nodes, stored, shown, flags, tab, clients, listed, dialog, loads, writes, ended, doubt, count>>

ToggleSelectAll ==
    /\ dialog.kind = "none" /\ ~flags[tab].loading /\ listed # {}
    /\ selected' = IF Cardinality(selected) = Cardinality(listed) THEN {} ELSE listed
    /\ UNCHANGED <<nodes, stored, shown, flags, tab, clients, listed, dialog, loads, writes, ended, doubt, count>>

\* the value most of the selected nodes have, the smallest of several
SummarizeSelectionValue(t, sel) ==
    LET times(v) == Cardinality({n \in sel : Of(shown[t], n).val = v})
        used == {Of(shown[t], n).val : n \in sel}
        most == {v \in used : \A u \in used : times(u) <= times(v)}
    IN  CHOOSE v \in most : \A u \in most : v <= u

Open(t, kind, node, form) ==
    /\ t = tab /\ dialog.kind = "none" /\ CanEdit(t)
    /\ count.opens < MaxOpens
    /\ count' = [count EXCEPT !.opens = @ + 1]
    /\ dialog' = [kind |-> kind, tab |-> t, node |-> node, form |-> form, session |-> count.opens + 1]
    /\ UNCHANGED <<nodes, stored, shown, flags, tab, clients, listed, selected, loads, writes, ended, doubt>>

OpenEdit(t, n) == Row(n) /\ Open(t, "edit", n, Of(shown[t], n))
OpenEditDialog(n) == "offline" \in Tabs /\ OpenEdit("offline", n)
OpenExpiryEditDialog(n) == "expiry" \in Tabs /\ OpenEdit("expiry", n)

OpenBatch(t) ==
    /\ selected # {}
    /\ Open(t, "batch", CHOOSE n \in Nodes : TRUE, Rule(TRUE, SummarizeSelectionValue(t, selected)))
OpenBatchDialog == "offline" \in Tabs /\ OpenBatch("offline")
OpenExpiryBatchDialog == "expiry" \in Tabs /\ OpenBatch("expiry")

\* the four dialogs: a switch, a number, cancel and save
Shows(t, kind) == dialog.tab = t /\ dialog.kind = kind
EditDialog == Shows("offline", "edit")
BatchDialog == Shows("offline", "batch")
ExpiryEditDialog == Shows("expiry", "edit")
ExpiryBatchDialog == Shows("expiry", "batch")
AnyDialog == EditDialog \/ BatchDialog \/ ExpiryEditDialog \/ ExpiryBatchDialog

Fill(r) ==
    /\ AnyDialog
    /\ dialog.form # r
    /\ dialog' = [dialog EXCEPT !.form = r]
    /\ UNCHANGED <<nodes, stored, shown, flags, tab, clients, listed, selected, loads, writes, ended, doubt, count>>

Cancel ==
    /\ AnyDialog
    /\ dialog' = Closed
    /\ UNCHANGED <<nodes, stored, shown, flags, tab, clients, listed, selected, loads, writes, ended, doubt, count>>

\* one action key for each kind of dialog, whatever the node
DialogKey(t, kind) == [tab |-> t, kind |-> kind, node |-> "none"]

SaveEdit(t) ==
    /\ Shows(t, "edit")
    /\ Send(DialogKey(t, "edit"), (dialog.node :> dialog.form))
SaveSingleEdit == "offline" \in Tabs /\ SaveEdit("offline")
SaveExpirySingleEdit == "expiry" \in Tabs /\ SaveEdit("expiry")

SaveBatch(t) ==
    /\ Shows(t, "batch")
    /\ Send(DialogKey(t, "batch"), [n \in selected |-> dialog.form])
SaveBatchEdit == "offline" \in Tabs /\ SaveBatch("offline")
SaveExpiryBatchEdit == "expiry" \in Tabs /\ SaveBatch("expiry")

(***************************************************************************)
(* POST /notification/offline/edit and /notification/expiry/edit: one item *)
(* that is not valid refuses them all.                                     *)
(***************************************************************************)

ValidateOfflineNotificationInput(n, r) == n \in nodes /\ r.val \in Valid
ValidateExpiryNotificationInput(n, r) == n \in nodes /\ r.val \in Valid
ValidateIn(t, n, r) ==
    IF t = "offline" THEN ValidateOfflineNotificationInput(n, r) ELSE ValidateExpiryNotificationInput(n, r)

\* mutant: the items that are valid are stored
StoresTheRest(w) == [n \in {m \in DOMAIN w.items : ValidateIn(w.tab, m, w.items[m])} |-> w.items[n]]

AcceptedItems(w) ==
    IF \A n \in DOMAIN w.items : ValidateIn(w.tab, n, w.items[n]) THEN w.items ELSE <<>>

Refused(w) == \E n \in DOMAIN w.items : ~ValidateIn(w.tab, n, w.items[n])

ServeEdit(w) ==
    /\ w.at = "sent"
    /\ stored' = [stored EXCEPT ![w.tab] = AcceptedItems(w) @@ @]
    /\ writes' = (writes \ {w}) \cup {[w EXCEPT !.at = IF Refused(w) THEN "refused" ELSE "stored"]}
    /\ UNCHANGED <<nodes, shown, flags, tab, clients, listed, selected, dialog, loads, ended, doubt, count>>
OfflineEditHandler(w) == w.tab = "offline" /\ ServeEdit(w)
ExpiryEditHandler(w) == w.tab = "expiry" /\ ServeEdit(w)

IsCurrent(w) == w.kind # "toggle" /\ w.session = dialog.session /\ dialog.kind # "none"

\* the selection belongs to the session that was saved
ClearSelection(w) == selected' = IF w.kind = "batch" /\ IsCurrent(w) THEN {} ELSE selected

\* the action lasts until the read behind it has ended
Saved(w) ==
    /\ w.at = "stored"
    /\ Begin(w.tab, KeyOf(w), loads)
    /\ count' = [count EXCEPT !.loads = @ + 1]
    /\ writes' = (writes \ {w}) \cup {[w EXCEPT !.at = "reading"]}
    /\ dialog' = IF IsCurrent(w) THEN Closed ELSE dialog
    /\ ClearSelection(w)
    /\ UNCHANGED <<nodes, stored, shown, tab, listed, ended, doubt>>

NotSaved(w) ==
    /\ w.at = "refused"
    /\ writes' = writes \ {w}
    /\ UNCHANGED <<nodes, stored, shown, flags, tab, clients, listed, selected, dialog, loads, ended, doubt, count>>

Stale(t) == {IF l.tab = t THEN [l EXCEPT !.fresh = FALSE] ELSE l : l \in loads}

\* the request or its answer is lost: nothing is read again
LoseEdit(w) ==
    /\ w.at \in {"sent", "stored"}
    /\ count.lost < MaxLost
    /\ count' = [count EXCEPT !.lost = @ + 1]
    /\ writes' = writes \ {w}
    /\ doubt' = IF w.at = "stored" THEN [doubt EXCEPT ![w.tab] = TRUE] ELSE doubt
    /\ loads' = IF w.at = "stored" THEN Stale(w.tab) ELSE loads
    /\ UNCHANGED <<nodes, stored, shown, flags, tab, clients, listed, selected, dialog, ended>>

\* a node is deleted in another tab, its rules with it
DeleteNode(n) ==
    /\ n \in nodes
    /\ count.deletes < MaxDeletes
    /\ count' = [count EXCEPT !.deletes = @ + 1]
    /\ nodes' = nodes \ {n}
    /\ stored' = [t \in Tabs |-> Restrict(stored[t], DOMAIN stored[t] \ {n})]
    /\ doubt' = [t \in Tabs |-> TRUE]
    /\ loads' = {[l EXCEPT !.fresh = FALSE] : l \in loads}
    /\ UNCHANGED <<shown, flags, tab, clients, listed, selected, dialog, writes, ended>>

Init ==
    /\ nodes = Nodes /\ listed = {} /\ selected = {}
    /\ stored = [t \in Tabs |-> <<>>] /\ shown = [t \in Tabs |-> <<>>]
    /\ tab \in Tabs
    /\ flags = [t \in Tabs |-> [loaded |-> FALSE, error |-> FALSE, loading |-> t = tab]]
    /\ clients = "asked"
    /\ loads = {[id |-> 0, tab |-> tab, at |-> "sent", val |-> <<>>, fresh |-> TRUE, by |-> NoWrite, cl |-> "wait"]}
    /\ writes = {} /\ dialog = Closed
    /\ ended = [t \in Tabs |-> 0] /\ doubt = [t \in Tabs |-> FALSE]
    /\ count = [edits |-> 0, opens |-> 0, loads |-> 1, lost |-> 0, deletes |-> 0]

Answers ==
    \/ \E l \in loads : ServeLoad(l) \/ EndLoad(l)
    \/ ClientsArrive
    \/ \E w \in writes : OfflineEditHandler(w) \/ ExpiryEditHandler(w) \/ Saved(w) \/ NotSaved(w)

User ==
    \/ \E t \in Tabs : ShowTab(t) \/ Retry(t)
    \/ \E n \in Nodes : \/ ToggleOffline(n) \/ ToggleExpiry(n) \/ Select(n)
                        \/ OpenEditDialog(n) \/ OpenExpiryEditDialog(n)
    \/ ToggleSelectAll
    \/ OpenBatchDialog \/ OpenExpiryBatchDialog
    \/ \E on \in BOOLEAN, v \in Values : Fill(Rule(on, v))
    \/ Cancel
    \/ SaveSingleEdit \/ SaveExpirySingleEdit \/ SaveBatchEdit \/ SaveExpiryBatchEdit

Next ==
    \/ Answers \/ User
    \/ \E l \in loads : LoseLoad(l)
    \/ ClientsFail
    \/ \E w \in writes : LoseEdit(w)
    \/ \E n \in Nodes : DeleteNode(n)

\* every request ends: answered, or failed by the browser
Spec == Init /\ [][Next]_vars /\ WF_vars(Answers)

(***************************************************************************)
(* Properties.                                                             *)
(***************************************************************************)
TypeOK ==
    /\ nodes \subseteq Nodes /\ listed \subseteq Nodes /\ selected \subseteq listed
    /\ tab \in Tabs /\ clients \in {"none", "asked", "have"}
    /\ \A t \in Tabs : DOMAIN stored[t] \subseteq nodes /\ \A n \in DOMAIN stored[t] : stored[t][n].val \in Valid
    /\ dialog.form.val \in Values

\* When nothing is under way and the page lets its rules be edited, the rules
\* on the screen are the stored ones, unless a read ended after a newer one, an
\* answer was lost, or a node was deleted elsewhere, and no read has ended well since.
QuietIsTrue ==
    \A t \in Tabs :
        (/\ CanEdit(t) /\ ~doubt[t]
         /\ \A l \in loads : l.tab # t
         /\ \A w \in writes : w.tab # t) =>
            \A n \in Nodes : Of(shown[t], n) = Of(stored[t], n)

\* An edit of several nodes changes all of them or none.
BatchIsWhole ==
    [][\A w \in writes : ServeEdit(w) =>
         \/ stored' = stored
         \/ \A n \in DOMAIN w.items : Of(stored'[w.tab], n) = w.items[n]]_vars

=============================================================================
