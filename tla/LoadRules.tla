------------------------------ MODULE LoadRules ------------------------------
(***************************************************************************)
(* Load alerts: rules for some nodes or, with an empty list, for all of    *)
(* them, and the statistics window, which the sampling settings stretch.   *)
(* The page's tab and dialog, the handlers, the deletion of nodes, and the *)
(* policy computed from the settings.  Seconds and minutes are numbers; a  *)
(* minute has Minute seconds.                                              *)
(***************************************************************************)
EXTENDS Integers, FiniteSets, Functions, TLC

CONSTANTS
    Nodes,
    Ids,          \* identities of rules
    Intervals,    \* windows a form can hold, in minutes
    MaxInterval,  \* 10080
    DefaultInterval, \* 15
    Minute,
    MaxTolerance, \* RECORD_PERSIST_TOLERANCE_MAX_MS
    Persist, Active, Idle, \* values of the three settings, in seconds
    MaxSaves,     \* bound: saves and deletions of rules
    MaxOpens,     \* bound: dialogs
    MaxElsewhere  \* bound: settings changed, nodes deleted

NumbersAssumption ==
    /\ Intervals \subseteq Nat /\ Minute \in Nat \ {0} /\ MaxTolerance \in Nat
    /\ Persist \cup Active \cup Idle \subseteq Nat \ {0}

VARIABLES
    nodes,     \* the clients table
    rules,     \* load_notifications: by identity, its nodes and its window
    setting,   \* record_persist_interval_sec, live_poll_active_..., live_poll_idle_...
    allowed,   \* allowedClientIdsCache
    shown,     \* loadNotifications
    policy,    \* loadPolicy: its minimum_interval_min
    listed,    \* clientsRef
    editable,  \* canEditLoad
    dialog,    \* loadForm and the rule it is for
    writes,    \* saves and deletions under way
    unpruned,  \* nodes deleted, their references not yet pruned
    count,
    directed   \* ghost: rules last saved for some nodes

vars == <<nodes, rules, setting, allowed, shown, policy, listed, editable, dialog, writes,
          unpruned, count, directed>>

New == 0
Ceil(a, b) == (a + b - 1) \div b
MaxOf(a, b) == IF a > b THEN a ELSE b

(***************************************************************************)
(* The policy.                                                             *)
(***************************************************************************)
\* recordPersistThresholdMs: a twentieth early, but not more than the maximum
Threshold(persist) ==
    persist - (IF persist \div 20 > MaxTolerance THEN MaxTolerance ELSE persist \div 20)

\* a report is stored when the threshold has passed since the last stored one
SampleSeconds(report, s) == MaxOf(1, Ceil(Threshold(s.persist), report)) * report

SlowestSamples(s) == MaxOf(SampleSeconds(s.active, s), SampleSeconds(s.idle, s))

BuildLoadNotificationPolicy(s) == MaxOf(1, Ceil(2 * SlowestSamples(s), Minute))

\* the window a scheduled run uses
EffectiveLoadNotificationIntervalMin(interval, s) == MaxOf(BuildLoadNotificationPolicy(s), interval)

(***************************************************************************)
(* The tab and the dialog.                                                 *)
(***************************************************************************)
Rule(clients, interval) == [clients |-> clients, interval |-> interval]
Form(all, clients, interval) == [all |-> all, clients |-> clients, interval |-> interval]
Closed == [open |-> FALSE, id |-> New, form |-> Form(TRUE, {}, DefaultInterval),
           touched |-> FALSE, session |-> 0, was |-> Rule({}, DefaultInterval)]

\* the list, the nodes and the policy have come
LoadLoadTab ==
    /\ shown' = rules
    /\ policy' = BuildLoadNotificationPolicy(setting)
    /\ listed' = IF listed = {} THEN nodes ELSE listed
    /\ editable' = TRUE

\* Retry, another visit, or the read behind a save
Reload ==
    /\ LoadLoadTab
    /\ writes' = {w \in writes : w.at # "reading"}
    /\ UNCHANGED <<nodes, rules, setting, allowed, dialog, unpruned, count, directed>>

Open(id, form, was) ==
    /\ editable /\ ~dialog.open
    /\ count.opens < MaxOpens
    /\ count' = [count EXCEPT !.opens = @ + 1]
    /\ dialog' = [open |-> TRUE, id |-> id, form |-> form, touched |-> FALSE,
                  session |-> count.opens + 1, was |-> was]
    /\ UNCHANGED <<nodes, rules, setting, allowed, shown, policy, listed, editable, writes, unpruned, directed>>

OpenLoadAdd ==
    LET form == Form(TRUE, {}, MaxOf(DefaultInterval, policy))
    IN  Open(New, form, Rule({}, form.interval))

OpenLoadEdit(id) ==
    /\ id \in DOMAIN shown
    /\ Open(id, Form(shown[id].clients = {}, shown[id].clients, shown[id].interval), shown[id])

\* the switch, a listed node, or the window
LoadDialog(form) ==
    /\ dialog.open
    /\ \/ form = [dialog.form EXCEPT !.all = ~@]
       \/ ~dialog.form.all /\ \E n \in listed :
              form = [dialog.form EXCEPT !.clients = IF n \in @ THEN @ \ {n} ELSE @ \cup {n}]
       \/ form.interval # dialog.form.interval /\ form = [dialog.form EXCEPT !.interval = form.interval]
    /\ dialog' = [dialog EXCEPT !.form = form, !.touched = TRUE]
    /\ UNCHANGED <<nodes, rules, setting, allowed, shown, policy, listed, editable, writes, unpruned, count, directed>>

CloseLoad ==
    /\ dialog.open
    /\ dialog' = Closed
    /\ UNCHANGED <<nodes, rules, setting, allowed, shown, policy, listed, editable, writes, unpruned, count, directed>>

LoadIntervalInvalid == dialog.form.interval < policy \/ dialog.form.interval > MaxInterval

Begin(w) ==
    /\ count.saves < MaxSaves
    /\ count' = [count EXCEPT !.saves = @ + 1]
    /\ writes' = writes \cup {w}
    /\ UNCHANGED <<nodes, rules, setting, allowed, shown, policy, listed, editable, dialog, unpruned, directed>>

SaveLoadNotification ==
    /\ dialog.open /\ editable /\ ~LoadIntervalInvalid
    /\ \A w \in writes : w.kind # "save"
    /\ dialog.form.all \/ dialog.form.clients # {}
    /\ Begin([kind |-> "save", id |-> dialog.id, at |-> "sent", session |-> dialog.session, all |-> dialog.form.all,
              touched |-> dialog.touched, was |-> dialog.was,
              rule |-> Rule(IF dialog.form.all THEN {} ELSE dialog.form.clients, dialog.form.interval)])

DeleteLoadNotification(id) ==
    /\ ~dialog.open /\ id \in DOMAIN shown
    /\ \A w \in writes : w.kind = "delete" => w.id # id
    /\ Begin([kind |-> "delete", id |-> id, at |-> "sent", session |-> 0, all |-> TRUE,
              touched |-> TRUE, was |-> shown[id], rule |-> shown[id]])

(***************************************************************************)
(* The handlers.  A save reads the policy and the nodes, perhaps from the  *)
(* copy of this isolate, then stores.                                      *)
(***************************************************************************)
Moves(w, at) == writes' = (writes \ {w}) \cup {[w EXCEPT !.at = at]}

GetAllowedClientIds(rule) == IF rule.clients = {} THEN {} ELSE IF allowed = {} THEN nodes ELSE allowed

ValidateLoadNotificationInput(w) ==
    /\ ~w.all => w.rule.clients # {}
    /\ w.rule.clients \subseteq GetAllowedClientIds(w.rule)
    /\ w.rule.interval \in BuildLoadNotificationPolicy(setting)..MaxInterval

ValidateSave(w) ==
    /\ w.kind = "save" /\ w.at = "sent"
    /\ Moves(w, IF ValidateLoadNotificationInput(w) THEN "valid" ELSE "refused")
    /\ allowed' = IF w.rule.clients = {} THEN allowed ELSE GetAllowedClientIds(w.rule)
    /\ UNCHANGED <<nodes, rules, setting, shown, policy, listed, editable, dialog, unpruned, count, directed>>

Marked(id, rule) == IF rule.clients = {} THEN directed \ {id} ELSE directed \cup {id}

\* POST /notification/load/add
AddHandler(w) ==
    /\ w.kind = "save" /\ w.at = "valid" /\ w.id = New
    /\ \E id \in Ids \ DOMAIN rules :
         /\ rules' = (id :> w.rule) @@ rules
         /\ directed' = Marked(id, w.rule)
    /\ Moves(w, "stored")
    /\ UNCHANGED <<nodes, setting, allowed, shown, policy, listed, editable, dialog, unpruned, count>>

\* POST /notification/load/:id; 404 when there is no such rule
EditHandler(w) ==
    /\ w.kind = "save" /\ w.at = "valid" /\ w.id # New
    /\ IF w.id \in DOMAIN rules
       THEN /\ rules' = [rules EXCEPT ![w.id] = w.rule]
            /\ directed' = Marked(w.id, w.rule)
            /\ Moves(w, "stored")
       ELSE Moves(w, "refused") /\ UNCHANGED <<rules, directed>>
    /\ UNCHANGED <<nodes, setting, allowed, shown, policy, listed, editable, dialog, unpruned, count>>

\* DELETE /notification/load/:id
DeleteHandler(w) ==
    /\ w.kind = "delete" /\ w.at = "sent"
    /\ rules' = Restrict(rules, DOMAIN rules \ {w.id})
    /\ directed' = directed \ {w.id}
    /\ Moves(w, "stored")
    /\ UNCHANGED <<nodes, setting, allowed, shown, policy, listed, editable, dialog, unpruned, count>>

\* the page is told: the dialog that was saved is closed, the tab read again
Told(w) ==
    /\ w.at = "stored"
    /\ Moves(w, "reading")
    /\ editable' = FALSE
    /\ dialog' = IF dialog.open /\ w.kind = "save" /\ dialog.session = w.session THEN Closed ELSE dialog
    /\ UNCHANGED <<nodes, rules, setting, allowed, shown, policy, listed, unpruned, count, directed>>

\* refused, or the answer lost
NotTold(w) ==
    /\ w.at \in {"refused", "stored"}
    /\ writes' = writes \ {w}
    /\ UNCHANGED <<nodes, rules, setting, allowed, shown, policy, listed, editable, dialog, unpruned, count, directed>>

(***************************************************************************)
(* Elsewhere.                                                              *)
(***************************************************************************)
Tick ==
    /\ count.elsewhere < MaxElsewhere
    /\ count' = [count EXCEPT !.elsewhere = @ + 1]

\* cfm_delete_clients; the copy of an isolate that did not serve it stays
DeleteClient(n) ==
    /\ Tick
    /\ n \in nodes
    /\ nodes' = nodes \ {n}
    /\ unpruned' = unpruned \cup {n}
    /\ allowed' \in {allowed, {}}
    /\ UNCHANGED <<rules, setting, shown, policy, listed, editable, dialog, writes, directed>>

\* mutant: a rule whose last node is deleted stays
PrunedKept(gone) == [id \in DOMAIN rules |-> [rules[id] EXCEPT !.clients = @ \ gone]]

\* rules with the nodes of gone taken out; a rule whose last node is among them goes
Pruned(gone) ==
    LET left == {id \in DOMAIN rules : rules[id].clients = {} \/ ~(rules[id].clients \subseteq gone)}
    IN  [id \in left |-> [rules[id] EXCEPT !.clients = @ \ gone]]

\* cfm_prune_client_references, the second request of a deletion
PruneClientReferences ==
    /\ unpruned # {}
    /\ rules' = Pruned(unpruned)
    /\ unpruned' = {}
    /\ UNCHANGED <<nodes, setting, allowed, shown, policy, listed, editable, dialog, writes, count, directed>>

\* it fails; the maintenance of an administrator finds what it left
PruneFails ==
    /\ unpruned # {}
    /\ unpruned' = {}
    /\ UNCHANGED <<nodes, rules, setting, allowed, shown, policy, listed, editable, dialog, writes, count, directed>>

\* cfm_cleanup_orphan_client_data
CleanupOrphanClientData ==
    /\ rules' = Pruned(Nodes \ nodes)
    /\ UNCHANGED <<nodes, setting, allowed, shown, policy, listed, editable, dialog, writes, unpruned, count, directed>>

\* ALLOWED_CLIENT_IDS_CACHE_MS have passed
CopyExpires ==
    /\ allowed # {}
    /\ allowed' = {}
    /\ UNCHANGED <<nodes, rules, setting, shown, policy, listed, editable, dialog, writes, unpruned, count, directed>>

Settings == [persist : Persist, active : Active, idle : Idle]

ChangeSettings(s) ==
    /\ Tick
    /\ s # setting
    /\ setting' = s
    /\ UNCHANGED <<nodes, rules, allowed, shown, policy, listed, editable, dialog, writes, unpruned, directed>>

Init ==
    /\ nodes = Nodes /\ rules = <<>> /\ shown = <<>> /\ listed = {} /\ allowed = {}
    /\ setting \in Settings
    /\ policy = 0 /\ editable = FALSE
    /\ dialog = Closed /\ writes = {} /\ unpruned = {} /\ directed = {}
    /\ count = [saves |-> 0, opens |-> 0, elsewhere |-> 0]

Next ==
    \/ Reload
    \/ OpenLoadAdd \/ CloseLoad \/ SaveLoadNotification
    \/ \E id \in Ids : OpenLoadEdit(id) \/ DeleteLoadNotification(id)
    \/ \E all \in BOOLEAN, c \in SUBSET Nodes, i \in Intervals : LoadDialog(Form(all, c, i))
    \/ \E w \in writes : \/ ValidateSave(w) \/ AddHandler(w) \/ EditHandler(w) \/ DeleteHandler(w)
                         \/ Told(w) \/ NotTold(w)
    \/ \E n \in Nodes : DeleteClient(n)
    \/ PruneClientReferences \/ PruneFails \/ CleanupOrphanClientData \/ CopyExpires
    \/ \E s \in Settings : ChangeSettings(s)

Spec == Init /\ [][Next]_vars

(***************************************************************************)
(* Properties.                                                             *)
(***************************************************************************)
TypeOK ==
    /\ nodes \subseteq Nodes /\ listed \subseteq Nodes /\ unpruned \subseteq Nodes
    /\ DOMAIN rules \subseteq Ids /\ setting \in Settings /\ policy \in 0..MaxInterval
    /\ \A id \in DOMAIN rules : rules[id].clients \subseteq Nodes /\ rules[id].interval \in 1..MaxInterval

\* A rule that was saved for some nodes never becomes one for all of them: not
\* when its nodes are deleted, not when it is edited, in whatever order.
DirectedStaysDirected ==
    \A id \in directed \cap DOMAIN rules : rules[id].clients # {}

\* However the settings change after a rule was saved, the window a scheduled
\* run uses for it holds two samples of either way of reporting.
WindowsHoldTwo ==
    \A id \in DOMAIN rules : \A report \in {setting.active, setting.idle} :
        EffectiveLoadNotificationIntervalMin(rules[id].interval, setting) * Minute
            >= 2 * SampleSeconds(report, setting)

\* Opening a rule and saving it as it is changes nothing, if it is still the
\* rule that was opened.
UnrelatedSaveKeeps ==
    [][\A w \in writes :
         (EditHandler(w) /\ ~w.touched /\ w.id \in DOMAIN rules /\ rules[w.id] = w.was) => rules' = rules]_vars

=============================================================================
