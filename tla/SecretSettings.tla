--------------------------- MODULE SecretSettings ---------------------------
(***************************************************************************)
(* The settings of the notification channels: the form of the notification *)
(* page, which never sees a stored secret, the scope "notification" of     *)
(* /api/admin/settings, and the test message sent with what the form       *)
(* holds.                                                                  *)
(*                                                                         *)
(* "token" stands for a secret the form sends as it is, also when it was   *)
(* emptied (telegram_bot_token, telegram_chat_id), "password" for one it   *)
(* leaves out when empty (email_smtp_password, webhook_secret), "user" for *)
(* a field that is shown.  Mask is the preview a stored secret is shown    *)
(* with, pasted into its field.                                            *)
(***************************************************************************)
EXTENDS Integers, FiniteSets

CONSTANTS
    Words,       \* texts an administrator types
    MaxTyped,    \* bound: changes of a field
    MaxSaves,    \* bound: saves
    MaxVisits,   \* bound: returns to the tab
    MaxElsewhere \* bound: changes by another administrator

WordsAssumption == {"", "absent", "mask"} \cap Words = {}

VARIABLES
    db,        \* the settings table
    draft,     \* settings: what the form holds
    original,  \* originalSettings: what the server told last
    busy,      \* tabLoading.settings: the form is not on the screen
    loaded,    \* loadedTabs.settings
    loads,     \* reads of the settings whose answer has not been handled
    write,     \* the save under way; at "none": there is none
    tested,    \* the last test message: the form and what it was sent with
    typed,     \* ghost: what was typed and not sent and confirmed
    count      \* typed, saves, visits, elsewhere, loads so far

vars == <<db, draft, original, busy, loaded, loads, write, tested, typed, count>>

Secrets == {"token", "password"}
Keys == Secrets \cup {"user"}
Absent == "absent"
Mask == "mask"
Fields == Words \cup {"", Absent, Mask}
Blank == [k \in Keys |-> Absent]
NoTest == [form |-> Blank, used |-> Blank, found |-> Blank]
Idle == [at |-> "none", body |-> Blank, submitted |-> Blank]

(***************************************************************************)
(* GET /settings?scope=notification: secrets are left out.                 *)
(***************************************************************************)
Scoped(stored) == [k \in Keys |-> IF k \in Secrets THEN Absent ELSE stored[k]]

\* a load without a save behind it fills the form; one after a save keeps what
\* was typed since (mergeConfirmedSettingsDraft)
Load(after, submitted) ==
    {[id |-> count.loads, after |-> after, submitted |-> submitted, at |-> "sent", val |-> Blank]}

Merged(current, submitted, confirmed) ==
    [k \in Keys |-> IF current[k] = submitted[k] THEN confirmed[k] ELSE current[k]]

ServeLoad(l) ==
    /\ l.at = "sent"
    /\ loads' = (loads \ {l}) \cup {[l EXCEPT !.at = "answered", !.val = Scoped(db)]}
    /\ UNCHANGED <<db, draft, original, busy, loaded, write, tested, typed, count>>

\* loadSettingsTab: the end of any load shows the form
LoadArrives(l) ==
    /\ l.at = "answered"
    /\ loads' = loads \ {l}
    /\ draft' = IF l.after THEN Merged(draft, l.submitted, l.val) ELSE l.val
    /\ original' = l.val
    /\ typed' = IF l.after THEN [k \in Keys |-> IF draft[k] = l.submitted[k] THEN Absent ELSE typed[k]]
                ELSE Blank
    /\ loaded' = TRUE /\ busy' = FALSE
    /\ write' = IF l.after THEN Idle ELSE write
    /\ UNCHANGED <<db, tested, count>>

LoadFails(l) ==
    /\ loads' = loads \ {l}
    /\ busy' = FALSE
    /\ write' = IF l.after THEN Idle ELSE write
    /\ UNCHANGED <<db, draft, original, loaded, tested, typed, count>>

\* the tab is shown again before its first load has ended: one more load
Visit ==
    /\ ~loaded
    /\ count.visits < MaxVisits
    /\ count' = [count EXCEPT !.visits = @ + 1, !.loads = @ + 1]
    /\ loads' = loads \cup Load(FALSE, Blank)
    /\ busy' = TRUE
    /\ UNCHANGED <<db, draft, original, loaded, write, tested, typed>>

(***************************************************************************)
(* The form.                                                               *)
(***************************************************************************)
\* what a field can be made to hold: a shown field is emptied or changed, a
\* secret is typed, emptied, or its preview pasted
TelegramCard(k, v) == k = "token" /\ v \in Words \cup {"", Mask}
SmtpCard(k, v) ==
    \/ k = "password" /\ v \in Words \cup {"", Mask}
    \/ k = "user" /\ v \in Words \cup {""}
WebhookCard(k, v) == k = "password" /\ v \in Words \cup {"", Mask}

Type(k, v) ==
    /\ ~busy
    /\ count.typed < MaxTyped
    /\ TelegramCard(k, v) \/ SmtpCard(k, v) \/ WebhookCard(k, v)
    /\ draft[k] # v
    /\ draft' = [draft EXCEPT ![k] = v]
    /\ typed' = [typed EXCEPT ![k] = v]
    /\ count' = [count EXCEPT !.typed = @ + 1]
    /\ UNCHANGED <<db, original, busy, loaded, loads, write, tested>>

\* an empty password is left out; an empty token is sent
Payload == [draft EXCEPT !["password"] = IF @ = "" THEN Absent ELSE @]

\* getChangedSettings
Changed(current, stored) ==
    [k \in Keys |-> IF current[k] = stored[k] THEN Absent ELSE current[k]]

SaveNotificationSettings ==
    /\ write.at = "none" /\ ~busy
    /\ count.saves < MaxSaves
    /\ Changed(Payload, original) # Blank
    /\ write' = [at |-> "sent", body |-> Changed(Payload, original), submitted |-> draft]
    /\ count' = [count EXCEPT !.saves = @ + 1]
    /\ UNCHANGED <<db, draft, original, busy, loaded, loads, tested, typed>>

(***************************************************************************)
(* POST /settings.                                                         *)
(***************************************************************************)

\* a preview or an empty secret changes nothing
Accepted(body) ==
    [k \in Keys |-> IF k \in Secrets /\ body[k] \in {"", Mask} THEN Absent ELSE body[k]]

Store ==
    /\ write.at = "sent"
    /\ db' = [k \in Keys |-> IF Accepted(write.body)[k] = Absent THEN db[k] ELSE Accepted(write.body)[k]]
    /\ write' = [write EXCEPT !.at = "done"]
    /\ UNCHANGED <<draft, original, busy, loaded, loads, tested, typed, count>>

\* the page reads the settings again, and is done when they have come
SaveSucceeds ==
    /\ write.at = "done"
    /\ write' = [write EXCEPT !.at = "reading"]
    /\ count' = [count EXCEPT !.loads = @ + 1]
    /\ loads' = loads \cup Load(TRUE, write.submitted)
    /\ busy' = TRUE
    /\ UNCHANGED <<db, draft, original, loaded, tested, typed>>

\* refused, or the answer lost
SaveFails ==
    /\ write.at \in {"sent", "done"}
    /\ write' = Idle
    /\ UNCHANGED <<db, draft, original, busy, loaded, loads, tested, typed, count>>

(***************************************************************************)
(* The test message.                                                       *)
(***************************************************************************)

\* pickNotificationSettingOverrides
Overrides(form) == [k \in Keys |-> IF form[k] \in {"", Mask} THEN Absent ELSE form[k]]

\* POST /test/sendMessage: the form over the stored settings; nothing is stored
SentWith(form) == [k \in Keys |-> IF Overrides(form)[k] = Absent THEN db[k] ELSE form[k]]

SendTest ==
    /\ ~busy
    /\ tested' = [form |-> draft, found |-> db, used |-> SentWith(draft)]
    /\ UNCHANGED <<db, draft, original, busy, loaded, loads, write, typed, count>>

\* another administrator saves
Elsewhere(k, v) ==
    /\ count.elsewhere < MaxElsewhere
    /\ count' = [count EXCEPT !.elsewhere = @ + 1]
    /\ db[k] # v
    /\ db' = [db EXCEPT ![k] = v]
    /\ UNCHANGED <<draft, original, busy, loaded, loads, write, tested, typed>>

Init ==
    /\ db \in [Keys -> {"", CHOOSE w \in Words : TRUE}]
    /\ draft = Blank /\ original = Blank /\ typed = Blank
    /\ busy = TRUE /\ loaded = FALSE
    /\ count = [typed |-> 0, saves |-> 0, visits |-> 0, elsewhere |-> 0, loads |-> 1]
    /\ loads = {[id |-> 0, after |-> FALSE, submitted |-> Blank, at |-> "sent", val |-> Blank]}
    /\ write = Idle /\ tested = NoTest

Next ==
    \/ \E l \in loads : ServeLoad(l) \/ LoadArrives(l) \/ LoadFails(l)
    \/ Visit
    \/ \E k \in Keys, v \in Fields : Type(k, v)
    \/ SaveNotificationSettings \/ Store \/ SaveSucceeds \/ SaveFails
    \/ SendTest
    \/ \E k \in Keys, v \in Words : Elsewhere(k, v)

Spec == Init /\ [][Next]_vars

(***************************************************************************)
(* Properties.                                                             *)
(***************************************************************************)
TypeOK ==
    /\ db \in [Keys -> Words \cup {""}]
    /\ draft \in [Keys -> Fields] /\ original \in [Keys -> Fields] /\ typed \in [Keys -> Fields]
    /\ write.at \in {"none", "sent", "done", "reading"}

\* A save of this page changes a stored secret only to a word typed into its
\* field: neither the preview nor an emptied field, sent with another change,
\* takes the place of a secret the page has never seen.
SecretsStay ==
    [][\A k \in Secrets :
         (Store /\ db'[k] # db[k]) => (db'[k] \in Words /\ write.submitted[k] = db'[k])]_vars

\* What is typed while a save and the read behind it are under way stays in the
\* form until it is sent and confirmed itself.  (A second load begun before the
\* first has ended can still take it back: it is excepted here.)
TypedStays ==
    (\A l \in loads : l.after) =>
        \A k \in Keys : typed[k] # Absent => draft[k] = typed[k]

\* A test that used the form as it is tells what a save of it stores: unless
\* the table has changed since, a shown field was emptied, or a shown field the
\* save leaves out was changed elsewhere, the table then holds what the message
\* was sent with.
TestedIsStored ==
    [][(/\ Store
        /\ tested.found = db /\ tested.form = write.submitted
        /\ \A k \in Keys \ Secrets : write.body[k] = Absent => write.submitted[k] = db[k]
        /\ \A k \in Keys \ Secrets : write.submitted[k] # "") =>
          db' = tested.used]_vars

=============================================================================
