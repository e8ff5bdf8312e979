---------------------------- MODULE WebsitesPage ----------------------------
(***************************************************************************)
(* The list of website monitors in the administration panel: the reads of  *)
(* the list, the changes the administrator makes while reads and other     *)
(* changes are under way, and the handlers of /api/admin/websites.         *)
(*                                                                         *)
(* A change of the list that did not come from a read is applied at once   *)
(* and kept in a log, which the answer of the newest read is replayed      *)
(* through.  Every confirmed change starts a new read, in this tab and in  *)
(* the other tabs of the browser.  A monitor is its id, its two switches   *)
(* and the rest of its fields (`v`); names, addresses and check results    *)
(* are not told apart further.                                             *)
(***************************************************************************)
EXTENDS Integers, FiniteSets, SequencesExt

CONSTANTS
    Contents,   \* what the other fields of a monitor may hold
    Kinds,      \* the changes made on this page
    MaxChanges, \* bound: changes made on this page
    MaxElsewhere, \* bound: changes made in another browser, and returns to the page
    MaxReads    \* bound: reads under way when the page is refreshed once more

BoundsAssumption == {MaxChanges, MaxElsewhere, MaxReads} \subseteq Nat

VARIABLES
    db,        \* the rows of website_monitors, by sort_order
    nextId,    \* the next value of the identity column
    list,      \* monitors: the rows the page shows
    selected,  \* selectedWebsites
    reads,     \* requests for the list whose answer has not been handled
    log,       \* monitorUpdatesRef: the changes since the newest read began
    writes,    \* changes whose answer has not been handled
    made,      \* changes made on this page
    elsewhere, \* changes made in another browser, and returns to the page
    doubt      \* the list may be behind the database and the page was not told

vars == <<db, nextId, list, selected, reads, log, writes, made, elsewhere, doubt>>

Ids(rows) == {rows[i].id : i \in DOMAIN rows}
RowOf(rows, id) == CHOOSE r \in Range(rows) : r.id = id
Rows(id) == [id : {id}, hidden : BOOLEAN, on : BOOLEAN, v : Contents]

(***************************************************************************)
(* The changes as the page applies them.                                   *)
(***************************************************************************)
\* save, checkNow: the row the server answered with replaces its fields
Put(rows, row) == [i \in DOMAIN rows |-> IF rows[i].id = row.id THEN row ELSE rows[i]]

\* setVisibility, setSelectedVisibility
Hide(rows, ids, b) ==
    [i \in DOMAIN rows |-> IF rows[i].id \in ids THEN [rows[i] EXCEPT !.hidden = b] ELSE rows[i]]

\* setEnabled
Enable(rows, id, b) ==
    [i \in DOMAIN rows |-> IF rows[i].id = id THEN [rows[i] EXCEPT !.on = b] ELSE rows[i]]

Without(rows, id) == SelectSeq(rows, LAMBDA r : r.id # id)

\* applyOrder: a stable sort; rows the order does not name go to the end, and
\* the last place counts for a row it names twice
LastPlaces(order) == {k \in DOMAIN order : \A j \in DOMAIN order : order[j] = order[k] => j <= k}

ApplyOrder(rows, order) ==
    FlattenSeq([k \in DOMAIN order |->
        SelectSeq(rows, LAMBDA r : k \in LastPlaces(order) /\ r.id = order[k])]) \o
    SelectSeq(rows, LAMBDA r : r.id \notin Range(order))

Apply(u, rows) ==
    CASE u.k = "append" -> Append(rows, u.row)
      [] u.k = "put"    -> Put(rows, u.row)
      [] u.k = "hide"   -> Hide(rows, u.ids, u.hidden)
      [] u.k = "enable" -> Enable(rows, u.id, u.on)
      [] u.k = "remove" -> Without(rows, u.id)
      [] u.k = "order"  -> ApplyOrder(rows, u.order)

\* mutant: the answer of a read replaces the list as it is
ReplayNothing(rows) == rows

\* updates.reduce((current, update) => update(current), list)
Replay(rows) == FoldLeft(LAMBDA acc, u : Apply(u, acc), rows, log)

(***************************************************************************)
(* Reading the list.                                                       *)
(***************************************************************************)
Outdated == {[r EXCEPT !.cur = FALSE] : r \in reads}

NewRead == [cur |-> TRUE, st |-> "sent", sure |-> TRUE, data |-> <<>>]

\* loadMonitors(true): a newer read makes every other one void
LoadMonitors ==
    /\ reads' = Outdated \cup {NewRead}
    /\ log' = <<>>

\* mutant: every answer is applied
AnyAnswer(r) == TRUE

IsCurrent(r) == r.cur

\* GET /websites reads the table; there is no cache on this path
ServeRead(r) ==
    /\ r.st = "sent"
    /\ reads' = (reads \ {r}) \cup {[r EXCEPT !.st = "served", !.data = db]}
    /\ UNCHANGED <<db, nextId, list, selected, log, writes, made, elsewhere, doubt>>

ReadArrives(r) ==
    /\ r.st = "served"
    /\ reads' = reads \ {r}
    /\ IF IsCurrent(r)
       THEN /\ list' = Replay(r.data)
            /\ log' = <<>>
            /\ doubt' = (doubt /\ ~r.sure)
       ELSE UNCHANGED <<list, log, doubt>>
    /\ UNCHANGED <<db, nextId, selected, writes, made, elsewhere>>

\* the list stays as it is and an error is shown
ReadFails(r) ==
    /\ reads' = reads \ {r}
    /\ IF IsCurrent(r) THEN log' = <<>> /\ doubt' = TRUE ELSE UNCHANGED <<log, doubt>>
    /\ UNCHANGED <<db, nextId, list, selected, writes, made, elsewhere>>

\* focus, a visible page, the timer, the button, a notice from another tab
Refresh ==
    /\ Cardinality(reads) < MaxReads
    /\ LoadMonitors
    /\ UNCHANGED <<db, nextId, list, selected, writes, made, elsewhere, doubt>>

\* the page is left and opened again: changes under way belong to the old page
Revisit ==
    /\ elsewhere < MaxElsewhere
    /\ elsewhere' = elsewhere + 1
    /\ LoadMonitors
    /\ list' = <<>>
    /\ selected' = {}
    /\ doubt' = TRUE
    /\ writes' = {[w EXCEPT !.here = FALSE] : w \in writes}
    /\ UNCHANGED <<db, nextId, made>>

(***************************************************************************)
(* What the page offers.                                                   *)
(***************************************************************************)
\* the buttons of a row; a card on a narrow screen has no visibility button
RowActions(row) ==
    {[k |-> "check", id |-> row.id],
     [k |-> "hide", ids |-> {row.id}, hidden |-> ~row.hidden, batch |-> FALSE],
     [k |-> "enable", id |-> row.id, on |-> ~row.on],
     [k |-> "remove", id |-> row.id]}

\* openEdit and save: the form holds every field as the row showed it
EditActions(row) == {[k |-> "put", row |-> [row EXCEPT !.v = v]] : v \in Contents}

AddActions == {[k |-> "append", row |-> [id |-> 0, hidden |-> FALSE, on |-> TRUE, v |-> v]] : v \in Contents}

\* setSelectedVisibility: the selected rows that are shown, one request each
SelectionActions ==
    {[k |-> "hide", ids |-> selected \cap Ids(list), hidden |-> b, batch |-> TRUE] : b \in BOOLEAN}

Offered ==
    AddActions \cup UNION {RowActions(r) \cup EditActions(r) : r \in Range(list)}
               \cup (IF selected \cap Ids(list) = {} THEN {} ELSE SelectionActions)

\* requests a change needs: one, or one for each row of a selection
Requests(u) == IF u.k = "hide" THEN u.ids ELSE {0}

Begun(u) == [u |-> u, todo |-> Requests(u), ok |-> {}, here |-> TRUE]

Begin ==
    /\ made < MaxChanges
    /\ \E u \in Offered : u.k \in Kinds /\ writes' = writes \cup {Begun(u)}
    /\ made' = made + 1
    /\ UNCHANGED <<db, nextId, list, selected, reads, log, elsewhere, doubt>>

\* toggleSelect, toggleSelectAll and the button that clears the selection
ToggleSelect ==
    /\ "hide" \in Kinds
    /\ \E ids \in {{id} : id \in Ids(list)} \cup {Ids(list)} :
         selected' = IF ids \subseteq selected THEN selected \ ids ELSE selected \cup ids
    /\ UNCHANGED <<db, nextId, list, reads, log, writes, made, elsewhere, doubt>>

(***************************************************************************)
(* Dragging.  The order is shown at once; `latest` is the comparison of    *)
(* monitorOrderRef with the number of the request.  `intact` notes that no *)
(* read began since.                                                       *)
(***************************************************************************)
\* arrayMove
Moved(order, from, to) == InsertAt(RemoveAt(order, from), to, order[from])

IdsInOrder(rows) == [i \in DOMAIN rows |-> rows[i].id]

Superseded == {IF w.u.k = "order" THEN [w EXCEPT !.u.latest = FALSE] ELSE w : w \in writes}

Drag ==
    /\ made < MaxChanges /\ "order" \in Kinds
    /\ made' = made + 1
    /\ \E from, to \in DOMAIN list :
         /\ from # to
         /\ LET before == IdsInOrder(list)
                after == Moved(before, from, to)
                u == [k |-> "order", order |-> after]
            IN /\ list' = ApplyOrder(list, after)
               /\ log' = IF \E r \in reads : r.cur THEN Append(log, u) ELSE log
               /\ writes' = Superseded \cup
                    {Begun([k |-> "order", order |-> after, before |-> before, latest |-> TRUE])}
    /\ UNCHANGED <<db, nextId, selected, reads, elsewhere, doubt>>

(***************************************************************************)
(* The handlers.  A request fails before or after its change is stored, or *)
(* its answer is lost on the way: the page sees a failure either way.      *)
(***************************************************************************)
\* what a handler leaves in the table and answers with
Done(rows, next, u) == [rows |-> rows, next |-> next, u |-> u, ok |-> TRUE]
Refused(u) == [rows |-> db, next |-> nextId, u |-> u, ok |-> FALSE]

AddHandler(u) ==
    LET row == [u.row EXCEPT !.id = nextId] IN Done(Append(db, row), nextId + 1, [u EXCEPT !.row = row])

EditHandler(u) == IF u.row.id \in Ids(db) THEN Done(Put(db, u.row), nextId, u) ELSE Refused(u)

\* a row that is gone is no error for the two switches
VisibilityHandler(u, i) == Done(Hide(db, {i}, u.hidden), nextId, u)
EnabledHandler(u) == Done(Enable(db, u.id, u.on), nextId, u)

\* every id once, and every id a row; rows that are not named follow
ReorderHandler(u) ==
    IF IsInjective(u.order) /\ Range(u.order) \subseteq Ids(db)
    THEN Done(ApplyOrder(db, u.order), nextId, u) ELSE Refused(u)

DeleteHandler(u) == IF u.id \in Ids(db) THEN Done(Without(db, u.id), nextId, u) ELSE Refused(u)

\* the result v of the probe is recorded and the row answered
CheckHandler(u, v) ==
    IF u.id \notin Ids(db) THEN Refused(u)
    ELSE LET row == [RowOf(db, u.id) EXCEPT !.v = v]
         IN Done(Put(db, row), nextId, [k |-> "put", row |-> row])

Handled(u, i, v) ==
    CASE u.k = "append" -> AddHandler(u)
      [] u.k = "put"    -> EditHandler(u)
      [] u.k = "hide"   -> VisibilityHandler(u, i)
      [] u.k = "enable" -> EnabledHandler(u)
      [] u.k = "remove" -> DeleteHandler(u)
      [] u.k = "order"  -> ReorderHandler(u)
      [] u.k = "check"  -> CheckHandler(u, v)

\* a change the page does not learn of: what is read of the list so far misses it
Unheard == reads' = {IF r.st = "served" THEN [r EXCEPT !.sure = FALSE] ELSE r : r \in reads}

ServeWrite(w) ==
    /\ \E i \in w.todo, heard \in BOOLEAN, v \in Contents :
         LET h == Handled(w.u, i, v) IN
         /\ (w.u.k # "check") => (v = CHOOSE x \in Contents : TRUE)
         /\ h.ok
         /\ db' = h.rows /\ nextId' = h.next
         /\ writes' = (writes \ {w}) \cup
              {IF heard THEN [w EXCEPT !.u = h.u, !.todo = @ \ {i}, !.ok = @ \cup {i}]
                        ELSE [w EXCEPT !.todo = @ \ {i}]}
         /\ IF heard /\ (w.u.k = "order" => w.u.latest)
            THEN UNCHANGED <<reads, doubt>>
            ELSE Unheard /\ doubt' = TRUE
    /\ UNCHANGED <<list, selected, log, made, elsewhere>>

\* the request is refused, or fails on its way
WriteRefused(w) ==
    /\ \E i \in w.todo : writes' = (writes \ {w}) \cup {[w EXCEPT !.todo = @ \ {i}]}
    /\ UNCHANGED <<db, nextId, list, selected, reads, log, made, elsewhere, doubt>>

(***************************************************************************)
(* The answer reaches the page that asked, or a page that was left: then   *)
(* only the notice remains, which the page now open hears.                 *)
(***************************************************************************)
\* what a confirmed change does to the list; several rows of a selection at once
Confirmed(w) == IF w.u.k = "hide" THEN [w.u EXCEPT !.ids = w.ok] ELSE w.u

Deselected(w) ==
    IF ~w.here THEN selected
    ELSE CASE w.u.k = "remove" -> selected \ {w.u.id}
           [] w.u.k = "hide" /\ w.u.batch -> selected \ w.ok
           [] OTHER -> selected

\* notifyWebsiteMonitorsUpdated: the notice reaches this tab too
NotifyUpdated == LoadMonitors

\* an answer that a newer drag has overtaken is ignored, whatever it says
Overtaken(w) == w.u.k = "order" /\ ~w.u.latest

WriteSucceeds(w) ==
    /\ w.todo = {} /\ w.ok # {} /\ ~Overtaken(w)
    /\ writes' = writes \ {w}
    /\ list' = IF w.here THEN Apply(Confirmed(w), list) ELSE list
    /\ selected' = Deselected(w)
    /\ NotifyUpdated
    /\ UNCHANGED <<db, nextId, made, elsewhere, doubt>>

WriteIgnored(w) ==
    /\ w.todo = {} /\ Overtaken(w)
    /\ writes' = writes \ {w}
    /\ UNCHANGED <<db, nextId, list, selected, reads, log, made, elsewhere, doubt>>

\* a failed reorder goes back and reads again, as does a selection that failed
\* entirely; other failures show an error and nothing more
WriteFails(w) ==
    /\ w.todo = {} /\ w.ok = {} /\ ~Overtaken(w)
    /\ writes' = writes \ {w}
    /\ IF w.here /\ w.u.k = "order"
       THEN list' = ApplyOrder(list, w.u.before) /\ LoadMonitors
       ELSE IF w.here /\ w.u.k = "hide" /\ w.u.batch
            THEN LoadMonitors /\ UNCHANGED list
            ELSE UNCHANGED <<list, reads, log>>
    /\ UNCHANGED <<db, nextId, selected, made, elsewhere, doubt>>

\* another browser changes the table and this one hears nothing
Elsewhere ==
    /\ elsewhere < MaxElsewhere
    /\ elsewhere' = elsewhere + 1
    /\ \E r \in Range(db) :
         db' \in {Without(db, r.id), ApplyOrder(db, <<r.id>>)}
                  \cup {Put(db, [r EXCEPT !.v = v]) : v \in Contents}
    /\ Unheard
    /\ doubt' = TRUE
    /\ UNCHANGED <<nextId, list, selected, log, writes, made>>

FirstRow(id) == [id |-> id, hidden |-> FALSE, on |-> TRUE, v |-> CHOOSE x \in Contents : TRUE]

Init ==
    /\ db = <<FirstRow(1), FirstRow(2)>>
    /\ nextId = 3
    /\ list = <<>>
    /\ selected = {}
    /\ reads = {NewRead}
    /\ log = <<>>
    /\ writes = {}
    /\ made = 0
    /\ elsewhere = 0
    /\ doubt = TRUE

Next ==
    \/ \E r \in reads : ServeRead(r) \/ ReadArrives(r) \/ ReadFails(r)
    \/ Refresh \/ Revisit \/ Begin \/ ToggleSelect \/ Drag \/ Elsewhere
    \/ \E w \in writes :
         \/ ServeWrite(w) \/ WriteRefused(w)
         \/ WriteSucceeds(w) \/ WriteIgnored(w) \/ WriteFails(w)

Spec == Init /\ [][Next]_vars

(***************************************************************************)
(* Properties.                                                             *)
(***************************************************************************)
TypeOK ==
    /\ \A i \in DOMAIN db : db[i] \in Rows(db[i].id) /\ db[i].id \in 1 .. nextId - 1
    /\ IsInjective(IdsInOrder(db))
    /\ Ids(list) \subseteq 1 .. nextId - 1
    /\ Cardinality({r \in reads : r.cur}) <= 1

\* When every change made here has been answered, the newest read has been
\* applied and nothing happened that the page was not told of, the list is the
\* table: an older answer that comes late, an order shown before it was stored
\* and a change confirmed during a read leave no trace.
QuietIsTrue ==
    (writes = {} /\ ~doubt /\ \A r \in reads : ~r.cur) => list = db

\* An answer that was asked for before a drag does not undo what the drag shows.
DragStays ==
    [][\A w \in writes :
         (w.u.k = "order" /\ w.u.latest /\ log # <<>> /\ Last(log).order = w.u.order
            /\ list' # <<>> /\ writes' = writes)
           => ApplyOrder(list', w.u.order) = list']_vars

=============================================================================
