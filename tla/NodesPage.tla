------------------------------ MODULE NodesPage ------------------------------
(***************************************************************************)
(* The list of nodes in the administration panel: its reads, the changes   *)
(* the administrator makes while reads and other changes are under way,    *)
(* and the notices by which tabs and the live socket tell the page of a    *)
(* change.                                                                 *)
(*                                                                         *)
(* Every change is applied to the list at once and, while a read runs,     *)
(* recorded, so that the answer of the newest read is replayed through it. *)
(* A notice carries the changed rows, unless one of them is hidden: then   *)
(* it only asks for a read.  A node is its id, its place (sort_order), the *)
(* switch that hides it and the rest of its public fields (`v`).           *)
(***************************************************************************)
EXTENDS Integers, FiniteSets, SequencesExt, TLC

CONSTANTS
    Contents,   \* what the other fields of a node may hold
    Kinds,      \* the changes that are made
    Nodes,      \* the nodes at the start: 1 .. Nodes
    MaxChanges, \* bound: changes made here and elsewhere
    MaxReads    \* bound: reads under way when the page is refreshed once more

BoundsAssumption == {Nodes, MaxChanges, MaxReads} \subseteq Nat

VARIABLES
    db,        \* the rows of clients, by id
    kept,      \* what a cache of GET /clients may still answer with
    nextId,    \* the next new node
    list,      \* clients: the rows the page holds, by id
    selected,  \* selectedNodes
    reads,     \* requests for the list whose answer has not been handled
    log,       \* clientUpdatesRef: the changes since the newest read began
    writes,    \* changes whose answer or notice has not been handled
    made,      \* changes made so far
    doubt      \* the list may be behind the database and the page was not told

vars == <<db, kept, nextId, list, selected, reads, log, writes, made, doubt>>

Empty == [i \in {} |-> <<>>]

\* optimisticAdminClient: what the page assumes of a node it hears of by its id only
Optimistic == [so |-> 0, hidden |-> FALSE, v |-> CHOOSE x \in Contents : TRUE]

\* sortAdminNodes with the manual key: by place, equal places by name
Shown(rows) ==
    SetToSortSeq(DOMAIN rows, LAMBDA a, b :
        rows[a].so < rows[b].so \/ (rows[a].so = rows[b].so /\ a > b))

\* the page shows what the table holds
Same(a, b) ==
    /\ DOMAIN a = DOMAIN b
    /\ \A i \in DOMAIN a : a[i].hidden = b[i].hidden /\ a[i].v = b[i].v
    /\ Shown(a) = Shown(b)

(***************************************************************************)
(* The changes as the page applies them.                                   *)
(***************************************************************************)
\* {...existing, ...patch}
Over(row, patch) == patch @@ row

Without(rows, ids) == [i \in DOMAIN rows \ ids |-> rows[i]]

\* applyAdminClientUpdate
ApplyAdminClientUpdate(rows, upsert, remove) ==
    LET left == Without(rows, remove)
    IN [i \in DOMAIN left \cup DOMAIN upsert |->
          IF i \notin DOMAIN upsert THEN left[i]
          ELSE Over(IF i \in DOMAIN left THEN left[i] ELSE Optimistic, upsert[i])]

\* onSaved of the edit dialog
Put(rows, id, row) == [i \in DOMAIN rows |-> IF i = id THEN Over(rows[i], row) ELSE rows[i]]

\* onSaved of the dialog that adds a node
AddIfAbsent(rows, id, row) == IF id \in DOMAIN rows THEN rows ELSE rows @@ (id :> row)

Hide(rows, ids) == [i \in DOMAIN rows |-> IF i \in ids THEN [rows[i] EXCEPT !.hidden = TRUE] ELSE rows[i]]

\* applyOrder: rows the order does not name keep their place
ApplyOrder(rows, places) ==
    [i \in DOMAIN rows |-> IF i \in DOMAIN places THEN [rows[i] EXCEPT !.so = places[i]] ELSE rows[i]]

Apply(u, rows) ==
    CASE u.k = "add"    -> AddIfAbsent(rows, u.id, u.row)
      [] u.k = "edit"   -> Put(rows, u.id, u.row)
      [] u.k = "hide"   -> Hide(rows, u.ids)
      [] u.k = "remove" -> Without(rows, u.ids)
      [] u.k = "order"  -> ApplyOrder(rows, u.places)
      [] u.k = "delta"  -> ApplyAdminClientUpdate(rows, u.upsert, u.remove)

\* updates.reduce((list, update) => update(list), data)
Replay(rows) == FoldLeft(LAMBDA acc, u : Apply(u, acc), rows, log)

(***************************************************************************)
(* Reading the list.                                                       *)
(***************************************************************************)
NewRead(force) == [cur |-> TRUE, force |-> force, st |-> "sent", sure |-> TRUE, data |-> Empty]

Outdated == {[r EXCEPT !.cur = FALSE] : r \in reads}

Loading(rs) == \E r \in rs : r.cur

\* loadClients: a newer read makes every other one void
LoadClients(force) ==
    /\ reads' = Outdated \cup {NewRead(force)}
    /\ log' = <<>>

IsCurrent(r) == r.cur

\* GET /clients: the caches may answer, unless the page asks for a fresh list
ServeRead(r) ==
    /\ r.st = "sent"
    /\ \E data \in IF r.force THEN {db} ELSE {db, kept} :
         reads' = (reads \ {r}) \cup
           {[r EXCEPT !.st = "served", !.data = data, !.sure = @ /\ data = db]}
    /\ UNCHANGED <<db, kept, nextId, list, selected, log, writes, made, doubt>>

ReadArrives(r) ==
    /\ r.st = "served"
    /\ reads' = reads \ {r}
    /\ IF IsCurrent(r)
       THEN /\ list' = Replay(r.data)
            /\ log' = <<>>
            /\ doubt' = ~r.sure
       ELSE UNCHANGED <<list, log, doubt>>
    /\ UNCHANGED <<db, kept, nextId, selected, writes, made>>

\* the list stays as it is and an error is shown
ReadFails(r) ==
    /\ reads' = reads \ {r}
    /\ log' = IF IsCurrent(r) THEN <<>> ELSE log
    /\ UNCHANGED <<db, kept, nextId, list, selected, writes, made, doubt>>

\* focus, a visible page and the timer
Refresh ==
    /\ Cardinality(reads) < MaxReads
    /\ LoadClients(FALSE)
    /\ UNCHANGED <<db, kept, nextId, list, selected, writes, made, doubt>>

\* the buttons that refresh and retry
RefreshFresh ==
    /\ Cardinality(reads) < MaxReads
    /\ LoadClients(TRUE)
    /\ UNCHANGED <<db, kept, nextId, list, selected, writes, made, doubt>>

KeptExpires ==
    /\ kept # db
    /\ kept' = db
    /\ UNCHANGED <<db, nextId, list, selected, reads, log, writes, made, doubt>>

(***************************************************************************)
(* What the page offers.                                                   *)
(***************************************************************************)
AddActions == {[k |-> "add"]}

\* the edit dialog sends every field as its form holds it
EditActions(id) == {[k |-> "edit", id |-> id, hidden |-> b, v |-> v] : b \in BOOLEAN, v \in Contents}

\* the buttons of a card
CardActions(id) == EditActions(id) \cup {[k |-> "remove", ids |-> {id}], [k |-> "rotate", id |-> id]}

\* the bar shown for a selection, nodes that have gone since included
SelectionActions ==
    {[k |-> "hide", ids |-> selected, rows |-> [i \in selected \cap DOMAIN list |-> list[i]]],
     [k |-> "batch", ids |-> selected]}

Offered ==
    {u \in AddActions \cup UNION {CardActions(i) : i \in DOMAIN list}
             \cup (IF selected = {} THEN {} ELSE SelectionActions) : u.k \in Kinds}

Begun(u, by) == [u |-> u, by |-> by, st |-> "sent", late |-> FALSE]

\* a change made on this page
Begin ==
    /\ made < MaxChanges
    /\ \E u \in Offered : writes' = writes \cup {Begun(u, "page")}
    /\ made' = made + 1
    /\ UNCHANGED <<db, kept, nextId, list, selected, reads, log, doubt>>

\* a change made in another tab or browser, which tells this page by a notice
BeginElsewhere ==
    /\ made < MaxChanges
    /\ \E u \in AddActions \cup UNION {CardActions(i) : i \in DOMAIN db} :
         /\ u.k \in Kinds
         /\ writes' = writes \cup {Begun(u, "other")}
    /\ made' = made + 1
    /\ UNCHANGED <<db, kept, nextId, list, selected, reads, log, doubt>>

\* toggleSelect, toggleSelectAll and the button that clears the selection
ToggleSelect ==
    /\ Kinds \cap {"hide", "batch"} # {}
    /\ \E ids \in {{i} : i \in DOMAIN list} \cup {DOMAIN list} :
         selected' = IF ids \subseteq selected THEN selected \ ids ELSE selected \cup ids
    /\ UNCHANGED <<db, kept, nextId, list, reads, log, writes, made, doubt>>

(***************************************************************************)
(* Dragging.  `latest` compares clientOrderRef with the number of the      *)
(* request.                                                                *)
(***************************************************************************)
\* moveAdminNodeInVisibleOrder: the list in its new order, numbered from 1
Moved(order, from, to) == InsertAt(RemoveAt(order, from), to, order[from])

Places(order) == [i \in Range(order) |-> CHOOSE k \in DOMAIN order : order[k] = i]

Superseded == {IF w.u.k = "order" THEN [w EXCEPT !.u.latest = FALSE] ELSE w : w \in writes}

\* updateClients: applied to the list, and recorded while a read runs
UpdateClients(u) ==
    /\ list' = Apply(u, list)
    /\ log' = IF Loading(reads) THEN Append(log, u) ELSE log

HandleDragEnd ==
    /\ made < MaxChanges /\ "order" \in Kinds
    /\ made' = made + 1
    /\ \E from, to \in 1 .. Cardinality(DOMAIN list) :
         /\ from # to
         /\ LET order == Moved(Shown(list), from, to) IN
            /\ UpdateClients([k |-> "order", places |-> Places(order)])
            /\ writes' = Superseded \cup
                 {Begun([k |-> "order", order |-> order, latest |-> TRUE,
                         before |-> [i \in DOMAIN list |-> list[i].so]], "page")}
    /\ UNCHANGED <<db, kept, nextId, selected, reads, doubt>>

(***************************************************************************)
(* The handlers: the table after the request, and what the answer says.    *)
(***************************************************************************)
Done(rows, u) == [rows |-> rows, u |-> u, ok |-> TRUE]
Refused(u) == [rows |-> db, u |-> u, ok |-> FALSE]

\* a new node goes to the last place
AddHandler(u) ==
    LET last == IF db = Empty THEN 0 ELSE CHOOSE n \in {db[i].so : i \in DOMAIN db} :
                                            \A i \in DOMAIN db : db[i].so <= n
        row == [Optimistic EXCEPT !.so = last + 1]
    IN Done(db @@ (nextId :> row), [k |-> "add", id |-> nextId, row |-> row])

\* the row is answered as the table holds it
EditHandler(u) ==
    IF u.id \notin DOMAIN db THEN Refused(u)
    ELSE LET row == [db[u.id] EXCEPT !.hidden = u.hidden, !.v = u.v]
         IN Done(Put(db, u.id, row), [k |-> "edit", id |-> u.id, row |-> row])

RemoveHandler(u) == IF u.ids \subseteq DOMAIN db THEN Done(Without(db, u.ids), u) ELSE Refused(u)

\* of a selection, nodes that have gone are passed over
BatchRemoveHandler(u) == Done(Without(db, u.ids), [k |-> "batch", ids |-> u.ids])
BatchHideHandler(u) == Done(Hide(db, u.ids), u)

RotateHandler(u) == IF u.id \in DOMAIN db THEN Done(db, u) ELSE Refused(u)

\* nodes that have gone are left out, nodes it does not name follow in their order
ReorderHandler(u) ==
    LET named == SelectSeq(u.order, LAMBDA i : i \in DOMAIN db)
        rest == SelectSeq(Shown(db), LAMBDA i : i \notin Range(named))
    IN Done(IF named = <<>> THEN db ELSE ApplyOrder(db, Places(named \o rest)), u)

\* the answer says which nodes of a drag were missing; the page does not look
Missing(u) == u.k = "order" /\ ~(Range(u.order) \subseteq DOMAIN db)

Handled(u) ==
    CASE u.k = "add"    -> AddHandler(u)
      [] u.k = "edit"   -> EditHandler(u)
      [] u.k = "remove" -> RemoveHandler(u)
      [] u.k = "batch"  -> BatchRemoveHandler(u)
      [] u.k = "hide"   -> BatchHideHandler(u)
      [] u.k = "rotate" -> RotateHandler(u)
      [] u.k = "order"  -> ReorderHandler(u)

Unsure == {[r EXCEPT !.sure = FALSE] : r \in reads}

\* an answer that is overtaken by a newer drag says nothing to the page
Overtaken(w) == w.u.k = "order" /\ ~w.u.latest

\* the change is stored; its answer reaches the browser or is lost
ServeWrite(w) ==
    /\ w.st = "sent"
    /\ LET h == Handled(w.u)
           others == {IF o.st = "stored" THEN [o EXCEPT !.late = TRUE] ELSE o : o \in writes \ {w}}
       IN /\ h.ok
          /\ db' = h.rows
          /\ kept' \in IF h.rows = db THEN {kept} ELSE {kept, db, h.rows}
          /\ nextId' = IF w.u.k = "add" THEN nextId + 1 ELSE nextId
          /\ \E heard \in BOOLEAN :
               /\ writes' = others \cup {[w EXCEPT !.u = h.u, !.late = Missing(w.u),
                                           !.st = IF heard THEN "stored" ELSE "failed"]}
               /\ IF heard /\ ~Overtaken(w)
                  THEN UNCHANGED <<reads, doubt>>
                  ELSE reads' = Unsure /\ doubt' = TRUE
    /\ UNCHANGED <<list, selected, log, made>>

\* the request is refused, or fails on its way
WriteRefused(w) ==
    /\ w.st = "sent"
    /\ writes' = (writes \ {w}) \cup {[w EXCEPT !.st = "failed"]}
    /\ UNCHANGED <<db, kept, nextId, list, selected, reads, log, made, doubt>>

(***************************************************************************)
(* Answers and notices.                                                    *)
(***************************************************************************)
\* what a confirmed change does to the list of the page that made it
Own(u) ==
    CASE u.k = "add"    -> <<u>>
      [] u.k = "edit"   -> <<u>>
      [] u.k = "hide"   -> <<[k |-> "hide", ids |-> u.ids]>>
      [] u.k \in {"remove", "batch"} -> <<[k |-> "remove", ids |-> u.ids]>>
      [] u.k = "order"  -> <<[k |-> "order", places |-> Places(u.order)]>>
      [] u.k = "rotate" -> <<>>

Delta(upsert, remove) == [k |-> "delta", upsert |-> upsert, remove |-> remove]

\* the rows a notice carries
Notice(u) ==
    CASE u.k = "add"    -> Delta(u.id :> u.row, {})
      [] u.k = "edit"   -> Delta(u.id :> u.row, {})
      [] u.k = "hide"   -> Delta([i \in DOMAIN u.rows |-> [u.rows[i] EXCEPT !.hidden = TRUE]], u.ids)
      [] u.k \in {"remove", "batch"} -> Delta(Empty, u.ids)
      [] u.k = "order"  -> Delta([i \in Range(u.order) |-> [so |-> Places(u.order)[i]]], {})
      [] u.k = "rotate" -> Delta(Empty, {})

\* sanitizePublicDataUpdate: a hidden row is not sent, the listeners read again
AsksForRead(d) == \E i \in DOMAIN d.upsert : "hidden" \in DOMAIN d.upsert[i] /\ d.upsert[i].hidden

\* an answer overtaken by another change may put older rows into the list
Trusted(w) == ~w.late

\* the updates us are made here, then the notice of the change w reaches this page
Confirm(us, w) ==
    LET u == w.u
        ups == IF AsksForRead(Notice(u)) THEN us ELSE Append(us, Notice(u)) IN
    /\ list' = FoldLeft(LAMBDA acc, x : Apply(x, acc), list, ups)
    /\ IF AsksForRead(Notice(u)) \/ u.k = "rotate"
       THEN LoadClients(TRUE)
       ELSE /\ log' = IF Loading(reads) THEN log \o ups ELSE log
            /\ reads' = IF Trusted(w) THEN reads ELSE Unsure

WriteSucceeds(w) ==
    /\ w.st = "stored" /\ w.by = "page" /\ ~Overtaken(w)
    /\ writes' = writes \ {w}
    /\ selected' = IF w.u.k \in {"hide", "batch"} THEN {} ELSE selected
    /\ Confirm(Own(w.u), w)
    /\ doubt' = (doubt \/ ~Trusted(w))
    /\ UNCHANGED <<db, kept, nextId, made>>

\* the notice of a change made elsewhere; a rotation has none but the live socket's
NoticeArrives(w) ==
    /\ w.st = "stored" /\ w.by = "other"
    /\ writes' = writes \ {w}
    /\ Confirm(<<>>, w)
    /\ doubt' = (doubt \/ ~Trusted(w) \/ AsksForRead(Notice(w.u)))
    /\ UNCHANGED <<db, kept, nextId, selected, made>>

WriteIgnored(w) ==
    /\ w.st # "sent" /\ Overtaken(w)
    /\ writes' = writes \ {w}
    /\ UNCHANGED <<db, kept, nextId, list, selected, reads, log, made, doubt>>

\* a failed drag goes back to the order before it and reads again; other
\* failures show an error and nothing more
WriteFails(w) ==
    /\ w.st = "failed" /\ ~Overtaken(w)
    /\ writes' = writes \ {w}
    /\ IF w.u.k = "order"
       THEN /\ list' = ApplyOrder(list, w.u.before)
            /\ doubt' = TRUE
            /\ LoadClients(TRUE)
       ELSE UNCHANGED <<list, doubt, reads, log>>
    /\ UNCHANGED <<db, kept, nextId, selected, made>>

Init ==
    /\ db = [i \in 1 .. Nodes |-> [Optimistic EXCEPT !.so = i]]
    /\ kept = db
    /\ nextId = Nodes + 1
    /\ list = Empty
    /\ selected = {}
    /\ reads = {NewRead(FALSE)}
    /\ log = <<>>
    /\ writes = {}
    /\ made = 0
    /\ doubt = TRUE

Next ==
    \/ \E r \in reads : ServeRead(r) \/ ReadArrives(r) \/ ReadFails(r)
    \/ Refresh \/ RefreshFresh \/ KeptExpires
    \/ Begin \/ BeginElsewhere \/ ToggleSelect \/ HandleDragEnd
    \/ \E w \in writes :
         \/ ServeWrite(w) \/ WriteRefused(w)
         \/ WriteSucceeds(w) \/ NoticeArrives(w) \/ WriteIgnored(w) \/ WriteFails(w)

Spec == Init /\ [][Next]_vars

(***************************************************************************)
(* Properties.                                                             *)
(***************************************************************************)
Rows == [so : Nat, hidden : BOOLEAN, v : Contents]

TypeOK ==
    /\ DOMAIN db \subseteq 1 .. nextId - 1 /\ \A i \in DOMAIN db : db[i] \in Rows
    /\ DOMAIN list \subseteq 1 .. nextId - 1 /\ \A i \in DOMAIN list : list[i] \in Rows
    /\ Cardinality({r \in reads : r.cur}) <= 1
    /\ (log # <<>>) => Loading(reads)

\* When every change has been answered, no read is under way and nothing
\* happened that the page was not told of or was told of in the wrong order, the
\* page shows the nodes, fields and order of the table: late answers of older
\* reads, changes confirmed during a read and a hidden node that a notice must
\* not carry leave no trace.
QuietIsTrue == (writes = {} /\ ~doubt /\ ~Loading(reads)) => Same(list, db)

\* A read that was asked for before a removal was confirmed does not bring the
\* node back onto the page.
Brings(u, i) == (u.k = "add" /\ u.id = i) \/ (u.k = "delta" /\ i \in DOMAIN u.upsert)

RemovedStaysAway ==
    [][\A r \in reads, n \in DOMAIN log :
         (r.cur /\ r \notin reads' /\ writes' = writes /\ list' # list /\ log[n].k = "remove")
           => \A i \in log[n].ids :
                (\A j \in n + 1 .. Len(log) : ~Brings(log[j], i)) => i \notin DOMAIN list']_vars

\* While the newest drag waits for its answer, the answers of earlier drags and
\* of reads leave the order it shows.
NewestDragStays ==
    [][\A w \in writes :
         (w.u.k = "order" /\ w.u.latest /\ w \in writes' /\ selected' = selected
            /\ (\E o \in writes : o \notin writes' /\ o.u.k = "order"))
           => Shown(list') = Shown(list)]_vars

=============================================================================
