--------------------------- MODULE PingTasksPage ---------------------------
(***************************************************************************)
(* The page of the ping tasks (frontend/src/pages/admin/PingTasks.tsx),    *)
(* the routes it calls and the two caches in front of the list             *)
(* (worker/src/routes/admin.ts).  The page shows the list it read and      *)
(* changes it with the answers of its own requests, which overlap: a save  *)
(* goes on when its dialog is closed, moves are not serialized, and a read *)
(* that was started by a failed move is not told apart from a newer one.   *)
(***************************************************************************)
EXTENDS Integers, Sequences, FiniteSets, SequencesExt

CONSTANTS
    Contents,       \* what a task says: name, type, target, servers
    Stored,         \* tasks at the beginning
    MaxChanges,     \* bound: writes sent
    MaxFaults       \* bound: requests that fail

TasksAssumption == {Stored, MaxChanges, MaxFaults} \subseteq Nat /\ Contents # {}

VARIABLES
    db,         \* ping_tasks in the order of sort_order
    nextId,     \* its sequence
    memory,     \* adminPingTasksCache of the isolate that serves the page: no list or one
    edge,       \* the edge cache: no list or one
    list,       \* the page: tasks
    loading,    \* the page: loading, which the first of two reads to end takes back
    failed,     \* the page: loadError
    dialog,     \* the page: Closed, Adding, or the task that is edited
    asked,      \* the page: the task whose deletion is to be confirmed, 0 if none
    reqs,       \* requests of the page; mine: the session of its dialog is the current one
    sent, faults,
    doubt,      \* history: requests overlapped in a way that the page does not sort out
    moved       \* history: "no", "moved" since the list was read, and "resorted" since then

vars == <<db, nextId, memory, edge, list, loading, failed, dialog, asked, reqs, sent, faults, doubt, moved>>

Closed == 0
Adding == -1
Ids == 1 .. (Stored + MaxChanges)
Ordered(s) == SortSeq(s, LAMBDA a, b : a.ord < b.ord)
Position(s, id) == CHOOSE i \in 1 .. Len(s) : s[i].id = id
IdsOf(s) == {s[i].id : i \in 1 .. Len(s)}

(***************************************************************************)
(* SQL.                                                                    *)
(***************************************************************************)
Appended(c) == Append(db, [id |-> nextId, c |-> c, ord |-> 1 + (IF db = <<>> THEN 0 ELSE Last(db).ord)])

Edited(id, c) == [i \in 1 .. Len(db) |-> IF db[i].id = id THEN [db[i] EXCEPT !.c = c] ELSE db[i]]

\* cfm_reorder_ping_tasks: the tasks named, then the others, numbered anew
Reordered(ids) ==
    LET all == ids \o SelectSeq([i \in 1 .. Len(db) |-> db[i].id], LAMBDA id : id \notin ToSet(ids)) IN
    [i \in 1 .. Len(all) |-> [db[Position(db, all[i])] EXCEPT !.ord = i]]

Removed(s, id) == SelectSeq(s, LAMBDA t : t.id # id)

(***************************************************************************)
(* Requests.                                                               *)
(***************************************************************************)
Request(kind, id, c, ids) ==
    [n |-> sent, kind |-> kind, id |-> id, c |-> c, ids |-> ids, mine |-> kind \in {"add", "edit"},
     st |-> "sent", value |-> <<>>]

\* Two requests whose answers the page does not put in order.
Conflict(r, q) ==
    \/ r.kind = "load" \/ q.kind = "load"
    \/ r.kind = "order" /\ q.kind = "order"
    \/ r.id = q.id /\ "edit" \in {r.kind, q.kind}

Send(r) ==
    /\ reqs' = reqs \cup {r}
    /\ doubt' = (doubt \/ \E q \in reqs : Conflict(r, q))

Write(r) == sent < MaxChanges /\ sent' = sent + 1 /\ Send(r)

\* useDialogSession: another session of the dialog begins or the current one ends
Disowned(rs) == {[r EXCEPT !.mine = FALSE] : r \in rs}

\* loadData; the page shows nothing but the wait, and its dialogs begin anew
LoadAfter(rs) ==
    /\ reqs' = Disowned(rs) \cup {Request("load", 0, 0, <<>>)}
    /\ loading' = TRUE /\ failed' = FALSE
    /\ doubt' = (doubt \/ rs # {})

(***************************************************************************)
(* The administrator.                                                      *)
(***************************************************************************)
Busy == \E r \in reqs : r.mine
AtPage == ~loading
\* The dialogs are modal.
Free == AtPage /\ dialog = Closed /\ asked = 0

\* openAdd, openEdit
Open(what) ==
    /\ Free /\ dialog' = what
    /\ reqs' = Disowned(reqs)
    /\ UNCHANGED <<db, nextId, memory, edge, list, loading, failed, asked, sent, faults, doubt, moved>>

Close ==
    /\ AtPage /\ dialog # Closed /\ dialog' = Closed
    /\ reqs' = Disowned(reqs)
    /\ UNCHANGED <<db, nextId, memory, edge, list, loading, failed, asked, sent, faults, doubt, moved>>

\* handleSave, of a form that is complete; begin refuses while a save of the session goes on
Save(c) ==
    /\ AtPage /\ dialog # Closed /\ ~Busy
    /\ Write(IF dialog = Adding THEN Request("add", 0, c, <<>>) ELSE Request("edit", dialog, c, <<>>))
    /\ UNCHANGED <<db, nextId, memory, edge, list, loading, failed, dialog, asked, faults, moved>>

\* setDeleteTask
Ask(id) ==
    /\ IF id = 0 THEN AtPage /\ asked # 0 ELSE Free
    /\ asked' = id
    /\ UNCHANGED <<db, nextId, memory, edge, list, loading, failed, dialog, reqs, sent, faults, doubt, moved>>

\* handleDelete; useAdminAction lets one at a time through
Delete ==
    /\ AtPage /\ asked # 0 /\ ~\E r \in reqs : r.kind = "delete"
    /\ Write(Request("delete", asked, 0, <<>>))
    /\ UNCHANGED <<db, nextId, memory, edge, list, loading, failed, dialog, asked, faults, moved>>

\* moveTask: the list at once, the server behind it
Move(i, j) ==
    LET next == [list EXCEPT ![i] = list[j], ![j] = list[i]] IN
    /\ Free /\ list' = next
    /\ Write(Request("order", 0, 0, [k \in 1 .. Len(list) |-> next[k].id]))
    /\ moved' = IF moved = "no" THEN "moved" ELSE moved
    /\ UNCHANGED <<db, nextId, memory, edge, loading, failed, dialog, asked, faults>>

Retry ==
    /\ Free /\ failed /\ LoadAfter(reqs)
    /\ UNCHANGED <<db, nextId, memory, edge, list, dialog, asked, sent, faults, moved>>

(***************************************************************************)
(* The worker.                                                             *)
(***************************************************************************)
\* GET /ping: the edge, the isolate, or SQL; what is older than SQL puts the page in doubt
Serve(r) ==
    LET value == CHOOSE v \in IF edge # {} THEN edge ELSE IF memory # {} THEN memory ELSE {db} : TRUE IN
    /\ r.kind = "load" /\ r.st = "sent"
    /\ reqs' = (reqs \ {r}) \cup {[r EXCEPT !.value = value,
                !.st = IF edge # {} THEN "answer" ELSE IF memory # {} THEN "put" ELSE "cache"]}
    /\ doubt' = (doubt \/ value # db)
    /\ UNCHANGED <<db, nextId, memory, edge, list, loading, failed, dialog, asked, sent, faults, moved>>

\* listAdminPingTasksCached and, in the background, putAdminPingTasksEdgeCache
Cache(r) ==
    /\ r.st \in {"put", "cache"}
    /\ memory' = IF r.st = "cache" THEN {r.value} ELSE memory
    /\ edge' = {r.value}
    /\ reqs' = (reqs \ {r}) \cup {[r EXCEPT !.st = "answer"]}
    /\ UNCHANGED <<db, nextId, list, loading, failed, dialog, asked, sent, faults, doubt, moved>>

\* Whether SQL takes a change: an unknown task is refused.
Accepts(r) ==
    CASE r.kind = "add" -> TRUE
      [] r.kind = "order" -> ToSet(r.ids) \subseteq IdsOf(db) /\ r.ids # <<>>
      [] OTHER -> r.id \in IdsOf(db)

Committed(r) ==
    CASE r.kind = "add" -> Appended(r.c)
      [] r.kind = "edit" -> Edited(r.id, r.c)
      [] r.kind = "order" -> Reordered(r.ids)
      [] r.kind = "delete" -> Removed(db, r.id)

\* POST /ping/add, edit, reorder, delete: the cache of the isolate that serves the change is
\* dropped, and the edge's, if its deletion gets through
Commit(r, here, purged) ==
    /\ r.kind # "load" /\ r.st = "sent" /\ Accepts(r)
    /\ db' = Committed(r)
    /\ nextId' = IF r.kind = "add" THEN nextId + 1 ELSE nextId
    /\ memory' = IF here THEN {} ELSE memory
    /\ edge' = IF purged THEN {} ELSE edge
    /\ reqs' = (reqs \ {r}) \cup {[r EXCEPT !.st = "answer",
                !.value = SelectSeq(db', LAMBDA t : t.id = IF r.kind = "add" THEN nextId ELSE r.id)]}
    /\ UNCHANGED <<list, loading, failed, dialog, asked, sent, faults, doubt, moved>>

Expire ==
    /\ \/ memory # {} /\ memory' = {} /\ UNCHANGED edge
       \/ edge # {} /\ edge' = {} /\ UNCHANGED memory
    /\ UNCHANGED <<db, nextId, list, loading, failed, dialog, asked, reqs, sent, faults, doubt, moved>>

(***************************************************************************)
(* The page gets the answers.                                              *)
(***************************************************************************)
\* setTasks of a list that was read
Loaded(r) ==
    /\ r.kind = "load" /\ r.st = "answer"
    /\ list' = r.value /\ loading' = FALSE
    /\ reqs' = reqs \ {r}
    /\ doubt' = (doubt /\ (r.value # db \/ reqs # {r}))
    /\ moved' = "no"
    /\ UNCHANGED <<db, nextId, memory, edge, failed, dialog, asked, sent, faults>>

LoadFails(r) ==
    /\ r.kind = "load" /\ r.st = "sent" /\ faults < MaxFaults
    /\ faults' = faults + 1 /\ loading' = FALSE /\ failed' = TRUE
    /\ reqs' = reqs \ {r}
    /\ UNCHANGED <<db, nextId, memory, edge, list, dialog, asked, sent, doubt, moved>>

\* onSaved: in place, or at the end of a list that is then sorted by the order it knows
Merged(t) ==
    IF t.id \in IdsOf(list) THEN [i \in 1 .. Len(list) |-> IF list[i].id = t.id THEN t ELSE list[i]]
    ELSE Ordered(Append(list, t))

\* a save that is still the dialog's closes it
Saved(r) ==
    /\ r.kind \in {"add", "edit"} /\ r.st = "answer"
    /\ list' = Merged(r.value[1])
    /\ dialog' = IF r.mine THEN Closed ELSE dialog
    /\ reqs' = reqs \ {r}
    /\ moved' = IF moved # "no" /\ r.value[1].id \notin IdsOf(list) THEN "resorted" ELSE moved
    /\ UNCHANGED <<db, nextId, memory, edge, loading, failed, asked, sent, faults, doubt>>

Deleted(r) ==
    /\ r.kind = "delete" /\ r.st = "answer"
    /\ list' = Removed(list, r.id)
    /\ asked' = 0
    /\ reqs' = reqs \ {r}
    /\ UNCHANGED <<db, nextId, memory, edge, loading, failed, dialog, sent, faults, doubt, moved>>

\* the order is in place already; the tasks keep the sort_order they were read with
Moved(r) ==
    /\ r.kind = "order" /\ r.st = "answer"
    /\ reqs' = reqs \ {r}
    /\ UNCHANGED <<db, nextId, memory, edge, list, loading, failed, dialog, asked, sent, faults, doubt, moved>>

\* a change is refused, or it or its answer is lost; only a move reads the list again
Refused(r) ==
    /\ r.kind # "load" /\ r.st = "sent"
    /\ \/ ~Accepts(r) /\ UNCHANGED faults
       \/ faults < MaxFaults /\ faults' = faults + 1
    /\ IF r.kind = "order" THEN LoadAfter(reqs \ {r})
       ELSE reqs' = reqs \ {r} /\ UNCHANGED <<loading, failed, doubt>>
    /\ UNCHANGED <<db, nextId, memory, edge, list, dialog, asked, sent, moved>>

AnswerLost(r) ==
    /\ r.kind # "load" /\ r.st = "answer" /\ faults < MaxFaults
    /\ faults' = faults + 1
    /\ IF r.kind = "order" THEN LoadAfter(reqs \ {r})
       ELSE reqs' = reqs \ {r} /\ doubt' = TRUE /\ UNCHANGED <<loading, failed>>
    /\ UNCHANGED <<db, nextId, memory, edge, list, dialog, asked, sent, moved>>

(***************************************************************************)
(* The page.                                                               *)
(***************************************************************************)
Init ==
    /\ db = [i \in 1 .. Stored |-> [id |-> i, c |-> CHOOSE c \in Contents : TRUE, ord |-> i]]
    /\ nextId = Stored + 1 /\ memory = {} /\ edge = {}
    /\ list = <<>> /\ loading = TRUE /\ failed = FALSE /\ dialog = Closed /\ asked = 0
    /\ sent = 0 /\ reqs = {Request("load", 0, 0, <<>>)}
    /\ faults = 0 /\ doubt = FALSE /\ moved = "no"

Next ==
    \/ Open(Adding) \/ Close \/ Delete \/ Retry \/ Expire
    \/ \E i \in 1 .. Len(list) : Open(list[i].id) \/ Ask(list[i].id)
    \/ Ask(0)
    \/ \E c \in Contents : Save(c)
    \/ \E i \in 1 .. Len(list) - 1 : Move(i, i + 1)
    \/ \E r \in reqs :
        \/ Serve(r) \/ Cache(r) \/ \E here, purged \in BOOLEAN : Commit(r, here, purged)
        \/ Loaded(r) \/ LoadFails(r) \/ Saved(r) \/ Deleted(r) \/ Moved(r)
        \/ Refused(r) \/ AnswerLost(r)

Spec == Init /\ [][Next]_vars

(***************************************************************************)
(* Properties.                                                             *)
(***************************************************************************)
Task == [id : Ids, c : Contents, ord : Nat]

TypeOK ==
    /\ \A s \in {db, list} \cup memory \cup edge : s \in Seq(Task)
    /\ Cardinality(memory) <= 1 /\ Cardinality(edge) <= 1
    /\ Cardinality(IdsOf(list)) = Len(list) /\ Cardinality(IdsOf(db)) = Len(db)
    /\ Cardinality({r \in reqs : r.mine}) <= 1

\* A page at rest shows the tasks that are stored, and in their order, although saves, a
\* deletion and a move overlapped and were answered in another order than they were made.
\* Not in the order: a task that is added after a move has the list sorted by the order that
\* was read before the move.
PageIsTrue ==
    (reqs = {} /\ ~failed /\ ~doubt) =>
        /\ {<<list[i].id, list[i].c>> : i \in 1 .. Len(list)} = {<<db[i].id, db[i].c>> : i \in 1 .. Len(db)}
        /\ moved # "resorted" => \A i \in 1 .. Len(list) : list[i].id = db[i].id

=============================================================================
