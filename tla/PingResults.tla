---------------------------- MODULE PingResults ----------------------------
(***************************************************************************)
(* How LiveDataDO writes an agent's ping results to SQL                    *)
(* (worker/src/do/live-data.ts, persistQueuedPingResult).  The writes of a *)
(* client run one after another.  Results that come too early are left     *)
(* out, results that did not change are left out until a heartbeat is due, *)
(* and the rest is one row.  A report is sent again with its own time when *)
(* no acknowledgement came, which may be after its row was committed.      *)
(*                                                                         *)
(* A report is numbered by its place in the agent's queue.  The settings   *)
(* and the capacity fuse, which drop all of a report, are in               *)
(* RecordCapacity.                                                         *)
(***************************************************************************)
EXTENDS Integers, Sequences

CONSTANTS
    Tasks,          \* ping tasks
    Values,         \* measured values; Lost is a lost packet
    Lost,           \* PING_LOSS_VALUE
    NumReports,     \* bound: reports of the agent
    HttpReports,    \* the reports that POST /ping/result carries: not sent again
    Spacing,        \* time between two reports
    Interval,       \* pingResultIntervalMs of each task
    Heartbeat,      \* PING_UNCHANGED_HEARTBEAT_MS
    Change,         \* PING_VALUE_CHANGE_THRESHOLD_MS
    MaxQueue        \* bound: writes that wait

Reports == 1..NumReports
Time(r) == r * Spacing

PingAssumption ==
    /\ NumReports \in Nat /\ Values \subseteq Int /\ Lost \in Values
    /\ HttpReports \subseteq Reports /\ Spacing \in Nat \ {0} /\ Interval \in [Tasks -> Nat \ {0}]
    /\ Heartbeat \in Nat \ {0} /\ Change \in Nat \ {0} /\ MaxQueue \in Nat

VARIABLES
    value,      \* what report r measured for each task
    done,       \* reports that the agent need not send again
    queue,      \* pingWriteQueues: writes that wait or run
    batch,      \* the row of the running write; no tasks before it is known
    pc,         \* the running write
    state,      \* storage: pingResultState of each task; at = 0 for none
    rows,       \* SQL: ping_snapshots
    failed      \* history: reports over HTTP that got an error or no answer

vars == <<value, done, queue, batch, pc, state, rows, failed>>

NoBatch == [t \in {} |-> 0]
Never == [last |-> 0, value |-> 0, at |-> 0]

\* shouldPersistPingResult.
ShouldPersist(v, s, now) ==
    LET gap == IF v > s.value THEN v - s.value ELSE s.value - v
    IN  \/ s.at = 0
        \/ (v = Lost) # (s.value = Lost)
        \/ v # Lost /\ gap >= Change
        \/ now - s.at >= Heartbeat

Ends(acknowledged) ==
    /\ done' = IF acknowledged \/ Head(queue) \in HttpReports THEN done \cup {Head(queue)} ELSE done
    /\ failed' = IF ~acknowledged /\ Head(queue) \in HttpReports THEN failed \cup {Head(queue)} ELSE failed
    /\ queue' = Tail(queue)
    /\ pc' = "idle"
    /\ batch' = NoBatch

-----------------------------------------------------------------------------
\* The agent sends its reports in order, the first one that is not done again and again.
Send(r) ==
    /\ r \notin done
    /\ \A q \in 1..r - 1 : q \in done
    /\ r \in HttpReports => \A i \in 1..Len(queue) : queue[i] # r
    /\ Len(queue) < MaxQueue
    /\ queue' = Append(queue, r)
    /\ UNCHANGED <<value, done, batch, pc, state, rows, failed>>

Due(r) ==
    {t \in Tasks : state[t].last = 0 \/ Time(r) - state[t].last >= Interval[t]}

Changed(r) == \E t \in Due(r) : ShouldPersist(value[r][t], state[t], Time(r))

\* writePingResultState: the time of the last result.
Passed(tasks, r) ==
    [t \in Tasks |-> IF t \in tasks THEN [state[t] EXCEPT !.last = Time(r)] ELSE state[t]]

\* Mutant: the interval is used up before the row is written.
FilterReserving ==
    /\ pc = "idle" /\ queue # <<>>
    /\ LET r == Head(queue)
       IN  /\ state' = Passed(Due(r), r)
           /\ IF Changed(r)
              THEN /\ pc' = "insert" /\ batch' = [t \in Due(r) |-> value[r][t]]
                   /\ UNCHANGED <<done, queue, failed>>
              ELSE Ends(TRUE)
    /\ UNCHANGED <<value, rows>>

\* filterTrustedPingResultsByInterval: one changed result takes every due one along;
\* without any, only the time of the last result is kept.
Filter ==
    /\ pc = "idle" /\ queue # <<>>
    /\ LET r == Head(queue)
       IN  IF Changed(r)
           THEN /\ pc' = "insert"
                /\ batch' = [t \in Due(r) |-> value[r][t]]
                /\ UNCHANGED <<done, queue, state, failed>>
           ELSE state' = Passed(Due(r), r) /\ Ends(TRUE)
    /\ UNCHANGED <<value, rows>>

\* The times are written one after the other, and one of the writes fails.
FilterFails ==
    /\ pc = "idle" /\ queue # <<>> /\ ~Changed(Head(queue))
    /\ \E tasks \in SUBSET Due(Head(queue)) : state' = Passed(tasks, Head(queue))
    /\ Ends(FALSE)
    /\ UNCHANGED <<value, rows>>

Row == [time |-> Time(Head(queue)), values |-> batch]

\* cfm_insert_ping_snapshot: the same row again is not stored twice.
Insert ==
    /\ pc = "insert"
    /\ pc' = "mark"
    /\ rows' = rows \cup {Row}
    /\ UNCHANGED <<value, done, queue, batch, state, failed>>

\* The call fails, before or after the row was committed; the report is rejected.
InsertFails ==
    /\ pc = "insert"
    /\ rows' \in {rows, rows \cup {Row}}
    /\ Ends(FALSE)
    /\ UNCHANGED <<value, state>>

Marked(t) == [last |-> IF state[t].last > Row.time THEN state[t].last ELSE Row.time,
              value |-> batch[t], at |-> Row.time]

\* markPingResultsPersisted: the states of all tasks of the row in one write.
Mark ==
    /\ pc = "mark"
    /\ state' = [t \in Tasks |-> IF t \in DOMAIN batch THEN Marked(t) ELSE state[t]]
    /\ Ends(TRUE)
    /\ UNCHANGED <<value, rows>>

MarkFails ==
    /\ pc = "mark"
    /\ Ends(FALSE)
    /\ UNCHANGED <<value, state, rows>>

\* The object restarts: what waits is gone, and its senders get no answer.
Restart ==
    /\ queue # <<>>
    /\ queue' = <<>> /\ pc' = "idle" /\ batch' = NoBatch
    /\ LET unanswered == {r \in HttpReports : \E i \in 1..Len(queue) : queue[i] = r}
       IN  done' = done \cup unanswered /\ failed' = failed \cup unanswered
    /\ UNCHANGED <<value, state, rows>>

-----------------------------------------------------------------------------
Init ==
    /\ value \in [Reports -> [Tasks -> Values]]
    /\ done = {} /\ queue = <<>> /\ batch = NoBatch /\ pc = "idle"
    /\ state = [t \in Tasks |-> Never]
    /\ rows = {} /\ failed = {}

Next ==
    \/ \E r \in Reports : Send(r)
    \/ Filter \/ FilterFails \/ Insert \/ InsertFails \/ Mark \/ MarkFails \/ Restart

Spec == Init /\ [][Next]_vars

-----------------------------------------------------------------------------
(* Properties *)

\* The variables have their types.
TypeOK ==
    /\ value \in [Reports -> [Tasks -> Values]]
    /\ done \subseteq Reports /\ failed \subseteq HttpReports
    /\ queue \in Seq(Reports) /\ Len(queue) <= MaxQueue
    /\ pc \in {"idle", "insert", "mark"}
    /\ DOMAIN batch \subseteq Tasks
    /\ pc # "idle" => queue # <<>>
    /\ state \in [Tasks -> [last : Nat, value : Int, at : Nat]]

\* A result is stored at most once, although a report is sent again when its row was
\* committed and the answer was lost, the states could not be written, or the object
\* restarted: the second attempt chooses the same tasks (markPingResultsPersisted).
StoredOnce ==
    \A a, b \in rows : a.time = b.time /\ DOMAIN a.values \cap DOMAIN b.values # {} => a = b

\* Row a shows the result of r for t: it is the last one of t at that time, and nothing has
\* changed since.
Shows(a, r, t) ==
    /\ a.time <= Time(r) /\ t \in DOMAIN a.values
    /\ \A q \in Reports \ failed, b \in rows :
         b.time = Time(q) /\ a.time < b.time /\ b.time <= Time(r) => t \notin DOMAIN b.values
    /\ ~ShouldPersist(value[r][t], [last |-> 0, value |-> a.values[t], at |-> a.time], Time(r))

\* The history shows what an acknowledged report measured: the last stored value of the
\* task at that time is the same up to the threshold, and both or none are losses; a result
\* that came too early is covered by one less than an interval before.  Rows of a POST
\* /ping/result that failed after the commit are left out: the states do not know of them,
\* and nobody sends them again.
ShownInHistory ==
    \A r \in done \ HttpReports, t \in Tasks :
      \E q \in Reports : /\ q <= r /\ Time(r) - Time(q) < Interval[t]
                         /\ \E a \in rows : Shows(a, q, t)

\* A ping result is stored at most once, although inserts and marks fail before and after
\* the commit and reports are sent again, and the history shows what was acknowledged.
HistoryIsExact == StoredOnce /\ ShownInHistory
=============================================================================
