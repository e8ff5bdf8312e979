--------------------------- MODULE RecordCapacity ---------------------------
(***************************************************************************)
(* The fuse that stops history writes when the database is nearly full     *)
(* (worker/src/do/live-data.ts, canPersistWithinCapacity).  It blows when  *)
(* the usage reaches the high watermark and resumes at 80% of it; the last *)
(* decision is cached in memory and in the storage of the object, for a    *)
(* time that depends on how near the limit is.  Writes of several clients  *)
(* measure at once, an administrator saves the settings, and the object    *)
(* restarts in between.                                                    *)
(*                                                                         *)
(* Times are countdowns, usage and limit are in the same unit (rows or     *)
(* estimated bytes: the code takes the worse of the two ratios).           *)
(***************************************************************************)
EXTENDS Integers

CONSTANTS
    Clients,        \* clients whose reports are written
    Limits,         \* high watermarks that an administrator may set
    Refreshes,      \* BOOLEAN: the settings may be saved
    MaxUsage,       \* bound: usage of the database
    Far, Near, Critical     \* RECORD_CAPACITY_CACHE_*_MS

CapacityAssumption ==
    /\ Limits \subseteq Nat \ {0} /\ Refreshes \in BOOLEAN /\ MaxUsage \in Nat
    /\ Critical \in Nat \ {0} /\ Near \in Nat /\ Far \in Nat /\ Critical < Near /\ Near < Far

VARIABLES
    usage,      \* SQL: estimated live storage
    limit,      \* the high watermark of the settings
    mem,        \* recordCapacityBlocked, recordCapacityNextCheckAt
    stored,     \* record:capacity:snapshot
    writer      \* the writes under way: where they are, what they measured

vars == <<usage, limit, mem, stored, writer>>

Idle == [pc |-> "idle", seen |-> 0]
Cold == [blocked |-> FALSE, due |-> 0]
Low(u, l) == u * 10 <= 8 * l

\* evaluateHistoryCapacity: blocked from the limit up, until 80% is reached again.
Blocked(was, seen) == IF was THEN ~Low(seen, limit) ELSE seen >= limit

\* capacityCheckDelayMs.
Delay(blocked, seen) ==
    IF blocked \/ seen * 100 >= 95 * limit THEN Critical
    ELSE IF seen * 10 >= 8 * limit THEN Near ELSE Far

Goes(c, blocked) == [writer EXCEPT ![c] = [Idle EXCEPT !.pc = IF blocked THEN "idle" ELSE "write"]]

-----------------------------------------------------------------------------
\* Mutant: a blown fuse is not measured again.
BeginUnlessBlocked(c) ==
    /\ writer[c].pc = "idle"
    /\ IF mem.due > 0 \/ mem.blocked
       THEN mem' = mem /\ writer' = Goes(c, mem.blocked)
       ELSE mem' = mem /\ writer' = [writer EXCEPT ![c] = [pc |-> "measure", seen |-> usage]]
    /\ UNCHANGED <<usage, limit, stored>>

\* A write asks the fuse.  What is in memory counts while it is fresh, then what is in
\* storage; a snapshot that is too old still says whether the fuse had blown.
Begin(c) ==
    /\ writer[c].pc = "idle"
    /\ LET same == stored.limit = limit
           kept == IF same THEN [mem EXCEPT !.blocked = stored.blocked] ELSE mem
       IN  IF mem.due > 0
           THEN mem' = mem /\ writer' = Goes(c, mem.blocked)
           ELSE IF same /\ stored.due > 0
           THEN mem' = [kept EXCEPT !.due = stored.due] /\ writer' = Goes(c, stored.blocked)
           ELSE mem' = kept /\ writer' = [writer EXCEPT ![c] = [pc |-> "measure", seen |-> usage]]
    /\ UNCHANGED <<usage, limit, stored>>

\* Mutant: the decision forgets that the fuse had blown.
MeasuredAnew(c) ==
    /\ writer[c].pc = "measure"
    /\ LET seen == writer[c].seen
           blocked == Blocked(FALSE, seen)
       IN  /\ mem' = [blocked |-> blocked, due |-> Delay(blocked, seen)]
           /\ stored' = [blocked |-> blocked, due |-> Delay(blocked, seen), usage |-> seen, limit |-> limit]
           /\ writer' = Goes(c, blocked)
    /\ UNCHANGED <<usage, limit>>

\* The measurement is there: it is judged with what memory says at this moment.
Measured(c) ==
    /\ writer[c].pc = "measure"
    /\ LET seen == writer[c].seen
           blocked == Blocked(mem.blocked, seen)
       IN  /\ mem' = [blocked |-> blocked, due |-> Delay(blocked, seen)]
           /\ stored' = [blocked |-> blocked, due |-> Delay(blocked, seen), usage |-> seen, limit |-> limit]
           /\ writer' = Goes(c, blocked)
    /\ UNCHANGED <<usage, limit>>

\* It fails: the last decision stands for a while.
MeasureFails(c) ==
    /\ writer[c].pc = "measure"
    /\ mem' = [mem EXCEPT !.due = Near]
    /\ writer' = Goes(c, mem.blocked)
    /\ UNCHANGED <<usage, limit, stored>>

\* insertRecord or insertPingSnapshot, which may also fail.
Insert(c) ==
    /\ writer[c].pc = "write"
    /\ usage' \in {usage} \cup {u \in {usage + 1} : u <= MaxUsage}
    /\ writer' = [writer EXCEPT ![c] = Idle]
    /\ UNCHANGED <<limit, mem, stored>>

\* Records are cleared, by an administrator or by the daily maintenance.
Clear ==
    /\ \E u \in 0..usage - 1 : usage' = u
    /\ UNCHANGED <<limit, mem, stored, writer>>

\* POST /record-settings-refresh: the settings are read, memory is invalidated.
SettingsRefresh ==
    /\ Refreshes
    /\ limit' \in Limits
    /\ mem' = Cold
    /\ UNCHANGED <<usage, stored, writer>>

\* The object restarts: memory and the writes under way are gone.
Restart ==
    /\ mem' = Cold
    /\ writer' = [c \in Clients |-> Idle]
    /\ UNCHANGED <<usage, limit, stored>>

Less(n) == IF n > 0 THEN n - 1 ELSE 0

Tick ==
    /\ mem.due > 0 \/ stored.due > 0
    /\ mem' = [mem EXCEPT !.due = Less(@)]
    /\ stored' = [stored EXCEPT !.due = Less(@)]
    /\ UNCHANGED <<usage, limit, writer>>

-----------------------------------------------------------------------------
Init ==
    /\ usage \in 0..MaxUsage
    /\ limit \in Limits
    /\ mem = Cold
    /\ stored = [blocked |-> FALSE, due |-> 0, usage |-> 0, limit |-> 0]
    /\ writer = [c \in Clients |-> Idle]

Next ==
    \/ \E c \in Clients : Begin(c) \/ Measured(c) \/ MeasureFails(c) \/ Insert(c)
    \/ Clear \/ SettingsRefresh \/ Restart \/ Tick

\* Clients report for ever; a measurement that is repeated succeeds some time; time passes.
Fairness ==
    /\ WF_vars(Tick)
    /\ \A c \in Clients : /\ WF_vars(Begin(c)) /\ WF_vars(Insert(c))
                          /\ WF_vars(Measured(c) \/ MeasureFails(c)) /\ SF_vars(Measured(c))

Spec == Init /\ [][Next]_vars /\ Fairness

-----------------------------------------------------------------------------
(* Properties *)

\* The variables have their types.
TypeOK ==
    /\ usage \in 0..MaxUsage /\ limit \in Limits
    /\ mem \in [blocked : BOOLEAN, due : 0..Far]
    /\ stored \in [blocked : BOOLEAN, due : 0..Far, usage : 0..MaxUsage, limit : Limits \cup {0}]
    /\ writer \in [Clients -> [pc : {"idle", "measure", "write"}, seen : 0..MaxUsage]]

\* A blown fuse resumes only after a measurement at 80% of the same limit or less:
\* not between 80% and 100%, not because of a restart, of a failed measurement, or of
\* several measurements that end in another order (readReusableRecordCapacitySnapshot).
FuseKept ==
    (stored.blocked /\ ~stored'.blocked /\ stored.limit = stored'.limit)
      => Low(stored'.usage, stored'.limit)

\* Once the records are cleared the fuse resumes by itself, also when measurements
\* failed in between (capacityCheckDelayMs, the snapshot in storage).
Waits == mem.blocked /\ usage * 10 <= 8 * limit

=============================================================================
