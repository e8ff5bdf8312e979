------------------------------- MODULE MCWork -------------------------------
(*****************************************************************************)
(* Background work of the worker and of LiveDataDO, each on a small          *)
(* instance.  A behaviour of this module is a behaviour of one of them: the  *)
(* others stay in their initial states, so that their state spaces add up    *)
(* and TLC checks them in one run.  At the end of the module are the proofs  *)
(* of what the fuse and the website monitor keep safe, for every value of    *)
(* their constants.                                                          *)
(*****************************************************************************)
EXTENDS Integers, FiniteSetTheorems, TLAPS

CONSTANTS
    Nil,        \* a model value: the absent value of every component
    Clients, Limits, MaxUsage, Critical, Near, Far,   \* RecordCapacity
    Lead,       \* one of the clients
    MaxJobs, MaxTime, MaxRevision   \* WebsiteMonitor

VARIABLES
    part,       \* the component that moves in this behaviour
    usage, limit, capacityMem, stored, writer,   \* RecordCapacity
    now, row, checks, assigned, report, job, recheck, probe,   \* WebsiteMonitor
    slot, cursors, present, backlog, due, run, scheduledMem, served, changes, faults   \* ScheduledRuns

Capacity == INSTANCE RecordCapacity WITH
    Refreshes <- FALSE, mem <- capacityMem

Refresh == INSTANCE RecordCapacity WITH
    Limits <- {6}, Refreshes <- TRUE, MaxUsage <- 6, mem <- capacityMem

Monitor == INSTANCE WebsiteMonitor WITH NoJob <- Nil

Scheduled == INSTANCE ScheduledRuns WITH
    Budget <- 4, StepNeed <- 1, ItemNeed <- 2, Rules <- 2, Groups <- 1, Plans <- 1,
    Targets <- 1, Sites <- 1, Alerts <- 1, MaxBacklog <- 1, MaxChanges <- 1, MaxFaults <- 1,
    mem <- scheduledMem

\* The constants have values that the components are made for.
ASSUME InstanceAssumption ==
    /\ Capacity!CapacityAssumption /\ Refresh!CapacityAssumption /\ Monitor!MonitorAssumption
    /\ Scheduled!RunAssumption

-----------------------------------------------------------------------------
capacityVars == <<usage, limit, capacityMem, stored, writer>>
monitorVars == <<now, row, checks, assigned, report, job, recheck, probe>>
scheduledVars == <<slot, cursors, present, backlog, due, run, scheduledMem, served, changes,
                   faults>>

Parts == {"capacity", "refresh", "monitor", "scheduled"}

\* Every component is in an initial state, all but one for good.
Init ==
    /\ part \in Parts
    /\ IF part = "refresh" THEN Refresh!Init ELSE Capacity!Init
    /\ part # "capacity" => (part # "refresh" => usage = 0)
    /\ Monitor!Init
    /\ Scheduled!Init
    /\ part # "scheduled" => slot = 0

\* In a behaviour only one component moves.
InCapacity == part = "capacity" /\ UNCHANGED <<part, monitorVars, scheduledVars>>
InRefresh == part = "refresh" /\ UNCHANGED <<part, monitorVars, scheduledVars>>
InMonitor == part = "monitor" /\ UNCHANGED <<part, capacityVars, scheduledVars>>
InScheduled == part = "scheduled" /\ UNCHANGED <<part, capacityVars, monitorVars>>

Next ==
    \/ InCapacity /\ Capacity!Next
    \/ InRefresh /\ Refresh!Next
    \/ InMonitor /\ Monitor!Next
    \/ InScheduled /\ Scheduled!Next

vars == <<part, capacityVars, monitorVars, scheduledVars>>

\* The components are scheduled as their modules say (Fairness, FairSpec); one that
\* does not move in this behaviour owes nothing.  A requirement of strong fairness
\* stands for one of each component.
Weak ==
    /\ WF_vars((InCapacity /\ Capacity!Tick) \/ (InRefresh /\ Refresh!Tick))
    /\ \A c \in Clients :
        /\ WF_vars((InCapacity /\ Capacity!Begin(c)) \/ (InRefresh /\ Refresh!Begin(c)))
        /\ WF_vars((InCapacity /\ Capacity!Insert(c)) \/ (InRefresh /\ Refresh!Insert(c)))
        /\ WF_vars(\/ InCapacity /\ (Capacity!Measured(c) \/ Capacity!MeasureFails(c))
                   \/ InRefresh /\ (Refresh!Measured(c) \/ Refresh!MeasureFails(c)))
    /\ WF_vars(InMonitor /\ Monitor!RecheckStarts(1))
    /\ WF_vars(InScheduled /\ Scheduled!Work)

Strong ==
    /\ \A c \in Clients :
        SF_vars(\/ InCapacity /\ Capacity!Measured(c)
                \/ InRefresh /\ Refresh!Measured(c)
                \/ InMonitor /\ IF c = Lead THEN Monitor!Replay(1) ELSE \E ok \in BOOLEAN : Monitor!Looked(1, ok))
    /\ SF_vars(InMonitor /\ Monitor!RecheckEnds(1))

Fairness == Weak /\ Strong

Spec == Init /\ [][Next]_vars /\ Fairness

-----------------------------------------------------------------------------
\* The component that moves keeps the types of its module.
TypesAreKept ==
    /\ part = "capacity" => Capacity!TypeOK
    /\ part = "refresh" => Refresh!TypeOK
    /\ part = "monitor" => Monitor!TypeOK
    /\ part = "scheduled" => Scheduled!TypeOK

\* The state of a website comes from the newest result of its present configuration,
\* however late rechecks and results of agents end, and a reported failure is covered by
\* a job or a state as new (queueWebsiteRecheck, recordWebsiteCheck).
LateResultsAreHarmless == Monitor!StateIsNewest /\ Monitor!FailureIsCovered

\* A blown fuse resumes only after a measurement at 80% of the same limit or less, although
\* two clients measure at once, measurements fail and LiveDataDO restarts
\* (canPersistWithinCapacity; while no settings are saved).
FuseHolds == [][part = "capacity" => Capacity!FuseKept]_vars

\* The same when settings are saved while a measurement is under way
\* (POST /record-settings-refresh).
FuseHoldsOnRefresh == [][part = "refresh" => Refresh!FuseKept]_vars

\* Deferred work comes to its end: a recheck is done (alarm), the records' fuse resumes
\* after a clear, also when settings are saved (canPersistWithinCapacity), and old rows
\* are deleted batch by batch (runRecordCleanup), although calls fail, measurements fail
\* and runs are cut off.
Deferred ==
    \/ part = "monitor" /\ job[1] # Nil
    \/ part = "capacity" /\ Capacity!Waits
    \/ part = "refresh" /\ Refresh!Waits
    \/ part = "scheduled" /\ backlog > 0
DeferredIsDone == Deferred ~> ~Deferred

\* However little of the work fits into one scheduled run, every rule and every target of
\* a load rule gets its turn again and again, and so do the websites (runScheduled).
TurnsComeBack ==
    /\ []TypesAreKept
    /\ \A x \in Scheduled!RuleItems : []<>(part = "scheduled" => Scheduled!Turn(x))
    /\ []<>(part = "scheduled" => served.list \in {"sites", "alerts"})

-----------------------------------------------------------------------------
(* The fuse: the inductive invariant and the proofs *)

\* A decision that is in force, or that a measurement under way will be judged with, is the
\* one in storage.
MemoryFits ==
    (capacityMem.due > 0 \/ \E c \in Clients : writer[c].pc = "measure") => capacityMem.blocked = stored.blocked

\* Only a measurement against the limit blows the fuse.
BlownByLimit == capacityMem.blocked \/ stored.blocked => stored.limit = limit

FuseInv == Capacity!TypeOK /\ MemoryFits /\ BlownByLimit

\* A write goes on or is dropped; the other ones stay where they are.
LEMMA GoesOn ==
    ASSUME Capacity!CapacityAssumption, Capacity!TypeOK, NEW c \in Clients, NEW blocked \in BOOLEAN
    PROVE  /\ Capacity!Goes(c, blocked) \in [Clients -> [pc : {"idle", "measure", "write"}, seen : 0..MaxUsage]]
           /\ Capacity!Goes(c, blocked)[c].pc # "measure"
           /\ \A d \in Clients \ {c} : Capacity!Goes(c, blocked)[d] = writer[d]
<1>1. PICK w : w = [Capacity!Idle EXCEPT !.pc = IF blocked THEN "idle" ELSE "write"]
    OBVIOUS
<1>2. w = [pc |-> IF blocked THEN "idle" ELSE "write", seen |-> 0]
    BY <1>1 DEF Capacity!Idle
<1>3. MaxUsage \in Nat
    BY DEF Capacity!CapacityAssumption
<1>4. w \in [pc : {"idle", "measure", "write"}, seen : 0..MaxUsage] /\ w.pc # "measure"
    BY <1>2, <1>3
<1> QED BY <1>1, <1>4 DEF Capacity!Goes, Capacity!TypeOK

\* The time until the next measurement.
LEMMA DelayIsShort ==
    ASSUME Capacity!CapacityAssumption, NEW blocked \in BOOLEAN, NEW seen
    PROVE  Capacity!Delay(blocked, seen) \in 0..Far
    BY DEF Capacity!Delay, Capacity!CapacityAssumption

\* A write that measures takes over what is in storage.
LEMMA FuseBegin ==
    ASSUME Capacity!CapacityAssumption, FuseInv, NEW c \in Clients, Capacity!Begin(c)
    PROVE  FuseInv'
<1>1. Capacity!TypeOK /\ MemoryFits /\ BlownByLimit /\ UNCHANGED <<usage, limit, stored>>
    BY DEF FuseInv, Capacity!Begin
<1>2. CASE capacityMem.due > 0
  <2>1. capacityMem' = capacityMem /\ writer' = Capacity!Goes(c, capacityMem.blocked) /\ capacityMem.blocked \in BOOLEAN
      BY <1>1, <1>2 DEF Capacity!Begin, Capacity!TypeOK
  <2> QED BY <1>1, <1>2, <2>1, GoesOn DEF FuseInv, Capacity!TypeOK, MemoryFits, BlownByLimit
<1>3. CASE ~(capacityMem.due > 0) /\ stored.limit = limit /\ stored.due > 0
  <2>1. capacityMem' = [[capacityMem EXCEPT !.blocked = stored.blocked] EXCEPT !.due = stored.due]
        /\ writer' = Capacity!Goes(c, stored.blocked)
      BY <1>3 DEF Capacity!Begin
  <2>2. capacityMem = [blocked |-> capacityMem.blocked, due |-> capacityMem.due] /\ stored.blocked \in BOOLEAN
      BY <1>1 DEF Capacity!TypeOK
  <2>3. capacityMem' = [blocked |-> stored.blocked, due |-> stored.due]
      BY <2>1, <2>2
  <2> QED BY <1>1, <1>3, <2>1, <2>2, <2>3, GoesOn DEF FuseInv, Capacity!TypeOK, MemoryFits, BlownByLimit
<1>4. CASE ~(capacityMem.due > 0) /\ ~(stored.limit = limit /\ stored.due > 0)
  <2>1. writer' = [writer EXCEPT ![c] = [pc |-> "measure", seen |-> usage]]
      BY <1>4 DEF Capacity!Begin
  <2>2. capacityMem' = IF stored.limit = limit THEN [blocked |-> stored.blocked, due |-> capacityMem.due] ELSE capacityMem
      BY <1>1, <1>4 DEF Capacity!Begin, Capacity!TypeOK
  <2>3. capacityMem'.blocked = stored.blocked
      BY <1>1, <2>2 DEF BlownByLimit, Capacity!TypeOK
  <2> QED BY <1>1, <2>1, <2>2, <2>3 DEF FuseInv, Capacity!TypeOK, MemoryFits, BlownByLimit
<1> QED BY <1>2, <1>3, <1>4

\* A measurement is judged with the decision in storage, so it resumes the writes only at 80%.
LEMMA FuseMeasured ==
    ASSUME Capacity!CapacityAssumption, FuseInv, NEW c \in Clients, Capacity!Measured(c)
    PROVE  FuseInv' /\ Capacity!FuseKept
<1>1. Capacity!TypeOK /\ MemoryFits /\ writer[c].pc = "measure" /\ UNCHANGED <<usage, limit>>
    BY DEF FuseInv, Capacity!Measured
<1>2. PICK seen : seen = writer[c].seen
    OBVIOUS
<1>3. PICK blocked : blocked = Capacity!Blocked(capacityMem.blocked, seen)
    OBVIOUS
<1>4. blocked \in BOOLEAN /\ seen \in 0..MaxUsage
  <2>1. blocked \in BOOLEAN
    <3>1. CASE capacityMem.blocked
        BY <1>3, <3>1 DEF Capacity!Blocked
    <3>2. CASE ~capacityMem.blocked
        BY <1>3, <3>2 DEF Capacity!Blocked
    <3> QED BY <3>1, <3>2
  <2> QED BY <1>1, <1>2, <2>1 DEF Capacity!TypeOK
<1>5. PICK wait : wait = Capacity!Delay(blocked, seen)
    OBVIOUS
<1>6. wait \in 0..Far
    BY <1>4, <1>5, DelayIsShort
<1>7. /\ capacityMem' = [blocked |-> blocked, due |-> wait]
      /\ stored' = [blocked |-> blocked, due |-> wait, usage |-> seen, limit |-> limit]
      /\ writer' = Capacity!Goes(c, blocked)
    BY <1>2, <1>3, <1>5 DEF Capacity!Measured
<1>8. FuseInv'
    BY <1>1, <1>4, <1>6, <1>7, GoesOn DEF FuseInv, Capacity!TypeOK, MemoryFits, BlownByLimit
<1>9. ASSUME stored.blocked, ~blocked PROVE Capacity!Low(seen, limit)
    BY <1>1, <1>3, <1>9 DEF MemoryFits, Capacity!Blocked
<1> QED BY <1>7, <1>8, <1>9 DEF Capacity!FuseKept

\* The last decision stays in force.
LEMMA FuseMeasureFails ==
    ASSUME Capacity!CapacityAssumption, FuseInv, NEW c \in Clients, Capacity!MeasureFails(c)
    PROVE  FuseInv'
<1>1. Capacity!TypeOK /\ MemoryFits /\ BlownByLimit /\ writer[c].pc = "measure" /\ UNCHANGED <<usage, limit, stored>>
    BY DEF FuseInv, Capacity!MeasureFails
<1>2. capacityMem' = [blocked |-> capacityMem.blocked, due |-> Near] /\ capacityMem.blocked \in BOOLEAN
    BY <1>1 DEF Capacity!MeasureFails, Capacity!TypeOK
<1>3. writer' = Capacity!Goes(c, capacityMem.blocked)
    BY DEF Capacity!MeasureFails
<1>4. Near \in 0..Far
    BY DEF Capacity!CapacityAssumption
<1> QED BY <1>1, <1>2, <1>3, <1>4, GoesOn DEF FuseInv, Capacity!TypeOK, MemoryFits, BlownByLimit

\* A write is none of the measurements.
LEMMA FuseInsert ==
    ASSUME Capacity!CapacityAssumption, FuseInv, NEW c \in Clients, Capacity!Insert(c)
    PROVE  FuseInv'
<1>1. Capacity!TypeOK /\ MemoryFits /\ BlownByLimit /\ UNCHANGED <<limit, capacityMem, stored>>
    BY DEF FuseInv, Capacity!Insert
<1>2. writer' = [writer EXCEPT ![c] = [pc |-> "idle", seen |-> 0]]
    BY DEF Capacity!Insert, Capacity!Idle
<1>3. usage' \in 0..MaxUsage
    BY <1>1 DEF Capacity!Insert, Capacity!TypeOK
<1>4. writer' \in [Clients -> [pc : {"idle", "measure", "write"}, seen : 0..MaxUsage]]
    BY <1>1, <1>2 DEF Capacity!TypeOK, Capacity!CapacityAssumption
<1>5. \A d \in Clients : writer'[d].pc = "measure" => writer[d].pc = "measure"
    BY <1>1, <1>2 DEF Capacity!TypeOK
<1> QED BY <1>1, <1>3, <1>4, <1>5 DEF FuseInv, Capacity!TypeOK, MemoryFits, BlownByLimit

\* The object restarts without a decision in memory and without measurements.
LEMMA FuseRestart ==
    ASSUME Capacity!CapacityAssumption, FuseInv, Capacity!Restart
    PROVE  FuseInv'
<1>1. Capacity!TypeOK /\ BlownByLimit /\ UNCHANGED <<usage, limit, stored>>
    BY DEF FuseInv, Capacity!Restart
<1>2. capacityMem' = [blocked |-> FALSE, due |-> 0] /\ writer' = [c \in Clients |-> [pc |-> "idle", seen |-> 0]]
    BY DEF Capacity!Restart, Capacity!Cold, Capacity!Idle
<1>3. capacityMem' \in [blocked : BOOLEAN, due : 0..Far]
    BY <1>2 DEF Capacity!CapacityAssumption
<1>4. writer' \in [Clients -> [pc : {"idle", "measure", "write"}, seen : 0..MaxUsage]]
    BY <1>2 DEF Capacity!CapacityAssumption
<1>5. Capacity!TypeOK'
    BY <1>1, <1>3, <1>4 DEF Capacity!TypeOK
<1>6. ~(capacityMem'.due > 0) /\ ~capacityMem'.blocked /\ \A c \in Clients : writer'[c].pc # "measure"
    BY <1>2
<1>7. MemoryFits' /\ BlownByLimit'
    BY <1>1, <1>6 DEF MemoryFits, BlownByLimit
<1> QED BY <1>5, <1>7 DEF FuseInv

\* Time passes: a decision goes out of force.
LEMMA FuseTick ==
    ASSUME Capacity!CapacityAssumption, FuseInv, Capacity!Tick
    PROVE  FuseInv' /\ stored'.blocked = stored.blocked
<1>1. Capacity!TypeOK /\ MemoryFits /\ BlownByLimit /\ UNCHANGED <<usage, limit, writer>>
    BY DEF FuseInv, Capacity!Tick
<1>2. /\ capacityMem' = [blocked |-> capacityMem.blocked, due |-> Capacity!Less(capacityMem.due)]
      /\ stored' = [blocked |-> stored.blocked, due |-> Capacity!Less(stored.due), usage |-> stored.usage, limit |-> stored.limit]
    BY <1>1 DEF Capacity!Tick, Capacity!TypeOK
<1>3. /\ Capacity!Less(capacityMem.due) \in 0..Far /\ Capacity!Less(stored.due) \in 0..Far
      /\ Capacity!Less(capacityMem.due) > 0 => capacityMem.due > 0
    BY <1>1 DEF Capacity!TypeOK, Capacity!Less, Capacity!CapacityAssumption
<1> QED BY <1>1, <1>2, <1>3 DEF FuseInv, Capacity!TypeOK, MemoryFits, BlownByLimit

\* The object is new.
LEMMA FuseInit == Capacity!CapacityAssumption /\ Capacity!Init => FuseInv
<1> SUFFICES ASSUME Capacity!CapacityAssumption, Capacity!Init PROVE FuseInv
    OBVIOUS
<1>1. /\ capacityMem = [blocked |-> FALSE, due |-> 0] /\ writer = [c \in Clients |-> [pc |-> "idle", seen |-> 0]]
      /\ stored = [blocked |-> FALSE, due |-> 0, usage |-> 0, limit |-> 0]
      /\ usage \in 0..MaxUsage /\ limit \in Limits
    BY DEF Capacity!Init, Capacity!Cold, Capacity!Idle
<1>2. Capacity!TypeOK
    BY <1>1 DEF Capacity!TypeOK, Capacity!CapacityAssumption
<1>3. ~(capacityMem.due > 0) /\ ~capacityMem.blocked /\ ~stored.blocked
      /\ \A c \in Clients : writer[c].pc # "measure"
    BY <1>1
<1> QED BY <1>2, <1>3 DEF FuseInv, MemoryFits, BlownByLimit

\* The inductive invariant of the fuse while no settings are saved, and what a step may do.
LEMMA FuseStep ==
    ASSUME Capacity!CapacityAssumption, FuseInv, [Capacity!Next]_Capacity!vars
    PROVE  FuseInv' /\ Capacity!FuseKept
<1>1. CASE UNCHANGED Capacity!vars
    BY <1>1 DEF Capacity!vars, FuseInv, Capacity!TypeOK, MemoryFits, BlownByLimit, Capacity!FuseKept
<1>2. ASSUME NEW c \in Clients, Capacity!Begin(c) PROVE FuseInv' /\ Capacity!FuseKept
    BY <1>2, FuseBegin DEF Capacity!Begin, Capacity!FuseKept
<1>3. ASSUME NEW c \in Clients, Capacity!MeasureFails(c) PROVE FuseInv' /\ Capacity!FuseKept
    BY <1>3, FuseMeasureFails DEF Capacity!MeasureFails, Capacity!FuseKept
<1>4. ASSUME NEW c \in Clients, Capacity!Insert(c) PROVE FuseInv' /\ Capacity!FuseKept
    BY <1>4, FuseInsert DEF Capacity!Insert, Capacity!FuseKept
<1>5. CASE Capacity!Clear
  <2>1. PICK u \in 0..usage - 1 : usage' = u /\ UNCHANGED <<limit, capacityMem, stored, writer>>
      BY <1>5 DEF Capacity!Clear
  <2>2. usage' \in 0..MaxUsage
      BY <2>1 DEF FuseInv, Capacity!TypeOK, Capacity!CapacityAssumption
  <2> QED BY <2>1, <2>2 DEF FuseInv, Capacity!TypeOK, MemoryFits, BlownByLimit, Capacity!FuseKept
<1>6. CASE Capacity!Restart
    BY <1>6, FuseRestart DEF Capacity!Restart, Capacity!FuseKept
<1>7. CASE Capacity!Tick
    BY <1>7, FuseTick DEF Capacity!FuseKept
<1>8. CASE Capacity!SettingsRefresh
    BY <1>8 DEF Capacity!SettingsRefresh
<1> QED BY <1>1, <1>2, <1>3, <1>4, <1>5, <1>6, <1>7, <1>8, FuseMeasured DEF Capacity!Next

-----------------------------------------------------------------------------
(* The website monitor: the inductive invariant and the proofs *)

Failures == {c \in Monitor!Checks : c.source = "agent" /\ ~c.ok}
Sites == [rev : Monitor!Revisions, enabled : BOOLEAN, at : 0..MaxTime, status : {"pending", "paused", "up", "down"}]
Sent == [pc : {"sent", "record"}, check : {c \in Monitor!Checks : c.source = "agent"}]
Under == [pc : {"replay", "http", "end"}, job : Failures, at : 0..MaxTime]

\* Types, and nothing is of a configuration or a time to come.
MonitorTypes ==
    /\ now \in Monitor!Times /\ assigned \in Monitor!Revisions /\ row \in Sites
    /\ checks \subseteq Monitor!Checks /\ (\A h \in checks : h.rev <= row.rev)
    /\ report # Nil => report \in Sent /\ report.check.rev <= row.rev /\ report.check.at <= now
    /\ probe # Nil => probe \in [rev : Monitor!Revisions, at : Monitor!Times]
    /\ job \in [Monitor!Revisions -> Failures \cup {Nil}]
    /\ \A r \in Monitor!Revisions : job[r] # Nil => job[r].rev = r /\ r <= row.rev /\ job[r].at <= now
    /\ recheck \in [Monitor!Revisions -> Under \cup {Nil}]
    /\ Cardinality(Monitor!Pending) <= MaxJobs

\* A monitor that is switched off has no results.
OffIsEmpty == ~row.enabled => \A h \in checks : h.rev # row.rev

\* The failure is not about the present configuration, or the state is as new.
Settled(c) == row.rev = c.rev /\ row.enabled => row.at >= c.at
\* Or there is a job as new.
Covered(c) == Settled(c) \/ (job[c.rev] # Nil /\ job[c.rev].at >= c.at)

\* A recheck works on a job that is there, or on one that a newer failure has replaced; when
\* it ends the state is as new.
Fits(r) ==
    recheck[r] # Nil =>
        /\ recheck[r].job.rev = r /\ job[r] # Nil /\ job[r].at >= recheck[r].job.at
        /\ recheck[r].pc = "http" => recheck[r].at >= recheck[r].job.at /\ recheck[r].at \in Monitor!Times
        /\ recheck[r].pc = "end" => Settled(recheck[r].job)
RechecksFit == \A r \in Monitor!Revisions : Fits(r)

\* A reported failure is covered before it is recorded.
ReportsFit == report # Nil /\ report.pc = "record" /\ ~report.check.ok => Covered(report.check)

MonitorInv ==
    MonitorTypes /\ OffIsEmpty /\ RechecksFit /\ ReportsFit /\ Monitor!StateIsNewest /\ Monitor!FailureIsCovered

\* The instance of the monitor counts sets as this module does.
LEMMA SameCardinality == \A S : Monitor!Cardinality(S) = Cardinality(S)
    BY DEF Monitor!Cardinality, Cardinality

\* What cfm_record_website_check leaves behind; the failure of an agent is covered.
LEMMA MonitorRecorded ==
    ASSUME Monitor!MonitorAssumption, MonitorInv, NEW c \in Monitor!Checks, Monitor!Record(c),
           c.source = "agent" /\ ~c.ok => Covered(c), UNCHANGED job
    PROVE  /\ row' \in Sites /\ row'.rev = row.rev /\ row'.enabled = row.enabled /\ row'.at >= row.at
           /\ checks' \subseteq Monitor!Checks /\ \A h \in checks' : h.rev <= row.rev
           /\ OffIsEmpty' /\ Monitor!StateIsNewest' /\ Monitor!FailureIsCovered'
           /\ c.source = "worker" => Settled(c)'
<1>1. row \in Sites /\ checks \subseteq Monitor!Checks /\ (\A h \in checks : h.rev <= row.rev) /\ MaxTime \in Nat
    BY DEF MonitorInv, MonitorTypes, Monitor!MonitorAssumption
<1>2. row.rev \in Monitor!Revisions /\ row.enabled \in BOOLEAN /\ row.at \in 0..MaxTime
      /\ row.status \in {"pending", "paused", "up", "down"}
    BY <1>1 DEF Sites
<1>3. c.at \in Monitor!Times /\ c.rev \in Monitor!Revisions /\ c.ok \in BOOLEAN /\ c.source \in {"worker", "agent"}
    BY DEF Monitor!Checks
<1>4. \A h \in checks : h.at \in Monitor!Times /\ h.ok \in BOOLEAN /\ h.source \in {"worker", "agent"} /\ h.rev \in Monitor!Revisions
    BY <1>1 DEF Monitor!Checks
<1>5. CASE ~Monitor!Accepts(c)
  <2>1. row' = row /\ checks' = checks
      BY <1>5 DEF Monitor!Record, Monitor!sql
  <2>2. ASSUME c.source = "worker" PROVE Settled(c)
    <3> SUFFICES ASSUME row.rev = c.rev, row.enabled, ~(row.at >= c.at) PROVE FALSE
        BY DEF Settled
    <3>1. c.at > row.at
        BY <1>2, <1>3 DEF Monitor!Times
    <3>2. PICK h \in checks : h.source = c.source /\ h.at >= c.at /\ h.rev = row.rev
        BY <1>5, <3>1 DEF Monitor!Accepts
    <3> QED BY <2>2, <3>1, <3>2, <1>2, <1>3, <1>4 DEF MonitorInv, Monitor!StateIsNewest, Monitor!Times
  <2>3. OffIsEmpty' /\ Monitor!StateIsNewest' /\ Monitor!FailureIsCovered'
      BY <2>1 DEF MonitorInv, OffIsEmpty, Monitor!StateIsNewest, Monitor!FailureIsCovered
  <2>4. c.source = "worker" => Settled(c)'
      BY <2>1, <2>2 DEF Settled
  <2>5. row'.at >= row.at
      BY <1>2, <2>1
  <2> QED BY <1>1, <2>1, <2>3, <2>4, <2>5
<1>6. CASE Monitor!Accepts(c) /\ c.source = "agent" /\ ~c.ok
  <2>1. row' = row /\ checks' = checks \cup {c} /\ row.enabled /\ c.rev = row.rev
      BY <1>6 DEF Monitor!Record, Monitor!Accepts
  <2>2. Monitor!StateIsNewest'
      BY <1>6, <2>1 DEF MonitorInv, Monitor!StateIsNewest
  <2>3. Monitor!FailureIsCovered'
      BY <1>2, <1>3, <1>6, <2>1 DEF MonitorInv, Monitor!FailureIsCovered, Covered, Settled, Monitor!Times
  <2>4. OffIsEmpty' /\ row'.at >= row.at
      BY <1>2, <2>1 DEF OffIsEmpty
  <2>5. checks' \subseteq Monitor!Checks /\ \A h \in checks' : h.rev <= row.rev
      BY <1>1, <1>2, <2>1 DEF Monitor!Revisions
  <2> QED BY <1>1, <1>6, <2>1, <2>2, <2>3, <2>4, <2>5
<1>7. CASE Monitor!Accepts(c) /\ ~(c.source = "agent" /\ ~c.ok)
  <2>1. /\ checks' = checks \cup {c} /\ row.enabled /\ c.rev = row.rev /\ c.at > row.at
        /\ row' = [rev |-> row.rev, enabled |-> row.enabled, at |-> c.at, status |-> IF c.ok THEN "up" ELSE "down"]
      BY <1>7 DEF Monitor!Record, Monitor!Accepts
  <2>2. /\ row'.rev = row.rev /\ row'.enabled = row.enabled /\ row'.at = c.at
        /\ row'.status = (IF c.ok THEN "up" ELSE "down")
      BY <1>1, <2>1 DEF Sites
  <2>3. row' \in Sites
    <3>1. c.at \in 0..MaxTime /\ (IF c.ok THEN "up" ELSE "down") \in {"pending", "paused", "up", "down"}
        BY <1>1, <1>3 DEF Monitor!Times
    <3> QED BY <1>2, <2>1, <3>1 DEF Sites
  <2>4. \A h \in checks : h.rev = row.rev /\ (h.ok \/ h.source = "worker") => h.at <= c.at
      BY <1>2, <1>3, <1>4, <2>1 DEF MonitorInv, Monitor!StateIsNewest, Monitor!Times
  <2>5. \E h \in checks' : h.rev = row'.rev /\ h.at = row'.at /\ h.ok = (row'.status = "up")
      BY <1>3, <2>1, <2>2
  <2>6. Monitor!StateIsNewest'
      BY <1>3, <2>1, <2>2, <2>4, <2>5 DEF Monitor!StateIsNewest, Monitor!Times
  <2>7. Monitor!FailureIsCovered'
      BY <1>2, <1>3, <1>4, <1>7, <2>1, <2>2 DEF MonitorInv, Monitor!FailureIsCovered, Monitor!Times
  <2>8. Settled(c)'
      BY <1>3, <2>2 DEF Settled, Monitor!Times
  <2>9. OffIsEmpty' /\ row'.at >= row.at
      BY <1>2, <1>3, <2>1, <2>2 DEF OffIsEmpty, Monitor!Times
  <2>10. checks' \subseteq Monitor!Checks /\ \A h \in checks' : h.rev <= row.rev
      BY <1>1, <1>2, <2>1 DEF Monitor!Revisions
  <2> QED BY <2>2, <2>3, <2>6, <2>7, <2>8, <2>9, <2>10
<1> QED BY <1>5, <1>6, <1>7

\* What was settled or covered stays so when the row of the same configuration gets newer.
LEMMA StaysSettled ==
    ASSUME Monitor!MonitorAssumption, NEW c \in Monitor!Checks, row \in Sites, row' \in Sites, row'.rev = row.rev,
           row'.enabled = row.enabled, row'.at >= row.at, Settled(c)
    PROVE  Settled(c)'
<1>1. row.at \in Nat /\ row'.at \in Nat /\ c.at \in Nat
    BY DEF Sites, Monitor!Checks, Monitor!Times, Monitor!MonitorAssumption
<1> QED BY <1>1 DEF Settled

\* Nothing has happened yet.
LEMMA MonitorInit == Monitor!MonitorAssumption /\ Monitor!Init => MonitorInv
<1> SUFFICES ASSUME Monitor!MonitorAssumption, Monitor!Init PROVE MonitorInv
    OBVIOUS
<1>1. Monitor!Pending = {}
    BY DEF Monitor!Init, Monitor!Pending
<1>2. Cardinality(Monitor!Pending) = 0
    BY <1>1, FS_EmptySet
<1>3. MonitorTypes
    BY <1>2 DEF Monitor!Init, MonitorTypes, Monitor!MonitorAssumption, Sites, Monitor!Times, Monitor!Revisions
<1> QED BY <1>3 DEF Monitor!Init, MonitorInv, OffIsEmpty, RechecksFit, Fits, ReportsFit, Monitor!StateIsNewest, Monitor!FailureIsCovered

\* Times and revisions are numbers.
LEMMA MonitorNumbers ==
    ASSUME Monitor!MonitorAssumption
    PROVE  /\ \A c \in Monitor!Checks : c.at \in Nat /\ c.rev \in Nat
           /\ \A site \in Sites : site.at \in Nat /\ site.rev \in Nat
           /\ \A t \in Monitor!Times : t \in Nat
           /\ \A t \in 0..MaxTime : t \in Nat
           /\ \A r \in Monitor!Revisions : r \in Nat
    BY DEF Monitor!Checks, Sites, Monitor!Times, Monitor!Revisions, Monitor!MonitorAssumption

\* A step that leaves the jobs and the configuration alone: what it says of the report and of
\* the rechecks is enough.
LEMMA MonitorKeeps ==
    ASSUME Monitor!MonitorAssumption, MonitorInv, job' = job, assigned' \in Monitor!Revisions, now' \in Monitor!Times, now' >= now,
           row' \in Sites, row'.rev = row.rev, row'.enabled = row.enabled, row'.at >= row.at,
           checks' \subseteq Monitor!Checks, \A h \in checks' : h.rev <= row.rev,
           OffIsEmpty', Monitor!StateIsNewest', Monitor!FailureIsCovered',
           report' # Nil => report' \in Sent /\ report'.check.rev <= row.rev /\ report'.check.at <= now,
           report' # Nil /\ report'.pc = "record" /\ ~report'.check.ok => Covered(report'.check),
           probe' # Nil => probe' \in [rev : Monitor!Revisions, at : Monitor!Times],
           recheck' \in [Monitor!Revisions -> Under \cup {Nil}],
           \A r \in Monitor!Revisions : recheck'[r] = recheck[r] \/ Fits(r)'
    PROVE  MonitorInv'
<1>1. /\ now \in Monitor!Times /\ row \in Sites /\ job \in [Monitor!Revisions -> Failures \cup {Nil}]
      /\ \A r \in Monitor!Revisions : job[r] # Nil => job[r].rev = r /\ r <= row.rev /\ job[r].at <= now
      /\ Cardinality(Monitor!Pending) <= MaxJobs
    BY DEF MonitorInv, MonitorTypes
<1>2. Monitor!Pending' = Monitor!Pending
    BY DEF Monitor!Pending
<1>3. \A r \in Monitor!Revisions : job[r] # Nil => job[r] \in Monitor!Checks
    BY <1>1 DEF Failures
<1>4. \A r \in Monitor!Revisions : job[r] # Nil => job[r].at <= now'
    BY <1>1, <1>3, MonitorNumbers
<1>5. report' # Nil => report' \in Sent /\ report'.check.rev <= row'.rev /\ report'.check.at <= now'
  <2> SUFFICES ASSUME report' # Nil PROVE report' \in Sent /\ report'.check.rev <= row'.rev /\ report'.check.at <= now'
      OBVIOUS
  <2>1. report'.check \in Monitor!Checks
      BY DEF Sent
  <2> QED BY <1>1, <2>1, MonitorNumbers
<1>6. MonitorTypes'
    BY <1>1, <1>2, <1>4, <1>5 DEF MonitorTypes
<1>7. ASSUME NEW r \in Monitor!Revisions PROVE Fits(r)'
  <2> SUFFICES ASSUME recheck'[r] = recheck[r], recheck[r] # Nil PROVE Fits(r)'
      BY DEF Fits
  <2>1. Fits(r) /\ recheck[r] \in Under
      BY DEF MonitorInv, RechecksFit, MonitorTypes
  <2>2. recheck[r].job \in Monitor!Checks
      BY <2>1 DEF Under, Failures
  <2>3. recheck[r].pc = "end" => Settled(recheck[r].job)'
    <3> DEFINE c == recheck[r].job
    <3>1. recheck[r].pc = "end" => Settled(c)
        BY <2>1 DEF Fits
    <3>2. c.at \in Nat /\ row.at \in Nat /\ row'.at \in Nat
        BY <1>1, <2>2, MonitorNumbers
    <3>3. recheck'[r].job = c
        OBVIOUS
    <3> HIDE DEF c
    <3> QED BY <3>1, <3>2, <3>3, <2>1 DEF Settled, c
  <2> QED BY <2>1, <2>3 DEF Fits
<1>8. ReportsFit'
  <2> SUFFICES ASSUME report' # Nil, report'.pc = "record", ~report'.check.ok PROVE Covered(report.check)'
      BY DEF ReportsFit
  <2> DEFINE c == report'.check
  <2>1. c \in Monitor!Checks /\ Covered(c)
      BY DEF Sent
  <2>2. c.at \in Nat /\ row.at \in Nat /\ row'.at \in Nat
      BY <1>1, <2>1, MonitorNumbers
  <2> HIDE DEF c
  <2> QED BY <2>1, <2>2 DEF Covered, Settled, c
<1> QED BY <1>6, <1>7, <1>8 DEF MonitorInv, RechecksFit

\* What the invariant says of the variables that a step leaves alone.
LEMMA MonitorStands ==
    ASSUME Monitor!MonitorAssumption, MonitorInv
    PROVE  /\ assigned \in Monitor!Revisions /\ now \in Monitor!Times /\ now >= now /\ row \in Sites /\ row.at >= row.at
           /\ checks \subseteq Monitor!Checks /\ \A h \in checks : h.rev <= row.rev
           /\ OffIsEmpty /\ Monitor!StateIsNewest /\ Monitor!FailureIsCovered
           /\ report # Nil => report \in Sent /\ report.check.rev <= row.rev /\ report.check.at <= now
           /\ report # Nil /\ report.pc = "record" /\ ~report.check.ok => Covered(report.check)
           /\ probe # Nil => probe \in [rev : Monitor!Revisions, at : Monitor!Times]
           /\ recheck \in [Monitor!Revisions -> Under \cup {Nil}]
<1>1. now \in Monitor!Times /\ row \in Sites
    BY DEF MonitorInv, MonitorTypes
<1>2. now >= now /\ row.at >= row.at
    BY <1>1, MonitorNumbers
<1> QED BY <1>1, <1>2 DEF MonitorInv, MonitorTypes, ReportsFit

\* The same for the result of cfm_record_website_check and for none.
LEMMA SqlStands ==
    ASSUME Monitor!MonitorAssumption, MonitorInv, UNCHANGED <<row, checks, job>>
    PROVE  /\ row' \in Sites /\ row'.rev = row.rev /\ row'.enabled = row.enabled /\ row'.at >= row.at
           /\ checks' \subseteq Monitor!Checks /\ \A h \in checks' : h.rev <= row.rev
           /\ OffIsEmpty' /\ Monitor!StateIsNewest' /\ Monitor!FailureIsCovered'
    BY MonitorStands DEF OffIsEmpty, Monitor!StateIsNewest, Monitor!FailureIsCovered

\* Agents.
LEMMA MonitorAgentProbes ==
    ASSUME Monitor!MonitorAssumption, MonitorInv, NEW r \in Monitor!Revisions, NEW ok \in BOOLEAN, Monitor!AgentProbes(r, ok)
    PROVE  MonitorInv'
<1>1. UNCHANGED <<now, row, checks, assigned, job, recheck, probe>> /\ r <= row.rev
      /\ report' = [pc |-> "sent", check |-> [rev |-> r, at |-> now, ok |-> ok, source |-> "agent"]]
    BY DEF Monitor!AgentProbes
<1>2. report' \in Sent /\ report'.check.rev <= row.rev /\ report'.check.at <= now /\ report'.pc = "sent"
    BY <1>1, MonitorStands DEF Sent, Monitor!Checks
<1>3. report' # Nil /\ report'.pc = "record" /\ ~report'.check.ok => Covered(report'.check)
    BY <1>2
<1> QED BY <1>1, <1>2, <1>3, MonitorStands, SqlStands, MonitorKeeps

\* LiveDataDO reads the tasks again.
LEMMA MonitorTasksRead ==
    ASSUME Monitor!MonitorAssumption, MonitorInv, Monitor!TasksRead
    PROVE  MonitorInv'
<1>1. UNCHANGED <<now, row, checks, report, job, recheck, probe>> /\ assigned' = row.rev
    BY DEF Monitor!TasksRead
<1>2. assigned' \in Monitor!Revisions
    BY <1>1, MonitorStands DEF Sites
<1> QED BY <1>1, <1>2, MonitorStands, SqlStands, MonitorKeeps

\* What an agent reports is recorded after it was covered (recordWebsiteCheck).
LEMMA MonitorReportRecorded ==
    ASSUME Monitor!MonitorAssumption, MonitorInv, Monitor!ReportRecorded
    PROVE  MonitorInv'
<1>1. UNCHANGED <<now, assigned, job, recheck, probe>> /\ report' = Nil /\ Monitor!Record(report.check)
      /\ report # Nil /\ report.pc = "record"
    BY DEF Monitor!ReportRecorded
<1>2. report.check \in Monitor!Checks /\ report.check.rev <= row.rev
      /\ (report.check.source = "agent" /\ ~report.check.ok => Covered(report.check))
    BY <1>1, MonitorStands DEF Sent
<1>3. /\ row' \in Sites /\ row'.rev = row.rev /\ row'.enabled = row.enabled /\ row'.at >= row.at
      /\ checks' \subseteq Monitor!Checks /\ \A h \in checks' : h.rev <= row.rev
      /\ OffIsEmpty' /\ Monitor!StateIsNewest' /\ Monitor!FailureIsCovered'
    BY <1>1, <1>2, MonitorRecorded
<1> QED BY <1>1, <1>3, MonitorStands, MonitorKeeps

\* A report that fails comes again.
LEMMA MonitorReportFails ==
    ASSUME Monitor!MonitorAssumption, MonitorInv, Monitor!ReportFails
    PROVE  MonitorInv'
<1>1. UNCHANGED <<now, assigned, job, recheck, probe>> /\ report # Nil /\ report.pc = "record"
      /\ report' = [report EXCEPT !.pc = "sent"] /\ (UNCHANGED Monitor!sql \/ Monitor!Record(report.check))
    BY DEF Monitor!ReportFails
<1>2. report.check \in Monitor!Checks /\ report.check.rev <= row.rev /\ report \in Sent /\ report.check.at <= now
      /\ (report.check.source = "agent" /\ ~report.check.ok => Covered(report.check))
    BY <1>1, MonitorStands DEF Sent
<1>3. /\ row' \in Sites /\ row'.rev = row.rev /\ row'.enabled = row.enabled /\ row'.at >= row.at
      /\ checks' \subseteq Monitor!Checks /\ \A h \in checks' : h.rev <= row.rev
      /\ OffIsEmpty' /\ Monitor!StateIsNewest' /\ Monitor!FailureIsCovered'
  <2>1. CASE UNCHANGED Monitor!sql
    <3>1. UNCHANGED <<row, checks, job>>
        BY <1>1, <2>1 DEF Monitor!sql
    <3> QED BY <3>1, SqlStands
  <2>2. CASE Monitor!Record(report.check)
      BY <1>1, <1>2, <2>2, MonitorRecorded
  <2> QED BY <1>1, <2>1, <2>2
<1>4. report' \in Sent /\ report'.check = report.check /\ report'.pc = "sent"
    BY <1>1, <1>2 DEF Sent
<1>5. report' # Nil => report' \in Sent /\ report'.check.rev <= row.rev /\ report'.check.at <= now
    BY <1>2, <1>4
<1>6. report' # Nil /\ report'.pc = "record" /\ ~report'.check.ok => Covered(report'.check)
    BY <1>4
<1> QED BY <1>1, <1>3, <1>5, <1>6, MonitorStands, MonitorKeeps

\* The alarm.
LEMMA MonitorRecheckStarts ==
    ASSUME Monitor!MonitorAssumption, MonitorInv, NEW r \in Monitor!Revisions, Monitor!RecheckStarts(r)
    PROVE  MonitorInv'
<1> DEFINE next == [pc |-> IF Monitor!StillIn(row, job[r]) THEN "replay" ELSE "end", job |-> job[r], at |-> 0]
<1>1. UNCHANGED <<now, row, checks, assigned, report, job, probe>> /\ job[r] # Nil
      /\ recheck' = [recheck EXCEPT ![r] = next]
    BY DEF Monitor!RecheckStarts
<1>2. job[r] \in Failures /\ job[r].rev = r /\ job[r].at <= now /\ job[r] \in Monitor!Checks
    BY <1>1 DEF MonitorInv, MonitorTypes, Failures
<1>3. next \in Under
    BY <1>2 DEF Under, Monitor!MonitorAssumption
<1>4. recheck' \in [Monitor!Revisions -> Under \cup {Nil}] /\ recheck'[r] = next
      /\ \A q \in Monitor!Revisions : q # r => recheck'[q] = recheck[q]
    BY <1>1, <1>3, MonitorStands
<1>5. Fits(r)'
  <2>1. job[r].at \in Nat /\ row.at \in Nat
      BY <1>2, MonitorStands, MonitorNumbers
  <2>2. next.pc = "end" => Settled(job[r])
      BY <2>1 DEF Monitor!StillIn, Settled
  <2>3. next.pc # "http" /\ next.job = job[r] /\ job'[r] = job[r] /\ row' = row
      BY <1>1
  <2> HIDE DEF next
  <2> QED BY <1>1, <1>2, <1>4, <2>1, <2>2, <2>3 DEF Fits, Settled
<1>6. \A q \in Monitor!Revisions : recheck'[q] = recheck[q] \/ Fits(q)'
    BY <1>4, <1>5
<1> QED BY <1>1, <1>4, <1>6, MonitorStands, SqlStands, MonitorKeeps

\* The failure is recorded again before the worker looks itself (processWebsiteRechecks).
LEMMA MonitorReplay ==
    ASSUME Monitor!MonitorAssumption, MonitorInv, NEW r \in Monitor!Revisions, Monitor!Replay(r)
    PROVE  MonitorInv'
<1> DEFINE j == recheck[r].job
           next == [pc |-> IF Monitor!StillIn(row', j) THEN "http" ELSE "end", job |-> j, at |-> now]
<1>1. UNCHANGED <<now, assigned, report, job, probe>> /\ recheck[r] # Nil /\ Monitor!Record(j)
      /\ recheck' = [recheck EXCEPT ![r] = next]
    BY DEF Monitor!Replay
<1>2. j \in Failures /\ j \in Monitor!Checks /\ j.rev = r /\ job[r] # Nil /\ job[r].at >= j.at /\ job[r].at <= now /\ r <= row.rev
    BY <1>1 DEF MonitorInv, MonitorTypes, Failures, RechecksFit, Fits, Under
<1>3. Covered(j)
    BY <1>2 DEF Covered
<1>4. /\ row' \in Sites /\ row'.rev = row.rev /\ row'.enabled = row.enabled /\ row'.at >= row.at
      /\ checks' \subseteq Monitor!Checks /\ \A h \in checks' : h.rev <= row.rev
      /\ OffIsEmpty' /\ Monitor!StateIsNewest' /\ Monitor!FailureIsCovered'
    BY <1>1, <1>2, <1>3, MonitorRecorded
<1>5. now \in Monitor!Times /\ now \in 0..MaxTime
    BY MonitorStands DEF Monitor!Times
<1>6. next \in Under
    BY <1>2, <1>5 DEF Under
<1>7. recheck' \in [Monitor!Revisions -> Under \cup {Nil}] /\ recheck'[r] = next
      /\ \A q \in Monitor!Revisions : q # r => recheck'[q] = recheck[q]
    BY <1>1, <1>6, MonitorStands
<1>8. Fits(r)'
  <2>1. j.at \in Nat /\ row'.at \in Nat /\ now \in Nat
      BY <1>2, <1>4, <1>5, MonitorNumbers
  <2>2. job[r].at \in Nat
      BY <1>2, MonitorNumbers DEF MonitorInv, MonitorTypes, Failures
  <2>3. next.pc = "end" => (row'.rev = j.rev /\ row'.enabled => row'.at >= j.at)
      BY <2>1 DEF Monitor!StillIn
  <2>4. next.job = j /\ next.at = now /\ job'[r] = job[r] /\ now >= j.at
      BY <1>1, <1>2, <2>1, <2>2
  <2> HIDE DEF next, j
  <2> QED BY <1>2, <1>5, <1>7, <2>3, <2>4 DEF Fits, Settled
<1>9. \A q \in Monitor!Revisions : recheck'[q] = recheck[q] \/ Fits(q)'
    BY <1>7, <1>8
<1> QED BY <1>1, <1>4, <1>7, <1>9, MonitorStands, MonitorKeeps

\* What the worker sees is recorded.
LEMMA MonitorLooked ==
    ASSUME Monitor!MonitorAssumption, MonitorInv, NEW r \in Monitor!Revisions, NEW ok \in BOOLEAN, Monitor!Looked(r, ok)
    PROVE  MonitorInv'
<1> DEFINE j == recheck[r].job
           c == [rev |-> r, at |-> recheck[r].at, ok |-> ok, source |-> "worker"]
           next == [recheck[r] EXCEPT !.pc = "end"]
<1>1. UNCHANGED <<now, assigned, report, job, probe>> /\ recheck[r] # Nil /\ recheck[r].pc = "http" /\ Monitor!Record(c)
      /\ recheck' = [recheck EXCEPT ![r] = next]
    BY DEF Monitor!Looked
<1>2. j \in Monitor!Checks /\ j.rev = r /\ job[r] # Nil /\ job[r].at >= j.at /\ r <= row.rev /\ recheck[r] \in Under
      /\ recheck[r].at >= j.at /\ recheck[r].at \in Monitor!Times
    BY <1>1 DEF MonitorInv, MonitorTypes, Failures, RechecksFit, Fits, Under
<1>3. c \in Monitor!Checks /\ c.rev <= row.rev /\ c.source = "worker"
    BY <1>2 DEF Monitor!Checks
<1>4. /\ row' \in Sites /\ row'.rev = row.rev /\ row'.enabled = row.enabled /\ row'.at >= row.at
      /\ checks' \subseteq Monitor!Checks /\ \A h \in checks' : h.rev <= row.rev
      /\ OffIsEmpty' /\ Monitor!StateIsNewest' /\ Monitor!FailureIsCovered'
    BY <1>1, <1>3, MonitorRecorded
<1>5. row'.rev = r /\ row'.enabled => row'.at >= recheck[r].at
  <2>1. c.source = "worker" => (row'.rev = c.rev /\ row'.enabled => row'.at >= c.at)
      BY <1>1, <1>3, MonitorRecorded DEF Settled
  <2> QED BY <2>1
<1>6. next \in Under /\ next.job = j /\ next.pc = "end"
    BY <1>2 DEF Under
<1>7. recheck' \in [Monitor!Revisions -> Under \cup {Nil}] /\ recheck'[r] = next
      /\ \A q \in Monitor!Revisions : q # r => recheck'[q] = recheck[q]
    BY <1>1, <1>6, MonitorStands
<1>8. Fits(r)'
  <2>1. j.at \in Nat /\ row'.at \in Nat /\ recheck[r].at \in Nat
      BY <1>2, <1>4, MonitorNumbers
  <2>2. job'[r] = job[r] /\ (row'.rev = r /\ row'.enabled => row'.at >= j.at)
      BY <1>1, <1>2, <1>5, <2>1
  <2> HIDE DEF next, j
  <2> QED BY <1>2, <1>6, <1>7, <2>2 DEF Fits, Settled
<1>9. \A q \in Monitor!Revisions : recheck'[q] = recheck[q] \/ Fits(q)'
    BY <1>7, <1>8
<1> QED BY <1>1, <1>4, <1>7, <1>9, MonitorStands, MonitorKeeps

\* A recheck that fails leaves its job.
LEMMA MonitorRecheckFails ==
    ASSUME Monitor!MonitorAssumption, MonitorInv, NEW r \in Monitor!Revisions, Monitor!RecheckFails(r)
    PROVE  MonitorInv'
<1>1. UNCHANGED <<now, row, checks, assigned, report, job, probe>>
      /\ recheck' = [recheck EXCEPT ![r] = Nil]
    BY DEF Monitor!RecheckFails
<1>2. recheck' \in [Monitor!Revisions -> Under \cup {Nil}]
      /\ \A q \in Monitor!Revisions : recheck'[q] = recheck[q] \/ Fits(q)'
    BY <1>1, MonitorStands DEF Fits
<1> QED BY <1>1, <1>2, MonitorStands, SqlStands, MonitorKeeps

\* The job is deleted unless a newer failure has replaced it.
LEMMA MonitorRecheckEnds ==
    ASSUME Monitor!MonitorAssumption, MonitorInv, NEW r \in Monitor!Revisions, Monitor!RecheckEnds(r)
    PROVE  MonitorInv'
<1>1. /\ UNCHANGED <<now, row, checks, assigned, report, probe>> /\ recheck[r] # Nil /\ recheck[r].pc = "end"
      /\ job' = [job EXCEPT ![r] = IF @ = recheck[r].job THEN Nil ELSE @]
      /\ recheck' = [recheck EXCEPT ![r] = Nil]
    BY DEF Monitor!RecheckEnds
<1>2. /\ job \in [Monitor!Revisions -> Failures \cup {Nil}] /\ recheck \in [Monitor!Revisions -> Under \cup {Nil}]
      /\ row \in Sites /\ checks \subseteq Monitor!Checks
    BY DEF MonitorInv, MonitorTypes
<1>3. /\ \A q \in Monitor!Revisions : q # r => job'[q] = job[q] /\ recheck'[q] = recheck[q]
      /\ recheck'[r] = Nil /\ (job'[r] = Nil \/ job'[r] = job[r])
      /\ job' \in [Monitor!Revisions -> Failures \cup {Nil}] /\ recheck' \in [Monitor!Revisions -> Under \cup {Nil}]
    BY <1>1, <1>2
<1>4. job'[r] # job[r] => Settled(job[r]) /\ job[r] \in Monitor!Checks
    BY <1>1, <1>2 DEF MonitorInv, RechecksFit, Fits, Failures
<1>5. Cardinality(Monitor!Pending') <= MaxJobs
  <2>1. Monitor!Pending' \subseteq Monitor!Pending /\ Monitor!Pending \subseteq Monitor!Revisions
      BY <1>3 DEF Monitor!Pending
  <2>2. IsFiniteSet(Monitor!Revisions)
      BY FS_Interval DEF Monitor!Revisions, Monitor!MonitorAssumption
  <2>3. IsFiniteSet(Monitor!Pending) /\ Cardinality(Monitor!Pending') <= Cardinality(Monitor!Pending) /\ Cardinality(Monitor!Pending) \in Nat
        /\ Cardinality(Monitor!Pending') \in Nat
      BY <2>1, <2>2, FS_Subset, FS_CardinalityType
  <2> QED BY <2>3 DEF MonitorInv, MonitorTypes, Monitor!MonitorAssumption
<1>6. MonitorTypes'
    BY <1>1, <1>3, <1>5 DEF MonitorInv, MonitorTypes, Monitor!Pending
<1>7. RechecksFit'
    BY <1>1, <1>3 DEF MonitorInv, RechecksFit, Fits, Settled
<1>8. ASSUME NEW c \in Monitor!Checks, Covered(c) PROVE c.rev = row.rev /\ row.enabled => row.at >= c.at \/ (job'[c.rev] # Nil /\ job'[c.rev].at >= c.at)
  <2>1. c.at \in Nat /\ row.at \in Nat /\ c.rev \in Monitor!Revisions
      BY <1>2, MonitorNumbers DEF Monitor!Checks
  <2>2. CASE job'[c.rev] = job[c.rev]
      BY <1>8, <2>2 DEF Covered, Settled
  <2>3. CASE job'[c.rev] # job[c.rev]
    <3>1. c.rev = r /\ Settled(job[r]) /\ job[r] \in Monitor!Checks
        BY <1>3, <1>4, <2>1, <2>3
    <3>2. job[r].at \in Nat
        BY <3>1, MonitorNumbers
    <3>3. job[r] # Nil => job[r].rev = r
        BY DEF MonitorInv, MonitorTypes
    <3> QED BY <1>8, <2>1, <3>1, <3>2, <3>3 DEF Covered, Settled
  <2> QED BY <2>2, <2>3
<1>9. ReportsFit'
  <2> SUFFICES ASSUME report # Nil, report.pc = "record", ~report.check.ok PROVE Covered(report.check)'
      BY <1>1 DEF ReportsFit
  <2>1. report.check \in Monitor!Checks /\ Covered(report.check)
      BY MonitorStands DEF Sent
  <2> QED BY <1>1, <1>8, <2>1 DEF Covered, Settled
<1>10. Monitor!FailureIsCovered'
  <2> SUFFICES ASSUME NEW h \in checks, h.source = "agent", ~h.ok, h.rev = row.rev
               PROVE  row.at >= h.at \/ (job'[h.rev] # Nil /\ job'[h.rev].at >= h.at)
      BY <1>1 DEF Monitor!FailureIsCovered
  <2>1. h \in Monitor!Checks /\ Covered(h) /\ row.enabled
      BY <1>2 DEF MonitorInv, Monitor!FailureIsCovered, OffIsEmpty, Covered, Settled
  <2> QED BY <1>8, <2>1
<1>11. OffIsEmpty' /\ Monitor!StateIsNewest'
    BY <1>1 DEF MonitorInv, OffIsEmpty, Monitor!StateIsNewest
<1> QED BY <1>6, <1>7, <1>9, <1>10, <1>11 DEF MonitorInv

\* The worker's probes and time.
LEMMA MonitorProbeStarts ==
    ASSUME Monitor!MonitorAssumption, MonitorInv, Monitor!ProbeStarts
    PROVE  MonitorInv'
<1>1. UNCHANGED <<now, row, checks, assigned, report, job, recheck>> /\ probe' = [rev |-> row.rev, at |-> now]
    BY DEF Monitor!ProbeStarts
<1>2. probe' \in [rev : Monitor!Revisions, at : Monitor!Times]
    BY <1>1, MonitorStands DEF Sites
<1> QED BY <1>1, <1>2, MonitorStands, SqlStands, MonitorKeeps

\* Time passes.
LEMMA MonitorTick ==
    ASSUME Monitor!MonitorAssumption, MonitorInv, Monitor!Tick
    PROVE  MonitorInv'
<1>1. UNCHANGED <<row, checks, assigned, report, job, recheck, probe>> /\ now < MaxTime /\ now' = now + 1
    BY DEF Monitor!Tick
<1>2. now' \in Monitor!Times /\ now' >= now
    BY <1>1, MonitorStands DEF Monitor!Times, Monitor!MonitorAssumption
<1> QED BY <1>1, <1>2, MonitorStands, SqlStands, MonitorKeeps

\* The worker's own probe ends, of whichever configuration.
LEMMA MonitorProbeEnds ==
    ASSUME Monitor!MonitorAssumption, MonitorInv, NEW ok \in BOOLEAN, Monitor!ProbeEnds(ok)
    PROVE  MonitorInv'
<1> DEFINE c == [rev |-> probe.rev, at |-> probe.at, ok |-> ok, source |-> "worker"]
<1>1. UNCHANGED <<now, assigned, report, job, recheck>> /\ probe # Nil /\ probe' = Nil /\ Monitor!Record(c)
    BY DEF Monitor!ProbeEnds
<1>2. c \in Monitor!Checks /\ c.source = "worker"
    BY <1>1, MonitorStands DEF Monitor!Checks
<1>3. /\ row' \in Sites /\ row'.rev = row.rev /\ row'.enabled = row.enabled /\ row'.at >= row.at
      /\ checks' \subseteq Monitor!Checks /\ \A h \in checks' : h.rev <= row.rev
      /\ OffIsEmpty' /\ Monitor!StateIsNewest' /\ Monitor!FailureIsCovered'
    BY <1>1, <1>2, MonitorRecorded
<1> QED BY <1>1, <1>3, MonitorStands, MonitorKeeps

\* A new configuration: nothing is about it yet.
LEMMA MonitorEdit ==
    ASSUME Monitor!MonitorAssumption, MonitorInv, NEW on \in BOOLEAN, Monitor!Edit(on)
    PROVE  MonitorInv'
<1>1. /\ UNCHANGED <<now, checks, assigned, report, job, recheck, probe>> /\ row.rev < MaxRevision
      /\ row' = [rev |-> row.rev + 1, enabled |-> on, at |-> 0, status |-> IF on THEN "pending" ELSE "paused"]
    BY DEF Monitor!Edit
<1>2. /\ row \in Sites /\ checks \subseteq Monitor!Checks /\ (\A h \in checks : h.rev <= row.rev)
      /\ \A r \in Monitor!Revisions : job[r] # Nil => job[r].rev = r /\ r <= row.rev /\ job[r].at <= now
    BY DEF MonitorInv, MonitorTypes
<1>3. row.rev \in Nat /\ row.rev + 1 \in Monitor!Revisions /\ row.rev < row.rev + 1
    BY <1>1, <1>2 DEF Sites, Monitor!Revisions, Monitor!MonitorAssumption
<1>4. row'.rev = row.rev + 1 /\ row'.status \in {"pending", "paused"} /\ row' \in Sites
  <2>1. 0 \in 0..MaxTime
      BY DEF Monitor!MonitorAssumption
  <2> QED BY <1>1, <1>3, <2>1 DEF Sites
<1>5. \A h \in checks : h.rev # row'.rev /\ h.rev <= row'.rev
    BY <1>2, <1>3, <1>4, MonitorNumbers
<1>6. report # Nil => report.check.rev <= row'.rev /\ report.check.rev # row'.rev
  <2> SUFFICES ASSUME report # Nil PROVE report.check.rev <= row'.rev /\ report.check.rev # row'.rev
      OBVIOUS
  <2>1. report.check \in Monitor!Checks /\ report.check.rev <= row.rev
      BY MonitorStands DEF Sent
  <2>2. report.check.rev \in Nat
      BY <2>1, MonitorNumbers
  <2> QED BY <1>3, <1>4, <2>1, <2>2
<1>7. \A r \in Monitor!Revisions : job[r] # Nil => r <= row'.rev /\ r # row'.rev
    BY <1>2, <1>3, <1>4, MonitorNumbers
<1>8. Monitor!Pending' = Monitor!Pending
    BY <1>1 DEF Monitor!Pending
<1>9. MonitorTypes'
    BY <1>1, <1>4, <1>5, <1>6, <1>7, <1>8 DEF MonitorInv, MonitorTypes
<1>10. RechecksFit'
  <2> SUFFICES ASSUME NEW r \in Monitor!Revisions, recheck[r] # Nil PROVE Fits(r)'
      BY <1>1 DEF RechecksFit, Fits
  <2>1. Fits(r) /\ job[r] # Nil /\ recheck[r].job.rev = r
      BY DEF MonitorInv, RechecksFit, Fits
  <2> QED BY <1>1, <1>7, <2>1 DEF Fits, Settled
<1>11. ReportsFit'
    BY <1>1, <1>6 DEF ReportsFit, Covered, Settled
<1>12. OffIsEmpty' /\ Monitor!StateIsNewest' /\ Monitor!FailureIsCovered'
    BY <1>1, <1>4, <1>5 DEF OffIsEmpty, Monitor!StateIsNewest, Monitor!FailureIsCovered
<1> QED BY <1>9, <1>10, <1>11, <1>12 DEF MonitorInv

\* A report comes in: a failure becomes a job, or a job gets a later failure.
LEMMA MonitorReportComes ==
    ASSUME Monitor!MonitorAssumption, MonitorInv, Monitor!ReportComes
    PROVE  MonitorInv'
<1> DEFINE c == report.check
<1>1. /\ UNCHANGED <<now, row, checks, assigned, recheck, probe>> /\ report # Nil
      /\ \/ report' = Nil /\ UNCHANGED job
         \/ /\ report' = [report EXCEPT !.pc = "record"]
            /\ IF c.ok THEN UNCHANGED job ELSE Monitor!Queued(c)
    BY DEF Monitor!ReportComes
<1>2. report \in Sent /\ c \in Monitor!Checks /\ c.source = "agent" /\ c.rev <= row.rev /\ c.at <= now
    BY <1>1, MonitorStands DEF Sent
<1>3. report' # Nil => report' \in Sent /\ report'.check = c
    BY <1>1, <1>2 DEF Sent
<1>4. CASE UNCHANGED job /\ (report' = Nil \/ c.ok)
  <2>1. report' # Nil => report' \in Sent /\ report'.check.rev <= row.rev /\ report'.check.at <= now
      BY <1>2, <1>3
  <2>2. report' # Nil /\ report'.pc = "record" /\ ~report'.check.ok => Covered(report'.check)
      BY <1>3, <1>4
  <2> QED BY <1>1, <1>4, <2>1, <2>2, MonitorStands, SqlStands, MonitorKeeps
<1>5. CASE ~c.ok /\ Monitor!Queued(c)
  <2> DEFINE k == c.rev
  <2>1. /\ job \in [Monitor!Revisions -> Failures \cup {Nil}] /\ row \in Sites /\ now \in Monitor!Times
        /\ (\A r \in Monitor!Revisions : job[r] # Nil => job[r].rev = r /\ r <= row.rev /\ job[r].at <= now)
        /\ Cardinality(Monitor!Pending) <= MaxJobs
      BY DEF MonitorInv, MonitorTypes
  <2>2. k \in Monitor!Revisions /\ c \in Failures /\ c.at \in Nat
      BY <1>2, <1>5, MonitorNumbers DEF Monitor!Checks, Failures
  <2>3. job[k] # Nil => job[k] \in Failures /\ job[k].at \in Nat
      BY <2>1, <2>2, MonitorNumbers DEF Failures
  <2>4. /\ job' \in [Monitor!Revisions -> Failures \cup {Nil}] /\ \A r \in Monitor!Revisions : r # k => job'[r] = job[r]
        /\ (job'[k] = c /\ (job[k] = Nil \/ job[k].at < c.at)) \/ (job'[k] = job[k] /\ job[k] # Nil /\ ~(job[k].at < c.at))
      BY <1>5, <2>1, <2>2 DEF Monitor!Queued
  <2>5. job'[k] \in Failures /\ job'[k] # Nil
      BY <2>2, <2>3, <2>4 DEF Failures, Monitor!MonitorAssumption
  <2>6. job'[k].at >= c.at /\ (job[k] # Nil => job'[k].at >= job[k].at) /\ job'[k].rev = k /\ job'[k].at <= now
      BY <1>2, <2>1, <2>2, <2>3, <2>4
  <2>7. Cardinality(Monitor!Pending') <= MaxJobs
    <3>1. Monitor!Pending' = Monitor!Pending \cup {k} /\ Monitor!Pending \subseteq Monitor!Revisions
        BY <2>2, <2>4, <2>5 DEF Monitor!Pending
    <3>2. IsFiniteSet(Monitor!Revisions)
        BY FS_Interval DEF Monitor!Revisions, Monitor!MonitorAssumption
    <3>3. IsFiniteSet(Monitor!Pending) /\ Cardinality(Monitor!Pending) \in Nat
        BY <3>1, <3>2, FS_Subset, FS_CardinalityType
    <3>4. CASE job[k] # Nil
      <4>1. Monitor!Pending' = Monitor!Pending
          BY <2>2, <3>1, <3>4 DEF Monitor!Pending
      <4> QED BY <2>1, <4>1
    <3>5. CASE job[k] = Nil
      <4>1. Cardinality(Monitor!Pending) < MaxJobs /\ k \notin Monitor!Pending
          BY <1>5, <3>5, SameCardinality DEF Monitor!Queued, Monitor!Pending
      <4>2. Cardinality(Monitor!Pending') = Cardinality(Monitor!Pending) + 1
          BY <3>1, <3>3, <4>1, FS_AddElement
      <4> QED BY <3>3, <4>1, <4>2 DEF Monitor!MonitorAssumption
    <3> QED BY <3>4, <3>5
  <2>8. \A r \in Monitor!Revisions : job'[r] # Nil => job'[r].rev = r /\ r <= row.rev /\ job'[r].at <= now
      BY <1>2, <2>1, <2>4, <2>6
  <2>9. \A r \in Monitor!Revisions : job[r] # Nil => job'[r] # Nil /\ job'[r].at >= job[r].at
    <3>1. \A r \in Monitor!Revisions : job[r] # Nil => job[r].at \in Nat
        BY <2>1, MonitorNumbers DEF Failures
    <3> QED BY <2>4, <2>5, <2>6, <3>1
  <2>10. MonitorTypes'
      BY <1>1, <1>2, <1>3, <1>5, <2>4, <2>7, <2>8 DEF MonitorInv, MonitorTypes
  <2>11. \A r \in Monitor!Revisions : job[r] # Nil => job[r].at \in Nat /\ job'[r].at \in Nat
    <3>1. \A r \in Monitor!Revisions : job[r] # Nil => job[r] \in Monitor!Checks /\ job'[r] \in Monitor!Checks
        BY <2>1, <2>4, <2>9 DEF Failures
    <3> QED BY <3>1, MonitorNumbers
  <2>12. RechecksFit'
    <3> SUFFICES ASSUME NEW r \in Monitor!Revisions, recheck[r] # Nil PROVE Fits(r)'
        BY <1>1 DEF RechecksFit, Fits
    <3>1. Fits(r) /\ job[r] # Nil /\ job[r].at >= recheck[r].job.at
        BY DEF MonitorInv, RechecksFit, Fits
    <3>2. recheck[r].job.at \in Nat
        BY MonitorStands, MonitorNumbers DEF Under, Failures
    <3>3. job'[r] # Nil /\ job'[r].at >= recheck[r].job.at
        BY <2>9, <2>11, <3>1, <3>2
    <3> QED BY <1>1, <3>1, <3>3 DEF Fits, Settled
  <2>13. ReportsFit'
      BY <1>3, <1>5, <2>5, <2>6 DEF ReportsFit, Covered
  <2>14. Monitor!FailureIsCovered'
    <3> SUFFICES ASSUME NEW h \in checks, h.source = "agent", ~h.ok, h.rev = row.rev
                 PROVE  row.at >= h.at \/ (job'[h.rev] # Nil /\ job'[h.rev].at >= h.at)
        BY <1>1 DEF Monitor!FailureIsCovered
    <3>1. h \in Monitor!Checks /\ (row.at >= h.at \/ (job[h.rev] # Nil /\ job[h.rev].at >= h.at))
        BY MonitorStands DEF Monitor!FailureIsCovered
    <3>2. h.at \in Nat /\ h.rev \in Monitor!Revisions
        BY <3>1, MonitorNumbers DEF Monitor!Checks
    <3> QED BY <2>9, <2>11, <3>1, <3>2
  <2>15. OffIsEmpty' /\ Monitor!StateIsNewest'
      BY <1>1 DEF MonitorInv, OffIsEmpty, Monitor!StateIsNewest
  <2> QED BY <2>10, <2>12, <2>13, <2>14, <2>15 DEF MonitorInv
<1> QED BY <1>1, <1>4, <1>5

\* The inductive invariant of a monitor, in every behaviour.
THEOREM MonitorInvariant ==
    Monitor!MonitorAssumption => (Monitor!Init /\ [][Monitor!Next]_Monitor!vars => []MonitorInv)
<1> SUFFICES ASSUME Monitor!MonitorAssumption PROVE Monitor!Init /\ [][Monitor!Next]_Monitor!vars => []MonitorInv
    OBVIOUS
<1>1. Monitor!Init => MonitorInv
    BY MonitorInit
<1>2. ASSUME MonitorInv, [Monitor!Next]_Monitor!vars PROVE MonitorInv'
  <2>1. CASE UNCHANGED Monitor!vars
    <3>1. UNCHANGED <<now, row, checks, assigned, report, job, recheck, probe>>
        BY <2>1 DEF Monitor!vars
    <3> QED BY <1>2, <3>1, MonitorStands, SqlStands, MonitorKeeps
  <2>2. ASSUME NEW r \in Monitor!Revisions, NEW ok \in BOOLEAN, Monitor!AgentProbes(r, ok) \/ Monitor!Looked(r, ok) PROVE MonitorInv'
      BY <1>2, <2>2, MonitorAgentProbes, MonitorLooked
  <2>3. CASE Monitor!TasksRead \/ Monitor!ReportComes \/ Monitor!ReportRecorded \/ Monitor!ReportFails
      BY <1>2, <2>3, MonitorTasksRead, MonitorReportComes, MonitorReportRecorded, MonitorReportFails
  <2>4. ASSUME NEW r \in Monitor!Revisions, Monitor!RecheckStarts(r) \/ Monitor!Replay(r) \/ Monitor!RecheckEnds(r) \/ Monitor!RecheckFails(r)
        PROVE  MonitorInv'
      BY <1>2, <2>4, MonitorRecheckStarts, MonitorReplay, MonitorRecheckEnds, MonitorRecheckFails
  <2>5. ASSUME NEW ok \in BOOLEAN, Monitor!ProbeEnds(ok) \/ Monitor!Edit(ok) PROVE MonitorInv'
      BY <1>2, <2>5, MonitorProbeEnds, MonitorEdit
  <2>6. CASE Monitor!ProbeStarts \/ Monitor!Tick
      BY <1>2, <2>6, MonitorProbeStarts, MonitorTick
  <2> QED BY <1>2, <2>1, <2>2, <2>3, <2>4, <2>5, <2>6 DEF Monitor!Next
<1> QED BY <1>1, <1>2, PTL

-----------------------------------------------------------------------------
(* The parts together *)

\* A blown fuse resumes only at 80% of its limit, for every number of clients, every limit
\* and every time between measurements (canPersistWithinCapacity).
THEOREM TheFuseHolds == Spec => FuseHolds
<1> DEFINE Inv == part = "capacity" => FuseInv
<1>1. Init => Inv
  <2> SUFFICES ASSUME Init, part = "capacity" PROVE FuseInv
      OBVIOUS
  <2>1. Capacity!Init /\ Capacity!CapacityAssumption
      BY InstanceAssumption DEF Init, InstanceAssumption
  <2> QED BY <2>1, FuseInit
<1>2. Inv /\ [Next]_vars => Inv' /\ (part = "capacity" => Capacity!FuseKept)
  <2> SUFFICES ASSUME Inv, [Next]_vars PROVE Inv' /\ (part = "capacity" => Capacity!FuseKept)
      OBVIOUS
  <2>1. part' = part
      BY DEF Next, vars, InCapacity, InRefresh, InMonitor, InScheduled
  <2>2. ASSUME part = "capacity" PROVE [Capacity!Next]_Capacity!vars
      BY <2>2 DEF Next, vars, Capacity!vars, capacityVars, InCapacity, InRefresh, InMonitor, InScheduled
  <2> QED BY <2>1, <2>2, FuseStep, InstanceAssumption DEF InstanceAssumption
<1>3. [Next]_vars /\ (part = "capacity" => Capacity!FuseKept) => [part = "capacity" => Capacity!FuseKept]_vars
    OBVIOUS
<1> QED BY <1>1, <1>2, <1>3, PTL DEF Spec, FuseHolds

\* Late results are harmless in every behaviour, for every number of jobs, times and
\* configurations (queueWebsiteRecheck, processWebsiteRechecks, cfm_record_website_check).
THEOREM LateResultsStayHarmless == Spec => []LateResultsAreHarmless
<1>1. Init => Monitor!Init
    BY DEF Init
<1>2. [Next]_vars => [Monitor!Next]_Monitor!vars
    BY DEF Next, vars, Monitor!vars, monitorVars, InCapacity, InRefresh, InMonitor, InScheduled
<1>3. MonitorInv => LateResultsAreHarmless
    BY DEF MonitorInv, LateResultsAreHarmless
<1>4. Monitor!Init /\ [][Monitor!Next]_Monitor!vars => []MonitorInv
    BY MonitorInvariant, InstanceAssumption DEF InstanceAssumption
<1> QED BY <1>1, <1>2, <1>3, <1>4, PTL DEF Spec
=============================================================================
