---------------------------- MODULE TrafficState ----------------------------
(***************************************************************************)
(* The traffic an agent counts in the current period, and the files that   *)
(* carry the count over restarts of the agent and of the machine: adjust   *)
(* turns the counters of the interfaces into a total, save writes a new    *)
(* generation beside the old one, moves the old one to .bak and the new    *)
(* one to its place, and load takes the newest complete generation.        *)
(*                                                                         *)
(* A machine that loses power keeps every synced file, but of the          *)
(* directory entries changed since the last sync of the directory any      *)
(* part.  One interface and one direction stand for all.  The boot time    *)
(* the library reports is taken to be the same throughout a boot.          *)
(***************************************************************************)
EXTENDS Naturals, FiniteSets

CONSTANTS
    MaxSent,    \* bound: traffic
    MaxPeriods, \* bound: periods
    MaxBoots,   \* bound: boots of the machine
    MaxDays,    \* bound: reset days an administrator sets
    MaxSaves,   \* bound: generations
    MaxStops    \* bound: stops of the agent and failed steps

TrafficAssumption == {MaxSent, MaxPeriods, MaxBoots, MaxDays, MaxSaves, MaxStops} \subseteq Nat

VARIABLES
    machine, \* raw: counter since boot; sent: all traffic; boot; since: period of the boot
    clock,   \* the period, and the reset day of the policy
    mem,     \* the tracker's state
    save,    \* the step of a save; prior: what was newest when it began
    disk,    \* the files: main, bak and the staged ones
    durable, \* what of them survives a loss of power
    saved,   \* the generation of the newest save that returned without an error, and those since
    stops

vars == <<machine, clock, mem, save, disk, durable, saved, stops>>

\* no state, no file; a file cut short
None == [rev |-> 0, period |-> 0, day |-> 0, total |-> 0, raw |-> 0, boot |-> 0, closed |-> 0]
Torn == [None EXCEPT !.boot = MaxBoots + 1]

(***************************************************************************)
(* readTrafficResetState, load: the newest complete generation.            *)
(***************************************************************************)
Candidates(files) == ({files.main, files.bak} \cup files.stages) \ {None}

Generations(files) == Candidates(files) \ {Torn}

Best(files) ==
    IF Generations(files) = {} THEN None
    ELSE IF files.main \in Generations(files) /\ \A g \in Generations(files) : g.rev <= files.main.rev
         THEN files.main
         ELSE CHOOSE g \in Generations(files) : \A h \in Generations(files) : h.rev <= g.rev

(***************************************************************************)
(* adjustInterfacesSinceBoot.                                              *)
(***************************************************************************)
\* rawTrafficCoversPeriod: the machine booted in this period
Covers == machine.since = clock.period

\* trafficCounterDelta: a counter that went back began again
CounterDelta(old, new) == IF new < old THEN new ELSE new - old

Delta(s) ==
    IF Covers /\ (s.boot # machine.boot \/ s.period # clock.period) THEN machine.raw
    ELSE CounterDelta(s.raw, machine.raw)

\* a first state, or another reset day: the period begins anew, the revision goes on
Restarted(s) ==
    [None EXCEPT !.rev = s.rev, !.total = IF Covers THEN machine.raw ELSE 0]

\* closed is not kept by the agent: what it counted in earlier periods of the cycle
Rotated(s) == [s EXCEPT !.closed = s.closed + s.total, !.total = Delta(s)]

\* what is remembered of a sample
SampleOf(s, t) == [t EXCEPT !.raw = machine.raw]

Adjusted(s) ==
    LET t == IF s.period = 0 \/ s.day # clock.day THEN Restarted(s)
             ELSE IF s.period # clock.period THEN Rotated(s)
             ELSE [s EXCEPT !.total = s.total + Delta(s)]
    IN  [SampleOf(s, t) EXCEPT !.day = clock.day, !.period = clock.period, !.boot = machine.boot]

(***************************************************************************)
(* save and writeTrafficResetState.                                        *)
(***************************************************************************)
Idle == [at |-> "idle", prior |-> None]

\* what was newest is kept aside; generations cut short leave the names that are read,
\* but only when nothing else is left
BeginSave(s) ==
    /\ mem' = [s EXCEPT !.rev = @ + 1]
    /\ save' = [at |-> "stage", prior |-> Best(disk)]
    /\ saved' = saved \cup {mem'}
    /\ disk' = IF Generations(disk) = {} THEN [main |-> None, bak |-> None, stages |-> {}] ELSE disk

Adjust ==
    /\ save.at = "idle" /\ mem.rev < MaxSaves
    /\ BeginSave(Adjusted(mem))
    /\ UNCHANGED <<machine, clock, durable, stops>>

\* writeSyncedTrafficTemp of the new generation
Stage ==
    /\ save.at = "stage"
    /\ disk' = [disk EXCEPT !.stages = @ \cup {mem}]
    /\ save' = [save EXCEPT !.at = IF save.prior = None THEN "main" ELSE "backup"]
    /\ UNCHANGED <<machine, clock, mem, durable, saved, stops>>

\* writeSyncedTrafficTemp of the old one and its rename to .bak
Backup ==
    /\ save.at = "backup"
    /\ disk' = [disk EXCEPT !.bak = save.prior]
    /\ save' = [save EXCEPT !.at = "synced"]
    /\ UNCHANGED <<machine, clock, mem, durable, saved, stops>>

\* syncTrafficDirectory
BackupSync ==
    /\ save.at = "synced"
    /\ durable' = disk
    /\ save' = [save EXCEPT !.at = "main"]
    /\ UNCHANGED <<machine, clock, mem, disk, saved, stops>>

\* the staged file is renamed
Replace ==
    /\ save.at = "main"
    /\ disk' = [disk EXCEPT !.main = mem, !.stages = @ \ {mem}]
    /\ save' = [save EXCEPT !.at = "sync"]
    /\ UNCHANGED <<machine, clock, mem, durable, saved, stops>>

\* mutant: the directory is not synced
FinishUnsynced ==
    /\ save.at = "sync"
    /\ saved' = {mem}
    /\ disk' = [disk EXCEPT !.stages = {}]
    /\ save' = Idle
    /\ UNCHANGED <<machine, clock, mem, durable, stops>>

\* syncTrafficDirectory; the files of earlier saves are removed
Finish ==
    /\ save.at = "sync"
    /\ durable' = disk
    /\ saved' = {mem}
    /\ disk' = [disk EXCEPT !.stages = {}]
    /\ save' = Idle
    /\ UNCHANGED <<machine, clock, mem, stops>>

\* a step fails: what is staged stays for the next process
SaveFails ==
    /\ save.at # "idle" /\ stops < MaxStops
    /\ stops' = stops + 1
    /\ save' = Idle
    /\ UNCHANGED <<machine, clock, mem, disk, durable, saved>>

(***************************************************************************)
(* The policy, the machine, and stops.                                     *)
(***************************************************************************)
\* setPolicyResetDay: the counters stay until the next sample
PolicyDay ==
    /\ save.at = "idle" /\ clock.day < MaxDays /\ mem.rev < MaxSaves
    /\ clock' = [clock EXCEPT !.day = @ + 1]
    /\ BeginSave(mem)
    /\ UNCHANGED <<machine, durable, stops>>

Traffic ==
    /\ machine.sent < MaxSent
    /\ machine' = [machine EXCEPT !.sent = @ + 1, !.raw = @ + 1]
    /\ UNCHANGED <<clock, mem, save, disk, durable, saved, stops>>

NewPeriod ==
    /\ clock.period < MaxPeriods
    /\ clock' = [clock EXCEPT !.period = @ + 1]
    /\ UNCHANGED <<machine, mem, save, disk, durable, saved, stops>>

\* a file being written is cut short
CutShort(files) == IF save.at = "stage" THEN {files, [files EXCEPT !.stages = @ \cup {Torn}]} ELSE {files}

\* the agent stops and is started: load
AgentRestarts ==
    /\ stops < MaxStops
    /\ stops' = stops + 1
    /\ disk' \in CutShort(disk)
    /\ mem' = Best(disk')
    /\ save' = Idle
    /\ UNCHANGED <<machine, clock, durable, saved>>

\* what a loss of power may leave
Survivors ==
    {[main |-> m, bak |-> b, stages |-> s] :
        m \in {disk.main, durable.main}, b \in {disk.bak, durable.bak},
        s \in {t \in SUBSET (disk.stages \cup durable.stages) : disk.stages \cap durable.stages \subseteq t}}

\* the machine stops, orderly or not, and boots
Reboot ==
    /\ machine.boot < MaxBoots
    /\ machine' = [machine EXCEPT !.raw = 0, !.boot = @ + 1, !.since = clock.period]
    /\ \E files \in Survivors :
          /\ disk' \in CutShort(files)
          /\ durable' = disk'
          /\ mem' = Best(disk')
    /\ save' = Idle
    /\ UNCHANGED <<clock, saved, stops>>

Init ==
    /\ machine \in [raw : {0}, sent : {0}, boot : {1}, since : {1}]
    /\ clock \in [period : {1, 2}, day : {1}]
    /\ mem = None /\ save = Idle
    /\ disk = [main |-> None, bak |-> None, stages |-> {}]
    /\ durable = disk
    /\ saved = {None} /\ stops = 0

Next ==
    \/ Adjust \/ Stage \/ Backup \/ BackupSync \/ Replace \/ Finish \/ SaveFails
    \/ PolicyDay \/ Traffic \/ NewPeriod \/ AgentRestarts \/ Reboot

Spec == Init /\ [][Next]_vars

(***************************************************************************)
(* Properties.                                                             *)
(***************************************************************************)
Generation ==
    [rev : 0 .. MaxSaves, period : 0 .. MaxPeriods, day : 0 .. MaxDays, total : 0 .. MaxSent,
     raw : 0 .. MaxSent, boot : 0 .. MaxBoots, closed : 0 .. MaxSent]

Files == Generations(disk) \cup Generations(durable)

TypeOK ==
    /\ {mem, save.prior} \cup Files \subseteq Generation
    /\ saved \subseteq Generation

\* A save that returned without an error survives: whatever part of the later
\* directory changes a loss of power takes, load finds that generation or a newer one.
SavedSurvives == \A files \in Survivors : Best(files) \in saved

\* Traffic is counted once: no reboot, restart, rotation or recovered generation makes
\* the periods of a cycle add up to more than was sent.
CountedOnce == \A g \in Files \cup {mem} : g.closed + g.total <= machine.sent

\* It does not matter which generation a restart finds as long as the machine runs:
\* the traffic since its sample is added to it, so the newest and every older one lead
\* to the same total.
SameTotal ==
    \A g, h \in Files \cup {mem} :
        ({g.boot, h.boot} = {machine.boot} /\ g.day = h.day)
            => g.closed + g.total + h.raw = h.closed + h.total + g.raw
=============================================================================
