--------------------------- MODULE ProbeScheduler ---------------------------
(***************************************************************************)
(* The agent's probe scheduler (agent/probe_scheduler.go): one goroutine   *)
(* launches the probes that are due, a bounded number of workers run them, *)
(* and everything that may make a probe runnable wakes the scheduler       *)
(* through a channel that holds one signal.  The mutex s.mu is held by     *)
(* every action here that touches the queue, and by the scheduler from     *)
(* the first to the last launch of a pass.                                 *)
(*                                                                         *)
(* Time counts from 1; 0 stands for the zero time.Time: a task that never  *)
(* ran is due at 0.                                                        *)
(***************************************************************************)
EXTENDS Integers, FiniteSets, FiniteSetTheorems, TLAPS

CONSTANTS
    PingTasks,      \* ids of ping tasks
    WebsiteTasks,   \* ids of website monitors
    Configs,        \* what samePingProbe/sameWebsiteProbe compare
    Intervals,      \* probe intervals
    NoTask, NoResult, NoProbe, Cancelled,
    Slots,          \* the workers that may run at once
    Idle,           \* a slot without a worker
    MaxTime,        \* bound: the clock
    MaxPolicies,    \* bound: policies received in a behaviour
    MaxSignals      \* bound: goroutines between their unlock and their signal

Tasks == PingTasks \cup WebsiteTasks

Workers == [task : Tasks, cfg : Configs, cancelled : BOOLEAN]

ASSUME SchedulerAssumption ==
    /\ PingTasks \cap WebsiteTasks = {}
    /\ NoTask \notin Configs /\ NoResult \notin Configs
    /\ NoProbe \notin Configs /\ Cancelled \notin Configs
    /\ NoProbe # Cancelled
    /\ IsFiniteSet(Slots) /\ NoProbe \notin Slots
    /\ Intervals \subseteq Nat \ {0} /\ Intervals # {}
    /\ MaxTime \in Nat /\ MaxPolicies \in Nat /\ MaxSignals \in Nat \ {0}
ASSUME IdleAssumption == Idle \notin Workers

VARIABLES
    config,         \* s.tasks, s.websiteTasks
    interval,       \* the interval of each task
    pend,           \* pendingPing, pendingWebsites: the sample that waits
    lastRun,        \* lastRunByTaskID, 0 without an entry
    running,        \* runningPing, runningWebsites: the slot of the run
    worker,         \* the run in each slot
    activeProbes,   \* s.activeProbes
    preferWebsite,  \* s.preferWebsite
    sched,          \* where the scheduler goroutine is
    passNow,        \* the time that its pass was called with
    tick,           \* when its timer fires; 0: no timer
    wake,           \* probeWake holds a signal
    signals,        \* workers between s.mu.Unlock and signalProbeScheduler
    closing,        \* close has cancelled s.ctx
    clock,          \* time.Now
    policyCount     \* policies received so far (bound only)

queueVars == <<config, interval, pend, lastRun, policyCount>>
workerVars == <<running, worker, activeProbes>>
schedVars == <<preferWebsite, sched, passNow, tick>>
vars == <<queueVars, workerVars, schedVars, wake, signals, closing, clock>>

LockFree == sched # "launching"

-----------------------------------------------------------------------------
(* launchDueProbes *)

Due(t) == IF lastRun[t] = 0 THEN 0 ELSE lastRun[t] + interval[t]

\* What nextPingLocked and nextWebsiteLocked do not skip.
Runnable == {t \in Tasks : config[t] # NoTask /\ pend[t] = NoResult /\ running[t] = NoProbe}

Earliest == {t \in Runnable : \A u \in Runnable : Due(t) <= Due(u)}

\* A ping task and a website monitor are due at the same time.
Tie == Earliest \cap PingTasks # {} /\ Earliest \cap WebsiteTasks # {}

\* The earliest task; of two kinds the preferred one; of several tasks of a
\* kind the first in the policy's list, whose order is left open.
Selected == {t \in Earliest : Tie => (t \in WebsiteTasks <=> preferWebsite)}

Full == activeProbes >= Cardinality(Slots)

\* One round of the loop of launchDueProbes.
LaunchProbe ==
    /\ sched = "launching"
    /\ ~Full /\ ~closing
    /\ \E t \in Selected, w \in {v \in Slots : worker[v] = Idle} :
         /\ Due(t) <= passNow
         /\ lastRun' = [lastRun EXCEPT ![t] = passNow]
         /\ running' = [running EXCEPT ![t] = w]
         /\ worker' = [worker EXCEPT ![w] = [task |-> t, cfg |-> config[t], cancelled |-> FALSE]]
    /\ activeProbes' = activeProbes + 1
    /\ preferWebsite' = IF Tie THEN ~preferWebsite ELSE preferWebsite
    /\ UNCHANGED <<config, interval, pend, policyCount, sched, passNow, tick, wake, signals,
                   closing, clock>>

\* launchDueProbes returns the time of the next probe, or zero when there is
\* none or no worker is free; runProbeScheduler sets its timer and waits.
PassEnds ==
    /\ sched = "launching"
    /\ \/ /\ Full \/ closing \/ Runnable = {}
          /\ tick' = 0
       \/ /\ ~Full /\ ~closing
          /\ \E t \in Selected : Due(t) > passNow /\ tick' = Due(t)
    /\ sched' = "waiting"
    /\ UNCHANGED <<queueVars, workerVars, preferWebsite, passNow, wake, signals, closing, clock>>

-----------------------------------------------------------------------------
(* runProbeScheduler *)

\* The scheduler takes the lock, with the time it read before.
PassStarts ==
    /\ sched = "entering"
    /\ sched' = "launching"
    /\ UNCHANGED <<queueVars, workerVars, preferWebsite, passNow, tick, wake, signals, closing,
                   clock>>

\* The select: a signal, or the timer.
SchedulerWakes ==
    /\ sched = "waiting"
    /\ ~closing
    /\ \/ wake /\ wake' = FALSE
       \/ tick # 0 /\ clock >= tick /\ UNCHANGED wake
    /\ sched' = "entering"
    /\ passNow' = clock
    /\ UNCHANGED <<queueVars, workerVars, preferWebsite, tick, signals, closing, clock>>

SchedulerStops ==
    /\ sched = "waiting"
    /\ closing
    /\ sched' = "done"
    /\ UNCHANGED <<queueVars, workerVars, preferWebsite, passNow, tick, wake, signals, closing,
                   clock>>

-----------------------------------------------------------------------------
(* runPingProbe, runWebsiteProbe *)

\* Mutant: the context of the run is not looked at.
FinishIgnoringCancel(w) ==
    /\ LockFree
    /\ worker[w] # Idle
    /\ signals < MaxSignals
    /\ LET t == worker[w].task
       IN  IF running[t] = w
           THEN /\ running' = [running EXCEPT ![t] = NoProbe]
                /\ pend' = IF pend[t] = NoResult
                           THEN [pend EXCEPT ![t] = worker[w].cfg] ELSE pend
           ELSE UNCHANGED <<running, pend>>
    /\ worker' = [worker EXCEPT ![w] = Idle]
    /\ activeProbes' = activeProbes - 1
    /\ signals' = signals + 1
    /\ UNCHANGED <<config, interval, lastRun, policyCount, schedVars, wake, closing, clock>>

\* Mutant: a worker whose probe was cancelled ends without a signal.
FinishSilently(w) ==
    /\ LockFree
    /\ worker[w] # Idle
    /\ signals < MaxSignals
    /\ LET t == worker[w].task
       IN  IF running[t] = w
           THEN /\ running' = [running EXCEPT ![t] = NoProbe]
                /\ pend' = IF pend[t] = NoResult /\ ~worker[w].cancelled /\ ~closing
                           THEN [pend EXCEPT ![t] = worker[w].cfg] ELSE pend
           ELSE UNCHANGED <<running, pend>>
    /\ worker' = [worker EXCEPT ![w] = Idle]
    /\ activeProbes' = activeProbes - 1
    /\ signals' = IF worker[w].cancelled THEN signals ELSE signals + 1
    /\ UNCHANGED <<config, interval, lastRun, policyCount, schedVars, wake, closing, clock>>

\* The end of a probe, under the lock.
FinishProbe(w) ==
    /\ LockFree
    /\ worker[w] # Idle
    /\ signals < MaxSignals
    /\ LET t == worker[w].task
       IN  IF running[t] = w
           THEN /\ running' = [running EXCEPT ![t] = NoProbe]
                /\ pend' = IF pend[t] = NoResult /\ ~worker[w].cancelled /\ ~closing
                           THEN [pend EXCEPT ![t] = worker[w].cfg] ELSE pend
           ELSE UNCHANGED <<running, pend>>
    /\ worker' = [worker EXCEPT ![w] = Idle]
    /\ activeProbes' = activeProbes - 1
    /\ signals' = signals + 1
    /\ UNCHANGED <<config, interval, lastRun, policyCount, schedVars, wake, closing, clock>>

\* signalProbeScheduler after the unlock.
Signal ==
    /\ signals > 0
    /\ signals' = signals - 1
    /\ wake' = TRUE
    /\ UNCHANGED <<queueVars, workerVars, schedVars, closing, clock>>

-----------------------------------------------------------------------------
(* The reporter's calls *)

Changed(new) == {t \in Tasks : config[t] # NoTask /\ new[t] # config[t]}

\* The runs that invalidateResultsForPolicyLocked cancels.
CancelRuns(new) ==
    [w \in Slots |-> IF worker[w] # Idle /\ worker[w].task \in Changed(new)
                        /\ running[worker[w].task] = w
                     THEN [worker[w] EXCEPT !.cancelled = TRUE] ELSE worker[w]]

\* Mutant: a cancelled run is also forgotten.
ApplyPolicyForgettingRuns(new, every) ==
    /\ LockFree /\ ~closing
    /\ policyCount < MaxPolicies
    /\ policyCount' = policyCount + 1
    /\ config' = new
    /\ interval' = [t \in Tasks |-> IF new[t] = NoTask THEN interval[t] ELSE every[t]]
    /\ pend' = [t \in Tasks |-> IF t \in Changed(new) THEN NoResult ELSE pend[t]]
    /\ lastRun' = [t \in Tasks |-> IF t \in Changed(new) THEN 0 ELSE lastRun[t]]
    /\ worker' = CancelRuns(new)
    /\ running' = [t \in Tasks |-> IF t \in Changed(new) THEN NoProbe ELSE running[t]]
    /\ wake' = TRUE
    /\ UNCHANGED <<activeProbes, schedVars, signals, closing, clock>>

\* Mutant: the scheduler is not woken.
ApplyPolicySilently(new, every) ==
    /\ LockFree /\ ~closing
    /\ policyCount < MaxPolicies
    /\ policyCount' = policyCount + 1
    /\ config' = new
    /\ interval' = [t \in Tasks |-> IF new[t] = NoTask THEN interval[t] ELSE every[t]]
    /\ pend' = [t \in Tasks |-> IF t \in Changed(new) THEN NoResult ELSE pend[t]]
    /\ lastRun' = [t \in Tasks |-> IF t \in Changed(new) THEN 0 ELSE lastRun[t]]
    /\ worker' = CancelRuns(new)
    /\ UNCHANGED <<running, activeProbes, schedVars, wake, signals, closing, clock>>

\* applyPolicy; every is the interval of each task, defaults filled in.
ApplyPolicy(new, every) ==
    /\ LockFree /\ ~closing
    /\ policyCount < MaxPolicies
    /\ policyCount' = policyCount + 1
    /\ config' = new
    /\ interval' = [t \in Tasks |-> IF new[t] = NoTask THEN interval[t] ELSE every[t]]
    /\ pend' = [t \in Tasks |-> IF t \in Changed(new) THEN NoResult ELSE pend[t]]
    /\ lastRun' = [t \in Tasks |-> IF t \in Changed(new) THEN 0 ELSE lastRun[t]]
    /\ worker' = CancelRuns(new)
    /\ wake' = TRUE
    /\ UNCHANGED <<running, activeProbes, schedVars, signals, closing, clock>>

\* acknowledgeReports releases the samples of a set of tasks.
Acknowledge(S) ==
    /\ LockFree /\ ~closing
    /\ pend' = [t \in Tasks |-> IF t \in S THEN NoResult ELSE pend[t]]
    /\ wake' = TRUE
    /\ UNCHANGED <<config, interval, lastRun, policyCount, workerVars, schedVars, signals,
                   closing, clock>>

\* appendDueResults leases samples, which the scheduler does not look at, and wakes it.
AppendDueResults ==
    /\ LockFree /\ ~closing
    /\ wake' = TRUE
    /\ UNCHANGED <<queueVars, workerVars, schedVars, signals, closing, clock>>

\* close cancels s.ctx without the lock, then waits for AllStopped.
Close ==
    /\ ~closing
    /\ closing' = TRUE
    /\ UNCHANGED <<queueVars, workerVars, schedVars, wake, signals, clock>>

AllStopped == sched = "done" /\ signals = 0 /\ \A w \in Slots : worker[w] = Idle

Tick ==
    /\ clock < MaxTime
    /\ clock' = clock + 1
    /\ UNCHANGED <<queueVars, workerVars, schedVars, wake, signals, closing>>

-----------------------------------------------------------------------------
Init ==
    /\ config = [t \in Tasks |-> NoTask]
    /\ interval = [t \in Tasks |-> CHOOSE i \in Intervals : TRUE]
    /\ pend = [t \in Tasks |-> NoResult]
    /\ lastRun = [t \in Tasks |-> 0]
    /\ policyCount = 0
    /\ running = [t \in Tasks |-> NoProbe]
    /\ worker = [w \in Slots |-> Idle]
    /\ activeProbes = 0
    /\ preferWebsite = TRUE
    /\ sched = "entering"
    /\ passNow = 1
    /\ tick = 0
    /\ wake = FALSE
    /\ signals = 0
    /\ closing = FALSE
    /\ clock = 1

Next ==
    \/ PassStarts
    \/ LaunchProbe
    \/ PassEnds
    \/ SchedulerWakes
    \/ SchedulerStops
    \/ \E w \in Slots : FinishProbe(w)
    \/ Signal
    \/ \E new \in [Tasks -> Configs \cup {NoTask}], every \in [Tasks -> Intervals] :
         ApplyPolicy(new, every)
    \/ \E S \in SUBSET {t \in Tasks : pend[t] # NoResult} : Acknowledge(S)
    \/ AppendDueResults
    \/ Close
    \/ Tick

Spec == Init /\ [][Next]_vars

-----------------------------------------------------------------------------
(* Properties *)

TypeOK ==
    /\ config \in [Tasks -> Configs \cup {NoTask}]
    /\ interval \in [Tasks -> Intervals]
    /\ pend \in [Tasks -> Configs \cup {NoResult}]
    /\ lastRun \in [Tasks -> Nat]
    /\ policyCount \in 0..MaxPolicies
    /\ running \in [Tasks -> Slots \cup {NoProbe}]
    /\ worker \in [Slots -> Workers \cup {Idle}]
    /\ activeProbes \in Nat
    /\ preferWebsite \in BOOLEAN
    /\ sched \in {"entering", "launching", "waiting", "done"}
    /\ passNow \in Nat
    /\ tick \in Nat
    /\ wake \in BOOLEAN
    /\ signals \in 0..MaxSignals
    /\ closing \in BOOLEAN
    /\ clock \in Nat

\* A task never has two probes under way, not even when its first probe was cancelled
\* and has not noticed yet: the entry of a run stays until its worker ends.
OneProbePerTask ==
    \A v, w \in Slots : worker[v] # Idle /\ worker[w] # Idle /\ v # w =>
        worker[v].task # worker[w].task

\* The counter that bounds the workers counts exactly the workers under way.
ActiveProbesIsExact ==
    activeProbes = Cardinality({w \in Slots : worker[w] # Idle})

\* The scheduler never sleeps past a probe: with a worker free and no signal on its
\* way, its timer is set no later than the time any runnable task is due.
NoLostWakeup ==
    sched = "waiting" /\ ~wake /\ signals = 0 /\ ~closing /\ ~Full =>
        \A t \in Runnable : tick # 0 /\ tick <= Due(t)

\* The inductive invariant: the runs of the tasks and the workers in the slots are the
\* same, and a task under way has no sample waiting.
RunsMatchWorkers ==
    /\ \A w \in Slots : worker[w] # Idle => running[worker[w].task] = w
    /\ \A t \in Tasks : running[t] # NoProbe =>
         worker[running[t]] # Idle /\ worker[running[t]].task = t

RunningTasksHaveNoSample == \A t \in Tasks : running[t] # NoProbe => pend[t] = NoResult

IndInv ==
    /\ TypeOK
    /\ RunsMatchWorkers
    /\ RunningTasksHaveNoSample
    /\ ActiveProbesIsExact
    /\ NoLostWakeup

\* The scheduler, with its workers and its lock, keeps the promises of ProbeLifecycle.
probe ==
    [t \in Tasks |->
        IF running[t] = NoProbe THEN NoProbe
        ELSE IF closing \/ worker[running[t]].cancelled THEN Cancelled
        ELSE worker[running[t]].cfg]

Lifecycle == INSTANCE ProbeLifecycle WITH sample <- pend

ImplementsLifecycle == Lifecycle!Spec

-----------------------------------------------------------------------------
(* Liveness *)

\* The scheduler runs; a probe ends, for each has a timeout, and gets the lock, for
\* sync.Mutex starves no goroutine.
Fairness ==
    /\ WF_vars(PassStarts)
    /\ WF_vars(LaunchProbe)
    /\ WF_vars(PassEnds)
    /\ WF_vars(SchedulerWakes)
    /\ WF_vars(SchedulerStops)
    /\ \A w \in Slots : SF_vars(FinishProbe(w))
    /\ WF_vars(Signal)

FairSpec == Spec /\ Fairness

\* A task that is due is probed, unless its policy changes or the agent closes; and close
\* returns: the scheduler and every worker end, also when close is called while the
\* scheduler holds the lock or workers wait for it.
DueProbesRun ==
    /\ \A t \in Tasks : (t \in Runnable /\ Due(t) <= clock /\ ~closing)
                           ~> (t \notin Runnable \/ Due(t) > clock \/ closing)
    /\ closing ~> AllStopped

-----------------------------------------------------------------------------
(***************************************************************************)
(* Proofs about ProbeScheduler for every set of tasks, configurations and  *)
(* worker slots: no task has two probes, the worker counter is exact, no   *)
(* wake-up is lost, and the scheduler implements ProbeLifecycle.           *)
(***************************************************************************)

Busy(f) == {w \in Slots : f[w] # Idle}

\* The number of busy slots is a number, and a free slot is left when it is less
\* than the number of slots.
LEMMA BusyType == ASSUME NEW f PROVE IsFiniteSet(Busy(f)) /\ Cardinality(Busy(f)) \in Nat
  BY FS_Subset, FS_CardinalityType, SchedulerAssumption DEF Busy

\* Placing a run into a free slot makes one more busy.
LEMMA BusyGrows ==
  ASSUME NEW f, NEW g, NEW w \in Slots, f[w] = Idle, g[w] # Idle,
         \A v \in Slots : v # w => g[v] = f[v]
  PROVE  Cardinality(Busy(g)) = Cardinality(Busy(f)) + 1
<1>1. Busy(g) = Busy(f) \cup {w} BY DEF Busy
<1>2. w \notin Busy(f) BY DEF Busy
<1> QED BY <1>1, <1>2, BusyType, FS_AddElement

\* Ending a run makes one slot less busy.
LEMMA BusyShrinks ==
  ASSUME NEW f, NEW g, NEW w \in Slots, f[w] # Idle, g[w] = Idle,
         \A v \in Slots : v # w => g[v] = f[v]
  PROVE  Cardinality(Busy(g)) = Cardinality(Busy(f)) - 1
<1>1. Cardinality(Busy(f)) = Cardinality(Busy(g)) + 1 BY BusyGrows
<1> QED BY <1>1, BusyType

\* A run that is only cancelled stays in its slot.
LEMMA BusyStays ==
  ASSUME NEW f, NEW g, \A w \in Slots : (g[w] = Idle) <=> (f[w] = Idle)
  PROVE  Cardinality(Busy(g)) = Cardinality(Busy(f))
<1>1. Busy(g) = Busy(f) BY DEF Busy
<1> QED BY <1>1

\* The count of the invariant is the count of the lemmas above.
LEMMA ActiveIsBusy == ActiveProbesIsExact <=> activeProbes = Cardinality(Busy(worker))
  BY DEF ActiveProbesIsExact, Busy

\* The invariant holds when the agent starts.
LEMMA InitInv == Init => IndInv
<1> SUFFICES ASSUME Init PROVE IndInv OBVIOUS
<1> USE SchedulerAssumption DEF Init
<1>0. (CHOOSE i \in Intervals : TRUE) \in Intervals OBVIOUS
<1>1. TypeOK
  <2>1. preferWebsite \in BOOLEAN /\ wake \in BOOLEAN /\ closing \in BOOLEAN OBVIOUS
  <2>2. interval \in [Tasks -> Intervals] BY <1>0
  <2>3. policyCount \in 0..MaxPolicies /\ signals \in 0..MaxSignals OBVIOUS
  <2>4. /\ config \in [Tasks -> Configs \cup {NoTask}] /\ pend \in [Tasks -> Configs \cup {NoResult}]
        /\ running \in [Tasks -> Slots \cup {NoProbe}] /\ worker \in [Slots -> Workers \cup {Idle}]
    OBVIOUS
  <2>5. /\ lastRun \in [Tasks -> Nat] /\ activeProbes \in Nat /\ passNow \in Nat /\ tick \in Nat
        /\ clock \in Nat
    OBVIOUS
  <2>6. sched \in {"entering", "launching", "waiting", "done"} OBVIOUS
  <2> QED BY <2>1, <2>2, <2>3, <2>4, <2>5, <2>6 DEF TypeOK
<1>2. RunsMatchWorkers BY DEF RunsMatchWorkers
<1>3. RunningTasksHaveNoSample BY DEF RunningTasksHaveNoSample
<1>4. ActiveProbesIsExact
  <2>1. {w \in Slots : worker[w] # Idle} = {} OBVIOUS
  <2> QED BY <2>1, FS_EmptySet DEF ActiveProbesIsExact
<1>5. NoLostWakeup BY DEF NoLostWakeup
<1> QED BY <1>1, <1>2, <1>3, <1>4, <1>5 DEF IndInv

\* One round of the launch loop keeps the invariant.
LEMMA LaunchStep == IndInv /\ LaunchProbe => IndInv'
<1> SUFFICES ASSUME IndInv, LaunchProbe PROVE IndInv' OBVIOUS
<1> USE SchedulerAssumption, IdleAssumption DEF IndInv
<1>1. PICK t \in Selected, w \in {v \in Slots : worker[v] = Idle} :
        /\ Due(t) <= passNow
        /\ lastRun' = [lastRun EXCEPT ![t] = passNow]
        /\ running' = [running EXCEPT ![t] = w]
        /\ worker' = [worker EXCEPT ![w] = [task |-> t, cfg |-> config[t], cancelled |-> FALSE]]
  BY DEF LaunchProbe
<1>2. t \in Tasks /\ config[t] \in Configs /\ pend[t] = NoResult /\ running[t] = NoProbe
  BY DEF Selected, Earliest, Runnable, TypeOK
<1>w. [task |-> t, cfg |-> config[t], cancelled |-> FALSE] \in Workers BY <1>2 DEF Workers
<1>p. preferWebsite' \in BOOLEAN BY DEF LaunchProbe, TypeOK
<1>3. TypeOK'
  <2>1. worker' \in [Slots -> Workers \cup {Idle}] BY <1>1, <1>w DEF TypeOK
  <2>2. running' \in [Tasks -> Slots \cup {NoProbe}] BY <1>1, <1>2 DEF TypeOK
  <2>3. lastRun' \in [Tasks -> Nat] BY <1>1, <1>2 DEF TypeOK
  <2>4. activeProbes' \in Nat BY DEF TypeOK, LaunchProbe
  <2> QED BY <1>p, <2>1, <2>2, <2>3, <2>4 DEF TypeOK, LaunchProbe
<1>4. RunsMatchWorkers'
  <2>1. /\ worker'[w] # Idle /\ worker'[w].task = t /\ running'[t] = w
        /\ \A v \in Slots : v # w => worker'[v] = worker[v]
        /\ \A u \in Tasks : u # t => running'[u] = running[u]
    BY <1>1, <1>2, <1>w, IdleAssumption DEF TypeOK
  <2>2. \A v \in Slots : worker[v] # Idle => worker[v].task # t /\ worker[v].task \in Tasks
    BY <1>2 DEF RunsMatchWorkers, TypeOK, Workers
  <2>3. \A u \in Tasks : u # t /\ running[u] # NoProbe => running[u] # w /\ running[u] \in Slots
    BY <1>1 DEF RunsMatchWorkers, TypeOK
  <2> QED BY <2>1, <2>2, <2>3, <1>1, <1>2 DEF RunsMatchWorkers
<1>5. RunningTasksHaveNoSample' BY <1>1, <1>2 DEF RunningTasksHaveNoSample, TypeOK, LaunchProbe
<1>6. ActiveProbesIsExact'
  <2>1. Cardinality(Busy(worker')) = Cardinality(Busy(worker)) + 1
    BY <1>1, <1>w, BusyGrows DEF TypeOK
  <2>2. activeProbes' = activeProbes + 1 BY DEF LaunchProbe
  <2> QED BY <2>1, <2>2 DEF ActiveProbesIsExact, Busy
<1>7. NoLostWakeup' BY DEF NoLostWakeup, LaunchProbe
<1> QED BY <1>3, <1>4, <1>5, <1>6, <1>7

\* The end of a pass sets the timer to the earliest task.
LEMMA PassEndsStep == IndInv /\ PassEnds => IndInv'
<1> SUFFICES ASSUME IndInv, PassEnds PROVE IndInv' OBVIOUS
<1> USE SchedulerAssumption DEF IndInv
<1>d. \A t \in Tasks : Due(t) \in Nat
  <2> SUFFICES ASSUME NEW t \in Tasks PROVE Due(t) \in Nat OBVIOUS
  <2>1. interval[t] \in Intervals /\ lastRun[t] \in Nat BY DEF TypeOK
  <2>2. interval[t] \in Nat BY <2>1
  <2> QED BY <2>1, <2>2 DEF Due
<1>1. TypeOK'
  <2>1. tick' \in Nat BY <1>d DEF PassEnds, Selected, Earliest, Runnable
  <2>2. sched' \in {"entering", "launching", "waiting", "done"} BY DEF PassEnds
  <2> QED BY <2>1, <2>2 DEF TypeOK, PassEnds, queueVars, workerVars
<1>2. RunsMatchWorkers' BY DEF RunsMatchWorkers, PassEnds, workerVars
<1>3. RunningTasksHaveNoSample'
  <2>1. pend' = pend /\ running' = running BY DEF PassEnds, workerVars, queueVars
  <2> QED BY <2>1 DEF RunningTasksHaveNoSample
<1>4. ActiveProbesIsExact' BY DEF ActiveProbesIsExact, PassEnds, workerVars
<1>5. NoLostWakeup'
  <2>0. UNCHANGED <<Full, Runnable, closing>> /\ \A t \in Tasks : Due(t)' = Due(t)
    BY DEF PassEnds, Full, Runnable, Due, workerVars, queueVars
  <2>1. CASE (Full \/ closing \/ Runnable = {})
    BY <2>0, <2>1 DEF NoLostWakeup
  <2>2. CASE ~(Full \/ closing \/ Runnable = {})
    <3>1. PICK t \in Selected : Due(t) > passNow /\ tick' = Due(t) BY <2>2 DEF PassEnds
    <3>2. \A u \in Runnable : Due(t) <= Due(u) BY DEF Selected, Earliest
    <3>3. tick' # 0 BY <3>1, <1>d DEF TypeOK, Selected, Earliest, Runnable
    <3> QED BY <2>0, <3>1, <3>2, <3>3 DEF NoLostWakeup, Runnable
  <2> QED BY <2>1, <2>2
<1> QED BY <1>1, <1>2, <1>3, <1>4, <1>5

\* Waking up, taking the lock, stopping, signalling, closing and time leave the
\* queue and the workers alone.
LEMMA QuietStep ==
  IndInv /\ (PassStarts \/ SchedulerWakes \/ SchedulerStops \/ Signal \/ AppendDueResults \/ Close \/ Tick)
    => IndInv'
<1> SUFFICES ASSUME IndInv,
                    PassStarts \/ SchedulerWakes \/ SchedulerStops \/ Signal \/ AppendDueResults
                      \/ Close \/ Tick
             PROVE  IndInv'
  OBVIOUS
<1> USE SchedulerAssumption DEF IndInv
<1>0. UNCHANGED <<queueVars, workerVars>>
  BY DEF PassStarts, SchedulerWakes, SchedulerStops, Signal, AppendDueResults, Close, Tick
<1>1. TypeOK'
  <2>1. UNCHANGED <<preferWebsite>>
    BY DEF PassStarts, SchedulerWakes, SchedulerStops, Signal, AppendDueResults, Close, Tick, schedVars
  <2>2. wake' \in BOOLEAN /\ closing' \in BOOLEAN
    BY DEF TypeOK, PassStarts, SchedulerWakes, SchedulerStops, Signal, AppendDueResults, Close, Tick
  <2>3. /\ sched' \in {"entering", "launching", "waiting", "done"}
        /\ passNow' \in Nat /\ tick' \in Nat /\ signals' \in 0..MaxSignals /\ clock' \in Nat
    BY DEF TypeOK, PassStarts, SchedulerWakes, SchedulerStops, Signal, AppendDueResults, Close, Tick,
           schedVars
  <2> QED BY <1>0, <2>1, <2>2, <2>3 DEF TypeOK, queueVars, workerVars
<1>2. RunsMatchWorkers' BY <1>0 DEF RunsMatchWorkers, workerVars
<1>3. RunningTasksHaveNoSample' BY <1>0 DEF RunningTasksHaveNoSample, workerVars, queueVars
<1>4. ActiveProbesIsExact' BY <1>0 DEF ActiveProbesIsExact, workerVars
<1>5. NoLostWakeup'
  <2>1. UNCHANGED <<Full, Runnable>> /\ \A t \in Tasks : Due(t)' = Due(t)
    BY <1>0 DEF Full, Runnable, Due, workerVars, queueVars
  <2>2. CASE PassStarts BY <2>2 DEF NoLostWakeup, PassStarts
  <2>3. CASE SchedulerWakes BY <2>3 DEF NoLostWakeup, SchedulerWakes
  <2>4. CASE SchedulerStops BY <2>4 DEF NoLostWakeup, SchedulerStops
  <2>5. CASE Signal BY <2>5 DEF NoLostWakeup, Signal
  <2>6. CASE AppendDueResults BY <2>6 DEF NoLostWakeup, AppendDueResults
  <2>7. CASE Close BY <2>7 DEF NoLostWakeup, Close
  <2>8. CASE Tick BY <2>1, <2>8 DEF NoLostWakeup, Tick, schedVars, Runnable
  <2> QED BY <2>2, <2>3, <2>4, <2>5, <2>6, <2>7, <2>8
<1> QED BY <1>1, <1>2, <1>3, <1>4, <1>5

\* The end of a probe keeps the invariant.
LEMMA FinishStep == ASSUME NEW w \in Slots PROVE IndInv /\ FinishProbe(w) => IndInv'
<1> SUFFICES ASSUME IndInv, FinishProbe(w) PROVE IndInv' OBVIOUS
<1> USE SchedulerAssumption, IdleAssumption DEF IndInv
<1> DEFINE t == worker[w].task
<1>0. worker[w] \in Workers /\ t \in Tasks /\ worker[w].cfg \in Configs /\ running[t] = w /\ running[t] # NoProbe
  BY DEF FinishProbe, TypeOK, Workers, RunsMatchWorkers
<1>1. /\ running' = [running EXCEPT ![t] = NoProbe]
      /\ \/ pend' = [pend EXCEPT ![t] = worker[w].cfg]
         \/ pend' = pend
  BY <1>0 DEF FinishProbe
<1>2. worker' = [worker EXCEPT ![w] = Idle] BY DEF FinishProbe
<1>3. Cardinality(Busy(worker')) = Cardinality(Busy(worker)) - 1
  BY <1>0, <1>2, BusyShrinks DEF TypeOK, FinishProbe
<1>4. activeProbes' \in Nat /\ activeProbes' = Cardinality(Busy(worker'))
  <2>1. activeProbes = Cardinality(Busy(worker)) BY ActiveIsBusy
  <2>2. activeProbes' = activeProbes - 1 BY DEF FinishProbe
  <2> QED BY <2>1, <2>2, <1>3, BusyType
<1>5. TypeOK'
  <2>1. running' \in [Tasks -> Slots \cup {NoProbe}] BY <1>0, <1>1 DEF TypeOK
  <2>2. pend' \in [Tasks -> Configs \cup {NoResult}] BY <1>0, <1>1 DEF TypeOK
  <2>3. worker' \in [Slots -> Workers \cup {Idle}] BY <1>2 DEF TypeOK
  <2>4. signals' \in 0..MaxSignals BY DEF TypeOK, FinishProbe
  <2> QED BY <2>1, <2>2, <2>3, <2>4, <1>4 DEF TypeOK, FinishProbe, schedVars
<1>6. RunsMatchWorkers' BY <1>0, <1>1, <1>2 DEF RunsMatchWorkers, TypeOK
<1>7. RunningTasksHaveNoSample' BY <1>0, <1>1 DEF RunningTasksHaveNoSample, TypeOK
<1>8. ActiveProbesIsExact' BY <1>4 DEF ActiveProbesIsExact, Busy
<1>9. NoLostWakeup'
  <2>1. signals' # 0 BY DEF FinishProbe, TypeOK
  <2> QED BY <2>1 DEF NoLostWakeup
<1> QED BY <1>5, <1>6, <1>7, <1>8, <1>9

\* A policy keeps the runs of changed tasks until their workers end.
LEMMA PolicyStep ==
  ASSUME NEW new \in [Tasks -> Configs \cup {NoTask}], NEW every \in [Tasks -> Intervals]
  PROVE  IndInv /\ ApplyPolicy(new, every) => IndInv'
<1> SUFFICES ASSUME IndInv, ApplyPolicy(new, every) PROVE IndInv' OBVIOUS
<1> USE SchedulerAssumption, IdleAssumption DEF IndInv
<1>0. \A w \in Slots : /\ (worker'[w] = Idle) <=> (worker[w] = Idle)
                       /\ worker[w] # Idle => worker'[w].task = worker[w].task
                                              /\ worker'[w] \in Workers
  <2> SUFFICES ASSUME NEW w \in Slots
               PROVE  /\ (worker'[w] = Idle) <=> (worker[w] = Idle)
                      /\ worker[w] # Idle => worker'[w].task = worker[w].task
                                             /\ worker'[w] \in Workers
    OBVIOUS
  <2>1. worker[w] # Idle => worker[w] \in Workers BY DEF TypeOK
  <2>2. worker[w] # Idle => [worker[w] EXCEPT !.cancelled = TRUE] \in Workers BY <2>1 DEF Workers
  <2>3. worker[w] # Idle => [worker[w] EXCEPT !.cancelled = TRUE].task = worker[w].task
    BY <2>1 DEF Workers
  <2>4. worker'[w] = worker[w] \/ (worker[w] # Idle /\ worker'[w] = [worker[w] EXCEPT !.cancelled = TRUE])
    BY DEF ApplyPolicy, CancelRuns
  <2> QED BY <2>1, <2>2, <2>3, <2>4
<1>1. TypeOK'
  <2>1. worker' = [w \in Slots |-> worker'[w]] BY DEF ApplyPolicy, CancelRuns
  <2>2. worker' \in [Slots -> Workers \cup {Idle}] BY <1>0, <2>1
  <2>3. config' \in [Tasks -> Configs \cup {NoTask}] /\ interval' \in [Tasks -> Intervals]
    BY DEF ApplyPolicy, TypeOK
  <2>4. pend' \in [Tasks -> Configs \cup {NoResult}] /\ lastRun' \in [Tasks -> Nat]
    BY DEF ApplyPolicy, TypeOK
  <2>5. policyCount' \in 0..MaxPolicies BY DEF ApplyPolicy, TypeOK
  <2>6. wake' \in BOOLEAN BY DEF ApplyPolicy
  <2> QED BY <2>2, <2>3, <2>4, <2>5, <2>6 DEF ApplyPolicy, TypeOK, schedVars
<1>2. RunsMatchWorkers' BY <1>0 DEF RunsMatchWorkers, ApplyPolicy, TypeOK
<1>3. RunningTasksHaveNoSample' BY DEF RunningTasksHaveNoSample, ApplyPolicy, TypeOK
<1>4. ActiveProbesIsExact'
  <2>1. Cardinality(Busy(worker')) = Cardinality(Busy(worker)) BY <1>0, BusyStays
  <2>2. activeProbes' = activeProbes BY DEF ApplyPolicy
  <2> QED BY <2>1, <2>2 DEF ActiveProbesIsExact, Busy
<1>5. NoLostWakeup' BY DEF NoLostWakeup, ApplyPolicy
<1> QED BY <1>1, <1>2, <1>3, <1>4, <1>5

\* An acknowledgement only releases samples.
LEMMA AcknowledgeStep == ASSUME NEW S PROVE IndInv /\ Acknowledge(S) => IndInv'
<1> SUFFICES ASSUME IndInv, Acknowledge(S) PROVE IndInv' OBVIOUS
<1> USE SchedulerAssumption DEF IndInv
<1>1. TypeOK'
  <2>1. pend' \in [Tasks -> Configs \cup {NoResult}] BY DEF Acknowledge, TypeOK
  <2>2. wake' \in BOOLEAN BY DEF Acknowledge
  <2> QED BY <2>1, <2>2 DEF Acknowledge, TypeOK, schedVars, workerVars
<1>2. RunsMatchWorkers' BY DEF RunsMatchWorkers, Acknowledge, workerVars
<1>3. RunningTasksHaveNoSample' BY DEF RunningTasksHaveNoSample, Acknowledge, workerVars, TypeOK
<1>4. ActiveProbesIsExact' BY DEF ActiveProbesIsExact, Acknowledge, workerVars
<1>5. NoLostWakeup' BY DEF NoLostWakeup, Acknowledge
<1> QED BY <1>1, <1>2, <1>3, <1>4, <1>5

\* A step that changes nothing keeps the invariant.
LEMMA StutterStep == IndInv /\ UNCHANGED vars => IndInv'
  BY DEF IndInv, vars, queueVars, workerVars, schedVars, TypeOK, RunsMatchWorkers,
         RunningTasksHaveNoSample, ActiveProbesIsExact, NoLostWakeup, Full, Runnable, Due

\* Every step keeps the invariant.
LEMMA NextInv == IndInv /\ [Next]_vars => IndInv'
  BY LaunchStep, PassEndsStep, QuietStep, FinishStep, PolicyStep, AcknowledgeStep, StutterStep
  DEF Next

\* The inductive invariant of the scheduler.
THEOREM SchedulerInvariant == Spec => []IndInv
  BY InitInv, NextInv, PTL DEF Spec

\* The queue, the workers and the timer keep their types (ProbeScheduler).
THEOREM SchedulerTypes == Spec => []TypeOK
<1>1. IndInv => TypeOK BY DEF IndInv
<1> QED BY <1>1, SchedulerInvariant, PTL

\* A task never has two probes under way.
THEOREM OneProbe == Spec => []OneProbePerTask
<1>1. IndInv => OneProbePerTask BY DEF IndInv, RunsMatchWorkers, OneProbePerTask
<1> QED BY <1>1, SchedulerInvariant, PTL

\* The counter that bounds the workers is exact.
THEOREM CounterIsExact == Spec => []ActiveProbesIsExact
<1>1. IndInv => ActiveProbesIsExact BY DEF IndInv
<1> QED BY <1>1, SchedulerInvariant, PTL

\* The scheduler never sleeps past a probe that a free worker could run.
THEOREM WakeupsAreNotLost == Spec => []NoLostWakeup
<1>1. IndInv => NoLostWakeup BY DEF IndInv
<1> QED BY <1>1, SchedulerInvariant, PTL

-----------------------------------------------------------------------------
(* The scheduler implements ProbeLifecycle *)

\* Steps that touch neither the policy, the runs nor the samples are invisible.
LEMMA InvisibleStep ==
  UNCHANGED <<config, pend, running, worker, closing>> => UNCHANGED Lifecycle!vars
<1> SUFFICES ASSUME UNCHANGED <<config, pend, running, worker, closing>>
             PROVE  UNCHANGED Lifecycle!vars
  OBVIOUS
<1>1. probe' = probe BY DEF probe
<1> QED BY <1>1 DEF Lifecycle!vars

\* A launch starts the probe of a task without probe and sample.
LEMMA LaunchStarts == IndInv /\ LaunchProbe => \E t \in Tasks : Lifecycle!Start(t)
<1> SUFFICES ASSUME IndInv, LaunchProbe PROVE \E t \in Tasks : Lifecycle!Start(t) OBVIOUS
<1> USE SchedulerAssumption, IdleAssumption DEF IndInv
<1>1. PICK t \in Selected, w \in {v \in Slots : worker[v] = Idle} :
        /\ running' = [running EXCEPT ![t] = w]
        /\ worker' = [worker EXCEPT ![w] = [task |-> t, cfg |-> config[t], cancelled |-> FALSE]]
  BY DEF LaunchProbe
<1>2. t \in Tasks /\ config[t] \in Configs /\ pend[t] = NoResult /\ running[t] = NoProbe
  BY DEF Selected, Earliest, Runnable, TypeOK
<1>3. ~closing /\ ~closing' /\ UNCHANGED <<config, pend>> BY DEF LaunchProbe
<1>4. probe[t] = NoProbe BY <1>2 DEF probe
<1>5. \A u \in Tasks : u # t => probe'[u] = probe[u]
  <2> SUFFICES ASSUME NEW u \in Tasks, u # t PROVE probe'[u] = probe[u] OBVIOUS
  <2>1. running'[u] = running[u] BY <1>1, <1>2 DEF TypeOK
  <2>2. running[u] # NoProbe => running[u] \in Slots /\ running[u] # w
    BY <1>1 DEF TypeOK, RunsMatchWorkers
  <2>3. running[u] # NoProbe => worker'[running[u]] = worker[running[u]]
    BY <1>1, <2>2 DEF TypeOK
  <2> QED BY <2>1, <2>3, <1>3 DEF probe
<1>6. probe'[t] = config[t]
  <2>1. running'[t] = w /\ w # NoProbe BY <1>1, <1>2 DEF TypeOK
  <2>2. worker'[w].cfg = config[t] /\ ~worker'[w].cancelled BY <1>1 DEF TypeOK
  <2> QED BY <1>2, <1>3, <2>1, <2>2 DEF probe
<1>7. probe' = [probe EXCEPT ![t] = config[t]]
  <2>1. probe = [u \in Tasks |-> probe[u]] /\ probe' = [u \in Tasks |-> probe'[u]] BY DEF probe
  <2> QED BY <1>5, <1>6, <2>1
<1> QED BY <1>2, <1>3, <1>4, <1>7 DEF Lifecycle!Start

\* The end of a worker ends its probe, with a sample if it was not cancelled.
LEMMA FinishEnds ==
  ASSUME NEW w \in Slots
  PROVE  IndInv /\ FinishProbe(w) => \E t \in Tasks : Lifecycle!End(t)
<1> SUFFICES ASSUME IndInv, FinishProbe(w) PROVE \E t \in Tasks : Lifecycle!End(t) OBVIOUS
<1> USE SchedulerAssumption, IdleAssumption DEF IndInv
<1> DEFINE t == worker[w].task
<1>0. /\ worker[w] \in Workers /\ t \in Tasks /\ worker[w].cfg \in Configs
      /\ running[t] = w /\ running[t] # NoProbe /\ pend[t] = NoResult
  BY DEF FinishProbe, TypeOK, Workers, RunsMatchWorkers, RunningTasksHaveNoSample
<1>1. /\ running' = [running EXCEPT ![t] = NoProbe]
      /\ pend' = IF ~worker[w].cancelled /\ ~closing
                 THEN [pend EXCEPT ![t] = worker[w].cfg] ELSE pend
      /\ worker' = [worker EXCEPT ![w] = Idle]
      /\ UNCHANGED <<config, closing>>
  BY <1>0 DEF FinishProbe
<1>2. probe[t] = IF closing \/ worker[w].cancelled THEN Cancelled ELSE worker[w].cfg
  BY <1>0 DEF probe
<1>3. probe[t] # NoProbe BY <1>0, <1>2
<1>4. pend' = IF probe[t] = Cancelled THEN pend ELSE [pend EXCEPT ![t] = probe[t]]
  BY <1>0, <1>1, <1>2
<1>5. \A u \in Tasks : u # t => probe'[u] = probe[u]
  <2> SUFFICES ASSUME NEW u \in Tasks, u # t PROVE probe'[u] = probe[u] OBVIOUS
  <2>1. running'[u] = running[u] BY <1>0, <1>1 DEF TypeOK
  <2>2. running[u] # NoProbe => running[u] \in Slots /\ running[u] # w
    BY DEF TypeOK, RunsMatchWorkers
  <2>3. running[u] # NoProbe => worker'[running[u]] = worker[running[u]]
    BY <1>1, <2>2 DEF TypeOK
  <2> QED BY <2>1, <2>3, <1>1 DEF probe
<1>6. probe'[t] = NoProbe
  <2>1. running'[t] = NoProbe BY <1>0, <1>1 DEF TypeOK
  <2> QED BY <1>0, <2>1 DEF probe
<1>7. probe' = [probe EXCEPT ![t] = NoProbe]
  <2>1. probe = [u \in Tasks |-> probe[u]] /\ probe' = [u \in Tasks |-> probe'[u]] BY DEF probe
  <2> QED BY <1>5, <1>6, <2>1
<1> QED BY <1>0, <1>1, <1>3, <1>4, <1>7 DEF Lifecycle!End

\* A policy replaces configurations, runs and samples at once.
LEMMA PolicyReplaces ==
  ASSUME NEW new \in [Tasks -> Configs \cup {NoTask}], NEW every
  PROVE  IndInv /\ ApplyPolicy(new, every) => Lifecycle!Replace(new)
<1> SUFFICES ASSUME IndInv, ApplyPolicy(new, every) PROVE Lifecycle!Replace(new) OBVIOUS
<1> USE SchedulerAssumption, IdleAssumption DEF IndInv
<1>1. config' = new /\ UNCHANGED <<running, closing>> /\ ~closing /\ worker' = CancelRuns(new)
  BY DEF ApplyPolicy
<1>2. Lifecycle!Changed(new) = Changed(new) BY DEF Lifecycle!Changed, Changed
<1>3. pend' = [t \in Tasks |-> IF t \in Changed(new) THEN NoResult ELSE pend[t]] BY DEF ApplyPolicy
<1>4. ASSUME NEW t \in Tasks
      PROVE  probe'[t] = IF t \in Changed(new) /\ probe[t] # NoProbe THEN Cancelled ELSE probe[t]
  <2>1. CASE running[t] = NoProbe BY <1>1, <2>1 DEF probe
  <2>2. CASE running[t] # NoProbe
    <3> DEFINE w == running[t]
    <3>1. w \in Slots /\ worker[w] # Idle /\ worker[w].task = t /\ worker[w] \in Workers
      BY <2>2 DEF TypeOK, RunsMatchWorkers
    <3>2. probe[t] # NoProbe BY <2>2, <3>1 DEF probe, Workers
    <3>3. CASE t \in Changed(new)
      <4>1. worker'[w] = [worker[w] EXCEPT !.cancelled = TRUE]
        BY <1>1, <3>1, <3>3 DEF CancelRuns
      <4>2. worker'[w].cancelled BY <4>1, <3>1 DEF Workers
      <4> QED BY <1>1, <2>2, <3>2, <3>3, <4>2 DEF probe
    <3>4. CASE t \notin Changed(new)
      <4>1. worker'[w] = worker[w] BY <1>1, <3>1, <3>4 DEF CancelRuns
      <4> QED BY <1>1, <2>2, <3>4, <4>1 DEF probe
    <3> QED BY <3>3, <3>4
  <2> QED BY <2>1, <2>2
<1>5. probe' = [t \in Tasks |-> IF t \in Changed(new) /\ probe[t] # NoProbe
                                THEN Cancelled ELSE probe[t]]
  <2>1. probe' = [t \in Tasks |-> probe'[t]] BY DEF probe
  <2> QED BY <1>4, <2>1
<1> QED BY <1>1, <1>2, <1>3, <1>5 DEF Lifecycle!Replace

\* close cancels every run through s.ctx.
LEMMA CloseCancels == IndInv /\ Close => Lifecycle!CancelAll
<1> SUFFICES ASSUME IndInv, Close PROVE Lifecycle!CancelAll OBVIOUS
<1> USE SchedulerAssumption DEF IndInv
<1>1. closing' /\ UNCHANGED <<config, pend, running, worker>>
  BY DEF Close, queueVars, workerVars
<1>2. ASSUME NEW t \in Tasks
      PROVE  probe'[t] = IF probe[t] = NoProbe THEN NoProbe ELSE Cancelled
  <2>1. running[t] # NoProbe => probe[t] # NoProbe
    BY DEF probe, TypeOK, RunsMatchWorkers, Workers
  <2> QED BY <1>1, <2>1 DEF probe
<1>3. probe' = [t \in Tasks |-> IF probe[t] = NoProbe THEN NoProbe ELSE Cancelled]
  <2>1. probe' = [t \in Tasks |-> probe'[t]] BY DEF probe
  <2> QED BY <1>2, <2>1
<1> QED BY <1>1, <1>3 DEF Lifecycle!CancelAll

\* Every step of the scheduler is a step of ProbeLifecycle or invisible.
LEMMA StepsImplement == IndInv /\ [Next]_vars => [Lifecycle!Next]_(Lifecycle!vars)
<1> SUFFICES ASSUME IndInv, [Next]_vars PROVE Lifecycle!Next \/ UNCHANGED Lifecycle!vars OBVIOUS
<1>1. CASE LaunchProbe BY <1>1, LaunchStarts DEF Lifecycle!Next
<1>2. CASE \E w \in Slots : FinishProbe(w) BY <1>2, FinishEnds DEF Lifecycle!Next
<1>3. CASE \E new \in [Tasks -> Configs \cup {NoTask}], every \in [Tasks -> Intervals] :
             ApplyPolicy(new, every)
  BY <1>3, PolicyReplaces DEF Lifecycle!Next
<1>4. CASE Close BY <1>4, CloseCancels DEF Lifecycle!Next
<1>5. CASE \E S \in SUBSET {t \in Tasks : pend[t] # NoResult} : Acknowledge(S)
  <2>1. PICK S \in SUBSET {t \in Tasks : pend[t] # NoResult} : Acknowledge(S) BY <1>5
  <2>2. S \in SUBSET Tasks OBVIOUS
  <2>3. UNCHANGED <<config, running, worker, closing>> BY <2>1 DEF Acknowledge, workerVars
  <2>4. probe' = probe BY <2>3 DEF probe
  <2>5. Lifecycle!Release(S) BY <2>1, <2>3, <2>4 DEF Lifecycle!Release, Acknowledge
  <2> QED BY <2>2, <2>5 DEF Lifecycle!Next
<1>6. CASE PassStarts \/ PassEnds \/ SchedulerWakes \/ SchedulerStops \/ Signal \/ AppendDueResults
           \/ Tick \/ UNCHANGED vars
  <2>1. UNCHANGED <<config, pend, running, worker, closing>>
    BY <1>6 DEF PassStarts, PassEnds, SchedulerWakes, SchedulerStops, Signal, AppendDueResults,
                Tick, vars, queueVars, workerVars
  <2> QED BY <2>1, InvisibleStep
<1> QED BY <1>1, <1>2, <1>3, <1>4, <1>5, <1>6 DEF Next

\* The scheduler, its workers, its lock and its shutdown implement ProbeLifecycle.
THEOREM SchedulerImplements == Spec => ImplementsLifecycle
<1>1. Init => Lifecycle!Init
  <2> SUFFICES ASSUME Init PROVE Lifecycle!Init OBVIOUS
  <2>1. probe = [t \in Tasks |-> NoProbe] BY DEF Init, probe
  <2> QED BY <2>1 DEF Init, Lifecycle!Init
<1> QED BY <1>1, StepsImplement, SchedulerInvariant, PTL DEF Spec, ImplementsLifecycle, Lifecycle!Spec
=============================================================================
