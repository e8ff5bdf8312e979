--------------------------- MODULE ProbeLifecycle ---------------------------
(***************************************************************************)
(* What the agent promises about the probes of a policy, whatever schedules *)
(* them and whatever delivers their samples: a task has at most one probe   *)
(* under way, a probe starts only when the task's last sample has been      *)
(* released, and a probe or a sample whose task was changed or removed is    *)
(* never used.  The module ProbeScheduler and the module WsReporter          *)
(* implement it.                                                            *)
(***************************************************************************)
CONSTANTS Tasks, Configs, NoTask, NoProbe, Cancelled, NoResult

VARIABLES
    config,     \* the policy: the configuration of each task
    probe,      \* the probe under way
    sample      \* the configuration of the sample that waits

vars == <<config, probe, sample>>

Init ==
    /\ config = [t \in Tasks |-> NoTask]
    /\ probe = [t \in Tasks |-> NoProbe]
    /\ sample = [t \in Tasks |-> NoResult]

Changed(new) == {t \in Tasks : config[t] # NoTask /\ new[t] # config[t]}

\* A policy replaces the one before, its probes and its samples at once.
Replace(new) ==
    /\ config' = new
    /\ probe' = [t \in Tasks |-> IF t \in Changed(new) /\ probe[t] # NoProbe
                                 THEN Cancelled ELSE probe[t]]
    /\ sample' = [t \in Tasks |-> IF t \in Changed(new) THEN NoResult ELSE sample[t]]

Start(t) ==
    /\ config[t] # NoTask
    /\ probe[t] = NoProbe
    /\ sample[t] = NoResult
    /\ probe' = [probe EXCEPT ![t] = config[t]]
    /\ UNCHANGED <<config, sample>>

\* A cancelled probe leaves no sample.
End(t) ==
    /\ probe[t] # NoProbe
    /\ probe' = [probe EXCEPT ![t] = NoProbe]
    /\ sample' = IF probe[t] = Cancelled THEN sample
                                         ELSE [sample EXCEPT ![t] = probe[t]]
    /\ UNCHANGED config

\* Delivered samples are released.
Release(S) ==
    /\ sample' = [t \in Tasks |-> IF t \in S THEN NoResult ELSE sample[t]]
    /\ UNCHANGED <<config, probe>>

\* The agent shuts down.
CancelAll ==
    /\ probe' = [t \in Tasks |-> IF probe[t] = NoProbe THEN NoProbe ELSE Cancelled]
    /\ UNCHANGED <<config, sample>>

Next ==
    \/ \E new \in [Tasks -> Configs \cup {NoTask}] : Replace(new)
    \/ \E t \in Tasks : Start(t) \/ End(t)
    \/ \E S \in SUBSET Tasks : Release(S)
    \/ CancelAll

Spec == Init /\ [][Next]_vars
=============================================================================
