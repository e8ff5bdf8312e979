--------------------------- MODULE WebsiteMonitor ---------------------------
(***************************************************************************)
(* The state of one website monitor.  The worker probes the site itself    *)
(* (worker/src/utils/website-monitor.ts), agents probe it and report, and  *)
(* an agent's failure counts only after the worker has looked: LiveDataDO  *)
(* keeps a durable job for it (worker/src/do/live-data.ts,                 *)
(* queueWebsiteRecheck, processWebsiteRechecks).  An administrator changes *)
(* the configuration meanwhile, which gives the monitor a new revision.    *)
(* Results carry the time at which the probe began and the revision it was *)
(* made for; SQL refuses the ones that come too late                       *)
(* (cfm_record_website_check).                                             *)
(***************************************************************************)
EXTENDS Integers, FiniteSets

CONSTANTS
    NoJob,          \* nothing in storage, nothing under way
    MaxJobs,        \* WEBSITE_RECHECK_MAX_PENDING
    MaxTime,        \* bound: probes begin at the times 1..MaxTime
    MaxRevision     \* bound: changes of the configuration

Revisions == 1..MaxRevision
Times == 1..MaxTime
Checks == [rev : Revisions, at : Times, ok : BOOLEAN, source : {"worker", "agent"}]

MonitorAssumption ==
    MaxJobs \in Nat \ {0} /\ MaxTime \in Nat \ {0} /\ MaxRevision \in Nat \ {0} /\ NoJob \notin Checks

VARIABLES
    now,
    row,        \* SQL: website_monitors
    checks,     \* SQL: website_checks
    assigned,   \* LiveDataDO: the revision of the cached probe tasks
    report,     \* a result that an agent sends until it is acknowledged
    job,        \* LiveDataDO storage: the failure to look into, for each revision
    recheck,    \* the alarm's work on a job
    probe       \* a probe of the scheduled run, or of POST /websites/:id/check

vars == <<now, row, checks, assigned, report, job, recheck, probe>>
sql == <<row, checks>>

\* cfm_record_website_check: of this configuration, newer than the state and than the
\* last result of the same source.
Accepts(c) ==
    /\ row.enabled /\ c.rev = row.rev /\ c.at > row.at
    /\ ~\E h \in checks : h.source = c.source /\ h.at >= c.at /\ h.rev = row.rev

\* An agent's failure is history only; everything else is the state of the monitor.
Record(c) ==
    IF Accepts(c)
    THEN /\ checks' = checks \cup {c}
         /\ row' = IF c.source = "agent" /\ ~c.ok THEN row
                   ELSE [rev |-> row.rev, enabled |-> row.enabled, at |-> c.at,
                         status |-> IF c.ok THEN "up" ELSE "down"]
    ELSE UNCHANGED sql

-----------------------------------------------------------------------------
(* Agents *)

\* An agent probes the site for the configuration that it knows.
AgentProbes(rev, ok) ==
    /\ report = NoJob /\ rev <= row.rev
    /\ report' = [pc |-> "sent", check |-> [rev |-> rev, at |-> now, ok |-> ok, source |-> "agent"]]
    /\ UNCHANGED <<now, row, checks, assigned, job, recheck, probe>>

\* The cache of the tasks is read anew.
TasksRead ==
    /\ assigned' = row.rev
    /\ UNCHANGED <<now, row, checks, report, job, recheck, probe>>

Pending == {r \in Revisions : job[r] # NoJob}

\* queueWebsiteRecheck; a full queue rejects the report, and the agent sends it again.
Queued(c) ==
    IF job[c.rev] # NoJob THEN job' = [job EXCEPT ![c.rev] = IF @.at < c.at THEN c ELSE @]
    ELSE Cardinality(Pending) < MaxJobs /\ job' = [job EXCEPT ![c.rev] = c]

\* persistWebsiteProbeResultsFromReport: a result of another assignment is dropped, a
\* failure becomes a job before it is recorded.
ReportComes ==
    /\ report # NoJob /\ report.pc = "sent"
    /\ IF report.check.rev # assigned THEN report' = NoJob /\ UNCHANGED job
       ELSE /\ report' = [report EXCEPT !.pc = "record"]
            /\ IF report.check.ok THEN UNCHANGED job ELSE Queued(report.check)
    /\ UNCHANGED <<now, row, checks, assigned, recheck, probe>>

ReportRecorded ==
    /\ report # NoJob /\ report.pc = "record"
    /\ Record(report.check)
    /\ report' = NoJob
    /\ UNCHANGED <<now, assigned, job, recheck, probe>>

\* The call fails, before or after the commit, or the object restarts: the agent sends
\* the report again.
ReportFails ==
    /\ report # NoJob /\ report.pc = "record"
    /\ UNCHANGED sql \/ Record(report.check)
    /\ report' = [report EXCEPT !.pc = "sent"]
    /\ UNCHANGED <<now, assigned, job, recheck, probe>>

-----------------------------------------------------------------------------
(* The alarm: processWebsiteRechecks *)

StillIn(site, c) == site.enabled /\ site.rev = c.rev /\ site.at <= c.at

RecheckStarts(r) ==
    /\ job[r] # NoJob /\ recheck[r] = NoJob
    /\ recheck' = [recheck EXCEPT ![r] = [pc |-> IF StillIn(row, job[r]) THEN "replay" ELSE "end",
                                          job |-> job[r], at |-> 0]]
    /\ UNCHANGED <<now, row, checks, assigned, report, job, probe>>

\* The agent's result is recorded again, in case its first commit was interrupted.
Replay(r) ==
    /\ recheck[r] # NoJob /\ recheck[r].pc = "replay"
    /\ Record(recheck[r].job)
    /\ recheck' = [recheck EXCEPT ![r] = [pc |-> IF StillIn(row', @.job) THEN "http" ELSE "end",
                                          job |-> @.job, at |-> now]]
    /\ UNCHANGED <<now, assigned, report, job, probe>>

Looked(r, ok) ==
    /\ recheck[r] # NoJob /\ recheck[r].pc = "http"
    /\ Record([rev |-> r, at |-> recheck[r].at, ok |-> ok, source |-> "worker"])
    /\ recheck' = [recheck EXCEPT ![r].pc = "end"]
    /\ UNCHANGED <<now, assigned, report, job, probe>>

\* Mutant: the job is deleted although a newer failure took its place.
RecheckEndsAlways(r) ==
    /\ recheck[r] # NoJob /\ recheck[r].pc = "end"
    /\ job' = [job EXCEPT ![r] = NoJob]
    /\ recheck' = [recheck EXCEPT ![r] = NoJob]
    /\ UNCHANGED <<now, row, checks, assigned, report, probe>>

\* The job is deleted if it is still the same one.
RecheckEnds(r) ==
    /\ recheck[r] # NoJob /\ recheck[r].pc = "end"
    /\ job' = [job EXCEPT ![r] = IF @ = recheck[r].job THEN NoJob ELSE @]
    /\ recheck' = [recheck EXCEPT ![r] = NoJob]
    /\ UNCHANGED <<now, row, checks, assigned, report, probe>>

\* A call fails, or the object restarts: the job stays for a later alarm.
RecheckFails(r) ==
    /\ recheck[r] # NoJob
    /\ recheck' = [recheck EXCEPT ![r] = NoJob]
    /\ UNCHANGED <<now, row, checks, assigned, report, job, probe>>

-----------------------------------------------------------------------------
(* The worker's probes and the administrator *)

\* checkWebsiteMonitorHttp begins; it ends with a status or an error, in any order.
ProbeStarts ==
    /\ probe = NoJob /\ row.enabled
    /\ probe' = [rev |-> row.rev, at |-> now]
    /\ UNCHANGED <<now, row, checks, assigned, report, job, recheck>>

ProbeEnds(ok) ==
    /\ probe # NoJob
    /\ Record([rev |-> probe.rev, at |-> probe.at, ok |-> ok, source |-> "worker"])
    /\ probe' = NoJob
    /\ UNCHANGED <<now, assigned, report, job, recheck>>

\* POST /websites/edit, /websites/enabled: a new revision starts from nothing.
Edit(enabled) ==
    /\ row.rev < MaxRevision
    /\ row' = [rev |-> row.rev + 1, enabled |-> enabled, at |-> 0,
               status |-> IF enabled THEN "pending" ELSE "paused"]
    /\ UNCHANGED <<now, checks, assigned, report, job, recheck, probe>>

Tick ==
    /\ now < MaxTime
    /\ now' = now + 1
    /\ UNCHANGED <<row, checks, assigned, report, job, recheck, probe>>

-----------------------------------------------------------------------------
Init ==
    /\ now = 1
    /\ row = [rev |-> 1, enabled |-> TRUE, status |-> "pending", at |-> 0]
    /\ checks = {} /\ assigned = 1
    /\ report = NoJob /\ probe = NoJob
    /\ job = [r \in Revisions |-> NoJob] /\ recheck = [r \in Revisions |-> NoJob]

Next ==
    \/ \E r \in Revisions, ok \in BOOLEAN : AgentProbes(r, ok) \/ Looked(r, ok)
    \/ TasksRead \/ ReportComes \/ ReportRecorded \/ ReportFails
    \/ \E r \in Revisions : RecheckStarts(r) \/ Replay(r) \/ RecheckEnds(r) \/ RecheckFails(r)
    \/ ProbeStarts \/ \E ok \in BOOLEAN : ProbeEnds(ok) \/ Edit(ok)
    \/ Tick

\* The alarm is set while there are jobs, and a job that is tried again and again gets
\* through each of its steps some time.
Fairness ==
    \A r \in Revisions :
      /\ WF_vars(RecheckStarts(r))
      /\ SF_vars(Replay(r)) /\ SF_vars(\E ok \in BOOLEAN : Looked(r, ok)) /\ SF_vars(RecheckEnds(r))

Spec == Init /\ [][Next]_vars /\ Fairness

-----------------------------------------------------------------------------
(* Properties *)

\* The variables have their types.
TypeOK ==
    /\ now \in Times /\ assigned \in Revisions
    /\ row \in [rev : Revisions, enabled : BOOLEAN, at : 0..MaxTime,
                status : {"pending", "paused", "up", "down"}]
    /\ checks \subseteq Checks
    /\ job \in [Revisions -> Checks \cup {NoJob}]
    /\ Cardinality(Pending) <= MaxJobs

\* The state comes from the newest result of the present configuration: no result of an
\* older one, and none that began earlier, however late it ends.
StateIsNewest ==
    /\ row.status \in {"up", "down"} =>
         \E h \in checks : h.rev = row.rev /\ h.at = row.at /\ h.ok = (row.status = "up")
    /\ \A h \in checks : h.rev = row.rev /\ (h.ok \/ h.source = "worker") => h.at <= row.at

\* A failure that an agent has reported is never forgotten: as long as its
\* configuration is the present one there is a job for it or for a later failure, or
\* the state is at least as new (queueWebsiteRecheck before recordWebsiteCheck, and the
\* identity of the job when it is deleted).
FailureIsCovered ==
    \A h \in checks :
      h.source = "agent" /\ ~h.ok /\ h.rev = row.rev
        => row.at >= h.at \/ (job[h.rev] # NoJob /\ job[h.rev].at >= h.at)

=============================================================================
