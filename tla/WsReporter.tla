----------------------------- MODULE WsReporter -----------------------------
(***************************************************************************)
(* The agent's queue of probe results (pingReportState in agent/main.go    *)
(* and agent/report_delivery.go) and the WebSocket reporter that empties   *)
(* it (runWebSocketReporter, runWebSocketSession, readWebSocketMessages).  *)
(* Results wait until a report leases them, a report that is not           *)
(* acknowledged goes to a retry queue, and a policy change throws away     *)
(* what belongs to a probe that no longer exists.  A session sends one     *)
(* batch of reports at a time and waits for the server's acknowledgement;  *)
(* a session that ends hands what was not acknowledged to the retry queue. *)
(* The server (LiveDataDO) persists a batch, then acknowledges it on the   *)
(* connection it came from, if that is still the client's session.         *)
(*                                                                         *)
(* The order lists pingOrder and websiteOrder are represented by the       *)
(* sequence numbers: an id is appended with the next number and pruned     *)
(* with its result.  The retry queue is a set, so the order in which       *)
(* retried reports are sent again is left open.                            *)
(***************************************************************************)
EXTENDS Integers, Sequences, FiniteSets, FiniteSetsExt, SequencesExt

CONSTANTS
    PingTasks,              \* ids of ping tasks
    WebsiteTasks,           \* ids of website monitors
    Configs,                \* what samePingProbe/sameWebsiteProbe compare
    NoTask,                 \* the policy does not list the task
    NoResult,               \* no result waits for the task
    NoProbe,                \* no probe of the task is under way
    Cancelled,              \* a probe is under way whose result is not wanted
    PingLimit,              \* maxPingResultsPerReport
    WebsiteLimit,           \* maxWebsiteResultsPerReport
    MaxResults,             \* bound: results produced in a behaviour
    MaxPolicies,            \* bound: policies received in a behaviour
    MaxBasicInfo            \* bound: refreshes of the basic information

Tasks == PingTasks \cup WebsiteTasks

ASSUME TasksAssumption ==
    /\ PingTasks \cap WebsiteTasks = {}
    /\ IsFiniteSet(Tasks)
    /\ NoTask \notin Configs
    /\ NoProbe \notin Configs
    /\ Cancelled \notin Configs
    /\ NoProbe # Cancelled /\ NoProbe # NoTask
ASSUME LimitAssumption ==
    /\ PingLimit \in Nat \ {0}
    /\ WebsiteLimit \in Nat \ {0}
ASSUME BoundAssumption ==
    /\ MaxResults \in Nat
    /\ MaxPolicies \in Nat
    /\ MaxBasicInfo \in Nat \ {0}

VARIABLES
    config,         \* s.tasks, s.websiteTasks: the current probe of each task
    running,        \* runningPing, runningWebsites: the probe under way
    pend,           \* pendingPing, pendingWebsites: the result that waits
    nextResultID,   \* the last sequence number given out
    retryQueue,     \* reports that were not acknowledged
    basicRevision,  \* reportPreparer.basicInfoRevision
    basicPending,   \* reportPreparer.pendingBasicInfo # nil
    policyCount,    \* policies received so far (bound only)
    accepted,       \* history: results the server has persisted
    acceptedBasic   \* history: basic information the server has persisted

queueVars == <<config, running, pend, nextResultID, retryQueue,
               basicRevision, basicPending, policyCount>>
historyVars == <<accepted, acceptedBasic>>

-----------------------------------------------------------------------------
(* Data *)

Seqs == Nat \ {0}

\* A sample of a task, numbered by its place in the queue.
Results == Tasks \X Seqs \X Configs

Queued == [seq : Seqs, leased : BOOLEAN, cfg : Configs]

\* The nil pointer of pendingPing[id] and pendingWebsites[id].
ASSUME NoResultAssumption == NoResult \notin Queued

\* The lease map and the results of a report are separate: filtering a report
\* drops results and keeps the leases.
Reports == [leases : SUBSET (Tasks \X Seqs), results : SUBSET Results, basic : Nat]

\* The probe under way: of a configuration, or cancelled since it was started.
Runs == Configs \cup {NoProbe, Cancelled}

HasResult(r) == r.results # {}

-----------------------------------------------------------------------------
(* Reports *)

\* currentReportResultsLocked and currentReportBasicInfo: drop what the queue
\* no longer holds under the leased sequence number.
CurrentReport(pd, rev, bp, r) ==
    [leases  |-> r.leases,
     results |-> {x \in r.results : pd[x[1]] # NoResult /\ pd[x[1]].seq = x[2]},
     basic   |-> IF bp /\ r.basic = rev THEN r.basic ELSE 0]

CurrentReports(pd, rev, bp, s) ==
    [i \in 1..Len(s) |-> CurrentReport(pd, rev, bp, s[i])]

\* What retryReports and takeRetryReports keep of a set of reports.
Retained(pd, rev, bp, R) ==
    {x \in {CurrentReport(pd, rev, bp, r) : r \in R} : HasResult(x)}

\* The sequences in which takeRetryReports may return the retry queue.
RetryOrders(pd, rev, bp) ==
    LET R == Retained(pd, rev, bp, retryQueue)
    IN  Surjection(1..Cardinality(R), R)

Unleased(pd, K) == {t \in K : pd[t] # NoResult /\ ~pd[t].leased}

\* The number of the report, counted from the first, whose turn it is when
\* appendPendingResultsLocked reaches t: the lists are walked in queue order
\* and each report takes at most limit results of a kind.
ReportOf(pd, K, limit, t) ==
    (Cardinality({u \in Unleased(pd, K) : pd[u].seq < pd[t].seq}) \div limit) + 1

ReportIndex(pd, t) ==
    IF t \in PingTasks THEN ReportOf(pd, PingTasks, PingLimit, t)
                       ELSE ReportOf(pd, WebsiteTasks, WebsiteLimit, t)

\* The results and leases of the i-th report.
FreshReport(pd, i, basic) ==
    LET U == {t \in Unleased(pd, Tasks) : ReportIndex(pd, t) = i}
    IN  [leases  |-> {<<t, pd[t].seq>> : t \in U},
         results |-> {<<t, pd[t].seq, pd[t].cfg>> : t \in U},
         basic   |-> IF i = 1 THEN basic ELSE 0]

\* appendDueResults and appendPendingReports: the sample itself, which is sent
\* even without results, and one more report while results are left.  A
\* singleton, stated as a set so that the last report is named, not computed.
FreshReports(pd, basic) ==
    LET I == {1} \cup {ReportIndex(pd, t) : t \in Unleased(pd, Tasks)}
    IN  {[i \in 1..n |-> FreshReport(pd, i, basic)] : n \in {m \in I : \A i \in I : i <= m}}

\* Every result is leased once the reports are prepared.
Lease(pd) ==
    [t \in Tasks |-> IF pd[t] = NoResult THEN NoResult ELSE [pd[t] EXCEPT !.leased = TRUE]]

-----------------------------------------------------------------------------
(* What the reporters do with the queue *)

\* attachBasicInfoIfDue: always the first time, later when it is due again.
RefreshBasicInfo ==
    \/ /\ basicRevision < MaxBasicInfo
       /\ basicRevision' = basicRevision + 1
       /\ basicPending' = TRUE
    \/ /\ basicRevision > 0
       /\ UNCHANGED <<basicRevision, basicPending>>

\* prepareReportsWithPing when the queue holds pd: its effect on the queue (the
\* caller empties the retry queue) and the reports it returns.
PrepareReports(pd) == RefreshBasicInfo /\ pend' = Lease(pd)

PreparedReports(pd) ==
    {retry \o fresh : retry \in RetryOrders(pd, basicRevision, basicPending),
                      fresh \in FreshReports(pd, IF basicPending' THEN basicRevision' ELSE 0)}

\* acknowledgeReports: what the queue holds after the batch is acknowledged.
Acknowledged(pd, batch) ==
    [t \in Tasks |->
        IF /\ pd[t] # NoResult
           /\ \E i \in 1..Len(batch) : <<t, pd[t].seq>> \in batch[i].leases
        THEN NoResult ELSE pd[t]]

BasicAcknowledged(batch) ==
    \E i \in 1..Len(batch) : batch[i].basic # 0 /\ batch[i].basic = basicRevision

-----------------------------------------------------------------------------
(* Policies and probes *)

Policies == [Tasks -> Configs \cup {NoTask}]

\* The tasks that invalidateResultsForPolicyLocked gives up.
Changed(new) == {t \in Tasks : config[t] # NoTask /\ new[t] # config[t]}

\* Mutant: only the results of removed tasks are given up.
RemovedInvalidated(new) ==
    [t \in Tasks |-> IF t \in Changed(new) /\ new[t] = NoTask THEN NoResult ELSE pend[t]]

Invalidated(new) == [t \in Tasks |-> IF t \in Changed(new) THEN NoResult ELSE pend[t]]

\* applyPolicy, but for its effect on pend: a cancelled probe keeps its entry
\* until its worker has ended.
ApplyPolicy(new) ==
    /\ policyCount < MaxPolicies
    /\ policyCount' = policyCount + 1
    /\ config' = new
    /\ running' = [t \in Tasks |-> IF t \in Changed(new) /\ running[t] # NoProbe
                                   THEN Cancelled ELSE running[t]]

Probing == {t \in Tasks : running[t] \in Configs}

\* launchDueProbes starts a probe of a task that has neither a probe under way
\* nor a result waiting (the module ProbeScheduler says when).
LaunchProbe(t) ==
    /\ config[t] # NoTask
    /\ pend[t] = NoResult
    /\ running[t] = NoProbe
    /\ nextResultID + Cardinality(Probing) < MaxResults
    /\ running' = [running EXCEPT ![t] = config[t]]
    /\ UNCHANGED <<config, pend, nextResultID, retryQueue, basicRevision,
                   basicPending, policyCount>>

\* runPingProbe and runWebsiteProbe after the measurement: queue the result
\* unless the probe was cancelled or a result already waits.
FinishProbe(t) ==
    /\ running[t] # NoProbe
    /\ running' = [running EXCEPT ![t] = NoProbe]
    /\ IF running[t] # Cancelled /\ pend[t] = NoResult
       THEN /\ nextResultID' = nextResultID + 1
            /\ pend' = [pend EXCEPT ![t] = [seq |-> nextResultID + 1, leased |-> FALSE,
                                            cfg |-> running[t]]]
       ELSE UNCHANGED <<nextResultID, pend>>
    /\ UNCHANGED <<config, retryQueue, basicRevision, basicPending, policyCount>>

QueueInit ==
    /\ config = [t \in Tasks |-> NoTask]
    /\ running = [t \in Tasks |-> NoProbe]
    /\ pend = [t \in Tasks |-> NoResult]
    /\ nextResultID = 0
    /\ retryQueue = {}
    /\ basicRevision = 0
    /\ basicPending = FALSE
    /\ policyCount = 0
    /\ accepted = {}
    /\ acceptedBasic = {}

QueueTypeOK ==
    /\ config \in [Tasks -> Configs \cup {NoTask}]
    /\ running \in [Tasks -> Runs]
    /\ pend \in [Tasks -> Queued \cup {NoResult}]
    /\ nextResultID \in Nat
    /\ retryQueue \subseteq Reports
    /\ IsFiniteSet(retryQueue)
    /\ basicRevision \in Nat
    /\ basicPending \in BOOLEAN
    /\ policyCount \in 0..MaxPolicies
    /\ accepted \subseteq Tasks \X Seqs
    /\ acceptedBasic \subseteq Nat

-----------------------------------------------------------------------------
(* The reporter *)

CONSTANTS
    MaxReportsPerEnvelope,  \* maxReportsPerEnvelope
    MaxPending,             \* bound: reports that wait to be sent
    MaxFaults               \* bound: failures of the network or the server

ASSUME EnvelopeAssumption == MaxReportsPerEnvelope \in Nat \ {0}
ASSUME WsBoundAssumption == MaxPending \in Nat /\ MaxFaults \in Nat

VARIABLES
    connected,      \* a session runs
    pending,        \* reports prepared and not sent in this session
    inFlight,       \* the batch that waits for its acknowledgement
    uploadReady,    \* the next flush may send
    eager,          \* currentUploadInterval <= currentInterval
    ackDeadline,    \* the acknowledgement timer is armed
    acks,           \* the channel acks (0 or 1)
    ackWire,        \* acknowledgements under way to the agent
    wire,           \* batches under way to the server
    faults          \* faults so far (bound only)

sessionVars == <<connected, pending, inFlight, uploadReady, eager, ackDeadline, acks>>
netVars == <<ackWire, wire>>
vars == <<queueVars, historyVars, sessionVars, netVars, faults>>

\* A message on its way to the server; live while its connection is up.
Messages == [live : BOOLEAN, batch : Seq(Reports)]

-----------------------------------------------------------------------------
(* flush and the end of a session *)

\* Mutant: a second batch may be sent while one is in flight.
SendsEagerly(pnd, inf, ready) == ready /\ pnd # <<>>

\* flush: nothing to do, or the next envelope of pnd.
WouldSend(pnd, inf, ready) == ready /\ inf = <<>> /\ pnd # <<>>

EnvelopeLen(pnd) == IF Len(pnd) < MaxReportsPerEnvelope THEN Len(pnd) ELSE MaxReportsPerEnvelope

\* The batch is what the queue still holds when it is sent.
Envelope(pd, rev, bp, pnd) ==
    CurrentReports(pd, rev, bp, SubSeq(pnd, 1, EnvelopeLen(pnd)))

Rest(pnd) == SubSeq(pnd, EnvelopeLen(pnd) + 1, Len(pnd))

\* Mutant: the acknowledgement timer is not armed.
FlushWithoutDeadline(pnd, inf, ready, deadline, chan) ==
    /\ connected' = TRUE
    /\ IF WouldSend(pnd, inf, ready)
       THEN LET batch == Envelope(pend', basicRevision', basicPending', pnd)
            IN  /\ inFlight' = batch
                /\ pending' = Rest(pnd)
                /\ uploadReady' = (Rest(pnd) # <<>>)
                /\ acks' = 0
                /\ wire' = Append(wire, [live |-> TRUE, batch |-> batch])
       ELSE /\ inFlight' = inf
            /\ pending' = pnd
            /\ uploadReady' = ready
            /\ acks' = chan
            /\ UNCHANGED wire
    /\ ackDeadline' = deadline
    /\ UNCHANGED <<ackWire, faults>>

\* A handler's flush that succeeds.  pnd, inf, ready, deadline and chan are what
\* the handler left in the session's variables before it called flush.
Flush(pnd, inf, ready, deadline, chan) ==
    /\ connected' = TRUE
    /\ IF WouldSend(pnd, inf, ready)
       THEN LET batch == Envelope(pend', basicRevision', basicPending', pnd)
            IN  /\ inFlight' = batch
                /\ pending' = Rest(pnd)
                /\ uploadReady' = (Rest(pnd) # <<>>)
                /\ acks' = 0
                /\ ackDeadline' = TRUE
                /\ wire' = Append(wire, [live |-> TRUE, batch |-> batch])
       ELSE /\ inFlight' = inf
            /\ pending' = pnd
            /\ uploadReady' = ready
            /\ acks' = chan
            /\ ackDeadline' = deadline
            /\ UNCHANGED wire
    /\ UNCHANGED <<ackWire, faults>>

\* Mutant: only the batch in flight is retried.
EndSessionInFlightOnly(pd, rev, bp, kept, msgs, pnd, inf) ==
    /\ connected' = FALSE
    /\ retryQueue' = kept \cup Retained(pd, rev, bp, Range(inf))
    /\ pending' = <<>>
    /\ inFlight' = <<>>
    /\ uploadReady' = FALSE
    /\ ackDeadline' = FALSE
    /\ acks' = 0
    /\ ackWire' = 0
    /\ wire' = [i \in 1..Len(msgs) |-> [msgs[i] EXCEPT !.live = FALSE]]

\* The session ends: its deferred calls retry the batch in flight, then the rest.
\* Messages that left before may still reach the server; acknowledgements do not
\* reach the agent any more.
EndSession(pd, rev, bp, kept, msgs, pnd, inf) ==
    /\ connected' = FALSE
    /\ retryQueue' = kept \cup Retained(pd, rev, bp, Range(inf) \cup Range(pnd))
    /\ pending' = <<>>
    /\ inFlight' = <<>>
    /\ uploadReady' = FALSE
    /\ ackDeadline' = FALSE
    /\ acks' = 0
    /\ ackWire' = 0
    /\ wire' = [i \in 1..Len(msgs) |-> [msgs[i] EXCEPT !.live = FALSE]]

\* A handler's flush whose write fails, with or without the message sent: the
\* session ends.
FlushFails(kept, pnd, inf, ready) ==
    /\ WouldSend(pnd, inf, ready)
    /\ faults < MaxFaults
    /\ faults' = faults + 1
    /\ LET batch == Envelope(pend', basicRevision', basicPending', pnd)
       IN  \E msgs \in {wire, Append(wire, [live |-> TRUE, batch |-> batch])} :
             EndSession(pend', basicRevision', basicPending', kept, msgs, Rest(pnd), batch)

\* The end of a handler that calls flush; kept is the retry queue it leaves.
FlushOrFail(kept, pnd, inf, ready, deadline, chan) ==
    \/ Flush(pnd, inf, ready, deadline, chan) /\ retryQueue' = kept
    \/ FlushFails(kept, pnd, inf, ready)

-----------------------------------------------------------------------------
(* The session *)

\* runWebSocketReporter connects; runWebSocketSession prepares reports and flushes.
Connect ==
    /\ ~connected
    /\ PrepareReports(pend)
    /\ \E reports \in PreparedReports(pend) :
         FlushOrFail({}, reports, <<>>, TRUE, FALSE, 0)
    /\ eager' = TRUE
    /\ UNCHANGED <<config, running, nextResultID, policyCount, historyVars>>

\* The sampleTimer case: with an upload interval no longer than the sample
\* interval every sample is sent at once.
Sample ==
    /\ connected
    /\ Len(pending) < MaxPending
    /\ PrepareReports(pend)
    /\ \E reports \in PreparedReports(pend) :
         \/ eager /\ FlushOrFail({}, pending \o reports, inFlight, TRUE, ackDeadline, acks)
         \/ /\ ~eager
            /\ pending' = pending \o reports
            /\ retryQueue' = {}
            /\ UNCHANGED <<connected, inFlight, uploadReady, ackDeadline, acks, netVars, faults>>
    /\ UNCHANGED <<config, running, nextResultID, policyCount, historyVars, eager>>

\* The uploadTimer case.
Upload ==
    /\ connected
    /\ UNCHANGED <<config, running, pend, nextResultID, basicRevision, basicPending,
                   policyCount, historyVars, eager>>
    /\ FlushOrFail(retryQueue, pending, inFlight, pending # <<>>, ackDeadline, acks)

\* The acks case: the acknowledgement is taken to be that of the batch in flight.
ReceiveAck ==
    /\ connected
    /\ acks = 1
    /\ IF inFlight = <<>>
       THEN /\ acks' = 0
            /\ UNCHANGED <<pend, basicPending, retryQueue, connected, pending, inFlight,
                           uploadReady, ackDeadline, netVars, faults>>
       ELSE /\ pend' = Acknowledged(pend, inFlight)
            /\ basicPending' = (basicPending /\ ~BasicAcknowledged(inFlight))
            /\ UNCHANGED basicRevision
            /\ FlushOrFail(retryQueue, pending, <<>>, uploadReady, FALSE, 0)
    /\ UNCHANGED <<config, running, nextResultID, basicRevision, policyCount, historyVars, eager>>

\* The policies case; a policy with report_now has the reports sent at once.
ReceivePolicy(new, uploadEvery, reportNow) ==
    /\ connected
    /\ ApplyPolicy(new)
    /\ eager' = uploadEvery
    /\ \/ /\ ~reportNow
          /\ pend' = Invalidated(new)
          /\ UNCHANGED <<basicRevision, basicPending, retryQueue, connected, pending, inFlight,
                         uploadReady, ackDeadline, acks, netVars, faults>>
       \/ /\ reportNow
          /\ Len(pending) < MaxPending
          /\ PrepareReports(Invalidated(new))
          /\ \E reports \in PreparedReports(Invalidated(new)) :
               FlushOrFail({}, pending \o reports, inFlight, TRUE, ackDeadline, acks)
    /\ UNCHANGED <<nextResultID, historyVars>>

\* The error cases end the session: the acknowledgement timer fires, or the
\* reader or the heartbeat reports a broken connection.  A timer that fires
\* although an answer is under way, and a broken connection, are faults; a
\* timer that fires because no answer can come is what the timer is for.
AnswerUnderWay == acks = 1 \/ ackWire > 0 \/ \E i \in 1..Len(wire) : wire[i].live

SessionError ==
    /\ connected
    /\ EndSession(pend, basicRevision, basicPending, retryQueue, wire, pending, inFlight)
    /\ UNCHANGED <<config, running, pend, nextResultID, basicRevision, basicPending,
                   policyCount, historyVars, eager>>

AckTimeout ==
    /\ ackDeadline
    /\ ~AnswerUnderWay
    /\ SessionError
    /\ UNCHANGED faults

BreakConnection ==
    /\ faults < MaxFaults
    /\ faults' = faults + 1
    /\ SessionError

\* readWebSocketMessages puts an acknowledgement into the channel unless it is full.
ReadAck ==
    /\ connected
    /\ ackWire > 0
    /\ ackWire' = ackWire - 1
    /\ acks' = 1
    /\ UNCHANGED <<queueVars, historyVars, connected, pending, inFlight, uploadReady, eager,
                   ackDeadline, wire, faults>>

-----------------------------------------------------------------------------
(* The server *)

ResultsIn(batch) == UNION {{<<x[1], x[2]>> : x \in r.results} : r \in Range(batch)}
BasicIn(batch) == {r.basic : r \in Range(batch)} \ {0}

\* LiveDataDO.handleMessage: persist every report of the message, then answer.
ServerAccepts ==
    /\ wire # <<>>
    /\ accepted' = accepted \cup ResultsIn(Head(wire).batch)
    /\ acceptedBasic' = acceptedBasic \cup BasicIn(Head(wire).batch)
    /\ ackWire' = IF Head(wire).live THEN ackWire + 1 ELSE ackWire
    /\ wire' = Tail(wire)
    /\ UNCHANGED <<queueVars, sessionVars, faults>>

\* webSocketMessage when handleMessage throws part-way: a prefix of the reports
\* is persisted, the agent gets an error message, which it ignores.
ServerRejects ==
    /\ wire # <<>>
    /\ faults < MaxFaults
    /\ faults' = faults + 1
    /\ \E n \in 0..Len(Head(wire).batch) :
         accepted' = accepted \cup ResultsIn(SubSeq(Head(wire).batch, 1, n))
    /\ wire' = Tail(wire)
    /\ UNCHANGED <<queueVars, acceptedBasic, sessionVars, ackWire>>

\* A message of a connection that is down is lost.
LoseMessage ==
    /\ wire # <<>>
    /\ ~Head(wire).live
    /\ wire' = Tail(wire)
    /\ UNCHANGED <<queueVars, historyVars, sessionVars, ackWire, faults>>

-----------------------------------------------------------------------------
Probe(t) ==
    /\ LaunchProbe(t) \/ FinishProbe(t)
    /\ UNCHANGED <<historyVars, sessionVars, netVars, faults>>

Init ==
    /\ QueueInit
    /\ connected = FALSE
    /\ pending = <<>>
    /\ inFlight = <<>>
    /\ uploadReady = FALSE
    /\ eager = TRUE
    /\ ackDeadline = FALSE
    /\ acks = 0
    /\ ackWire = 0
    /\ wire = <<>>
    /\ faults = 0

Next ==
    \/ Connect
    \/ Sample
    \/ Upload
    \/ ReceiveAck
    \/ \E new \in Policies, uploadEvery, reportNow \in BOOLEAN :
         ReceivePolicy(new, uploadEvery, reportNow)
    \/ AckTimeout
    \/ BreakConnection
    \/ ReadAck
    \/ ServerAccepts
    \/ ServerRejects
    \/ LoseMessage
    \/ \E t \in Tasks : Probe(t)

Spec == Init /\ [][Next]_vars

-----------------------------------------------------------------------------
(* Properties *)

TypeOK ==
    /\ QueueTypeOK
    /\ connected \in BOOLEAN
    /\ pending \in Seq(Reports)
    /\ inFlight \in Seq(Reports)
    /\ uploadReady \in BOOLEAN
    /\ eager \in BOOLEAN
    /\ ackDeadline \in BOOLEAN
    /\ acks \in 0..1
    /\ ackWire \in Nat
    /\ wire \in Seq(Messages)
    /\ faults \in 0..MaxFaults

\* Every report the agent still holds.
Held == Range(pending) \cup Range(inFlight) \cup retryQueue

\* Every leased result is in a report that will be sent again or acknowledged: a
\* result whose report were dropped would block its task for good, for a task with
\* a waiting result is neither probed again nor leased again.
LeasedResultsAreHeld ==
    \A t \in Tasks : pend[t] # NoResult /\ pend[t].leased =>
        \E r \in Held : <<t, pend[t].seq, pend[t].cfg>> \in r.results

\* A result waits only for the probe that the current policy describes: neither a
\* probe under way nor a queued sample survives a change of its task.
ResultsAreCurrent ==
    \A t \in Tasks :
        /\ pend[t] # NoResult => pend[t].cfg = config[t]
        /\ running[t] \in Configs => running[t] = config[t]

\* An acknowledgement is that of the batch in flight: a result leaves the queue only
\* when the server has persisted it or a policy has replaced its probe.
ResultKept(t) ==
    pend[t] # NoResult /\ pend'[t] # pend[t] =>
        \/ pend'[t] = [pend[t] EXCEPT !.leased = TRUE]
        \/ <<t, pend[t].seq>> \in accepted
        \/ config'[t] # config[t]

NoResultLost == [][\A t \in Tasks : ResultKept(t)]_vars

\* The same for the basic information: it stays attached to the samples until the
\* server has persisted this revision of it.
BasicInfoKept ==
    [][basicPending /\ ~basicPending' => basicRevision \in acceptedBasic]_vars

\* What leaves for the server belongs to the policy in force, also when it waited in
\* the session or in the retry queue while the policy changed.
SentResultsAreCurrent ==
    [][\A i \in DOMAIN wire' : i > Len(wire) =>
         \A r \in Range(wire'[i].batch) : \A x \in r.results : x[3] = config'[x[1]]]_vars

\* The queue, the sessions and the server together keep the promises of ProbeLifecycle:
\* only an acknowledgement or a policy releases a sample.
sample == [t \in Tasks |-> IF pend[t] = NoResult THEN NoResult ELSE pend[t].cfg]

Lifecycle == INSTANCE ProbeLifecycle WITH probe <- running

ImplementsLifecycle == Lifecycle!Spec

-----------------------------------------------------------------------------
(* Liveness *)

\* Timers fire, the agent reconnects, a server that answers at all answers; the
\* faults of a behaviour are finite.  A probe ends: every probe has a timeout.
Fairness ==
    /\ WF_vars(Connect)
    /\ WF_vars(Sample)
    /\ WF_vars(Upload)
    /\ WF_vars(ReceiveAck)
    /\ WF_vars(ReadAck)
    /\ WF_vars(AckTimeout)
    /\ WF_vars(ServerAccepts)
    /\ \A t \in Tasks : WF_vars(FinishProbe(t) /\ UNCHANGED <<historyVars, sessionVars, netVars, faults>>)

FairSpec == Spec /\ Fairness

\* A queued result does not wait for ever, whatever the session was doing when it
\* was queued.
ResultsAreDelivered ==
    \A t \in Tasks : pend[t] # NoResult ~> pend[t] = NoResult

-----------------------------------------------------------------------------
(* The inductive invariant *)

LiveMessages == {i \in DOMAIN wire : wire[i].live}

\* A report that leases the result now in the queue still carries it, a report's
\* result with that number is that result, and all leases are of results queued
\* before now.
LeasesMatchResults ==
    \A r \in Held :
        /\ \A t \in Tasks : pend[t] # NoResult /\ <<t, pend[t].seq>> \in r.leases =>
             <<t, pend[t].seq, pend[t].cfg>> \in r.results
        /\ \A x \in r.results : <<x[1], x[2]>> \in r.leases
        /\ \A t \in Tasks, c \in Configs : pend[t] # NoResult /\ <<t, pend[t].seq, c>> \in r.results =>
             c = pend[t].cfg
        /\ \A l \in r.leases : l[2] <= nextResultID

\* The result queued last has the greatest number.
SequencesAreGivenOut ==
    \A t \in Tasks : pend[t] # NoResult => pend[t].seq <= nextResultID

\* One message or one answer at most is under way in a session, and it is about the
\* batch in flight.
OneMessageUnderWay ==
    /\ \A i, j \in LiveMessages : i = j
    /\ \A i \in LiveMessages : wire[i].batch = inFlight /\ acks = 0 /\ ackWire = 0
    /\ acks + ackWire <= 1
    /\ acks + ackWire = 1 \/ LiveMessages # {} => connected /\ inFlight # <<>>
    /\ ~connected => inFlight = <<>> /\ pending = <<>>

\* An answer under way says that the batch in flight is persisted.
AnswersAreTrue ==
    acks + ackWire = 1 =>
        \A i \in DOMAIN inFlight :
            /\ \A x \in inFlight[i].results : <<x[1], x[2]>> \in accepted
            /\ inFlight[i].basic # 0 => inFlight[i].basic \in acceptedBasic

IndInv ==
    /\ TypeOK
    /\ LeasedResultsAreHeld
    /\ ResultsAreCurrent
    /\ LeasesMatchResults
    /\ SequencesAreGivenOut
    /\ OneMessageUnderWay
    /\ AnswersAreTrue
=============================================================================
