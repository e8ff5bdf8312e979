------------------------------ MODULE MCServer ------------------------------
(*****************************************************************************)
(* Parts of the worker, of LiveDataDO, of RateLimitDO and of the agent that  *)
(* keep something safe, each on a small instance.  A behaviour of this       *)
(* module is a behaviour of one of them: the others stay in their initial    *)
(* states, so that their state spaces add up and TLC checks them in one run. *)
(*****************************************************************************)
EXTENDS Integers

CONSTANTS
    Nil,        \* a model value: the absent value of every component
    SetupRequests, MaxMigrations, Deployments, MaxLost,   \* SetupInit
    MaxSent, MaxPeriods, MaxBoots, MaxDays, MaxSaves, MaxStops,   \* TrafficState
    Places, EdgeTtl, IsolateTtl, MaxVersion,   \* AdminSessions
    Tabs, Ttl, MaxTime, MaxMfaVersion, MaxSecret, MaxKey, MaxRequests,   \* MfaFactors
    Tasks, Values, LostPing, NumReports, HttpReports, Spacing, Interval, Heartbeat, Change, MaxQueue,   \* PingResults
    Addresses, NoAddress, Missing, Machines, MaxChanges, MaxJobs, MaxFailures,   \* AgentIntake
    Users, Attempts, Threshold, Window, MaxLock, CleanupAge, MaxLoginTime, MaxLoginFailures   \* LoginLimits

VARIABLES
    part,       \* the component that moves in this behaviour
    deployed, db, req, late, mixed, lost,   \* SetupInit
    machine, clock, mem, save, disk, durable, saved, stops,   \* TrafficState
    viewersNow, token, sock, client, viewersAlarm, busy,   \* ViewerSessions
    stored, rateAlarm, memory, allowed, squeezed,   \* RateLimit
    version, age, edge, isolate, adminRequest,   \* AdminSessions
    mfaNow, key, account, made, browser, mfaRequest, receipts, enrolled, sent,   \* MfaFactors
    pingValue, done, queue, batch, pc, state, rows, failed,   \* PingResults
    intakeAgent, row, snap, removed, live, intakeQueue, negative, jobs, changes, intakeLost,   \* AgentIntake
    loginNow, loginRows, attempt, password, loginFailed, newest, open   \* LoginLimits

Setup == INSTANCE SetupInit WITH Requests <- SetupRequests, Versions <- Deployments

Traffic == INSTANCE TrafficState

\* More viewers and addresses than the limits, whose windows end together.
Sessions == INSTANCE ViewerSessions WITH
    Viewers <- {"v1", "v2", "v3"}, Ips <- {"i1", "i2", "i3"},
    Net <- [i \in {"i1", "i2", "i3"} |-> IF i = "i2" THEN "i1" ELSE i], MaxTotal <- 2,
    MaxPerIp <- 1, ViewerTtl <- 1, TokenTtl <- 1, ClientTtl <- 1, Never <- Nil, NoToken <- Nil,
    MaxTime <- 1, now <- viewersNow, alarm <- viewersAlarm

\* Two viewers, whose windows overlap.
Windows == INSTANCE ViewerSessions WITH
    Viewers <- {"v1", "v2"}, Ips <- {"i1", "i2"}, Net <- [i \in {"i1", "i2"} |-> i], MaxTotal <- 2,
    MaxPerIp <- 1, ViewerTtl <- 2, TokenTtl <- 1, ClientTtl <- 1, Never <- Nil, NoToken <- Nil,
    MaxTime <- 3, now <- viewersNow, alarm <- viewersAlarm

Rate == INSTANCE RateLimit WITH
    Clients <- {"c1", "c2"}, Isolates <- {"i1"}, Limit <- 1, Window <- 2, MaxBuckets <- 1,
    AlarmAfter <- 2, alarm <- rateAlarm

Admin == INSTANCE AdminSessions WITH request <- adminRequest

Mfa == INSTANCE MfaFactors WITH MaxVersion <- MaxMfaVersion, now <- mfaNow, request <- mfaRequest

Ping == INSTANCE PingResults WITH Lost <- LostPing, value <- pingValue

Intake == INSTANCE AgentIntake WITH None <- NoAddress, MaxLost <- MaxFailures,
    agent <- intakeAgent, queue <- intakeQueue, lost <- intakeLost

Logins == INSTANCE LoginLimits WITH MaxTime <- MaxLoginTime, MaxFailures <- MaxLoginFailures,
    now <- loginNow, rows <- loginRows, failed <- loginFailed

\* Values of the run.  A task is due every 2, the other every 3; an agent says its address,
\* another neither says it, but connects from it, nor its disk.
MCInterval == [t \in Tasks |-> IF t = "t1" THEN 2 ELSE 3]
MCMachines ==
    {[ip |-> "a", src |-> "b", disk |-> 1, ver |-> 1], [ip |-> "none", src |-> "b", disk |-> Missing, ver |-> 2]}

\* The constants have values that the components are made for.
ASSUME InstanceAssumption ==
    /\ Setup!SetupAssumption /\ Traffic!TrafficAssumption /\ Sessions!ViewerAssumption
    /\ Windows!ViewerAssumption
    /\ Rate!RateAssumption /\ Admin!SessionAssumption /\ Mfa!MfaAssumption
    /\ Ping!PingAssumption /\ Intake!IntakeAssumption /\ Logins!LimitAssumption

-----------------------------------------------------------------------------
setupVars == <<deployed, db, req, late, mixed, lost>>
trafficVars == <<machine, clock, mem, save, disk, durable, saved, stops>>
viewersVars == <<viewersNow, token, sock, client, viewersAlarm, busy>>
rateVars == <<stored, rateAlarm, memory, allowed, squeezed>>
adminVars == <<version, age, edge, isolate, adminRequest>>
mfaVars == <<mfaNow, key, account, made, browser, mfaRequest, receipts, enrolled, sent>>
pingVars == <<pingValue, done, queue, batch, pc, state, rows, failed>>
intakeVars == <<intakeAgent, row, snap, removed, live, intakeQueue, negative, jobs, changes, intakeLost>>
loginVars == <<loginNow, loginRows, attempt, password, loginFailed, newest, open>>

Parts == {"setup", "traffic", "viewers", "windows", "rate", "admin", "mfa", "ping", "intake", "login"}

\* Every component is in an initial state, all but one for good.
Init ==
    /\ part \in Parts
    /\ Setup!Init
    /\ Traffic!Init
    /\ part # "traffic" => clock.period = 1
    /\ IF part = "windows" THEN Windows!Init ELSE Sessions!Init
    /\ Rate!Init
    /\ Admin!Init
    /\ Mfa!Init
    /\ Ping!Init
    /\ part # "ping" => pingValue = [r \in 1 .. NumReports |-> [t \in Tasks |-> LostPing]]
    /\ Intake!Init
    /\ part # "intake" => intakeAgent = CHOOSE m \in Machines : TRUE
    /\ Logins!Init

\* In a behaviour only one component moves.
InSetup == part = "setup" /\ UNCHANGED <<part, trafficVars, viewersVars, rateVars, adminVars,
                                         mfaVars, pingVars, intakeVars, loginVars>>
InTraffic == part = "traffic" /\ UNCHANGED <<part, setupVars, viewersVars, rateVars, adminVars,
                                             mfaVars, pingVars, intakeVars, loginVars>>
InSessions == part = "viewers" /\ UNCHANGED <<part, setupVars, trafficVars, rateVars, adminVars,
                                              mfaVars, pingVars, intakeVars, loginVars>>
InWindows == part = "windows" /\ UNCHANGED <<part, setupVars, trafficVars, rateVars, adminVars,
                                             mfaVars, pingVars, intakeVars, loginVars>>
InRate == part = "rate" /\ UNCHANGED <<part, setupVars, trafficVars, viewersVars, adminVars,
                                       mfaVars, pingVars, intakeVars, loginVars>>
InAdmin == part = "admin" /\ UNCHANGED <<part, setupVars, trafficVars, viewersVars, rateVars,
                                         mfaVars, pingVars, intakeVars, loginVars>>
InMfa == part = "mfa" /\ UNCHANGED <<part, setupVars, trafficVars, viewersVars, rateVars,
                                     adminVars, pingVars, intakeVars, loginVars>>
InPing == part = "ping" /\ UNCHANGED <<part, setupVars, trafficVars, viewersVars, rateVars,
                                       adminVars, mfaVars, intakeVars, loginVars>>
InIntake == part = "intake" /\ UNCHANGED <<part, setupVars, trafficVars, viewersVars, rateVars,
                                           adminVars, mfaVars, pingVars, loginVars>>
InLogins == part = "login" /\ UNCHANGED <<part, setupVars, trafficVars, viewersVars, rateVars,
                                          adminVars, mfaVars, pingVars, intakeVars>>

Next ==
    \/ InSetup /\ Setup!Next
    \/ InTraffic /\ Traffic!Next
    \/ InSessions /\ Sessions!Next
    \/ InWindows /\ Windows!Next
    \/ InRate /\ Rate!Next
    \/ InAdmin /\ Admin!Next
    \/ InMfa /\ Mfa!Next
    \/ InPing /\ Ping!Next
    \/ InIntake /\ Intake!Next
    \/ InLogins /\ Logins!Next

vars == <<part, setupVars, trafficVars, viewersVars, rateVars, adminVars, mfaVars, pingVars, intakeVars,
          loginVars>>

Spec == Init /\ [][Next]_vars

-----------------------------------------------------------------------------
\* The component that moves keeps the types of its module.
TypesAreKept ==
    /\ part = "setup" => Setup!TypeOK
    /\ part = "traffic" => Traffic!TypeOK
    /\ part = "viewers" => Sessions!TypeOK
    /\ part = "windows" => Windows!TypeOK
    /\ part = "rate" => Rate!TypeOK
    /\ part = "admin" => Admin!TypeOK
    /\ part = "mfa" => Mfa!TypeOK
    /\ part = "ping" => Ping!TypeOK
    /\ part = "intake" => Intake!TypeOK
    /\ part = "login" => Logins!TypeOK

\* While an account keeps its session version, a one-time code or a recovery code confirms
\* one operation (cfm_consume_mfa_factor); writing the secret under a new key never brings
\* back one that was replaced or switched off; and a handler never does the write of a
\* cookie that was revoked before its request came in (validateAdminSession with fresh),
\* while reads with it end when both caches have run out.  The stronger hash that a login
\* writes never brings back a password that was changed meanwhile (rehashUserPassword).
CredentialsEnd ==
    /\ Mfa!FactorConfirmsOneOperation /\ Mfa!SecretIsNewest
    /\ Admin!WritesAreCurrent /\ Admin!ReadsEnd
    /\ Logins!PasswordIsNewest

\* No request oversteps.  A protected operation of an account with a second factor starts
\* only within the life of a step-up that consumed a factor under the same session version,
\* and an operation whose answer was lost is recognised when it is sent again
\* (requireMfaStepUp, cfm_consume_mfa_factor).  A request of an agent takes back nothing that
\* the administrator wrote meanwhile, and does not bring back a deleted node, although it
\* stores the copy it read before and calls fail (getAgentClientByToken, storeAgentAuthSnapshot).
NoRequestOversteps ==
    /\ Mfa!ProtectedIsConfirmed /\ Mfa!RetriesAreRecognised
    /\ [][Intake!AdminKept]_intakeVars

\* The limits hold at their edges: whatever is swept, at most twice the limit of requests
\* passes in a time as long as a window, unless live windows had to be dropped
\* (RateLimitDO); requests that wait for the settings together are not all admitted, and
\* every admitted viewer is covered by the alarm (enforceViewerConnectionLimit,
\* scheduleExpiryAlarm).  Wrong passwords are counted and lock, however attempts and the
\* clean-up of logins overlap (cfm_record_login_failures, cfm_clear_observed_login_failures).
LimitsHold ==
    /\ TypesAreKept
    /\ Rate!LimitHolds
    /\ part # "windows" => Sessions!LimitsHold /\ Sessions!AlarmCovers
    /\ part = "windows" => Windows!LimitsHold /\ Windows!AlarmCovers
    /\ part = "login" => Logins!FailuresAreCounted /\ Logins!FailuresLock

\* A ping result is stored at most once, although inserts and marks fail before and after
\* the commit and reports are sent again, and the history shows what an acknowledged report
\* measured, or a report less than an interval before it (persistQueuedPingResult,
\* filterPingResultsByInterval).
HistoryIsExact == Ping!HistoryIsExact

\* What is interrupted stays whole.  Setup: no migration is in the database without those
\* before it, and "success" means all of them.  Traffic counters: a save that returned
\* survives a loss of power, no recovered generation counts traffic twice, and all of one
\* boot lead to the same total (trafficPersistence.save, load).
InterruptedIsWhole ==
    /\ Setup!InOrder /\ Setup!SuccessIsComplete
    /\ Traffic!SavedSurvives /\ Traffic!CountedOnce /\ Traffic!SameTotal
=============================================================================
