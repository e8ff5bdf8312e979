---------------------------- MODULE AgentPolicy ----------------------------
(***************************************************************************)
(* The policy that LiveDataDO sends to a connected agent                   *)
(* (worker/src/do/live-data.ts, buildAgentPolicy): active while somebody   *)
(* watches, idle otherwise, with the list of ping tasks.  A policy is put  *)
(* together in steps that wait for SQL, so several are under way at once   *)
(* and may be sent in another order than they were asked for.  The list of *)
(* tasks is cached; concurrent builds share one query; an administrator's  *)
(* change invalidates the cache while a query may be in flight.            *)
(*                                                                         *)
(* The agent's report ends with a policy too: that is what repairs a       *)
(* policy that was sent too late.  Website probe tasks are cached in the   *)
(* same way, one list per agent, and are not in this module.               *)
(***************************************************************************)
EXTENDS Integers, FiniteSets

CONSTANTS
    Viewers,        \* browsers that watch
    Builds,         \* policies under way
    NoCache,        \* nothing cached
    NoBuild,        \* no query is shared
    MaxTasks        \* bound: changes of the ping tasks

PolicyAssumption == MaxTasks \in Nat /\ NoCache \notin Nat /\ NoBuild \notin Builds

VARIABLES
    tasks,      \* SQL: the version of ping_tasks
    told,       \* the last version whose refresh has reached LiveDataDO
    viewer,     \* viewers: state, and whether others watched when the request came
    cache,      \* pingTasksCache
    shared,     \* pingTasksPending: the build whose query is shared
    build,      \* policies under way
    agent       \* the policy that the agent has

vars == <<tasks, told, viewer, cache, shared, build, agent>>

Idle == [pc |-> "idle", mode |-> "idle", tasks |-> 0, from |-> NoBuild]

\* activeViewerCount.
Watched == \E v \in Viewers : viewer[v].pc = "open"
Mode == IF Watched THEN "active" ELSE "idle"

\* A policy is asked for: the first step waits for the settings.
Ask(b) == build[b].pc = "idle" /\ build' = [build EXCEPT ![b] = [Idle EXCEPT !.pc = "settings"]]

-----------------------------------------------------------------------------
(* What asks for a policy *)

\* A viewer's request: it counts the others, then waits for the settings.
ViewerComes(v) ==
    /\ viewer[v].pc = "new"
    /\ viewer' = [viewer EXCEPT ![v] = [pc |-> "waiting", first |-> ~Watched]]
    /\ UNCHANGED <<tasks, told, cache, shared, build, agent>>

\* It is admitted; only the first viewer has the agents told.
ViewerAdmitted(v) ==
    /\ viewer[v].pc = "waiting"
    /\ viewer' = [viewer EXCEPT ![v].pc = "open"]
    /\ IF viewer[v].first THEN \E b \in Builds : Ask(b) ELSE UNCHANGED build
    /\ UNCHANGED <<tasks, told, cache, shared, agent>>

\* webSocketClose, or the end of the window.
ViewerGoes(v) ==
    /\ viewer[v].pc = "open"
    /\ viewer' = [viewer EXCEPT ![v] = [pc |-> "new", first |-> FALSE]]
    /\ \E b \in Builds : Ask(b)
    /\ UNCHANGED <<tasks, told, cache, shared, agent>>

\* Mutant: the answer to a report carries no policy.
ReportWithoutPolicy == UNCHANGED vars

\* An agent's report, or the alarm: sendCurrentPolicyToAgent.
Report ==
    /\ \E b \in Builds : Ask(b)
    /\ UNCHANGED <<tasks, told, viewer, cache, shared, agent>>

\* The administrator changes a task; refreshLivePingTasks follows, and may be lost.
ChangeTasks ==
    /\ tasks < MaxTasks
    /\ tasks' = tasks + 1
    /\ UNCHANGED <<told, viewer, cache, shared, build, agent>>

\* POST /ping-tasks-refresh: invalidatePingTasksCache, broadcastAgentPolicy.
Refresh ==
    /\ told < tasks
    /\ told' = tasks
    /\ cache' = NoCache
    /\ shared' = NoBuild
    /\ \E b \in Builds : Ask(b)
    /\ UNCHANGED <<tasks, viewer, agent>>

RefreshLost ==
    /\ told < tasks
    /\ told' = tasks
    /\ UNCHANGED <<tasks, viewer, cache, shared, build, agent>>

-----------------------------------------------------------------------------
(* buildAgentPolicy *)

\* The settings are there: the mode is what it is now.
TakeMode(b) ==
    /\ build[b].pc = "settings"
    /\ build' = [build EXCEPT ![b].pc = "tasks", ![b].mode = Mode]
    /\ UNCHANGED <<tasks, told, viewer, cache, shared, agent>>

\* getPingTasks: the cache, the query of another build, or a query of its own.
TakeTasks(b) ==
    /\ build[b].pc = "tasks"
    /\ IF cache # NoCache
       THEN build' = [build EXCEPT ![b].pc = "send", ![b].tasks = cache] /\ UNCHANGED shared
       ELSE IF shared # NoBuild
       THEN build' = [build EXCEPT ![b].pc = "join", ![b].from = shared] /\ UNCHANGED shared
       ELSE build' = [build EXCEPT ![b].pc = "query", ![b].tasks = tasks] /\ shared' = b
    /\ UNCHANGED <<tasks, told, viewer, cache, agent>>

\* The query answers: the list goes into the cache, also after an invalidation, and
\* to every build that waits for it.
QueryAnswers(b) ==
    /\ build[b].pc = "query"
    /\ cache' = build[b].tasks
    /\ shared' = IF shared = b THEN NoBuild ELSE shared
    /\ build' = [d \in Builds |->
         IF d = b \/ (build[d].pc = "join" /\ build[d].from = b)
         THEN [build[d] EXCEPT !.pc = "send", !.tasks = build[b].tasks, !.from = NoBuild]
         ELSE build[d]]
    /\ UNCHANGED <<tasks, told, viewer, agent>>

\* The query fails: so do the policies that wait for it (runBackground records it).
QueryFails(b) ==
    /\ build[b].pc = "query"
    /\ shared' = IF shared = b THEN NoBuild ELSE shared
    /\ build' = [d \in Builds |->
         IF d = b \/ (build[d].pc = "join" /\ build[d].from = b) THEN Idle ELSE build[d]]
    /\ UNCHANGED <<tasks, told, viewer, cache, agent>>

\* sendAgentPolicy.
Send(b) ==
    /\ build[b].pc = "send"
    /\ agent' = [mode |-> build[b].mode, tasks |-> build[b].tasks]
    /\ build' = [build EXCEPT ![b] = Idle]
    /\ UNCHANGED <<tasks, told, viewer, cache, shared>>

\* PING_TASK_CACHE_MS is over.
CacheExpires ==
    /\ cache # NoCache
    /\ cache' = NoCache
    /\ UNCHANGED <<tasks, told, viewer, shared, build, agent>>

-----------------------------------------------------------------------------
Init ==
    /\ tasks = 0 /\ told = 0
    /\ viewer = [v \in Viewers |-> [pc |-> "new", first |-> FALSE]]
    /\ cache = NoCache
    /\ shared = NoBuild
    /\ build = [b \in Builds |-> Idle]
    /\ agent = [mode |-> "idle", tasks |-> 0]

Next ==
    \/ \E v \in Viewers : ViewerComes(v) \/ ViewerAdmitted(v) \/ ViewerGoes(v)
    \/ Report \/ ChangeTasks \/ Refresh \/ RefreshLost
    \/ \E b \in Builds : \/ TakeMode(b) \/ TakeTasks(b)
                         \/ QueryAnswers(b) \/ QueryFails(b) \/ Send(b)
    \/ CacheExpires

\* The agent reports for ever; the steps of a policy go on, and a query that is tried
\* again and again answers; the cache has a time limit.
Fairness ==
    /\ WF_vars(Report) /\ WF_vars(CacheExpires)
    /\ \A b \in Builds : /\ WF_vars(TakeMode(b)) /\ WF_vars(TakeTasks(b))
                         /\ WF_vars(QueryAnswers(b) \/ QueryFails(b)) /\ SF_vars(QueryAnswers(b))
                         /\ WF_vars(Send(b))

Spec == Init /\ [][Next]_vars /\ Fairness

-----------------------------------------------------------------------------
(* Properties *)

\* The variables have their types.
TypeOK ==
    /\ tasks \in 0..MaxTasks /\ told \in 0..tasks
    /\ viewer \in [Viewers -> [pc : {"new", "waiting", "open"}, first : BOOLEAN]]
    /\ cache \in 0..MaxTasks \cup {NoCache}
    /\ shared \in Builds \cup {NoBuild}
    /\ build \in [Builds -> [pc : {"idle", "settings", "tasks", "query", "join", "send"},
                             mode : {"idle", "active"}, tasks : 0..MaxTasks,
                             from : Builds \cup {NoBuild}]]
    /\ agent \in [mode : {"idle", "active"}, tasks : 0..MaxTasks]

\* A build that waits for another one's query waits for a query that is under way: an
\* invalidation, or the failure of the query, leaves nobody waiting (getPingTasks).
NobodyWaitsForNothing ==
    \A b \in Builds : build[b].pc = "join" => build[build[b].from].pc = "query"

\* The agent's mode follows the viewers: once they stop coming and going it is right,
\* although a policy may be sent after a newer one, and although a viewer who came
\* while another one was leaving has nobody told (activeViewersBefore).
ModeFollows == \A m \in {"active", "idle"} : <>[](Mode = m) => <>[](agent.mode = m)

=============================================================================
