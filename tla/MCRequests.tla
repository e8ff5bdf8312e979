----------------------------- MODULE MCRequests -----------------------------
(*****************************************************************************)
(* Parts where requests of agents and browsers overlap, each on a small      *)
(* instance.  A behaviour of this module is a behaviour of one of them: the  *)
(* others stay in their initial states, so that their state spaces add up    *)
(* and TLC checks them in one run.                                           *)
(*****************************************************************************)
EXTENDS Integers

CONSTANT Nil   \* a model value: the absent value of every component

VARIABLES
    part,       \* the component that moves in this behaviour
    tasks, told, viewer, cache, shared, build, policyAgent,   \* AgentPolicy
    intakeAgent, row, snap, removed, live, queue, negative, jobs, changes, lost,   \* AgentIntake
    hidden, blocked, waiting, newest, ws, sockets, streak, timer, pollTimer, polling,   \* LiveSocket
    call, pending, mounted, dialog, submits, made, fresh, grants, mounts,   \* StepUpPrompt
    ver, name, mfa, cookie, user, stored, loading, rev, form, reqs, sent, out, doubt   \* SignIn

Policy == INSTANCE AgentPolicy WITH
    Viewers <- {"v1", "v2"}, Builds <- {"b1", "b2"}, NoCache <- Nil, NoBuild <- Nil,
    MaxTasks <- 1, agent <- policyAgent

\* An agent that says its address, and a newer one that does not but connects from it.
IntakeMachines ==
    {[ip |-> "a", src |-> "b", disk |-> 1, ver |-> 1], [ip |-> "none", src |-> "b", disk |-> 0, ver |-> 2]}

Intake == INSTANCE AgentIntake WITH
    Addresses <- {"a", "b"}, None <- "none", Missing <- Nil, Machines <- IntakeMachines,
    MaxChanges <- 1, MaxJobs <- 2, MaxLost <- 0, agent <- intakeAgent

Socket == INSTANCE LiveSocket WITH
    Attempts <- {"a1", "a2", "a3"}, Break <- 3

Prompt == INSTANCE StepUpPrompt WITH
    Calls <- {"a", "b"}, MaxSubmits <- 3, MaxMounts <- 1

Account == INSTANCE SignIn WITH
    MaxVersion <- 3, MaxSent <- 2

\* The values above are values that the components are made for.
ASSUME InstanceAssumption ==
    /\ Policy!PolicyAssumption /\ Intake!IntakeAssumption /\ Socket!SocketAssumption
    /\ Prompt!BoundsAssumption /\ Account!BoundsAssumption

-----------------------------------------------------------------------------
policyVars == <<tasks, told, viewer, cache, shared, build, policyAgent>>
intakeVars == <<intakeAgent, row, snap, removed, live, queue, negative, jobs, changes, lost>>
socketVars == <<hidden, blocked, waiting, newest, ws, sockets, streak, timer, pollTimer, polling>>
promptVars == <<call, pending, mounted, dialog, submits, made, fresh, grants, mounts>>
accountVars == <<ver, name, mfa, cookie, user, stored, loading, rev, form, reqs, sent, out,
                 doubt>>

Parts == {"policy", "intake", "socket", "prompt", "account"}

\* Every component is in an initial state, all but one for good.
Init ==
    /\ part \in Parts
    /\ Policy!Init
    /\ Intake!Init
    /\ part # "intake" => intakeAgent.ip = "a"
    /\ Socket!Init
    /\ part # "socket" => ~hidden /\ ~blocked /\ newest = "a1"
    /\ Prompt!Init
    /\ Account!Init
    /\ part # "account" => ~mfa /\ cookie = 0

\* In a behaviour only one component moves.
InPolicy == part = "policy" /\ UNCHANGED <<part, intakeVars, socketVars, promptVars, accountVars>>
InIntake == part = "intake" /\ UNCHANGED <<part, policyVars, socketVars, promptVars, accountVars>>
InSocket == part = "socket" /\ UNCHANGED <<part, policyVars, intakeVars, promptVars, accountVars>>
InPrompt == part = "prompt" /\ UNCHANGED <<part, policyVars, intakeVars, socketVars, accountVars>>
InAccount == part = "account" /\ UNCHANGED <<part, policyVars, intakeVars, socketVars,
                                             promptVars>>

Next ==
    \/ InPolicy /\ Policy!Next
    \/ InIntake /\ Intake!Next
    \/ InSocket /\ Socket!Next
    \/ InPrompt /\ Prompt!Next
    \/ InAccount /\ Account!Next

vars == <<part, policyVars, intakeVars, socketVars, promptVars, accountVars>>

\* The pages are scheduled as their modules say (Fairness, FairSpec); one that does not
\* move in this behaviour owes nothing.
Fairness ==
    /\ WF_vars(InPolicy /\ Policy!Report) /\ WF_vars(InPolicy /\ Policy!CacheExpires)
    /\ \A b \in {"b1", "b2"} :
        /\ WF_vars(InPolicy /\ Policy!TakeMode(b)) /\ WF_vars(InPolicy /\ Policy!TakeTasks(b))
        /\ WF_vars(InPolicy /\ (Policy!QueryAnswers(b) \/ Policy!QueryFails(b)))
        /\ WF_vars(InPolicy /\ Policy!Send(b))
    /\ WF_vars(InIntake /\ \E j \in jobs : Intake!Proceed(j))
    /\ WF_vars(InIntake /\ Intake!Synchronize)
    /\ WF_vars(InSocket /\ Socket!TimerFires) /\ WF_vars(InSocket /\ Socket!Opens)
    /\ WF_vars(InSocket /\ Socket!Poll) /\ WF_vars(InSocket /\ Socket!PollEnds)
    /\ \A a \in {"a1", "a2", "a3"} :
        WF_vars(InSocket /\ (Socket!TokenArrives(a) \/ Socket!TokenFails(a)))
    /\ SF_vars(\/ InSocket /\ \E a \in {"a1", "a2", "a3"} : newest = a /\ Socket!TokenArrives(a)
               \/ InIntake /\ Intake!UploadBasicInfo
               \/ InPolicy /\ Policy!QueryAnswers("b1"))
    /\ SF_vars(InPolicy /\ Policy!QueryAnswers("b2"))
    /\ \A c \in {"a", "b"} :
        WF_vars(InPrompt /\ Prompt!Served(c)) /\ WF_vars(InPrompt /\ Prompt!RequestMfaStepUp(c))
    /\ WF_vars(InPrompt /\ Prompt!Cancel)
    /\ \A i \in 0 .. 2 :
        /\ WF_vars(InAccount /\ \E r \in reqs : r.id = i /\ Account!Served(r))
        /\ WF_vars(InAccount /\ \E r \in reqs : r.id = i /\ (Account!Arrives(r) \/ Account!Lost(r)))

Spec == Init /\ [][Next]_vars /\ Fairness

-----------------------------------------------------------------------------
\* The component that moves keeps the types of its module.
TypesAreKept ==
    /\ part = "policy" => Policy!TypeOK
    /\ part = "intake" => Intake!TypeOK
    /\ part = "socket" => Socket!TypeOK
    /\ part = "prompt" => Prompt!TypeOK
    /\ part = "account" => Account!TypeOK

\* However requests, their answers, timers and reloads overlap, the pages know what they
\* have: a user shown has a session, a confirmed logout leaves none, a reload shows the
\* same user; a prompt for the second factor is open exactly while requests wait for it;
\* and the live page has one socket, and none scheduled once its circuit is open.  Nobody
\* waits for a shared query of the ping tasks that has ended (getPingTasks).
PagesKnowTheirState ==
    /\ TypesAreKept
    /\ Account!ReloadShowsSame /\ Account!ShownHasSession /\ Account!SignedOutIsOut
    /\ Prompt!PromptIsForWaiting
    /\ Socket!OneSocket /\ Socket!CircuitHolds
    /\ Policy!NobodyWaitsForNothing

\* No page waits for ever: the lookup of the session and a submitted sign-in end, a
\* request that asked for a second factor gets its answer or is refused, and the live
\* page in view gets a socket or reads over HTTP.
Waits ==
    \/ part = "account" /\ (loading \/ form.busy)
    \/ part = "prompt" /\ call["a"] \notin {"idle", "done", "refused"}
    \/ part = "socket" /\ ~hidden /\ ws # "open" /\ ~polling
WaitingEnds == Waits ~> ~Waits

\* While viewers come and go, policies overtake each other and queries fail, the agent
\* ends up with the mode that the viewers ask for and with the last list of tasks
\* (notifyAgentPolicies, getPingTasks); and once a machine is left alone, its row gets and
\* keeps its address, although requests compare with an older copy (POST /basic-info).
\* The live page in view of a network that lets sockets through gets its socket again and
\* again, unless its failures in a row have reached the limit (connect), and nobody waits
\* for ever.
EveryoneSettles ==
    /\ WaitingEnds
    /\ part = "socket" => Socket!Heals
    /\ part = "policy" => Policy!ModeFollows
    /\ <>[](part = "policy" => policyAgent.tasks = tasks)
    /\ <>[](part = "intake" => Intake!HasAddress)

\* What an administrator wrote is not taken back by an agent's request that began before
\* (POST /basic-info), and an operation is sent again only after the server has confirmed
\* the factor since its prompt was opened, not on the late answer to an earlier prompt.
LateAnswersAreHarmless == [][Intake!AdminKept /\ Prompt!RetriedOnlyConfirmed]_vars
=============================================================================
