------------------------ MODULE NotificationDelivery ------------------------
(***************************************************************************)
(* How the owner of a node is told, once, that it went offline and that it *)
(* came back.  Scheduled runs (worker/src/index.ts, runOfflineCheck) read  *)
(* the rule and the node's state, claim the delivery in SQL, send, record  *)
(* the outcome and mark the rule (worker/src/utils/notification-dispatch.ts*)
(* and supabase/migrations/4_rpc_api.sql).  Runs overlap: the cron and the *)
(* manual trigger start the same work, and a run is cut off at any step.   *)
(*                                                                         *)
(* One node and its rule.  Every SQL function is one step: it locks the    *)
(* owner, then the rule, then the ledger row.  A run passes the time of    *)
(* its start as the present; next_attempt_at is kept as the time left, so  *)
(* next_attempt_at > input_now is left + age > 0 for a run of that age.    *)
(***************************************************************************)
EXTENDS Integers, FiniteSets, TLAPS

CONSTANTS
    Runs,           \* scheduled runs under way at the same time
    Tokens,         \* claim tokens (gen_random_uuid)
    NoToken, NoRow, NoEvent, NoMark,
    Lease,          \* how long a claim is good, 90 s
    Budget,         \* how long a run lives, ScheduledBudget: 60 s
    FirstBackoff,   \* wait after a first failure, 120 s
    LastBackoff,    \* longest wait, 1800 s
    MaxAttempts,    \* where attempts stops counting, 100000
    MaxOutages,     \* bound: outages in a behaviour
    MaxChanges,     \* bound: changes of the rule
    MaxFaults       \* bound: runs that are cut off

ASSUME DeliveryAssumption ==
    /\ NoToken \notin Tokens
    /\ Budget \in Nat /\ Lease \in Nat /\ Budget < Lease
    /\ FirstBackoff \in Nat /\ LastBackoff \in Nat
    /\ MaxAttempts \in Nat \ {0}
    /\ MaxOutages \in Nat /\ MaxChanges \in Nat /\ MaxFaults \in Nat

\* A mark is the outage it was made for and its number, which stands for the time
\* in last_notified.
Marks == Nat \X Nat

\* The event ids offline:<last report> and recovery:<last_notified>.
Events == ({"offline"} \X Nat) \cup ({"recovery"} \X Marks)

Rows == [event : Events, status : {"pending", "failed", "sent"}, attempts : 0..MaxAttempts,
         left : Int, token : Tokens \cup {NoToken}, retired : BOOLEAN]

ASSUME NoneAssumption == NoRow \notin Rows /\ NoEvent \notin Events /\ NoMark \notin Marks

VARIABLES
    rule,           \* SQL: the rule exists and is enabled
    lastNotified,   \* SQL: offline_notifications.last_notified
    ledger,         \* SQL: the row of notification_delivery_state
    down,           \* LiveDataDO: the node is confirmed offline
    outage,         \* LiveDataDO: which outage; stands for the last report
    run,            \* the scheduled runs
    recorded,       \* history: what was last recorded as sent under this rule
    marks,          \* history: marks so far
    changes,        \* changes of the rule so far (bound only)
    faults          \* faults so far (bound only)

nodeVars == <<down, outage>>
boundVars == <<changes, faults>>
vars == <<rule, lastNotified, ledger, nodeVars, run, recorded, marks, boundVars>>

Idle == [pc |-> "idle", age |-> 0, last |-> NoMark, event |-> NoEvent, token |-> NoToken,
         ok |-> FALSE]

\* A live claim, as a caller sees it whose time is g before the present.
Active(L, g) == L.status = "pending" /\ L.token # NoToken /\ L.left + g > 0

-----------------------------------------------------------------------------
(* runOfflineCheck *)

\* listOfflineNotifications.
Start(r) ==
    /\ run[r].pc = "idle"
    /\ rule
    /\ run' = [run EXCEPT ![r] = [pc |-> "evaluate", age |-> 0, last |-> lastNotified,
                                  event |-> NoEvent, token |-> NoToken, ok |-> FALSE]]
    /\ UNCHANGED <<rule, lastNotified, ledger, nodeVars, recorded, marks, boundVars>>

\* fetchOfflineLiveness and evaluateOfflineNotificationEvent.
EventOf(last) ==
    IF down THEN IF last = NoMark THEN <<"offline", outage>> ELSE NoEvent
    ELSE IF last = NoMark THEN NoEvent ELSE <<"recovery", last>>

Evaluate(r) ==
    /\ run[r].pc = "evaluate"
    /\ run' = [run EXCEPT ![r] = IF EventOf(run[r].last) = NoEvent THEN Idle
                                 ELSE [run[r] EXCEPT !.pc = "claim",
                                                     !.event = EventOf(run[r].last)]]
    /\ UNCHANGED <<rule, lastNotified, ledger, nodeVars, recorded, marks, boundVars>>

-----------------------------------------------------------------------------
(* deliverNotification: claim *)

\* notification_delivery_entity_exists: the node and its rule, switched on.
EntityExists == rule

\* The row after the insert ... on conflict do nothing.
Inserted(e, g) ==
    IF ledger # NoRow THEN ledger
    ELSE [event |-> e, status |-> "pending", attempts |-> 0, left |-> -g, token |-> NoToken,
          retired |-> FALSE]

Known(L, e) == ~L.retired /\ L.event = e

\* Somebody else's claim is good, or the same event waits for its next attempt.
Refused(L, e, g) ==
    \/ Active(L, g)
    \/ Known(L, e) /\ L.status # "sent" /\ L.left + g > 0

Fresh(tk) == (ledger # NoRow => ledger.token # tk) /\ \A s \in Runs : run[s].token # tk

\* Attempts start again for another event, a new configuration or after a delivery.
NextAttempts(L, e) ==
    IF L.retired \/ L.event # e \/ L.status = "sent" THEN 1
    ELSE IF L.attempts < MaxAttempts THEN L.attempts + 1 ELSE MaxAttempts

\* Mutant: a delivery that is recorded already ends the run before its mark.
ClaimWithoutMark(r) ==
    /\ run[r].pc = "claim"
    /\ LET e == run[r].event
           g == run[r].age
           L == Inserted(e, g)
       IN  \/ /\ ~EntityExists \/ Refused(L, e, g)
              /\ ledger' = IF EntityExists THEN L ELSE ledger
              /\ run' = [run EXCEPT ![r] = Idle]
           \/ /\ EntityExists /\ Known(L, e) /\ L.status = "sent"
              /\ ledger' = L
              /\ run' = [run EXCEPT ![r] = Idle]
           \/ /\ EntityExists /\ ~Refused(L, e, g) /\ ~(Known(L, e) /\ L.status = "sent")
              /\ \E tk \in Tokens :
                   /\ Fresh(tk)
                   /\ ledger' = [event |-> e, status |-> "pending",
                                 attempts |-> NextAttempts(L, e), left |-> Lease - g,
                                 token |-> tk, retired |-> FALSE]
                   /\ run' = [run EXCEPT ![r].pc = "send", ![r].token = tk]
    /\ UNCHANGED <<rule, lastNotified, nodeVars, recorded, marks, boundVars>>

\* cfm_claim_notification_delivery: refused, delivered already, or claimed.
Claim(r) ==
    /\ run[r].pc = "claim"
    /\ LET e == run[r].event
           g == run[r].age
           L == Inserted(e, g)
       IN  \/ /\ ~EntityExists \/ Refused(L, e, g)
              /\ ledger' = IF EntityExists THEN L ELSE ledger
              /\ run' = [run EXCEPT ![r] = Idle]
           \/ /\ EntityExists /\ Known(L, e) /\ L.status = "sent"
              /\ ledger' = L
              /\ run' = [run EXCEPT ![r].pc = "mark", ![r].token = L.token]
           \/ /\ EntityExists /\ ~Refused(L, e, g) /\ ~(Known(L, e) /\ L.status = "sent")
              /\ \E tk \in Tokens :
                   /\ Fresh(tk)
                   /\ ledger' = [event |-> e, status |-> "pending",
                                 attempts |-> NextAttempts(L, e), left |-> Lease - g,
                                 token |-> tk, retired |-> FALSE]
                   /\ run' = [run EXCEPT ![r].pc = "send", ![r].token = tk]
    /\ UNCHANGED <<rule, lastNotified, nodeVars, recorded, marks, boundVars>>

\* dispatchNotification: the channel takes the message or not.
Send(r, ok) ==
    /\ run[r].pc = "send"
    /\ run' = [run EXCEPT ![r].pc = "complete", ![r].ok = ok]
    /\ UNCHANGED <<rule, lastNotified, ledger, nodeVars, recorded, marks, boundVars>>

-----------------------------------------------------------------------------
(* deliverNotification: complete and mark *)

\* 120 s, doubled with every attempt up to the fifth, and at most 1800 s.
Backoff(n) ==
    LET wait == FirstBackoff * (CASE n <= 1 -> 1 [] n = 2 -> 2 [] n = 3 -> 4 [] n = 4 -> 8
                                  [] OTHER -> 16)
    IN  IF wait < LastBackoff THEN wait ELSE LastBackoff

\* The row still carries the claim of the run r.
Claimed(r) ==
    /\ ledger # NoRow
    /\ ledger.event = run[r].event /\ ledger.token = run[r].token /\ ledger.status = "pending"

\* cfm_complete_notification_delivery: a retired claim is deleted, not recorded.
Complete(r) ==
    /\ run[r].pc = "complete"
    /\ IF Claimed(r) /\ ~ledger.retired
       THEN /\ ledger' = [ledger EXCEPT
                            !.status = IF run[r].ok THEN "sent" ELSE "failed",
                            !.token = IF run[r].ok THEN @ ELSE NoToken,
                            !.left = (IF run[r].ok THEN 0 ELSE Backoff(ledger.attempts)) - run[r].age]
            /\ recorded' = IF run[r].ok THEN run[r].event ELSE recorded
            /\ run' = [run EXCEPT ![r] = IF run[r].ok THEN [run[r] EXCEPT !.pc = "mark"] ELSE Idle]
       ELSE /\ ledger' = IF Claimed(r) THEN NoRow ELSE ledger
            /\ run' = [run EXCEPT ![r] = Idle]
            /\ UNCHANGED recorded
    /\ UNCHANGED <<rule, lastNotified, nodeVars, marks, boundVars>>

\* Mutant: any delivery recorded for the key will do.
TokenMatchesAny(tk) == ledger # NoRow /\ ledger.status = "sent" /\ ~ledger.retired

\* notification_delivery_token_matches.
TokenMatches(tk) == ledger # NoRow /\ ledger.token = tk /\ ledger.status = "sent" /\ ~ledger.retired

\* cfm_mark_offline_notification_sent, with the time of the run or without one.
Mark(r) ==
    /\ run[r].pc = "mark"
    /\ IF rule /\ TokenMatches(run[r].token)
       THEN /\ lastNotified' = IF run[r].event[1] = "offline" THEN <<run[r].event[2], marks>>
                               ELSE NoMark
            /\ marks' = IF run[r].event[1] = "offline" THEN marks + 1 ELSE marks
       ELSE UNCHANGED <<lastNotified, marks>>
    /\ run' = [run EXCEPT ![r] = Idle]
    /\ UNCHANGED <<rule, ledger, nodeVars, recorded, boundVars>>

-----------------------------------------------------------------------------
(* The rule, the cleanup, the node and the time *)

\* Mutant: a claim that is being sent is deleted as well.
RetiredOutright(L) == NoRow

\* retire_notification_deliveries.
Retired(L) == IF L # NoRow /\ Active(L, 0) THEN [L EXCEPT !.retired = TRUE] ELSE NoRow

\* retire_entity_notification_deliveries, the trigger on the rules, has to do when the
\* rule is switched on or off, or has another grace period.
Reconfigured(on) == rule \/ on

\* cfm_set_offline_notifications with its trigger.
Configure(on) ==
    /\ changes < MaxChanges
    /\ Reconfigured(on)
    /\ changes' = changes + 1
    /\ rule' = on
    /\ lastNotified' = IF on THEN lastNotified ELSE NoMark
    /\ ledger' = Retired(ledger)
    /\ recorded' = NoEvent
    /\ UNCHANGED <<nodeVars, run, marks, faults>>

\* cfm_cleanup_notification_delivery_state in a run that started g before.
Cleanup(g) ==
    /\ ledger # NoRow
    /\ IF ledger.retired THEN ~Active(ledger, g) ELSE ~EntityExists
    /\ ledger' = IF Active(ledger, g) THEN [ledger EXCEPT !.retired = TRUE] ELSE NoRow
    /\ UNCHANGED <<rule, lastNotified, nodeVars, run, recorded, marks, boundVars>>

\* The node stops to report, or reports again.
NodeChanges ==
    /\ down \/ outage < MaxOutages
    /\ down' = ~down
    /\ outage' = IF down THEN outage ELSE outage + 1
    /\ UNCHANGED <<rule, lastNotified, ledger, run, recorded, marks, boundVars>>

Fault == faults < MaxFaults /\ faults' = faults + 1

\* The worker stops, a request fails, or the run has used up its requests.
Stop(r) ==
    /\ Fault
    /\ run[r].pc # "idle"
    /\ run' = [run EXCEPT ![r] = Idle]
    /\ UNCHANGED <<rule, lastNotified, ledger, nodeVars, recorded, marks, changes>>

Older(left) == IF left > -Budget THEN left - 1 ELSE left

\* Time passes; a run that has spent its budget is cut off.
Tick ==
    LET Spent == {r \in Runs : run[r].pc # "idle" /\ run[r].age = Budget}
    IN  /\ IF Spent = {} THEN UNCHANGED faults ELSE Fault
        /\ run' = [r \in Runs |-> IF run[r].pc = "idle" \/ r \in Spent THEN Idle
                                  ELSE [run[r] EXCEPT !.age = @ + 1]]
        /\ ledger' = IF ledger = NoRow THEN NoRow ELSE [ledger EXCEPT !.left = Older(@)]
        /\ UNCHANGED <<rule, lastNotified, nodeVars, recorded, marks, changes>>

-----------------------------------------------------------------------------
Init ==
    /\ rule = TRUE
    /\ lastNotified = NoMark
    /\ ledger = NoRow
    /\ down = FALSE
    /\ outage = 0
    /\ run = [r \in Runs |-> Idle]
    /\ recorded = NoEvent
    /\ marks = 0
    /\ changes = 0
    /\ faults = 0

Next ==
    \/ \E r \in Runs : Start(r)
    \/ \E r \in Runs : Evaluate(r)
    \/ \E r \in Runs : Claim(r)
    \/ \E r \in Runs, ok \in BOOLEAN : Send(r, ok)
    \/ \E r \in Runs : Complete(r)
    \/ \E r \in Runs : Mark(r)
    \/ \E on \in BOOLEAN : Configure(on)
    \/ \E g \in 0..Budget : Cleanup(g)
    \/ NodeChanges
    \/ \E r \in Runs : Stop(r)
    \/ Tick

Spec == Init /\ [][Next]_vars

-----------------------------------------------------------------------------
(* Properties *)

PCs == {"idle", "evaluate", "claim", "send", "complete", "mark"}

TypeOK ==
    /\ rule \in BOOLEAN
    /\ lastNotified \in Marks \cup {NoMark}
    /\ ledger \in Rows \cup {NoRow}
    /\ down \in BOOLEAN /\ outage \in Nat
    /\ run \in [Runs -> [pc : PCs, age : 0..Budget, last : Marks \cup {NoMark},
                         event : Events \cup {NoEvent}, token : Tokens \cup {NoToken},
                         ok : BOOLEAN]]
    /\ recorded \in Events \cup {NoEvent}
    /\ marks \in Nat /\ changes \in Nat /\ faults \in Nat

\* Two runs never send at the same time, not even when the rule is changed or cleaned
\* up while one of them waits for the channel: a run ends before its lease does.
OneSender == \A r, s \in Runs : run[r].pc = "send" /\ run[s].pc = "send" => r = s

\* last_notified follows the deliveries: it is set by an offline message and cleared by
\* a recovery message that is the last one recorded under the present configuration, or
\* cleared with the rule.  A run that comes late to its mark, after another delivery or
\* another configuration, leaves it alone.
MarksFollowDeliveries ==
    [][/\ lastNotified' \notin {lastNotified, NoMark} => recorded = <<"offline", lastNotified'[1]>>
       /\ lastNotified # NoMark /\ lastNotified' = NoMark /\ rule' => recorded[1] = "recovery"]_vars

-----------------------------------------------------------------------------
(* The inductive invariant *)

Sending == {"send", "complete"}

\* The row is the claim of the run that is sending, and its lease outlives it.
SenderHoldsLease ==
    \A r \in Runs : run[r].pc \in Sending =>
        /\ ledger # NoRow
        /\ ledger.event = run[r].event /\ ledger.token = run[r].token
        /\ ledger.status = "pending" /\ ledger.token # NoToken
        /\ ledger.left + run[r].age = Lease

\* A token names one claim: runs that share it share the event, and only one of them
\* made the claim.
TokensNameEvents ==
    /\ \A r \in Runs : run[r].pc \in Sending \cup {"mark"} =>
         /\ run[r].event # NoEvent /\ run[r].token # NoToken
         /\ ledger # NoRow /\ ledger.token = run[r].token => ledger.event = run[r].event
    /\ \A r \in Runs : run[r].pc = "claim" => run[r].event # NoEvent
    /\ \A r, s \in Runs : run[r].pc \in Sending /\ run[s].pc \in Sending \cup {"mark"} /\ r # s =>
         run[r].token # run[s].token

\* What the ledger calls sent is the last recorded delivery.
SentIsRecorded ==
    ledger # NoRow /\ ledger.status = "sent" =>
        ledger.token # NoToken /\ (~ledger.retired => recorded = ledger.event)

IndInv == TypeOK /\ SenderHoldsLease /\ TokensNameEvents /\ SentIsRecorded

-----------------------------------------------------------------------------
(* Liveness *)

\* The cron starts a run every two minutes, a run goes on while it lives, and a channel
\* that is tried again and again takes a message.
Fairness ==
    /\ WF_vars(Tick)
    /\ WF_vars(\E g \in 0..Budget : Cleanup(g))
    /\ \A r \in Runs :
        /\ WF_vars(Start(r))
        /\ WF_vars(Evaluate(r))
        /\ WF_vars(Claim(r))
        /\ WF_vars(\E ok \in BOOLEAN : Send(r, ok))
        /\ SF_vars(Send(r, TRUE))
        /\ WF_vars(Complete(r))
        /\ WF_vars(Mark(r))

FairSpec == Spec /\ Fairness

\* A node that stays offline is reported, and so is the return of one that was reported,
\* whatever failed, was cut off or was reconfigured on the way.
OwnerIsTold ==
    /\ (rule /\ down /\ lastNotified = NoMark) ~> (~rule \/ ~down \/ lastNotified # NoMark)
    /\ (rule /\ ~down /\ lastNotified # NoMark) ~> (~rule \/ down \/ lastNotified = NoMark)

-----------------------------------------------------------------------------
(***************************************************************************)
(* Proofs.  The invariant says that the ledger row is the claim of the run *)
(* that is sending, with a lease that ends Lease after the run's start, so *)
(* that it outlives the run; that a token names the event of its claim;    *)
(* and that a row called sent is the last delivery recorded.               *)
(***************************************************************************)

RunRecords == [pc : PCs, age : 0..Budget, last : Marks \cup {NoMark},
               event : Events \cup {NoEvent}, token : Tokens \cup {NoToken}, ok : BOOLEAN]

LEMMA IdleType == /\ Idle \in RunRecords /\ Idle.pc = "idle" /\ Idle.event = NoEvent
                  /\ Idle.token = NoToken
BY DeliveryAssumption DEF Idle, RunRecords, PCs

LEMMA InitInv == Init => IndInv
<1> SUFFICES ASSUME Init PROVE IndInv
    OBVIOUS
<1>1. \A r \in Runs : run[r] \in RunRecords /\ run[r].pc = "idle"
    BY IdleType DEF Init
<1>2. TypeOK
    BY IdleType DEF Init, TypeOK, RunRecords
<1>3. SenderHoldsLease /\ TokensNameEvents
    BY <1>1 DEF SenderHoldsLease, TokensNameEvents, Sending
<1>4. SentIsRecorded
    BY DEF Init, SentIsRecorded
<1> QED BY <1>2, <1>3, <1>4 DEF IndInv

\* A claim in progress is seen as such by every run and by every cleanup.
LEMMA SenderIsSeen ==
    ASSUME IndInv, NEW r \in Runs, run[r].pc \in Sending, NEW g \in 0..Budget
    PROVE  ledger \in Rows /\ Active(ledger, g) /\ ledger.left > 0
<1>1. /\ ledger # NoRow /\ ledger.status = "pending" /\ ledger.token # NoToken
      /\ ledger.left + run[r].age = Lease
    BY DEF IndInv, SenderHoldsLease
<1>2. ledger \in Rows /\ ledger.left \in Int /\ run[r].age \in 0..Budget
    BY <1>1 DEF IndInv, TypeOK, Rows
<1>3. ledger.left > 0 /\ ledger.left + g > 0
    BY <1>1, <1>2, DeliveryAssumption
<1> QED BY <1>1, <1>2, <1>3 DEF Active

\* There is one sender.
LEMMA SendersAreOne ==
    ASSUME IndInv, NEW r \in Runs, NEW s \in Runs, run[r].pc \in Sending, run[s].pc \in Sending
    PROVE  r = s
BY DEF IndInv, SenderHoldsLease, TokensNameEvents

\* A step that ends runs, or moves one that is not sending, and leaves the rest alone.
LEMMA QuietInv ==
    ASSUME IndInv, UNCHANGED <<ledger, recorded>>,
           rule' \in BOOLEAN, lastNotified' \in Marks \cup {NoMark}, marks' \in Nat,
           down' \in BOOLEAN, outage' \in Nat, changes' \in Nat, faults' \in Nat,
           run' \in [Runs -> RunRecords],
           \A r \in Runs : \/ run'[r] = Idle
                           \/ /\ run'[r].event = run[r].event /\ run'[r].token = run[r].token
                              /\ run'[r].age = run[r].age
                              /\ \/ run'[r].pc = run[r].pc
                                 \/ run[r].pc = "send" /\ run'[r].pc = "complete"
                           \/ /\ run[r].pc \notin Sending \cup {"mark"}
                              /\ run'[r].pc = "evaluate"
                           \/ /\ run[r].pc \notin Sending \cup {"mark"}
                              /\ run'[r].pc = "claim" /\ run'[r].event # NoEvent
    PROVE  IndInv'
<1>1. TypeOK'
    BY DEF IndInv, TypeOK, RunRecords
<1>2. \A r \in Runs : run'[r].pc \in Sending \cup {"mark"} =>
        /\ run[r].pc \in Sending \cup {"mark"}
        /\ run'[r].pc \in Sending <=> run[r].pc \in Sending
        /\ run'[r].event = run[r].event /\ run'[r].token = run[r].token
        /\ run'[r].age = run[r].age
    BY IdleType DEF Sending
<1>3. SenderHoldsLease'
    BY <1>2 DEF IndInv, SenderHoldsLease
<1>4. TokensNameEvents'
  <2>1. \A r \in Runs : run'[r].pc = "claim" => run'[r].event # NoEvent
    BY IdleType DEF IndInv, TokensNameEvents, Sending
  <2> QED BY <1>2, <2>1 DEF IndInv, TokensNameEvents
<1>5. SentIsRecorded'
    BY DEF IndInv, SentIsRecorded
<1> QED BY <1>1, <1>3, <1>4, <1>5 DEF IndInv

LEMMA StartInv ==
    ASSUME IndInv, NEW r \in Runs, Start(r)
    PROVE  IndInv'
<1> DEFINE new == [pc |-> "evaluate", age |-> 0, last |-> lastNotified, event |-> NoEvent,
                   token |-> NoToken, ok |-> FALSE]
<1>1. new \in RunRecords /\ new.pc = "evaluate"
    BY DeliveryAssumption DEF RunRecords, PCs, IndInv, TypeOK
<1>2. run' = [run EXCEPT ![r] = new] /\ run[r].pc = "idle"
    BY DEF Start
<1> HIDE DEF new
<1>3. run' \in [Runs -> RunRecords] /\ \A s \in Runs : run'[s] = IF s = r THEN new ELSE run[s]
    BY <1>1, <1>2 DEF IndInv, TypeOK, RunRecords
<1>4. run[r].pc \notin Sending \cup {"mark"}
    BY <1>2 DEF Sending
<1> QED BY <1>1, <1>3, <1>4, QuietInv DEF Start, IndInv, TypeOK, nodeVars, boundVars

LEMMA EventType ==
    ASSUME IndInv, NEW last \in Marks \cup {NoMark}
    PROVE  EventOf(last) \in Events \cup {NoEvent}
BY DEF EventOf, IndInv, TypeOK, Events

LEMMA EvaluateInv ==
    ASSUME IndInv, NEW r \in Runs, Evaluate(r)
    PROVE  IndInv'
<1> DEFINE e == EventOf(run[r].last)
           moved == [run[r] EXCEPT !.pc = "claim", !.event = e]
           new == IF e = NoEvent THEN Idle ELSE moved
<1>1. run[r] \in RunRecords /\ e \in Events \cup {NoEvent}
    BY EventType DEF IndInv, TypeOK, RunRecords
<1> HIDE DEF e
<1>2. moved \in RunRecords /\ moved.pc = "claim" /\ moved.event = e
    BY <1>1 DEF RunRecords, PCs
<1>3. new \in RunRecords /\ (new = Idle \/ (new.pc = "claim" /\ new.event # NoEvent))
    BY <1>2, IdleType
<1>4. run' = [run EXCEPT ![r] = new] /\ run[r].pc = "evaluate"
    BY DEF Evaluate, e
<1> HIDE DEF new
<1>5. run' \in [Runs -> RunRecords] /\ \A s \in Runs : run'[s] = IF s = r THEN new ELSE run[s]
    BY <1>3, <1>4 DEF IndInv, TypeOK, RunRecords
<1>6. run[r].pc \notin Sending \cup {"mark"}
    BY <1>4 DEF Sending
<1> QED BY <1>3, <1>5, <1>6, QuietInv DEF Evaluate, IndInv, TypeOK, nodeVars, boundVars

LEMMA SendInv ==
    ASSUME IndInv, NEW r \in Runs, NEW ok \in BOOLEAN, Send(r, ok)
    PROVE  IndInv'
<1> DEFINE new == [run[r] EXCEPT !.pc = "complete", !.ok = ok]
<1>1. /\ new \in RunRecords /\ new.pc = "complete" /\ new.event = run[r].event
      /\ new.token = run[r].token /\ new.age = run[r].age
    BY DEF IndInv, TypeOK, RunRecords, PCs
<1>2. run' = [run EXCEPT ![r] = new] /\ run[r].pc = "send"
    BY DEF Send, IndInv, TypeOK
<1> HIDE DEF new
<1>3. run' \in [Runs -> RunRecords] /\ \A s \in Runs : run'[s] = IF s = r THEN new ELSE run[s]
    BY <1>1, <1>2 DEF IndInv, TypeOK, RunRecords
<1> QED BY <1>1, <1>2, <1>3, QuietInv DEF Send, IndInv, TypeOK, nodeVars, boundVars

\* NodeChanges, Stop and the end of Mark touch neither the ledger nor a claim.
LEMMA NodeInv ==
    ASSUME IndInv, NodeChanges
    PROVE  IndInv'
<1>1. /\ UNCHANGED <<rule, lastNotified, ledger, run, recorded, marks, changes, faults>>
      /\ down' \in BOOLEAN /\ outage' \in Nat
    BY DEF NodeChanges, boundVars, IndInv, TypeOK
<1> QED BY <1>1, QuietInv DEF IndInv, TypeOK, RunRecords

LEMMA StopInv ==
    ASSUME IndInv, NEW r \in Runs, Stop(r)
    PROVE  IndInv'
<1>1. run' \in [Runs -> RunRecords] /\ \A s \in Runs : run'[s] = IF s = r THEN Idle ELSE run[s]
    BY IdleType DEF Stop, IndInv, TypeOK, RunRecords
<1> QED BY <1>1, QuietInv DEF Stop, Fault, IndInv, TypeOK, nodeVars

\* Claim: a row with a sender is refused, so the claim that replaces it has none.
LEMMA ClaimInv ==
    ASSUME IndInv, NEW r \in Runs, Claim(r)
    PROVE  IndInv'
<1>1. PICK e \in Events, g \in 0..Budget : e = run[r].event /\ g = run[r].age
    BY DEF Claim, IndInv, TypeOK, TokensNameEvents
<1> DEFINE L == Inserted(e, g)
<1>2. UNCHANGED <<rule, lastNotified, down, outage, recorded, marks, changes, faults>>
    BY DEF Claim, nodeVars, boundVars
<1>3. ASSUME ledger = NoRow
      PROVE  L \in Rows /\ L.status = "pending" /\ L.token = NoToken /\ L.left = -g
    BY <1>3, DeliveryAssumption DEF Inserted, Rows
<1>4. L \in Rows /\ (ledger # NoRow => L = ledger)
    BY <1>3 DEF Inserted, IndInv, TypeOK
<1>5. run[r].pc = "claim" /\ run[r].pc \notin Sending \cup {"mark"} /\ run[r] \in RunRecords
    BY DEF Claim, Sending, IndInv, TypeOK, RunRecords
<1>6. /\ \/ /\ ~rule \/ Refused(L, e, g)
            /\ ledger' = IF rule THEN L ELSE ledger
            /\ run' = [run EXCEPT ![r] = Idle]
         \/ /\ rule /\ Known(L, e) /\ L.status = "sent"
            /\ ledger' = L
            /\ run' = [run EXCEPT ![r].pc = "mark", ![r].token = L.token]
         \/ /\ rule /\ ~Refused(L, e, g) /\ ~(Known(L, e) /\ L.status = "sent")
            /\ \E tk \in Tokens :
                 /\ Fresh(tk)
                 /\ ledger' = [event |-> e, status |-> "pending",
                               attempts |-> NextAttempts(L, e), left |-> Lease - g,
                               token |-> tk, retired |-> FALSE]
                 /\ run' = [run EXCEPT ![r].pc = "send", ![r].token = tk]
    BY <1>1 DEF Claim, EntityExists
<1> HIDE DEF L
<1>7. CASE /\ ~rule \/ Refused(L, e, g)
           /\ ledger' = IF rule THEN L ELSE ledger
           /\ run' = [run EXCEPT ![r] = Idle]
  <2>1. ledger' = ledger
    <3>1. ASSUME ledger = NoRow, rule PROVE FALSE
      <4>1. ~Active(L, g)
        BY <1>3, <3>1 DEF Active
      <4>2. ~(L.left + g > 0)
        BY <1>3, <3>1
      <4> QED BY <1>7, <3>1, <4>1, <4>2 DEF Refused
    <3> QED BY <1>4, <1>7, <3>1
  <2>2. run' \in [Runs -> RunRecords] /\ \A s \in Runs : run'[s] = IF s = r THEN Idle ELSE run[s]
    BY <1>7, IdleType DEF IndInv, TypeOK, RunRecords
  <2> QED BY <1>2, <2>1, <2>2, QuietInv DEF IndInv, TypeOK
<1>8. CASE /\ rule /\ Known(L, e) /\ L.status = "sent"
           /\ ledger' = L
           /\ run' = [run EXCEPT ![r].pc = "mark", ![r].token = L.token]
  <2> DEFINE new == [run[r] EXCEPT !.pc = "mark", !.token = L.token]
  <2>1. ledger # NoRow /\ L = ledger /\ ledger.status = "sent" /\ ledger.event = e
    BY <1>3, <1>4, <1>8 DEF Known
  <2>2. /\ new \in RunRecords /\ new.pc = "mark" /\ new.token = ledger.token
        /\ new.event = e
    BY <1>1, <1>4, <1>5, <2>1 DEF RunRecords, Rows, PCs
  <2>3. run' = [run EXCEPT ![r] = new]
    BY <1>8 DEF IndInv, TypeOK
  <2> HIDE DEF new
  <2>4. run' \in [Runs -> RunRecords] /\ \A s \in Runs : run'[s] = IF s = r THEN new ELSE run[s]
    BY <2>2, <2>3 DEF IndInv, TypeOK, RunRecords
  <2>5. \A s \in Runs : run'[s].pc \notin Sending
    BY <2>1, <2>2, <2>4 DEF IndInv, SenderHoldsLease, Sending
  <2>6. ledger' = ledger
    BY <1>8, <2>1
  <2>7. TypeOK'
    BY <1>2, <2>4, <2>6 DEF IndInv, TypeOK, RunRecords
  <2>8. SenderHoldsLease'
    BY <2>5 DEF SenderHoldsLease
  <2>9. TokensNameEvents'
    <3>1. ledger.token # NoToken /\ e # NoEvent
      BY <2>1, NoneAssumption DEF IndInv, SentIsRecorded
    <3>2. \A s \in Runs : run'[s].pc \in Sending \cup {"mark"} =>
            /\ run'[s].event # NoEvent /\ run'[s].token # NoToken
            /\ ledger' # NoRow /\ ledger'.token = run'[s].token => ledger'.event = run'[s].event
      BY <2>1, <2>2, <2>4, <2>6, <3>1 DEF IndInv, TokensNameEvents
    <3>3. \A s \in Runs : run'[s].pc = "claim" => run'[s].event # NoEvent
      BY <2>2, <2>4 DEF IndInv, TokensNameEvents
    <3> QED BY <2>5, <3>2, <3>3 DEF TokensNameEvents
  <2>10. SentIsRecorded'
    BY <1>2, <2>6 DEF IndInv, SentIsRecorded
  <2> QED BY <2>7, <2>8, <2>9, <2>10 DEF IndInv
<1>9. CASE /\ rule /\ ~Refused(L, e, g) /\ ~(Known(L, e) /\ L.status = "sent")
           /\ \E tk \in Tokens :
                 /\ Fresh(tk)
                 /\ ledger' = [event |-> e, status |-> "pending",
                               attempts |-> NextAttempts(L, e), left |-> Lease - g,
                               token |-> tk, retired |-> FALSE]
                 /\ run' = [run EXCEPT ![r].pc = "send", ![r].token = tk]
  <2>1. PICK tk \in Tokens :
             /\ Fresh(tk)
             /\ ledger' = [event |-> e, status |-> "pending",
                           attempts |-> NextAttempts(L, e), left |-> Lease - g,
                           token |-> tk, retired |-> FALSE]
             /\ run' = [run EXCEPT ![r].pc = "send", ![r].token = tk]
    BY <1>9
  <2> DEFINE new == [run[r] EXCEPT !.pc = "send", !.token = tk]
  <2>2. NextAttempts(L, e) \in 0..MaxAttempts
    BY <1>4, DeliveryAssumption DEF NextAttempts, Rows
  <2>3. /\ ledger' \in Rows /\ ledger'.event = e /\ ledger'.status = "pending"
        /\ ledger'.left = Lease - g /\ ledger'.token = tk
    BY <2>1, <2>2, DeliveryAssumption DEF Rows
  <2>4. /\ new \in RunRecords /\ new.pc = "send" /\ new.token = tk /\ new.event = e
        /\ new.age = g
    BY <1>1, <1>5 DEF RunRecords, PCs
  <2>5. run' = [run EXCEPT ![r] = new]
    BY <2>1 DEF IndInv, TypeOK
  <2> HIDE DEF new
  <2>6. run' \in [Runs -> RunRecords] /\ \A s \in Runs : run'[s] = IF s = r THEN new ELSE run[s]
    BY <2>4, <2>5 DEF IndInv, TypeOK, RunRecords
  <2>7. \A s \in Runs : run[s].pc \notin Sending
    <3> SUFFICES ASSUME NEW s \in Runs, run[s].pc \in Sending PROVE FALSE
      OBVIOUS
    <3>1. ledger \in Rows /\ Active(ledger, g)
      BY SenderIsSeen
    <3>2. L = ledger
      BY <1>4, <3>1, NoneAssumption
    <3> QED BY <1>9, <3>1, <3>2 DEF Refused
  <2>8. TypeOK'
    BY <1>2, <2>3, <2>6 DEF IndInv, TypeOK, RunRecords
  <2>9. tk # NoToken /\ e # NoEvent /\ ledger' # NoRow
    BY <2>3, DeliveryAssumption, NoneAssumption
  <2>10. SenderHoldsLease'
    <3>1. \A s \in Runs : run'[s].pc \in Sending => s = r
      BY <2>6, <2>7
    <3>2. ledger'.left + run'[r].age = Lease
      BY <2>3, <2>4, <2>6, DeliveryAssumption
    <3>3. /\ run'[r].event = e /\ run'[r].token = tk
      BY <2>4, <2>6
    <3> QED BY <2>3, <2>9, <3>1, <3>2, <3>3 DEF SenderHoldsLease
  <2>11. TokensNameEvents'
    <3>1. \A s \in Runs : run[s].token # tk
      BY <2>1 DEF Fresh
    <3>2. \A s \in Runs : run'[s].pc \in Sending \cup {"mark"} =>
            /\ run'[s].event # NoEvent /\ run'[s].token # NoToken
            /\ ledger' # NoRow /\ ledger'.token = run'[s].token => ledger'.event = run'[s].event
      BY <2>3, <2>4, <2>6, <2>9, <3>1 DEF IndInv, TokensNameEvents
    <3>3. \A s \in Runs : run'[s].pc = "claim" => run'[s].event # NoEvent
      BY <2>4, <2>6 DEF IndInv, TokensNameEvents
    <3>4. \A s \in Runs : s # r => run'[s].token # run'[r].token /\ run'[s].pc \notin Sending
      BY <2>4, <2>6, <2>7, <3>1
    <3> QED BY <3>2, <3>3, <3>4 DEF TokensNameEvents
  <2>12. SentIsRecorded'
    BY <2>3 DEF SentIsRecorded
  <2> QED BY <2>8, <2>10, <2>11, <2>12 DEF IndInv
<1> QED BY <1>6, <1>7, <1>8, <1>9

LEMMA BackoffType == \A n \in Nat : Backoff(n) \in Int
<1> SUFFICES ASSUME NEW n \in Nat PROVE Backoff(n) \in Int
    OBVIOUS
<1> DEFINE k == CASE n <= 1 -> 1 [] n = 2 -> 2 [] n = 3 -> 4 [] n = 4 -> 8 [] OTHER -> 16
<1>1. k \in {1, 2, 4, 8, 16}
    OBVIOUS
<1> HIDE DEF k
<1>2. FirstBackoff * k \in Int
    BY <1>1, DeliveryAssumption
<1>3. Backoff(n) = IF FirstBackoff * k < LastBackoff THEN FirstBackoff * k ELSE LastBackoff
    BY DEF Backoff, k
<1> QED BY <1>2, <1>3, DeliveryAssumption

\* Complete: the row is the claim of the run, and no other run is sending.
LEMMA CompleteInv ==
    ASSUME IndInv, NEW r \in Runs, Complete(r)
    PROVE  IndInv'
<1>1. run[r].pc = "complete" /\ run[r].pc \in Sending /\ run[r] \in RunRecords
    BY DEF Complete, Sending, IndInv, TypeOK, RunRecords
<1>2. /\ ledger # NoRow /\ ledger \in Rows /\ ledger.event = run[r].event
      /\ ledger.token = run[r].token /\ ledger.status = "pending" /\ Claimed(r)
    BY <1>1 DEF IndInv, TypeOK, SenderHoldsLease, Claimed
<1>3. \A s \in Runs : run[s].pc \in Sending => s = r
    BY <1>1, SendersAreOne
<1>4. UNCHANGED <<rule, lastNotified, down, outage, marks, changes, faults>>
    BY DEF Complete, nodeVars, boundVars
<1>5. \A s \in Runs : run[s].pc \in Sending \cup {"mark"} =>
        /\ run[s].event # NoEvent /\ run[s].token # NoToken
        /\ ledger.token = run[s].token => ledger.event = run[s].event
    BY <1>2 DEF IndInv, TokensNameEvents
<1>6. CASE ledger.retired \/ ~run[r].ok
  <2>1. /\ run' = [run EXCEPT ![r] = Idle] /\ recorded' = recorded
        /\ \/ ledger' = NoRow
           \/ /\ ~ledger.retired
              /\ ledger' = [ledger EXCEPT !.status = "failed", !.token = NoToken,
                                          !.left = Backoff(ledger.attempts) - run[r].age]
    BY <1>2, <1>6 DEF Complete
  <2>2. run' \in [Runs -> RunRecords] /\ \A s \in Runs : run'[s] = IF s = r THEN Idle ELSE run[s]
    BY <2>1, IdleType DEF IndInv, TypeOK, RunRecords
  <2>3. Backoff(ledger.attempts) - run[r].age \in Int
    <3>1. ledger.attempts \in Nat /\ run[r].age \in Int
      BY <1>1, <1>2, DeliveryAssumption DEF Rows, RunRecords
    <3>2. Backoff(ledger.attempts) \in Int
      BY <3>1, BackoffType
    <3> HIDE DEF Backoff
    <3> QED BY <3>1, <3>2
  <2>4. ledger' = NoRow \/ (ledger' \in Rows /\ ledger'.status = "failed" /\ ledger'.token = NoToken)
    BY <1>2, <2>1, <2>3 DEF Rows
  <2>5. TypeOK'
    BY <1>4, <2>1, <2>2, <2>4 DEF IndInv, TypeOK, RunRecords
  <2>6. \A s \in Runs : run'[s].pc \notin Sending
    BY <1>3, <2>2, IdleType DEF Sending
  <2>7. SenderHoldsLease'
    BY <2>6 DEF SenderHoldsLease
  <2>8. TokensNameEvents'
    <3>1. \A s \in Runs : run'[s].pc \in Sending \cup {"mark"} =>
            run'[s] = run[s] /\ run'[s].token # NoToken /\ run'[s].event # NoEvent
      BY <1>5, <2>2, IdleType DEF Sending
    <3>2. \A s \in Runs : run'[s].pc = "claim" => run'[s].event # NoEvent
      BY <2>2, IdleType DEF IndInv, TokensNameEvents
    <3> QED BY <2>4, <2>6, <3>1, <3>2 DEF TokensNameEvents
  <2>9. SentIsRecorded'
    BY <2>4 DEF SentIsRecorded
  <2> QED BY <2>5, <2>7, <2>8, <2>9 DEF IndInv
<1>7. CASE ~ledger.retired /\ run[r].ok
  <2> DEFINE new == [run[r] EXCEPT !.pc = "mark"]
  <2>1. /\ run' = [run EXCEPT ![r] = new] /\ recorded' = run[r].event
        /\ ledger' = [ledger EXCEPT !.status = "sent", !.token = ledger.token,
                                    !.left = 0 - run[r].age]
    BY <1>2, <1>7 DEF Complete
  <2>2. new \in RunRecords /\ new.pc = "mark" /\ new.event = run[r].event /\ new.token = run[r].token
    BY <1>1 DEF RunRecords, PCs
  <2> HIDE DEF new
  <2>3. run' \in [Runs -> RunRecords] /\ \A s \in Runs : run'[s] = IF s = r THEN new ELSE run[s]
    BY <2>1, <2>2 DEF IndInv, TypeOK, RunRecords
  <2>4. 0 - run[r].age \in Int
    BY <1>1, DeliveryAssumption DEF RunRecords
  <2>5. /\ ledger' \in Rows /\ ledger'.status = "sent" /\ ledger'.token = ledger.token
        /\ ledger'.event = ledger.event
    BY <1>2, <2>1, <2>4 DEF Rows
  <2>6. recorded' \in Events \cup {NoEvent} /\ recorded' = ledger'.event
    BY <1>1, <1>2, <2>1, <2>5 DEF RunRecords
  <2>7. TypeOK'
    BY <1>4, <2>3, <2>5, <2>6 DEF IndInv, TypeOK, RunRecords
  <2>8. \A s \in Runs : run'[s].pc \notin Sending
    BY <1>3, <2>2, <2>3 DEF Sending
  <2>9. SenderHoldsLease'
    BY <2>8 DEF SenderHoldsLease
  <2>10. TokensNameEvents'
    <3>1. \A s \in Runs : run'[s].pc \in Sending \cup {"mark"} =>
            /\ run'[s].event # NoEvent /\ run'[s].token # NoToken
            /\ ledger.token = run'[s].token => ledger.event = run'[s].event
      BY <1>1, <1>5, <2>2, <2>3 DEF Sending
    <3>2. \A s \in Runs : run'[s].pc = "claim" => run'[s].event # NoEvent
      BY <2>2, <2>3 DEF IndInv, TokensNameEvents
    <3> QED BY <2>5, <2>8, <3>1, <3>2 DEF TokensNameEvents
  <2>11. SentIsRecorded'
    BY <1>1, <1>2, <1>5, <2>5, <2>6 DEF SentIsRecorded
  <2> QED BY <2>7, <2>9, <2>10, <2>11 DEF IndInv
<1> QED BY <1>1, <1>6, <1>7 DEF RunRecords

LEMMA MarkInv ==
    ASSUME IndInv, NEW r \in Runs, Mark(r)
    PROVE  IndInv'
<1>1. run' \in [Runs -> RunRecords] /\ \A s \in Runs : run'[s] = IF s = r THEN Idle ELSE run[s]
    BY IdleType DEF Mark, IndInv, TypeOK, RunRecords
<1>2. run[r].event \in Events /\ marks \in Nat
    BY DEF Mark, IndInv, TypeOK, TokensNameEvents, Sending
<1>3. run[r].event[1] = "offline" => <<run[r].event[2], marks>> \in Marks
    BY <1>2 DEF Events, Marks
<1>4. lastNotified' \in Marks \cup {NoMark} /\ marks' \in Nat
    BY <1>2, <1>3 DEF Mark, IndInv, TypeOK
<1> QED BY <1>1, <1>4, QuietInv DEF Mark, IndInv, TypeOK, nodeVars, boundVars

\* The row goes, or stays as the retired claim of the run that is sending.
LEMMA RetireInv ==
    ASSUME IndInv, NEW g \in 0..Budget,
           ledger' = IF ledger # NoRow /\ Active(ledger, g) THEN [ledger EXCEPT !.retired = TRUE]
                     ELSE NoRow,
           UNCHANGED <<down, outage, run, marks, faults>>, rule' \in BOOLEAN,
           lastNotified' \in Marks \cup {NoMark}, recorded' \in Events \cup {NoEvent},
           changes' \in Nat
    PROVE  IndInv'
<1>1. \/ ledger' = NoRow
      \/ /\ ledger # NoRow /\ ledger' \in Rows /\ ledger'.event = ledger.event
         /\ ledger'.token = ledger.token /\ ledger'.left = ledger.left
         /\ ledger'.status = "pending" /\ ledger.status = "pending"
    BY DEF Active, IndInv, TypeOK, Rows
<1>2. ASSUME NEW r \in Runs, run[r].pc \in Sending PROVE ledger' \in Rows /\ ledger' # NoRow
  <2>1. ledger \in Rows /\ ledger # NoRow /\ Active(ledger, g)
    BY <1>2, SenderIsSeen, NoneAssumption
  <2> QED BY <2>1, NoneAssumption DEF Rows
<1>3. TypeOK'
    BY <1>1 DEF IndInv, TypeOK
<1>4. SenderHoldsLease'
    BY <1>1, <1>2 DEF IndInv, SenderHoldsLease
<1>5. TokensNameEvents'
    BY <1>1 DEF IndInv, TokensNameEvents
<1>6. SentIsRecorded'
    BY <1>1 DEF SentIsRecorded
<1> QED BY <1>3, <1>4, <1>5, <1>6 DEF IndInv

LEMMA ConfigureInv ==
    ASSUME IndInv, NEW on \in BOOLEAN, Configure(on)
    PROVE  IndInv'
<1>1. 0 \in 0..Budget
    BY DeliveryAssumption
<1>2. ledger' = IF ledger # NoRow /\ Active(ledger, 0) THEN [ledger EXCEPT !.retired = TRUE]
                ELSE NoRow
    BY DEF Configure, Retired
<1>3. /\ UNCHANGED <<down, outage, run, marks, faults>> /\ rule' \in BOOLEAN
      /\ lastNotified' \in Marks \cup {NoMark} /\ recorded' \in Events \cup {NoEvent}
      /\ changes' \in Nat
    BY DEF Configure, nodeVars, IndInv, TypeOK
<1> HIDE DEF IndInv
<1> QED BY <1>1, <1>2, <1>3, RetireInv

LEMMA CleanupInv ==
    ASSUME IndInv, NEW g \in 0..Budget, Cleanup(g)
    PROVE  IndInv'
BY RetireInv DEF Cleanup, nodeVars, boundVars, IndInv, TypeOK

\* Time shortens the lease and ages its holder alike.
LEMMA TickInv ==
    ASSUME IndInv, Tick
    PROVE  IndInv'
<1>1. \A r \in Runs : run[r] \in RunRecords
    BY DEF IndInv, TypeOK, RunRecords
<1>2. \A r \in Runs : \/ run'[r] = Idle
                      \/ /\ run[r].pc # "idle" /\ run[r].age # Budget
                         /\ run'[r] = [run[r] EXCEPT !.age = @ + 1]
    BY DEF Tick
<1>3. \A r \in Runs : \/ run'[r] = Idle
                      \/ /\ run'[r] \in RunRecords /\ run'[r].pc = run[r].pc
                         /\ run'[r].event = run[r].event /\ run'[r].token = run[r].token
                         /\ run'[r].age = run[r].age + 1
  <2> SUFFICES ASSUME NEW r \in Runs, run'[r] # Idle
               PROVE  /\ run'[r] \in RunRecords /\ run'[r].pc = run[r].pc
                      /\ run'[r].event = run[r].event /\ run'[r].token = run[r].token
                      /\ run'[r].age = run[r].age + 1
    OBVIOUS
  <2>1. run[r].age + 1 \in 0..Budget
    <3>1. run[r].age \in 0..Budget /\ run[r].age # Budget
      BY <1>1, <1>2 DEF RunRecords
    <3> QED BY <3>1, DeliveryAssumption
  <2> QED BY <1>1, <1>2, <2>1 DEF RunRecords
<1>4. run' \in [Runs -> RunRecords]
    BY <1>3, IdleType DEF Tick
<1>5. /\ UNCHANGED <<rule, lastNotified, down, outage, recorded, marks, changes>>
      /\ faults' \in Nat
    BY DEF Tick, Fault, nodeVars, IndInv, TypeOK
<1>6. \/ ledger = NoRow /\ ledger' = NoRow
      \/ /\ ledger \in Rows /\ ledger' \in Rows /\ ledger'.event = ledger.event
         /\ ledger'.token = ledger.token /\ ledger'.status = ledger.status
         /\ ledger'.retired = ledger.retired /\ ledger'.left = Older(ledger.left)
  <2>1. CASE ledger = NoRow
    BY <2>1 DEF Tick
  <2>2. CASE ledger # NoRow
    <3>1. ledger \in Rows /\ ledger' = [ledger EXCEPT !.left = Older(ledger.left)]
      BY <2>2 DEF Tick, IndInv, TypeOK
    <3>2. Older(ledger.left) \in Int
      BY <3>1 DEF Older, Rows
    <3> QED BY <3>1, <3>2 DEF Rows
  <2> QED BY <2>1, <2>2
<1>7. TypeOK'
    BY <1>4, <1>5, <1>6 DEF IndInv, TypeOK, RunRecords
<1>8. SenderHoldsLease'
  <2> SUFFICES ASSUME NEW r \in Runs, run'[r].pc \in Sending
               PROVE  /\ ledger' # NoRow
                      /\ ledger'.event = run'[r].event /\ ledger'.token = run'[r].token
                      /\ ledger'.status = "pending" /\ ledger'.token # NoToken
                      /\ ledger'.left + run'[r].age = Lease
    BY DEF SenderHoldsLease
  <2>1. /\ run[r].pc \in Sending /\ run'[r].event = run[r].event /\ run'[r].token = run[r].token
        /\ run'[r].age = run[r].age + 1
    BY <1>3, IdleType DEF Sending
  <2>2. /\ ledger # NoRow /\ ledger.event = run[r].event /\ ledger.token = run[r].token
        /\ ledger.status = "pending" /\ ledger.token # NoToken
        /\ ledger.left + run[r].age = Lease
    BY <2>1 DEF IndInv, SenderHoldsLease
  <2>3. 0 \in 0..Budget
    BY DeliveryAssumption
  <2>4. ledger.left > 0
    BY <2>1, <2>3, SenderIsSeen
  <2>5. ledger.left \in Int /\ run[r].age \in Int /\ run[r] \in RunRecords
    BY <1>1, <1>6, <2>2, DeliveryAssumption DEF Rows, RunRecords
  <2>6. Older(ledger.left) = ledger.left - 1
    BY <2>4, <2>5, DeliveryAssumption DEF Older
  <2>7. Older(ledger.left) + run'[r].age = Lease
    BY <2>1, <2>2, <2>5, <2>6, DeliveryAssumption
  <2> QED BY <1>6, <2>1, <2>2, <2>7, NoneAssumption
<1>9. TokensNameEvents'
  <2>1. \A r \in Runs : run'[r].pc # "idle" =>
          /\ run'[r].pc = run[r].pc
          /\ run'[r].event = run[r].event /\ run'[r].token = run[r].token
    BY <1>3, IdleType
  <2>2. ledger' # NoRow => /\ ledger # NoRow /\ ledger'.token = ledger.token
                           /\ ledger'.event = ledger.event
    BY <1>6, NoneAssumption
  <2>3. \A r \in Runs : run'[r].pc \in Sending \cup {"mark"} =>
          /\ run'[r].event # NoEvent /\ run'[r].token # NoToken
          /\ ledger' # NoRow /\ ledger'.token = run'[r].token => ledger'.event = run'[r].event
    BY <2>1, <2>2 DEF IndInv, TokensNameEvents, Sending
  <2>4. \A r \in Runs : run'[r].pc = "claim" => run'[r].event # NoEvent
    BY <2>1 DEF IndInv, TokensNameEvents
  <2>5. \A r, s \in Runs : run'[r].pc \in Sending /\ run'[s].pc \in Sending \cup {"mark"} /\ r # s =>
          run'[r].token # run'[s].token
    BY <2>1 DEF IndInv, TokensNameEvents, Sending
  <2> QED BY <2>3, <2>4, <2>5 DEF TokensNameEvents
<1>10. SentIsRecorded'
  <2>1. ledger' # NoRow => /\ ledger # NoRow /\ ledger'.token = ledger.token
                           /\ ledger'.event = ledger.event /\ ledger'.status = ledger.status
                           /\ ledger'.retired = ledger.retired
    BY <1>6, NoneAssumption
  <2> QED BY <1>5, <2>1 DEF IndInv, SentIsRecorded
<1> QED BY <1>7, <1>8, <1>9, <1>10 DEF IndInv

LEMMA NextInv == IndInv /\ [Next]_vars => IndInv'
<1> SUFFICES ASSUME IndInv, [Next]_vars PROVE IndInv'
    OBVIOUS
<1>1. CASE \E r \in Runs : Start(r) \/ Evaluate(r) \/ Claim(r) \/ Complete(r) \/ Mark(r) \/ Stop(r)
    BY <1>1, StartInv, EvaluateInv, ClaimInv, CompleteInv, MarkInv, StopInv
<1>2. CASE \E r \in Runs, ok \in BOOLEAN : Send(r, ok)
    BY <1>2, SendInv
<1>3. CASE \E on \in BOOLEAN : Configure(on)
    BY <1>3, ConfigureInv
<1>4. CASE \E g \in 0..Budget : Cleanup(g)
    BY <1>4, CleanupInv
<1>5. CASE NodeChanges
    BY <1>5, NodeInv
<1>6. CASE Tick
    BY <1>6, TickInv
<1>7. CASE UNCHANGED vars
    BY <1>7, QuietInv DEF vars, nodeVars, boundVars, IndInv, TypeOK, RunRecords
<1> QED BY <1>1, <1>2, <1>3, <1>4, <1>5, <1>6, <1>7 DEF Next

\* The inductive invariant of the delivery ledger holds for any number of runs, any lease
\* that is longer than a run's budget and any backoff: a claim in progress is in the
\* ledger, and what the ledger calls sent is what was recorded last.
THEOREM DeliveryInvariant == Spec => []IndInv
BY InitInv, NextInv, PTL DEF Spec

\* The ledger, the runs and the marks keep their types (notification_delivery_ledger).
THEOREM DeliveryTypes == Spec => []TypeOK
<1>1. IndInv => TypeOK BY DEF IndInv
<1> QED BY <1>1, DeliveryInvariant, PTL

\* Two runs of the offline check never send at the same time.
THEOREM OnlyOneSender == Spec => []OneSender
<1>1. IndInv => OneSender
    BY SendersAreOne DEF OneSender, Sending
<1> QED BY <1>1, DeliveryInvariant, PTL

\* cfm_mark_offline_notification_sent changes last_notified only for the delivery that
\* was recorded last under the present configuration of the rule.
THEOREM MarksFollow == Spec => MarksFollowDeliveries
<1> DEFINE A == /\ lastNotified' \notin {lastNotified, NoMark} =>
                     recorded = <<"offline", lastNotified'[1]>>
                /\ lastNotified # NoMark /\ lastNotified' = NoMark /\ rule' =>
                     recorded[1] = "recovery"
<1>1. IndInv /\ [Next]_vars => [A]_vars
  <2> SUFFICES ASSUME IndInv, Next PROVE A
    BY DEF vars
  <2>1. CASE lastNotified' = lastNotified
    BY <2>1
  <2>2. CASE \E on \in BOOLEAN : Configure(on)
    BY <2>2 DEF Configure
  <2>3. CASE \E r \in Runs : Mark(r) /\ lastNotified' # lastNotified
    <3>1. PICK r \in Runs : Mark(r) /\ lastNotified' # lastNotified
      BY <2>3
    <3>2. /\ run[r].pc = "mark" /\ ledger # NoRow /\ ledger.token = run[r].token
          /\ ledger.status = "sent" /\ ~ledger.retired
          /\ lastNotified' = IF run[r].event[1] = "offline" THEN <<run[r].event[2], marks>>
                             ELSE NoMark
      BY <3>1 DEF Mark, TokenMatches
    <3>3. recorded = run[r].event /\ run[r].event \in Events
      BY <3>2 DEF IndInv, TypeOK, TokensNameEvents, SentIsRecorded
    <3>4. CASE run[r].event[1] = "offline"
      <4>1. run[r].event = <<"offline", run[r].event[2]>>
        BY <3>3, <3>4 DEF Events
      <4>2. lastNotified' = <<run[r].event[2], marks>> /\ lastNotified' # NoMark
        <5>1. lastNotified' \in Marks
          BY <3>2, <3>3, <3>4 DEF Events, Marks, IndInv, TypeOK
        <5> QED BY <3>2, <3>4, <5>1, NoneAssumption
      <4> QED BY <3>3, <4>1, <4>2
    <3>5. CASE run[r].event[1] # "offline"
      BY <3>2, <3>3, <3>5 DEF Events
    <3> QED BY <3>4, <3>5
  <2> QED BY <2>1, <2>2, <2>3 DEF Next, Start, Evaluate, Claim, Send, Complete, Cleanup,
                                  NodeChanges, Stop, Tick
<1> QED BY <1>1, DeliveryInvariant, PTL DEF Spec, MarksFollowDeliveries
=============================================================================
