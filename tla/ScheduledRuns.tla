---------------------------- MODULE ScheduledRuns ----------------------------
(***************************************************************************)
(* How scheduled work is shared out over the runs of the cron              *)
(* (worker/src/index.ts, runScheduled).  A run has a budget of requests    *)
(* and of time (worker/src/utils/scheduled-budget.ts), its six steps take  *)
(* turns in being the first, and every list remembers in a cursor where    *)
(* the next run has to go on.  The cursors are one setting in SQL, loaded  *)
(* once and written back at the end of the run; the website step           *)
(* (worker/src/utils/website-notifications.ts) writes them earlier too.    *)
(*                                                                         *)
(* Requests and time are one budget.  An item may take what an item is     *)
(* allowed; the deadline may cut it off, but not when it is the first      *)
(* piece of work of its run.                                               *)
(***************************************************************************)
EXTENDS Integers, Sequences, SequencesExt

CONSTANTS
    Budget,         \* what a run may use before it has to end
    StepNeed,       \* what has to be left for a step to begin
    ItemNeed,       \* what has to be left for an item to begin
    Rules,          \* how many offline and how many expiry rules there are
    Groups, Plans, Targets, \* load rules: groups, rules of a group, nodes of a rule
    Sites,          \* websites that are due
    Alerts,         \* websites with a notification to send
    MaxBacklog,     \* bound: batches of old rows
    MaxChanges,     \* bound: changes of the expiry rules
    MaxFaults       \* bound: runs that are killed, items that fail with an error

RunAssumption ==
    /\ \A c \in {Rules, Groups, Plans, Targets, Sites, Alerts, MaxBacklog, MaxChanges, MaxFaults} : c \in Nat
    /\ StepNeed \in Nat \ {0} /\ ItemNeed \in Nat \ {0} /\ Budget \in Nat
    /\ StepNeed + ItemNeed <= Budget

\* The steps of runScheduled, in their order.
Step == <<"sync", "cleanup", "load", "offline", "expiry", "website">>

\* An item is a rule, a site, or a target of a load rule with its place.
Item(list, i) == [list |-> list, i |-> i, group |-> 0, plan |-> 0]
LoadItem(g, p, i) == [list |-> "load", i |-> i, group |-> g, plan |-> p]
Items == {Item(l, i) : l \in {"offline", "expiry"}, i \in 0..Rules - 1}
         \cup {Item("sites", i) : i \in 0..Sites - 1} \cup {Item("alerts", i) : i \in 0..Alerts - 1}
         \cup {LoadItem(g, p, i) : g \in 0..Groups - 1, p \in 0..Plans - 1, i \in 0..Targets - 1}
NoItem == Item("none", 0)

VARIABLES
    slot,       \* the time in cron periods, modulo the number of steps
    cursors,    \* SQL: the setting with the cursors
    present,    \* SQL: the expiry rules that are switched on
    backlog,    \* SQL: batches of rows that are older than they should be
    due,        \* SQL: the last complete cleanup is a day ago
    run,        \* the run under way
    mem,        \* its copy of the cursors
    served,     \* history: the item that the last step completed
    changes, faults

vars == <<slot, cursors, present, backlog, due, run, mem, served, changes, faults>>
sqlVars == <<cursors, present, backlog, due>>

Idle == [pc |-> "idle", pos |-> 0, left |-> 0, ring |-> <<>>, at |-> 0, then |-> <<>>]

\* rotateScheduledItems: every period another step is the first.
Name == Step[((slot + run.pos) % 6) + 1]

-----------------------------------------------------------------------------
(* The lists and their cursors *)

Upto(n) == [i \in 1..n |-> i - 1]

\* orderScheduledItems: from the item of the cursor on, or from the start if it is gone.
Ordered(seq, c) ==
    LET start == IF \E k \in DOMAIN seq : seq[k] = c THEN CHOOSE k \in DOMAIN seq : seq[k] = c ELSE 1
    IN  SubSeq(seq, start, Len(seq)) \o SubSeq(seq, 1, start - 1)

\* runLoadCheck: groups, their rules and the nodes of a rule, each from its own cursor.
LoadRing(c) ==
    LET TargetsOf(g, p) == [k \in 1..Targets |->
              LoadItem(g, p, Ordered(Upto(Targets), c.targets[g, p])[k])]
        PlansOf(g) == [k \in 1..Plans |-> TargetsOf(g, Ordered(Upto(Plans), c.plans[g])[k])]
    IN  FlattenSeq([k \in 1..Groups |-> FlattenSeq(PlansOf(Ordered(Upto(Groups), c.groups)[k]))])

\* listPendingWebsiteNotifications: the ids after the cursor, then the others.
AfterId(c) == [k \in 1..Alerts |-> Item("alerts", (c + k) % Alerts)]

Ring(list, c) ==
    CASE list = "load" -> LoadRing(c)
      [] list = "alerts" -> AfterId(c.alerts)
      [] list = "expiry" -> [k \in 1..Len(SelectSeq(Upto(Rules), LAMBDA i : i \in present)) |->
           Item("expiry", Ordered(SelectSeq(Upto(Rules), LAMBDA i : i \in present), c.expiry)[k])]
      [] list = "offline" -> [k \in 1..Rules |-> Item("offline", Ordered(Upto(Rules), c.offline)[k])]
      [] list = "sites" -> [k \in 1..Sites |-> Item("sites", Ordered(Upto(Sites), c.sites)[k])]

\* The cursors after the item x, when y comes next (scheduledItems, completed).
Advance(c, x, y) ==
    CASE x.list = "load" -> [c EXCEPT !.groups = (x.group + 1) % Groups,
                                      !.plans[x.group] = (x.plan + 1) % Plans,
                                      !.targets[<<x.group, x.plan>>] = (x.i + 1) % Targets]
      [] x.list = "alerts" -> [c EXCEPT !.alerts = x.i]
      [] x.list = "expiry" -> [c EXCEPT !.expiry = y.i]
      [] x.list = "offline" -> [c EXCEPT !.offline = y.i]
      [] x.list = "sites" -> [c EXCEPT !.sites = y.i]

-----------------------------------------------------------------------------
(* A run *)

\* The cron fires; the cursors are read.
RunStarts ==
    /\ run.pc = "idle"
    /\ slot' = (slot + 1) % 6
    /\ run' = [Idle EXCEPT !.pc = "step", !.left = Budget]
    /\ mem' = cursors
    /\ served' = NoItem
    /\ UNCHANGED <<sqlVars, changes, faults>>

\* canStart and ensureCanStart.
MayStart(need) == run.left >= need
StepDone(left) == run' = [Idle EXCEPT !.pc = "step", !.pos = run.pos + 1, !.left = left]

StepsLeft == run.pc = "step" /\ run.pos < 6 /\ MayStart(StepNeed)

\* synchronizePendingClientChanges, which takes what is left or less.
Synchronize ==
    /\ StepsLeft /\ Name = "sync"
    /\ \E left \in 0..run.left : StepDone(left)
    /\ served' = NoItem
    /\ UNCHANGED <<slot, sqlVars, mem, changes, faults>>

\* The next run goes on unless nothing is left to delete.
Cleaned(rest) == rest > 0

\* runRecordCleanup: one capped batch.
Cleanup ==
    /\ StepsLeft /\ Name = "cleanup"
    /\ IF due /\ MayStart(ItemNeed)
       THEN LET rest == IF backlog > 0 THEN backlog - 1 ELSE 0
            IN  /\ backlog' = rest /\ due' = Cleaned(rest)
                /\ \E u \in 1..ItemNeed : StepDone(run.left - u)
       ELSE UNCHANGED <<backlog, due>> /\ StepDone(run.left)
    /\ served' = NoItem
    /\ UNCHANGED <<slot, cursors, present, mem, changes, faults>>

\* runLoadCheck, runOfflineCheck and runExpiryCheck read their rules.
ListStep ==
    /\ StepsLeft /\ Name \in {"load", "offline", "expiry"}
    /\ run' = [run EXCEPT !.pc = "items", !.left = @ - StepNeed, !.ring = Ring(Name, mem), !.at = 1]
    /\ served' = NoItem
    /\ UNCHANGED <<slot, sqlVars, mem, changes, faults>>

\* runWebsiteMonitoring: the phases take turns, and the turn is written down first.
WebsiteStep ==
    /\ StepsLeft /\ Name = "website"
    /\ LET order == IF mem.phase = "alerts" THEN <<"alerts", "sites">> ELSE <<"sites", "alerts">>
       IN  /\ mem' = [mem EXCEPT !.phase = order[2]]
           /\ cursors' = mem'
           /\ run' = [run EXCEPT !.pc = "items", !.left = @ - StepNeed, !.at = 1,
                                 !.ring = Ring(order[1], mem), !.then = <<order[2]>>]
    /\ served' = NoItem
    /\ UNCHANGED <<slot, present, backlog, due, changes, faults>>

Current == run.ring[run.at]
HasItem == run.pc = "items" /\ run.at <= Len(run.ring)

\* An item is completed, and its cursor moves on.
ItemDone ==
    /\ HasItem /\ MayStart(ItemNeed)
    /\ \E u \in 1..ItemNeed : run' = [run EXCEPT !.at = @ + 1, !.left = @ - u]
    /\ mem' = Advance(mem, Current, run.ring[(run.at % Len(run.ring)) + 1])
    /\ served' = Current
    /\ UNCHANGED <<slot, sqlVars, changes, faults>>

\* There is too little left for the item, or the deadline cuts it off: the step ends.
ItemDeferred ==
    /\ HasItem
    /\ \/ ~MayStart(ItemNeed) /\ StepDone(run.left)
       \/ (run.pos > 0 \/ run.at > 1) /\ MayStart(ItemNeed) /\ StepDone(0)
    /\ served' = NoItem
    /\ UNCHANGED <<slot, sqlVars, mem, changes, faults>>

\* An error ends the step as well (runScheduledStep), with the item still to do.
ItemFails ==
    /\ HasItem /\ faults < MaxFaults
    /\ faults' = faults + 1
    /\ StepDone(run.left)
    /\ served' = NoItem
    /\ UNCHANGED <<slot, sqlVars, mem, changes>>

\* The list is at its end: the other phase of the website step, or the next step.
ListDone ==
    /\ run.pc = "items" /\ run.at > Len(run.ring)
    /\ IF run.then = <<>> THEN StepDone(run.left)
       ELSE run' = [run EXCEPT !.ring = Ring(Head(run.then), mem), !.at = 1, !.then = <<>>]
    /\ served' = NoItem
    /\ UNCHANGED <<slot, sqlVars, mem, changes, faults>>

\* Mutant: the cursors are forgotten when the budget is used up.
RunEndsUnsaved ==
    /\ run.pc = "step" /\ (run.pos = 6 \/ ~MayStart(StepNeed))
    /\ cursors' = IF run.pos = 6 THEN mem ELSE cursors
    /\ run' = Idle
    /\ served' = NoItem
    /\ UNCHANGED <<slot, present, backlog, due, mem, changes, faults>>

\* flushScheduledCursors, whatever the steps did.
RunEnds ==
    /\ run.pc = "step" /\ (run.pos = 6 \/ ~MayStart(StepNeed))
    /\ cursors' = mem
    /\ run' = Idle
    /\ served' = NoItem
    /\ UNCHANGED <<slot, present, backlog, due, mem, changes, faults>>

\* The object is stopped, and the cursors in memory are lost.
Killed ==
    /\ run.pc # "idle" /\ faults < MaxFaults
    /\ faults' = faults + 1
    /\ run' = Idle
    /\ served' = NoItem
    /\ UNCHANGED <<slot, sqlVars, mem, changes>>

-----------------------------------------------------------------------------
(* The surroundings *)

\* A day has passed since the last complete cleanup.
DayPasses ==
    /\ ~due
    /\ due' = TRUE
    /\ \E b \in 0..MaxBacklog : backlog' = b
    /\ UNCHANGED <<slot, cursors, present, run, mem, served, changes, faults>>

\* An expiry rule is switched on or off.
Configure(i) ==
    /\ changes < MaxChanges
    /\ changes' = changes + 1
    /\ present' = IF i \in present THEN present \ {i} ELSE present \cup {i}
    /\ UNCHANGED <<slot, cursors, backlog, due, run, mem, served, faults>>

Init ==
    /\ slot \in 0..5
    /\ cursors = [offline |-> 0, expiry |-> 0, sites |-> 0, alerts |-> 0, phase |-> "sites", groups |-> 0,
                  plans |-> [g \in 0..Groups - 1 |-> 0],
                  targets |-> [gp \in (0..Groups - 1) \X (0..Plans - 1) |-> 0]]
    /\ mem = cursors
    /\ present = 0..Rules - 1
    /\ backlog = 0 /\ due = FALSE
    /\ run = Idle /\ served = NoItem
    /\ changes = 0 /\ faults = 0

Next ==
    \/ RunStarts \/ Synchronize \/ Cleanup \/ ListStep \/ WebsiteStep
    \/ ItemDone \/ ItemDeferred \/ ItemFails \/ ListDone \/ RunEnds \/ Killed
    \/ DayPasses \/ \E i \in 0..Rules - 1 : Configure(i)

\* The cron fires again and again and a run goes on with its work, whatever that uses
\* of its budget.
Work == RunStarts \/ Synchronize \/ Cleanup \/ ListStep \/ WebsiteStep
        \/ ItemDone \/ ItemDeferred \/ ListDone \/ RunEnds
Fairness == WF_vars(Work)

Spec == Init /\ [][Next]_vars /\ Fairness

-----------------------------------------------------------------------------
(* Properties *)

\* The variables have their types, and no run uses more than its budget.
TypeOK ==
    /\ slot \in 0..5 /\ run.left \in 0..Budget /\ run.pos \in 0..6
    /\ backlog \in 0..MaxBacklog /\ present \subseteq 0..Rules - 1
    /\ served \in Items \cup {NoItem}

\* However little of the work fits into one run, every rule and every target of a load
\* rule is looked at again and again (the rotation of the steps in runScheduled, the
\* cursors of scheduledItems and runLoadCheck).
Turn(x) == served = x \/ (x.list = "expiry" /\ x.i \notin present)
RuleItems == {x \in Items : x.list \in {"load", "offline", "expiry"}}

=============================================================================
