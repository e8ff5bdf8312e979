----------------------------- MODULE SetupInit -----------------------------
(***************************************************************************)
(* POST /api/setup/database/init: the migrations bundled with the Worker   *)
(* are applied in order, each in a transaction that also records its       *)
(* checksum, and those recorded with the same checksum are skipped.        *)
(* Requests overlap, a query may fail before or after it was executed, or  *)
(* be executed late, and another version of the Worker may be deployed.    *)
(***************************************************************************)
EXTENDS Naturals, FiniteSets

CONSTANTS
    Requests,      \* requests of administrators
    MaxMigrations, \* the bundled migrations are 1 .. MaxMigrations
    Versions,      \* versions of the Worker; each changes every migration
    MaxLost        \* bound: answers of the database that are lost

SetupAssumption ==
    /\ MaxMigrations \in Nat \ {0} /\ MaxLost \in Nat
    /\ Versions \subseteq Nat \ {0} /\ 1 \in Versions

VARIABLES
    deployed, \* the version that takes new requests
    db,       \* the version of each migration in the database and in setup_migrations; 0: none
    req,      \* requests
    late,     \* queries given up but not yet executed
    mixed,    \* requests that another version worked beside
    lost

vars == <<deployed, db, req, late, mixed, lost>>

Steps == 1 .. MaxMigrations
NoneYet == [i \in Steps |-> 0]
Free == [at |-> "free", ver |-> 0, next |-> 1, applied |-> NoneYet]
Working == {"list", "apply", "relist"}

(***************************************************************************)
(* applyBundledMigrations.                                                 *)
(***************************************************************************)

\* the recorded checksum is the bundled one
Skipped(r) == r.applied[r.next] = r.ver

After(r) ==
    IF r.next = MaxMigrations THEN [r EXCEPT !.at = "success"]
    ELSE [r EXCEPT !.next = @ + 1, !.at = "apply"]

\* others of another version at work
Beside(ver) == {q \in Requests : req[q].at \in Working /\ req[q].ver # ver}

Begin(q) ==
    /\ req[q].at \notin Working
    /\ req' = [req EXCEPT ![q] = [Free EXCEPT !.at = "list", !.ver = deployed]]
    /\ mixed' = (mixed \ {q}) \cup Beside(deployed)
                    \cup (IF Beside(deployed) # {} \/ \E e \in late : e.ver # deployed THEN {q} ELSE {})
                    \cup {p \in Requests : req[p].at = "success" /\ req[p].ver # deployed}
    /\ UNCHANGED <<deployed, db, late, lost>>

\* ensureSetupMigrationTable, listAppliedMigrations
List(q) ==
    /\ req[q].at = "list"
    /\ req' = [req EXCEPT ![q].at = "apply", ![q].applied = db]
    /\ UNCHANGED <<deployed, db, late, mixed, lost>>

Skip(q) ==
    /\ req[q].at = "apply" /\ Skipped(req[q])
    /\ req' = [req EXCEPT ![q] = After(req[q])]
    /\ UNCHANGED <<deployed, db, late, mixed, lost>>

\* migrationQuery in one transaction
Apply(q) ==
    /\ req[q].at = "apply" /\ ~Skipped(req[q])
    /\ db' = [db EXCEPT ![req[q].next] = req[q].ver]
    /\ req' = [req EXCEPT ![q] = After([req[q] EXCEPT !.applied[req[q].next] = req[q].ver])]
    /\ UNCHANGED <<deployed, late, mixed, lost>>

\* the query fails: executed, not executed, or executed later
ApplyLost(q, executed, later) ==
    /\ req[q].at = "apply" /\ ~Skipped(req[q]) /\ lost < MaxLost
    /\ lost' = lost + 1
    /\ db' = IF executed THEN [db EXCEPT ![req[q].next] = req[q].ver] ELSE db
    /\ late' = IF later THEN late \cup {[step |-> req[q].next, ver |-> req[q].ver]} ELSE late
    /\ req' = [req EXCEPT ![q].at = "relist"]
    /\ UNCHANGED <<deployed, mixed>>

Executed(e) ==
    /\ e \in late
    /\ late' = late \ {e}
    /\ db' = [db EXCEPT ![e.step] = e.ver]
    /\ UNCHANGED <<deployed, req, mixed, lost>>

\* the failed migration is found after all, or the request fails
Relist(q) ==
    /\ req[q].at = "relist"
    /\ req' = [req EXCEPT ![q] =
                   IF db[req[q].next] = req[q].ver
                   THEN After([req[q] EXCEPT !.applied[req[q].next] = req[q].ver])
                   ELSE [req[q] EXCEPT !.at = "failed"]]
    /\ UNCHANGED <<deployed, db, late, mixed, lost>>

\* a list that fails
ListLost(q) ==
    /\ req[q].at \in {"list", "relist"} /\ lost < MaxLost
    /\ lost' = lost + 1
    /\ req' = [req EXCEPT ![q].at = "failed"]
    /\ UNCHANGED <<deployed, db, late, mixed>>

Deploy(v) ==
    /\ v \in Versions /\ v > deployed
    /\ deployed' = v
    /\ UNCHANGED <<db, req, late, mixed, lost>>

Init ==
    /\ deployed = 1 /\ db = NoneYet
    /\ req = [q \in Requests |-> Free]
    /\ late = {} /\ mixed = {} /\ lost = 0

Next ==
    \/ \E q \in Requests :
          \/ Begin(q) \/ List(q) \/ Skip(q) \/ Apply(q) \/ Relist(q) \/ ListLost(q)
          \/ ApplyLost(q, TRUE, FALSE) \/ ApplyLost(q, FALSE, FALSE) \/ ApplyLost(q, FALSE, TRUE)
    \/ \E e \in late : Executed(e)
    \/ \E v \in Versions : Deploy(v)

Spec == Init /\ [][Next]_vars

(***************************************************************************)
(* Properties.                                                             *)
(***************************************************************************)
TypeOK ==
    /\ deployed \in Versions
    /\ db \in [Steps -> Versions \cup {0}]
    /\ \A q \in Requests : req[q].at \in Working \cup {"free", "success", "failed"} /\ req[q].next \in Steps
    /\ lost \in 0 .. MaxLost

\* Migrations build on each other: none is in the database without those before it,
\* whatever requests overlap and whichever queries fail or are executed late.
InOrder == \A i \in Steps : \A j \in 1 .. i : db[i] # 0 => db[j] # 0

\* An answer "success" means the whole bundle is there and stays there, unless a
\* request of another version was at work, too.
SuccessIsComplete ==
    \A q \in Requests : (req[q].at = "success" /\ q \notin mixed) => \A i \in Steps : db[i] = req[q].ver
=============================================================================
