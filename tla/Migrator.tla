------------------------------ MODULE Migrator ------------------------------
(***************************************************************************)
(* TcMigrationMgr::apply and ::rollback (migration/manager.rs) for one     *)
(* source: what a call validates, which migrations it selects and in which *)
(* order it hands them to the backend.  The backend modules extend this    *)
(* one: they read the ledger, answer with Inspected and Prepared, carry    *)
(* out Current(p) and go on with Advance.                                  *)
(*                                                                         *)
(* A migration is its id and file name; an artifact set is the set of its  *)
(* migrations, in the order of their ids, as generate writes a history.    *)
(***************************************************************************)
EXTENDS Naturals, FiniteSets

CONSTANTS
    Processes,      \* concurrent callers, of one or several OS processes
    Migrations,     \* [id, name] records
    Artifacts,      \* the artifact sets of the releases that are running
    Reversible,     \* migrations with a rollback artifact
    Operations,     \* the operations called: "apply", "adopt" (apply with AdoptBaseline), ...
    Apart           \* sets {op, op'} of operations never run at once

ASSUME MigrationsAssumption == \A m \in Migrations : m.id \in Nat
ASSUME ArtifactsAssumption ==
    \A list \in Artifacts :
        /\ list \subseteq Migrations /\ IsFiniteSet(list)
        /\ \A m, n \in list : m.id = n.id => m = n
\* next_migration_id numbers a history from 1 without gaps, and a history is only
\* appended to: releases that share a migration share its past.
ASSUME LineagesAssumption ==
    \A past, list \in Artifacts : \A m \in past, n \in list : n.id <= m.id =>
        /\ \E k \in past : k.id = n.id
        /\ m \in list => n \in past
ASSUME ReversibleAssumption == Reversible \subseteq Migrations

VARIABLES pc, job

Job == [op: Operations \cup {"none"}, list: Artifacts \cup {{}},
        inspected: SUBSET Migrations, todo: SUBSET Migrations]
NoJob == [op |-> "none", list |-> {}, inspected |-> {}, todo |-> {}]

\* Mutant: migrations are applied from the last one.
LastFirst(S) == CHOOSE m \in S : \A n \in S : n.id <= m.id
First(S) == CHOOSE m \in S : \A n \in S : m.id <= n.id
IsNewest(m, S) == m \in S /\ \A n \in S : n.id <= m.id
Newest(S) == CHOOSE m \in S : IsNewest(m, S)

\* validate_tracked_name and validate_applied_ids: no unknown id, no other name.
Known(list, rows) == rows \subseteq list
\* applied_lineage
Gapless(list, rows) == \A m \in rows, n \in list : n.id < m.id => n \in rows
\* select_rollback_ids: the newest rows, by number of steps or down to a target.
Selections(rows) ==
    {s \in SUBSET rows : s # {} /\ \A m \in s, n \in rows : m.id < n.id => n \in s}

\* The migration p works on; the first one of a baseline adoption is only recorded.
Current(p) == IF job[p].op = "rollback" THEN Newest(job[p].todo) ELSE First(job[p].todo)
Executes(p) == ~(job[p].op = "adopt" /\ job[p].todo = job[p].list)

MayCall(op) == \A p \in Processes : pc[p] # "idle" => {op, job[p].op} \notin Apart

Goto(p, at) == pc' = [pc EXCEPT ![p] = at] /\ UNCHANGED job
Enter(p, at, j) == pc' = [pc EXCEPT ![p] = at] /\ job' = [job EXCEPT ![p] = j]
Stop(p) == Enter(p, "idle", NoJob)

\* Adoption compares the live schema with the first snapshot before anything else.
Start(p, op, list) ==
    /\ pc[p] = "idle" /\ MayCall(op)
    /\ op = "adopt" => list # {}
    /\ Enter(p, IF op = "adopt" THEN "drift" ELSE "inspect", [NoJob EXCEPT !.op = op, !.list = list])

\* inspect_applied_ids answered.
Inspected(p, rows) ==
    IF Known(job[p].list, rows)
    THEN Enter(p, "prepare", [job[p] EXCEPT !.inspected = rows])
    ELSE Stop(p)

Run(p, todo) ==
    IF todo = {} THEN Stop(p) ELSE Enter(p, "run", [job[p] EXCEPT !.todo = todo])

\* prepare_ledger answered.  A rollback goes by the ids inspected before.
Prepared(p, rows) ==
    LET j == job[p]
        rollbacks == {s \in Selections(j.inspected) : s \subseteq Reversible}
    IN
    \/ j.op = "apply" /\ Known(j.list, rows) /\ Run(p, j.list \ rows)
    \/ j.op = "adopt" /\ rows = {} /\ Run(p, j.list)
    \/ j.op = "rollback" /\ Known(j.list, rows) /\ Gapless(j.list, j.inspected)
       /\ \E s \in rollbacks : Run(p, s)
    \/ ~(j.op = "apply" /\ Known(j.list, rows)) /\ ~(j.op = "adopt" /\ rows = {}) /\ Stop(p)

\* The backend is through with Current(p).
Advance(p) ==
    LET rest == job[p].todo \ {Current(p)} IN
    IF rest = {} THEN Stop(p) ELSE Enter(p, "run", [job[p] EXCEPT !.todo = rest])
=============================================================================
