---------------------------- MODULE MySqlBackend ----------------------------
(***************************************************************************)
(* The MySQL migration backend (mysql.rs).  Every statement commits by     *)
(* itself, so a migration is not atomic: while it runs a marker row says   *)
(* which migration, in which direction, and at which statement.  A marker  *)
(* left behind stops every later call (migration_recovery_ambiguous).      *)
(*                                                                         *)
(* The calls on one database exclude each other by GET_LOCK, which belongs *)
(* to the session: a dropped call leaves it with a connection that goes    *)
(* back to the pool, and whoever gets that connection releases it first.   *)
(***************************************************************************)
EXTENDS Migrator

CONSTANTS
    Connections,    \* the pools' connections (sessions)
    Statements,     \* statements per migration
    Baselines,      \* migrations whose effects a database may hold before the first call
    NoConnection

ASSUME StatementsAssumption == Statements \in Nat \ {0}
ASSUME ConnectionsAssumption == NoConnection \notin Connections
\* A lineage begins with its baseline.
ASSUME BaselinesAssumption ==
    /\ Baselines \subseteq Migrations
    /\ \A b \in Baselines, list \in Artifacts \ {{}} : b \in list /\ \A m \in list : b.id <= m.id

VARIABLES
    rows,           \* the ledger of the source
    schema,         \* effects: <<m, i>> for statement i of migration m
    markers,        \* __toasty_mgr_migration_runs: migration -> [dir, at] or NoMarker
    tables,         \* the ledger and marker tables exist
    owner,          \* the session that owns the lock
    held,           \* process -> the connection it works on
    step            \* process -> statements of the migration done

database == <<rows, schema, markers, tables>>
vars == <<pc, job, rows, schema, markers, tables, owner, held, step>>

Effects(S) == S \X (1..Statements)
Marker == [dir: {"apply", "rollback"}, at: 0..(Statements - 1)]
NoMarker == [dir |-> "none", at |-> 0]

PCs == {"idle", "drift", "inspect", "inspect_rows", "prepare", "run", "sync", "get_lock", "check",
        "syncing", "mark", "progress", "statement", "row", "unmark"}

TypeOK ==
    /\ pc \in [Processes -> PCs]
    /\ job \in [Processes -> Job]
    /\ rows \subseteq Migrations
    /\ schema \subseteq Effects(Migrations)
    /\ markers \in [Migrations -> Marker \cup {NoMarker}]
    /\ tables \in BOOLEAN
    /\ owner \in Connections \cup {NoConnection}
    /\ held \in [Processes -> Connections \cup {NoConnection}]
    /\ step \in [Processes -> 0..Statements]

-----------------------------------------------------------------------------
Free(c) == \A p \in Processes : held[p] # c
Marked == {m \in Migrations : markers[m] # NoMarker}
\* Mutant: markers are not looked for.
NotInterrupted == FALSE
\* ensure_no_recovery_marker
Interrupted == Marked # {}
Rollback(p) == job[p].op = "rollback"
Direction(p) == IF Rollback(p) THEN "rollback" ELSE "apply"
\* The manager has not selected migrations yet: this is prepare_ledger.
Preparing(p) == job[p].op # "sync" /\ job[p].todo = {}

\* finish_lock
Unlock(p) ==
    /\ owner' = IF owner = held[p] THEN NoConnection ELSE owner
    /\ held' = [held EXCEPT ![p] = NoConnection]

-----------------------------------------------------------------------------
Call(p) ==
    /\ \/ \E op \in Operations \ {"sync"}, list \in Artifacts : Start(p, op, list)
       \/ /\ pc[p] = "idle" /\ "sync" \in Operations /\ MayCall("sync")
          /\ Enter(p, "sync", [NoJob EXCEPT !.op = "sync"])
    /\ UNCHANGED <<database, owner, held, step>>

\* Adoption: the live schema is that of the first snapshot.
CheckDrift(p) ==
    /\ pc[p] = "drift"
    /\ IF schema = Effects({First(job[p].list)}) THEN Goto(p, "inspect") ELSE Stop(p)
    /\ UNCHANGED <<database, owner, held, step>>

\* inspect_applied_ids takes no lock: the markers, then the ledger.
InspectMarkers(p) ==
    /\ pc[p] = "inspect"
    /\ IF Interrupted THEN Stop(p) ELSE Goto(p, "inspect_rows")
    /\ UNCHANGED <<database, owner, held, step>>

InspectRows(p) ==
    /\ pc[p] = "inspect_rows"
    /\ Inspected(p, rows)
    /\ UNCHANGED <<database, owner, held, step>>

\* Mutant: the lock is taken from whichever session has it.
ReleaseAny(p) ==
    /\ pc[p] \in {"prepare", "run", "sync"}
    /\ \E c \in Connections : Free(c) /\ held' = [held EXCEPT ![p] = c]
    /\ owner' = NoConnection
    /\ Goto(p, "get_lock")
    /\ UNCHANGED <<database, step>>

\* acquire_lock: a lock a dropped call left with this session is released first.
ReleaseStale(p) ==
    /\ pc[p] \in {"prepare", "run", "sync"}
    /\ \E c \in Connections :
          /\ Free(c)
          /\ held' = [held EXCEPT ![p] = c]
          /\ owner' = IF owner = c THEN NoConnection ELSE owner
    /\ Goto(p, "get_lock")
    /\ UNCHANGED <<database, step>>

\* Mutant: GET_LOCK without a timeout.
GetLockPatiently(p) ==
    /\ pc[p] = "get_lock"
    /\ owner = NoConnection /\ owner' = held[p] /\ Goto(p, "check")
    /\ step' = [step EXCEPT ![p] = 0]
    /\ UNCHANGED <<database, held>>

\* GET_LOCK, which gives up after LOCK_TIMEOUT_SECONDS.
GetLock(p) ==
    /\ pc[p] = "get_lock"
    /\ \/ owner = NoConnection /\ owner' = held[p] /\ Goto(p, "check") /\ UNCHANGED held
       \/ owner # NoConnection /\ Unlock(p) /\ Stop(p)
    /\ step' = [step EXCEPT ![p] = 0]
    /\ UNCHANGED database

\* create_metadata_tables, then ensure_no_recovery_marker, which ends the call.
\* The ledger is read under the lock: prepare_ledger answers with it, a migration
\* that is there is skipped, only the newest is rolled back.
Check(p) ==
    LET m == Current(p)
        recorded == {r \in rows : r.id = m.id}
        skips == ~Rollback(p) /\ recorded = {m}
        runs == IF Rollback(p) THEN IsNewest(m, rows) ELSE recorded = {}
    IN
    /\ pc[p] = "check" /\ job[p].op # "sync"
    /\ tables' = TRUE
    /\ \/ Interrupted /\ Stop(p) /\ Unlock(p)
       \/ ~Interrupted /\ Preparing(p) /\ Prepared(p, rows) /\ Unlock(p)
       \/ /\ ~Interrupted /\ ~Preparing(p)
          /\ \/ skips /\ Advance(p) /\ Unlock(p)
             \/ runs /\ Goto(p, IF Executes(p) THEN "mark" ELSE "row") /\ UNCHANGED <<owner, held>>
             \/ ~skips /\ ~runs /\ Stop(p) /\ Unlock(p)
    /\ UNCHANGED <<rows, schema, markers, step>>

\* sync_schema looks for markers too, in a table it does not create; its own
\* statements touch no table of a migration.
CheckSync(p) ==
    /\ pc[p] = "check" /\ job[p].op = "sync"
    /\ \/ tables /\ ~Interrupted /\ Goto(p, "syncing") /\ UNCHANGED <<owner, held>>
       \/ ~(tables /\ ~Interrupted) /\ Stop(p) /\ Unlock(p)
    /\ UNCHANGED <<database, step>>

FinishSync(p) ==
    /\ pc[p] = "syncing"
    /\ Stop(p) /\ Unlock(p)
    /\ UNCHANGED <<database, step>>

\* create_run_marker
Mark(p) ==
    /\ pc[p] = "mark"
    /\ markers' = [markers EXCEPT ![Current(p)] = [dir |-> Direction(p), at |-> 0]]
    /\ Goto(p, "progress")
    /\ UNCHANGED <<rows, schema, tables, owner, held, step>>

\* Mutants: the marker stays at 0; the statements never end.
ProgressUnrecorded(p) ==
    /\ pc[p] = "progress"
    /\ Goto(p, "statement")
    /\ UNCHANGED <<database, owner, held, step>>
StatementForever(p) ==
    /\ pc[p] = "statement"
    /\ step' = [step EXCEPT ![p] = @ + 1]
    /\ Goto(p, "progress")
    /\ UNCHANGED <<database, owner, held>>

\* execute_with_progress: the marker first, then the statement, which fails when
\* its effect is there already, or not there to undo.
Progress(p) ==
    /\ pc[p] = "progress"
    /\ markers' = [markers EXCEPT ![Current(p)].at = step[p]]
    /\ Goto(p, "statement")
    /\ UNCHANGED <<rows, schema, tables, owner, held, step>>

Statement(p) ==
    LET e == <<Current(p), step[p] + 1>> IN
    /\ pc[p] = "statement" /\ (e \in schema) = Rollback(p)
    /\ schema' = IF Rollback(p) THEN schema \ {e} ELSE schema \cup {e}
    /\ step' = [step EXCEPT ![p] = @ + 1]
    /\ Goto(p, IF step'[p] < Statements THEN "progress" ELSE "row")
    /\ UNCHANGED <<rows, markers, tables, owner, held>>

\* The row is inserted or deleted; a baseline that is adopted has no marker.
WriteRow(p) ==
    LET m == Current(p) IN
    /\ pc[p] = "row"
    /\ rows' = IF Rollback(p) THEN rows \ {m} ELSE rows \cup {m}
    /\ \/ Executes(p) /\ Goto(p, "unmark") /\ UNCHANGED <<owner, held>>
       \/ ~Executes(p) /\ Advance(p) /\ Unlock(p)
    /\ UNCHANGED <<schema, markers, tables, step>>

\* delete_run_marker
Unmark(p) ==
    /\ pc[p] = "unmark"
    /\ markers' = [markers EXCEPT ![Current(p)] = NoMarker]
    /\ Advance(p) /\ Unlock(p)
    /\ UNCHANGED <<rows, schema, tables, step>>

\* What GET_LOCK protects.
Running == {"mark", "progress", "statement", "row", "unmark"}
Critical == Running \cup {"check", "syncing"}

\* Mutant: an error handler that clears the marker.
FailAndUnmark(p) ==
    /\ pc[p] \in Critical
    /\ markers' = [m \in Migrations |-> NoMarker]
    /\ Stop(p) /\ Unlock(p)
    /\ UNCHANGED <<rows, schema, tables, step>>

\* A statement of the adapter or of the migration fails; the marker stays.
Fail(p) ==
    /\ pc[p] \in Critical
    /\ Stop(p) /\ Unlock(p)
    /\ UNCHANGED <<database, step>>

\* The call is dropped at an await; the connection goes back to the pool as it is.
Cancel(p) ==
    /\ pc[p] # "idle"
    /\ Stop(p)
    /\ held' = [held EXCEPT ![p] = NoConnection]
    /\ UNCHANGED <<database, owner, step>>

\* The session of a pooled connection ends, or a crash follows a Cancel.
Disconnect(c) ==
    /\ owner = c /\ Free(c)
    /\ owner' = NoConnection
    /\ UNCHANGED <<pc, job, database, held, step>>

Init ==
    /\ pc = [p \in Processes |-> "idle"]
    /\ job = [p \in Processes |-> NoJob]
    /\ rows = {}
    /\ schema \in {{}} \cup {Effects({m}) : m \in Baselines}
    /\ markers = [m \in Migrations |-> NoMarker]
    /\ tables = FALSE
    /\ owner = NoConnection
    /\ held = [p \in Processes |-> NoConnection]
    /\ step = [p \in Processes |-> 0]

Step(p) ==
    \/ CheckDrift(p) \/ InspectMarkers(p) \/ InspectRows(p) \/ ReleaseStale(p) \/ GetLock(p)
    \/ Check(p) \/ CheckSync(p) \/ FinishSync(p) \/ Mark(p) \/ Progress(p) \/ Statement(p)
    \/ WriteRow(p) \/ Unmark(p) \/ Fail(p)

Next ==
    \/ \E p \in Processes : Call(p) \/ Step(p) \/ Cancel(p)
    \/ \E c \in Connections : Disconnect(c)

Spec == Init /\ [][Next]_vars

\* Statements of the database end, with an answer or an error, and GET_LOCK times out.
FairSpec == Spec /\ \A p \in Processes : WF_vars(Step(p))

-----------------------------------------------------------------------------
(* Properties *)

\* At most one process is between GET_LOCK and RELEASE_LOCK, whatever sessions
\* dropped calls left the lock with (acquire_lock, finish_lock).
MigrationLock ==
    \A p, q \in Processes :
        pc[p] \in Critical => owner = held[p] /\ (pc[q] \in Critical => p = q)

Complete(m) == Effects({m}) \subseteq schema
Absent(m) == Effects({m}) \cap schema = {}

\* A migration that is neither done and in the ledger nor absent from both has a
\* marker, at every moment a crash may come: nothing half-done goes unnoticed
\* (apply_migration, rollback_migration).
DoubtIsMarked ==
    \A m \in Migrations \ Marked :
        \/ m \in rows /\ Complete(m)
        \/ m \notin rows /\ Absent(m)
        \/ rows = {} /\ m \in Baselines /\ schema = Effects({m})

\* The statement index of a marker, which the operator repairs by, is exact: the
\* statements before it have run, those behind it have not (execute_with_progress).
MarkerIsExact ==
    \A m \in Marked : \A i \in 1..Statements :
        LET done == (<<m, i>> \in schema) = (markers[m].dir = "apply") IN
        \/ m \in rows /\ markers[m].dir = "apply" /\ Complete(m)
        \/ m \notin rows /\ markers[m].dir = "rollback" /\ Absent(m)
        \/ (i <= markers[m].at => done) /\ (i > markers[m].at + 1 => ~done)
        \/ rows = {} /\ m \in Baselines /\ markers[m].at = 0

\* No statement runs next to the marker of an interrupted run: it is not retried
\* on a guess (ensure_no_recovery_marker).
NoGuessedRetry ==
    \A p \in Processes : pc[p] \in Running =>
        Marked \subseteq {Current(p)} /\ (pc[p] = "mark" => Marked = {})

\* The ledger is that of the abstract specification, and it is frozen once a
\* marker is left behind by a run that is over.
InDoubt == \E m \in Marked : \A p \in Processes : pc[p] \in Running => Current(p) # m
Ledger == INSTANCE MigrationLedger WITH inDoubt <- InDoubt
LedgerSpec == Ledger!Spec

\* Every call ends, with the lock of others held, stale or lost: at the latest
\* with migration_lock_timeout.
CallsEnd == \A p \in Processes : pc[p] # "idle" ~> pc[p] = "idle"

\* README: new projects can use sync.  A sync that holds the lock of a database
\* without interrupted runs gets an answer to its query for markers.
SyncIsServed ==
    \A p \in Processes : pc[p] = "check" /\ job[p].op = "sync" /\ Marked = {} => tables
=============================================================================
