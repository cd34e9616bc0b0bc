----------------------------- MODULE TxBackend -----------------------------
(***************************************************************************)
(* The transactional migration backends: sqlite.rs, which turso.rs shares, *)
(* and postgresql.rs.  Every step on the ledger is one transaction of a    *)
(* pooled connection that holds the writer lock: BEGIN IMMEDIATE, or the   *)
(* advisory lock of the source.  Inside it the row is looked up again, the *)
(* statements of the migration run and the row is written.                 *)
(*                                                                         *)
(* A call can be dropped at any await.  SQLite transactions are opened by  *)
(* plain statements, so a dropped call leaves one open on a connection     *)
(* that goes back to the pool; a PostgreSQL transaction is an object that  *)
(* ends with the call.                                                     *)
(***************************************************************************)
EXTENDS Migrator

CONSTANTS
    Connections,    \* the pools' connections
    Statements,     \* statements per migration
    Initial,        \* what the database may hold before the first call
    Backends,       \* "sqlite" (and turso), "postgresql"
    Excluded,       \* <<backend, op>> that are not called
    NoConnection, NoTx

ASSUME StatementsAssumption == Statements \in Nat \ {0}

Effects(S) == S \X (1..Statements)
Database == [rows: SUBSET Migrations, schema: SUBSET Effects(Migrations)]

ASSUME ConnectionsAssumption == NoConnection \notin Connections /\ NoTx \notin Database
\* Nothing is recorded; the tables of the baseline may be there, with which every
\* history begins.
ASSUME InitialAssumption ==
    \A d \in Initial : \E S \in SUBSET Migrations :
        /\ d = [rows |-> {}, schema |-> Effects(S)]
        /\ \A b \in S, list \in Artifacts \ {{}} : b \in list /\ \A m \in list : b.id <= m.id

VARIABLES
    backend,        \* the backend of the source
    db,             \* committed: the ledger rows, and <<m, i>> for statement i of migration m
    tx,             \* connection -> what its open transaction sees, or NoTx
    held,           \* process -> the connection it works on
    step            \* process -> statements of the migration done

vars == <<backend, pc, job, db, tx, held, step>>

PCs == {"idle", "drift", "inspect", "prepare", "prepare_read", "run", "check", "exec", "commit"}

TypeOK ==
    /\ backend \in Backends
    /\ pc \in [Processes -> PCs]
    /\ job \in [Processes -> Job]
    /\ db \in Database
    /\ tx \in [Connections -> Database \cup {NoTx}]
    /\ held \in [Processes -> Connections \cup {NoConnection}]
    /\ step \in [Processes -> 0..Statements]

-----------------------------------------------------------------------------
Free(c) == \A p \in Processes : held[p] # c
NobodyWrites == \A c \in Connections : tx[c] = NoTx
\* What a plain query on a connection sees.
Seen(c) == IF tx[c] = NoTx THEN db ELSE tx[c]
Mine(p) == tx[held[p]]

\* COMMIT; the connection goes back to the pool.
CommitTx(p) ==
    /\ db' = Mine(p)
    /\ tx' = [tx EXCEPT ![held[p]] = NoTx]
    /\ held' = [held EXCEPT ![p] = NoConnection]
\* Mutant: after an error the transaction is committed all the same.
CommitAnyway(p) ==
    /\ db' = Mine(p)
    /\ tx' = [tx EXCEPT ![held[p]] = NoTx]
    /\ held' = [held EXCEPT ![p] = NoConnection]

\* ROLLBACK after an error.
RollbackTx(p) ==
    /\ tx' = [tx EXCEPT ![held[p]] = NoTx]
    /\ held' = [held EXCEPT ![p] = NoConnection]
    /\ UNCHANGED db

-----------------------------------------------------------------------------
Call(p) ==
    /\ \E op \in Operations, list \in Artifacts : <<backend, op>> \notin Excluded /\ Start(p, op, list)
    /\ UNCHANGED <<backend, db, tx, held, step>>

\* Adoption: the live schema is that of the first snapshot.
CheckDrift(p) ==
    /\ pc[p] = "drift"
    /\ \E c \in Connections :
          /\ Free(c)
          /\ IF Seen(c).schema = Effects({First(job[p].list)}) THEN Goto(p, "inspect") ELSE Stop(p)
    /\ UNCHANGED <<backend, db, tx, held, step>>

Inspect(p) ==
    /\ pc[p] = "inspect"
    /\ \E c \in Connections : Free(c) /\ Inspected(p, Seen(c).rows)
    /\ UNCHANGED <<backend, db, tx, held, step>>

\* Mutants: a transaction that takes no lock; one that goes on inside an open one.
BeginDeferred(p) ==
    /\ pc[p] \in {"prepare", "run"}
    /\ \E c \in Connections :
          /\ Free(c) /\ tx[c] = NoTx
          /\ tx' = [tx EXCEPT ![c] = db]
          /\ held' = [held EXCEPT ![p] = c]
    /\ Goto(p, IF pc[p] = "prepare" THEN "prepare_read" ELSE "check")
    /\ step' = [step EXCEPT ![p] = 0]
    /\ UNCHANGED <<backend, db>>
BeginNested(p) ==
    /\ pc[p] \in {"prepare", "run"}
    /\ \E c \in Connections :
          /\ Free(c) /\ \A d \in Connections \ {c} : tx[d] = NoTx
          /\ tx' = [tx EXCEPT ![c] = Seen(c)]
          /\ held' = [held EXCEPT ![p] = c]
    /\ Goto(p, IF pc[p] = "prepare" THEN "prepare_read" ELSE "check")
    /\ step' = [step EXCEPT ![p] = 0]
    /\ UNCHANGED <<backend, db>>

\* prepare_ledger, apply_migration and rollback_migration open their transaction.
\* It is refused inside an open one, and when the lock is not free in time.
Begin(p) ==
    /\ pc[p] \in {"prepare", "run"}
    /\ \E c \in Connections :
          /\ Free(c)
          /\ \/ NobodyWrites
                /\ tx' = [tx EXCEPT ![c] = db]
                /\ held' = [held EXCEPT ![p] = c]
                /\ Goto(p, IF pc[p] = "prepare" THEN "prepare_read" ELSE "check")
             \/ ~NobodyWrites
                /\ Stop(p) /\ UNCHANGED <<tx, held>>
    /\ step' = [step EXCEPT ![p] = 0]
    /\ UNCHANGED <<backend, db>>

PrepareLedger(p) ==
    /\ pc[p] = "prepare_read"
    /\ Prepared(p, Mine(p).rows)
    /\ CommitTx(p)
    /\ UNCHANGED <<backend, step>>

\* Mutant: the row is not looked up again.
CheckNothing(p) ==
    /\ pc[p] = "check"
    /\ Goto(p, "exec")
    /\ UNCHANGED <<backend, db, tx, held, step>>

\* The row is looked up again under the lock: a migration that is there is
\* skipped, one of another name is refused, and only the newest is rolled back.
Check(p) ==
    LET m == Current(p)
        recorded == {r \in Mine(p).rows : r.id = m.id}
        rollback == job[p].op = "rollback"
        skips == ~rollback /\ recorded = {m}
        runs == IF rollback THEN IsNewest(m, Mine(p).rows) ELSE recorded = {}
    IN
    /\ pc[p] = "check"
    /\ \/ skips /\ Advance(p) /\ CommitTx(p)
       \/ runs /\ Goto(p, "exec") /\ UNCHANGED <<db, tx, held>>
       \/ ~skips /\ ~runs /\ Stop(p) /\ RollbackTx(p)
    /\ UNCHANGED <<backend, step>>

\* Mutant: one statement too many.
ExecuteOneMore(p) ==
    /\ pc[p] = "exec" /\ Executes(p) /\ step[p] <= Statements
    /\ step' = [step EXCEPT ![p] = @ + 1]
    /\ UNCHANGED <<backend, pc, job, db, tx, held>>

\* One statement; it fails when its effect is there already, or not there to undo.
Execute(p) ==
    LET e == <<Current(p), step[p] + 1>>
        undo == job[p].op = "rollback"
        schema == IF undo THEN Mine(p).schema \ {e} ELSE Mine(p).schema \cup {e}
    IN
    /\ pc[p] = "exec" /\ Executes(p) /\ step[p] < Statements
    /\ (e \in Mine(p).schema) = undo
    /\ tx' = [tx EXCEPT ![held[p]].schema = schema]
    /\ step' = [step EXCEPT ![p] = @ + 1]
    /\ UNCHANGED <<backend, pc, job, db, held>>

\* The row of the migration is inserted or deleted.
WriteRow(p) ==
    LET m == Current(p)
        rows == IF job[p].op = "rollback" THEN Mine(p).rows \ {m} ELSE Mine(p).rows \cup {m}
    IN
    /\ pc[p] = "exec" /\ (Executes(p) => step[p] = Statements)
    /\ tx' = [tx EXCEPT ![held[p]].rows = rows]
    /\ Goto(p, "commit")
    /\ UNCHANGED <<backend, db, held, step>>

Commit(p) ==
    /\ pc[p] = "commit"
    /\ CommitTx(p) /\ Advance(p)
    /\ UNCHANGED <<backend, step>>

\* An error in the transaction: it is rolled back and the call ends.
Fail(p) ==
    /\ pc[p] \in {"prepare_read", "check", "exec"}
    /\ RollbackTx(p) /\ Stop(p)
    /\ UNCHANGED <<backend, step>>

\* The call is dropped at an await, or COMMIT or ROLLBACK itself fails.
Cancel(p) ==
    /\ pc[p] # "idle"
    /\ Stop(p)
    /\ held' = [held EXCEPT ![p] = NoConnection]
    /\ tx' = IF backend = "sqlite" THEN tx ELSE [c \in Connections |-> IF c = held[p] THEN NoTx ELSE tx[c]]
    /\ UNCHANGED <<backend, db, step>>

\* The pool or the process closes a connection; the database ends its transaction.
Disconnect(c) ==
    /\ tx[c] # NoTx /\ Free(c)
    /\ tx' = [tx EXCEPT ![c] = NoTx]
    /\ UNCHANGED <<backend, pc, job, db, held, step>>

Init ==
    /\ backend \in Backends
    /\ pc = [p \in Processes |-> "idle"]
    /\ job = [p \in Processes |-> NoJob]
    /\ db \in Initial
    /\ tx = [c \in Connections |-> NoTx]
    /\ held = [p \in Processes |-> NoConnection]
    /\ step = [p \in Processes |-> 0]

Next ==
    \/ \E p \in Processes :
          \/ Call(p) \/ CheckDrift(p) \/ Inspect(p) \/ Begin(p) \/ PrepareLedger(p)
          \/ Check(p) \/ Execute(p) \/ WriteRow(p) \/ Commit(p) \/ Fail(p) \/ Cancel(p)
    \/ \E c \in Connections : Disconnect(c)

Spec == Init /\ [][Next]_vars

-----------------------------------------------------------------------------
(* Properties *)

\* The committed schema holds the statements of exactly the migrations the
\* ledger lists, next to the baseline of a database nobody has adopted yet: a
\* migration and its row are committed or given up together, whoever else runs,
\* fails or is dropped (apply_migration, rollback_migration, finish_transaction).
SchemaMatchesLedger ==
    \/ db.schema = Effects(db.rows)
    \/ db.rows = {} /\ db \in Initial

\* Two processes never hold a transaction at once, and one that runs a migration
\* has its own: the writer lock the read of the row relies on (begin_immediate,
\* lock_source).
InTransaction == {"prepare_read", "check", "exec", "commit"}
OneWriter ==
    /\ \A p \in Processes : pc[p] \in InTransaction => held[p] \in Connections /\ Mine(p) # NoTx
    /\ \A c, d \in Connections : tx[c] # NoTx /\ tx[d] # NoTx => c = d

\* The ledger is that of the abstract specification: it holds an initial segment
\* of a released artifact set and moves by one migration at a time.
Ledger == INSTANCE MigrationLedger WITH rows <- db.rows, inDoubt <- FALSE
LedgerSpec == Ledger!Spec

\* A call that has reached its transaction works on what is committed: no step
\* reads or commits what a dropped call left open (begin_immediate).
NothingAbandonedIsCommitted ==
    \A p \in Processes : pc[p] \in {"prepare_read", "check"} => Mine(p) = db
=============================================================================
