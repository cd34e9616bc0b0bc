--------------------------- MODULE TxBackendProofs ---------------------------
(***************************************************************************)
(* Proofs about the transactional backends, for any number of processes,   *)
(* connections, migrations and statements: their states are well typed,    *)
(* never two of them write, and, as long as nobody rolls back or adopts    *)
(* next to them, they implement MigrationLedger and the schema is what the *)
(* committed rows say.                                                     *)
(***************************************************************************)
EXTENDS TxBackend, MigratorProofs

-----------------------------------------------------------------------------
(* The inductive invariant *)

Selecting == {"run", "check", "exec", "commit"}
Validating == {"prepare", "prepare_read"}

\* What the manager has established of each call by the time it gets there.
JobInv ==
    /\ pc \in [Processes -> PCs]
    /\ job \in [Processes -> Job]
    /\ \A p \in Processes : pc[p] \in Selecting => Selected(p)
    /\ \A p \in Processes : pc[p] \in Validating => Validated(p)

DataTypes ==
    /\ backend \in Backends
    /\ db \in Database
    /\ tx \in [Connections -> Database \cup {NoTx}]
    /\ held \in [Processes -> Connections \cup {NoConnection}]
    /\ step \in [Processes -> 0..Statements]
HeldInTransaction == \A p \in Processes : held[p] # NoConnection <=> pc[p] \in InTransaction
HeldByOne == \A p, q \in Processes : held[p] # NoConnection /\ held[p] = held[q] => p = q
HeldIsOpen == \A p \in Processes : pc[p] \in InTransaction => tx[held[p]] # NoTx
OneOpen == \A c, d \in Connections : tx[c] # NoTx /\ tx[d] # NoTx => c = d

\* A connection that is held is held by one process and has the open transaction.
TxInv == DataTypes /\ HeldInTransaction /\ HeldByOne /\ HeldIsOpen /\ OneOpen

IInv == JobInv /\ TxInv

LEMMA IInvImplies == IInv => TypeOK /\ OneWriter
  BY DEF IInv, JobInv, TxInv, DataTypes, HeldInTransaction, HeldIsOpen, OneOpen, TypeOK, OneWriter, Mine

-----------------------------------------------------------------------------
(* The manager's part of a step *)

LEMMA MovedJobInv ==
  ASSUME JobInv, NEW p \in Processes, NEW at \in PCs, NEW j \in Job, Moved(p, at, j),
         at \in Selecting => Runs(j), at \in Validating => j.inspected \subseteq j.list
  PROVE  JobInv'
  <1>1. Runs(j) => j.todo \in SUBSET Migrations /\ IsFiniteSet(j.todo) /\ j.todo # {}
    BY DEF Runs, Job
  <1> QED BY <1>1 DEF JobInv, Moved, Selected, Validated

LEMMA StopJobInv ==
  ASSUME JobInv, NEW p \in Processes, Stop(p)
  PROVE  JobInv' /\ pc'[p] = "idle" /\ \A q \in Processes \ {p} : pc'[q] = pc[q]
  <1>1. Moved(p, "idle", NoJob)
    BY StopMoves
  <1>2. JobInv'
    BY <1>1, NoJobType, MovedJobInv DEF PCs, Selecting, Validating
  <1> QED BY <1>1, <1>2 DEF Moved, JobInv

LEMMA GotoJobInv ==
  ASSUME JobInv, NEW p \in Processes, NEW at \in PCs, Goto(p, at),
         at \in Selecting => pc[p] \in Selecting, at \in Validating => pc[p] \in Validating
  PROVE  JobInv' /\ pc'[p] = at /\ \A q \in Processes \ {p} : pc'[q] = pc[q]
  BY DEF JobInv, Goto, Selected, Validated

\* Out of the backend: the call is over, or a migration that was selected is next.
LEMMA LeavesJobInv ==
  ASSUME JobInv, NEW p \in Processes,
         \/ Advance(p) /\ pc[p] \in Selecting
         \/ \E r \in SUBSET Migrations : Prepared(p, r) /\ pc[p] \in Validating
  PROVE  JobInv' /\ pc'[p] \in {"idle", "run"} /\ \A q \in Processes \ {p} : pc'[q] = pc[q]
  <1>1. job[p] \in Job
    BY DEF JobInv
  <1>2. Moved(p, "idle", NoJob) \/ \E j \in Job : Moved(p, "run", j) /\ Runs(j)
    <2>1. CASE Advance(p) /\ pc[p] \in Selecting
      BY <1>1, <2>1, AdvanceMoves DEF JobInv
    <2>2. CASE \E r \in SUBSET Migrations : Prepared(p, r) /\ pc[p] \in Validating
      BY <1>1, <2>2, PreparedMoves DEF JobInv
    <2> QED BY <2>1, <2>2
  <1>3. CASE Moved(p, "idle", NoJob)
    BY <1>3, NoJobType, MovedJobInv DEF PCs, Selecting, Validating, Moved, JobInv
  <1>4. CASE \E j \in Job : Moved(p, "run", j) /\ Runs(j)
    BY <1>4, MovedJobInv DEF PCs, Selecting, Validating, Moved, JobInv
  <1> QED BY <1>2, <1>3, <1>4

-----------------------------------------------------------------------------
(* The transaction's part of a step *)

OthersWait(p) == \A q \in Processes \ {p} : pc'[q] = pc[q]

\* No transaction before or after: nothing of the database changes.
LEMMA OutsideTxInv ==
  ASSUME TxInv, NEW p \in Processes, pc[p] \notin InTransaction, pc'[p] \notin InTransaction, OthersWait(p),
         UNCHANGED <<backend, db, tx, held>>, step' \in [Processes -> 0..Statements]
  PROVE  TxInv'
  BY DEF TxInv, DataTypes, HeldInTransaction, HeldByOne, HeldIsOpen, OneOpen, OthersWait

\* COMMIT or ROLLBACK: the one open transaction ends.
LEMMA EndTxInv ==
  ASSUME TxInv, NEW p \in Processes, pc[p] \in InTransaction, pc'[p] \notin InTransaction, OthersWait(p),
         CommitTx(p) \/ RollbackTx(p), UNCHANGED <<backend, step>>
  PROVE  TxInv'
  <1> USE DEF TxInv, OthersWait
  <1>1. held[p] \in Connections /\ tx[held[p]] \in Database
    BY DEF DataTypes, HeldInTransaction, HeldIsOpen
  <1>2. /\ tx' = [tx EXCEPT ![held[p]] = NoTx]
        /\ held' = [held EXCEPT ![p] = NoConnection]
        /\ db' \in Database
    BY <1>1 DEF CommitTx, RollbackTx, Mine, DataTypes
  <1>3. DataTypes'
    BY <1>2 DEF DataTypes
  <1>4. HeldInTransaction' /\ HeldByOne'
    BY <1>2 DEF DataTypes, HeldInTransaction, HeldByOne
  <1>5. HeldIsOpen'
    BY <1>1, <1>2 DEF DataTypes, HeldInTransaction, HeldByOne, HeldIsOpen
  <1>6. OneOpen'
    BY <1>2 DEF DataTypes, OneOpen
  <1> QED BY <1>3, <1>4, <1>5, <1>6

\* A statement inside the transaction.
LEMMA InsideTxInv ==
  ASSUME TxInv, NEW p \in Processes, pc[p] \in InTransaction, pc'[p] \in InTransaction, OthersWait(p),
         NEW d \in Database, tx' = [tx EXCEPT ![held[p]] = d],
         UNCHANGED <<backend, db, held>>, step' \in [Processes -> 0..Statements]
  PROVE  TxInv'
  <1> USE DEF TxInv, OthersWait
  <1>1. held[p] \in Connections /\ tx[held[p]] # NoTx /\ d # NoTx
    BY ConnectionsAssumption DEF DataTypes, HeldInTransaction, HeldIsOpen
  <1>2. DataTypes'
    BY DEF DataTypes
  <1>3. HeldInTransaction' /\ HeldByOne'
    BY DEF HeldInTransaction, HeldByOne
  <1>4. HeldIsOpen'
    BY <1>1 DEF DataTypes, HeldIsOpen, HeldInTransaction
  <1>5. OneOpen'
    BY <1>1 DEF DataTypes, OneOpen
  <1> QED BY <1>2, <1>3, <1>4, <1>5

\* A transaction begins where none is open.
LEMMA BeginTxInv ==
  ASSUME TxInv, NEW p \in Processes, pc[p] \notin InTransaction, pc'[p] \in InTransaction, OthersWait(p),
         NEW c \in Connections, Free(c), NobodyWrites,
         tx' = [tx EXCEPT ![c] = db], held' = [held EXCEPT ![p] = c],
         UNCHANGED <<backend, db>>, step' \in [Processes -> 0..Statements]
  PROVE  TxInv'
  <1> USE ConnectionsAssumption DEF TxInv, OthersWait, Free, NobodyWrites
  <1>1. \A q \in Processes : pc[q] \notin InTransaction
    BY DEF DataTypes, HeldInTransaction, HeldIsOpen
  <1>2. DataTypes'
    BY DEF DataTypes
  <1>3. HeldInTransaction' /\ HeldByOne'
    BY DEF DataTypes, HeldInTransaction, HeldByOne
  <1>4. HeldIsOpen'
    BY <1>1 DEF DataTypes, HeldIsOpen
  <1>5. OneOpen'
    BY DEF DataTypes, OneOpen
  <1> QED BY <1>2, <1>3, <1>4, <1>5

-----------------------------------------------------------------------------
(* One step per action *)

\* What the ledger of a database holds are migrations.
LEMMA RowsAreMigrations ==
  ASSUME TxInv
  PROVE  /\ \A c \in Connections : Seen(c).rows \in SUBSET Migrations
         /\ \A p \in Processes : pc[p] \in InTransaction => Mine(p) \in Database
  BY DEF TxInv, DataTypes, HeldInTransaction, HeldIsOpen, Seen, Mine, Database

LEMMA OutsideStepInv ==
  ASSUME IInv, NEW p \in Processes, Call(p) \/ CheckDrift(p) \/ Inspect(p)
  PROVE  IInv'
  <1> USE DEF IInv, InTransaction, OthersWait
  <1>1. CASE Call(p)
    <2>1. PICK at \in {"drift", "inspect"}, j \in Job : Moved(p, at, j)
      BY <1>1, StartMoves DEF Call
    <2>2. JobInv'
      BY <2>1, MovedJobInv DEF PCs, Selecting, Validating
    <2>3. pc[p] = "idle" /\ pc'[p] = at /\ OthersWait(p)
      BY <1>1, <2>1 DEF Call, Start, Moved, JobInv
    <2>4. TxInv'
      BY <1>1, <2>1, <2>3, OutsideTxInv DEF Call, TxInv, DataTypes
    <2> QED BY <2>2, <2>4
  <1>2. CASE CheckDrift(p)
    <2>1. pc[p] = "drift" /\ (Goto(p, "inspect") \/ Stop(p))
      BY <1>2 DEF CheckDrift
    <2>2. JobInv' /\ pc'[p] \in {"inspect", "idle"} /\ OthersWait(p)
      BY <2>1, GotoJobInv, StopJobInv DEF PCs, Selecting, Validating
    <2>3. TxInv'
      BY <1>2, <2>1, <2>2, OutsideTxInv DEF CheckDrift, TxInv, DataTypes
    <2> QED BY <2>2, <2>3
  <1>3. CASE Inspect(p)
    <2>1. PICK c \in Connections : Inspected(p, Seen(c).rows)
      BY <1>3 DEF Inspect
    <2>2. job[p] \in Job /\ Seen(c).rows \in SUBSET Migrations
      BY RowsAreMigrations DEF JobInv
    <2>3. \/ Moved(p, "idle", NoJob)
          \/ \E j \in Job : Moved(p, "prepare", j) /\ j.inspected \subseteq j.list
      BY <2>1, <2>2, InspectedMoves
    <2>4. JobInv'
      BY <2>3, MovedJobInv, NoJobType DEF PCs, Selecting, Validating
    <2>5. pc[p] = "inspect" /\ pc'[p] \in {"idle", "prepare"} /\ OthersWait(p)
      BY <1>3, <2>3 DEF Inspect, Moved, JobInv
    <2>6. TxInv'
      BY <1>3, <2>5, OutsideTxInv DEF Inspect, TxInv, DataTypes
    <2> QED BY <2>4, <2>6
  <1> QED BY <1>1, <1>2, <1>3

\* begin_immediate, lock_source: the transaction begins, or the call ends.
LEMMA BeginStepInv ==
  ASSUME IInv, NEW p \in Processes, Begin(p)
  PROVE  IInv'
  <1> USE DEF IInv, InTransaction, OthersWait
  <1> DEFINE at == IF pc[p] = "prepare" THEN "prepare_read" ELSE "check"
  <1>1. pc[p] \in {"prepare", "run"} /\ UNCHANGED <<backend, db>> /\ step' \in [Processes -> 0..Statements]
    BY StatementsAssumption DEF Begin, TxInv, DataTypes
  <1>2. PICK c \in Connections :
           /\ Free(c)
           /\ \/ NobodyWrites
                 /\ tx' = [tx EXCEPT ![c] = db]
                 /\ held' = [held EXCEPT ![p] = c]
                 /\ Goto(p, at)
              \/ Stop(p) /\ UNCHANGED <<tx, held>>
    BY DEF Begin
  <1>3. CASE Goto(p, at) /\ NobodyWrites /\ tx' = [tx EXCEPT ![c] = db] /\ held' = [held EXCEPT ![p] = c]
    <2>1. /\ at \in PCs /\ at \in InTransaction
          /\ at \in Selecting => pc[p] \in Selecting
          /\ at \in Validating => pc[p] \in Validating
      BY <1>1 DEF PCs, Selecting, Validating
    <2>2. JobInv' /\ pc'[p] = at /\ OthersWait(p)
      BY <1>3, <2>1, GotoJobInv
    <2>3. TxInv'
      BY <1>1, <1>2, <1>3, <2>1, <2>2, BeginTxInv
    <2> QED BY <2>2, <2>3
  <1>4. CASE Stop(p) /\ UNCHANGED <<tx, held>>
    BY <1>1, <1>4, StopJobInv, OutsideTxInv
  <1> QED BY <1>2, <1>3, <1>4

\* The steps that may end the transaction: with COMMIT and the next migration, or
\* with ROLLBACK and the end of the call.
LEMMA EndStepInv ==
  ASSUME IInv, NEW p \in Processes, PrepareLedger(p) \/ Check(p) \/ Commit(p) \/ Fail(p)
  PROVE  IInv'
  <1> USE DEF IInv, InTransaction, OthersWait
  <1>1. CASE PrepareLedger(p)
    <2>1. pc[p] = "prepare_read" /\ Prepared(p, Mine(p).rows) /\ Mine(p).rows \in SUBSET Migrations
      BY <1>1, RowsAreMigrations DEF PrepareLedger, Database
    <2>2. JobInv' /\ pc'[p] \in {"idle", "run"} /\ OthersWait(p)
      BY <2>1, LeavesJobInv DEF Validating
    <2>3. TxInv'
      BY <1>1, <2>1, <2>2, EndTxInv DEF PrepareLedger
    <2> QED BY <2>2, <2>3
  <1>2. CASE Check(p)
    <2>1. pc[p] = "check" /\ UNCHANGED <<backend, step>>
      BY <1>2 DEF Check
    <2>2. CASE Advance(p) /\ CommitTx(p)
      BY <2>1, <2>2, LeavesJobInv, EndTxInv DEF Selecting
    <2>3. CASE Goto(p, "exec") /\ UNCHANGED <<db, tx, held>>
      <3>1. JobInv' /\ pc'[p] = "exec" /\ OthersWait(p)
        BY <2>1, <2>3, GotoJobInv DEF PCs, Selecting, Validating
      <3>2. TxInv'
        BY <2>1, <2>3, <3>1 DEF TxInv, DataTypes, HeldInTransaction, HeldByOne, HeldIsOpen, OneOpen
      <3> QED BY <3>1, <3>2
    <2>4. CASE Stop(p) /\ RollbackTx(p)
      BY <2>1, <2>4, StopJobInv, EndTxInv
    <2> QED BY <1>2, <2>2, <2>3, <2>4 DEF Check
  <1>3. CASE Commit(p)
    <2>1. pc[p] = "commit" /\ CommitTx(p) /\ Advance(p) /\ UNCHANGED <<backend, step>>
      BY <1>3 DEF Commit
    <2> QED BY <2>1, LeavesJobInv, EndTxInv DEF Selecting
  <1>4. CASE Fail(p)
    <2>1. pc[p] \in InTransaction /\ RollbackTx(p) /\ Stop(p) /\ UNCHANGED <<backend, step>>
      BY <1>4 DEF Fail
    <2> QED BY <2>1, StopJobInv, EndTxInv
  <1> QED BY <1>1, <1>2, <1>3, <1>4

\* The statements of a migration and its row are those of a migration that exists.
LEMMA InsideStepInv ==
  ASSUME IInv, NEW p \in Processes, Execute(p) \/ WriteRow(p)
  PROVE  IInv'
  <1> USE DEF IInv, InTransaction, OthersWait
  <1>1. pc[p] = "exec"
    BY DEF Execute, WriteRow
  <1>2. Current(p) \in Migrations
    BY <1>1, CurrentIsSelected DEF JobInv, Selecting, Selected
  <1>3. Mine(p) \in Database
    BY <1>1, RowsAreMigrations
  <1>4. held[p] \in Connections
    BY <1>1 DEF TxInv, DataTypes, HeldInTransaction
  <1>5. CASE Execute(p)
    <2> DEFINE e == <<Current(p), step[p] + 1>>
               S == IF job[p].op = "rollback" THEN Mine(p).schema \ {e} ELSE Mine(p).schema \cup {e}
               d == [Mine(p) EXCEPT !.schema = S]
    <2>1. step[p] \in 0..Statements /\ step[p] < Statements
      BY <1>5 DEF Execute, TxInv, DataTypes
    <2>2. e \in Effects(Migrations)
      BY <1>2, <2>1, StatementsAssumption DEF Effects
    <2>3. d \in Database
      BY <1>3, <2>2 DEF Database
    <2>4. tx' = [tx EXCEPT ![held[p]] = d]
      BY <1>5 DEF Execute, Mine
    <2>5. step' \in [Processes -> 0..Statements]
      BY <1>5, <2>1, StatementsAssumption DEF Execute, TxInv, DataTypes
    <2>6. pc' = pc /\ job' = job /\ UNCHANGED <<backend, db, held>>
      BY <1>5 DEF Execute
    <2>7. JobInv'
      BY <2>6 DEF JobInv, Selected, Validated
    <2>8. TxInv'
      BY <1>1, <2>3, <2>4, <2>5, <2>6, InsideTxInv
    <2> QED BY <2>7, <2>8
  <1>6. CASE WriteRow(p)
    <2> DEFINE R == IF job[p].op = "rollback" THEN Mine(p).rows \ {Current(p)} ELSE Mine(p).rows \cup {Current(p)}
               d == [Mine(p) EXCEPT !.rows = R]
    <2>1. d \in Database
      BY <1>2, <1>3 DEF Database
    <2>2. tx' = [tx EXCEPT ![held[p]] = d]
      BY <1>6 DEF WriteRow, Mine
    <2>3. UNCHANGED <<backend, db, held>> /\ step' \in [Processes -> 0..Statements]
      BY <1>6 DEF WriteRow, TxInv, DataTypes
    <2>4. JobInv' /\ pc'[p] = "commit" /\ OthersWait(p)
      BY <1>1, <1>6, GotoJobInv DEF WriteRow, PCs, Selecting, Validating
    <2>5. TxInv'
      BY <1>1, <2>1, <2>2, <2>3, <2>4, InsideTxInv
    <2> QED BY <2>4, <2>5
  <1> QED BY <1>5, <1>6

\* A dropped call may leave its transaction open, on a connection nobody holds: it
\* still is the only one.
LEMMA CancelStepInv ==
  ASSUME IInv, NEW p \in Processes, Cancel(p)
  PROVE  IInv'
  <1> USE DEF IInv, InTransaction
  <1>1. JobInv' /\ pc'[p] = "idle" /\ OthersWait(p)
    BY StopJobInv DEF Cancel, OthersWait
  <1>2. /\ held' = [held EXCEPT ![p] = NoConnection]
        /\ \A c \in Connections : c # held[p] => tx'[c] = tx[c]
        /\ \A c \in Connections : tx'[c] # NoTx => tx'[c] = tx[c]
        /\ tx' \in [Connections -> Database \cup {NoTx}]
        /\ UNCHANGED <<backend, db, step>>
    BY DEF Cancel, TxInv, DataTypes
  <1> USE <1>1, <1>2 DEF TxInv, OthersWait
  <1>3. DataTypes'
    BY DEF DataTypes
  <1>4. HeldInTransaction' /\ HeldByOne'
    BY DEF DataTypes, HeldInTransaction, HeldByOne
  <1>5. HeldIsOpen'
    BY DEF DataTypes, HeldInTransaction, HeldByOne, HeldIsOpen
  <1>6. OneOpen'
    BY DEF OneOpen
  <1> QED BY <1>1, <1>3, <1>4, <1>5, <1>6

LEMMA DisconnectStepInv ==
  ASSUME IInv, NEW c \in Connections, Disconnect(c)
  PROVE  IInv'
  <1>1. JobInv'
    BY DEF IInv, Disconnect, JobInv, Selected, Validated
  <1>2. TxInv'
    BY DEF IInv, Disconnect, Free, TxInv, DataTypes, HeldInTransaction, HeldByOne, HeldIsOpen, OneOpen
  <1> QED BY <1>1, <1>2 DEF IInv

-----------------------------------------------------------------------------
LEMMA IInvInit == Init => IInv
  <1> SUFFICES ASSUME Init PROVE IInv
    OBVIOUS
  <1> USE DEF Init
  <1>1. JobInv
    BY NoJobType DEF JobInv, PCs, Selecting, Validating
  <1>2. db \in Database
    BY InitialAssumption DEF Database, Effects
  <1>3. TxInv
    BY <1>2, StatementsAssumption
    DEF TxInv, DataTypes, HeldInTransaction, HeldByOne, HeldIsOpen, OneOpen, InTransaction
  <1> QED BY <1>1, <1>3 DEF IInv

LEMMA IInvStep ==
  ASSUME IInv, [Next]_vars
  PROVE  IInv'
  <1>1. CASE UNCHANGED vars
    BY <1>1 DEF vars, IInv, JobInv, Selected, Validated, TxInv, DataTypes, HeldInTransaction, HeldByOne,
                HeldIsOpen, OneOpen
  <1> QED BY <1>1, OutsideStepInv, BeginStepInv, EndStepInv, InsideStepInv, CancelStepInv,
             DisconnectStepInv DEF Next

\* Every reachable state is well typed: the backends only ever run and record
\* migrations of the artifact sets (migration/manager.rs, sqlite.rs, postgresql.rs).
THEOREM TypeCorrect == Spec => []TypeOK
  BY IInvInit, IInvStep, IInvImplies, PTL DEF Spec

\* A process that runs a migration has a transaction of its own, and it is the only
\* one that is open, whatever dropped calls left behind (begin_immediate, lock_source).
THEOREM WritersAreSerialised == Spec => []OneWriter
  BY IInvInit, IInvStep, IInvImplies, PTL DEF Spec

-----------------------------------------------------------------------------
(* What a transaction sees *)

\* Only the process with the open transaction commits, so nobody's view of the
\* committed state goes stale while it checks.
LEMMA NobodyElseIsOpen ==
  ASSUME IInv, NEW p \in Processes, NEW q \in Processes,
         pc[p] \in InTransaction, pc[q] \in InTransaction
  PROVE  p = q
  <1>1. held[p] \in Connections /\ held[q] \in Connections /\ Mine(p) # NoTx /\ Mine(q) # NoTx
    BY DEF IInv, TxInv, DataTypes, HeldInTransaction, HeldIsOpen, Mine
  <1> QED BY <1>1 DEF IInv, TxInv, OneOpen, HeldByOne, HeldInTransaction, Mine

LEMMA NothingAbandonedStep ==
  ASSUME IInv, NothingAbandonedIsCommitted, [Next]_vars
  PROVE  NothingAbandonedIsCommitted'
  <1> SUFFICES ASSUME NEW q \in Processes, pc'[q] \in {"prepare_read", "check"}
               PROVE  tx'[held'[q]] = db'
    BY DEF NothingAbandonedIsCommitted, Mine
  <1> USE DEF InTransaction
  <1>1. pc[q] \in {"prepare_read", "check"} => held[q] \in Connections /\ tx[held[q]] = db
    BY DEF IInv, TxInv, DataTypes, HeldInTransaction, NothingAbandonedIsCommitted, Mine
  <1>2. \A p \in Processes \ {q} :
           pc[q] \in {"prepare_read", "check"} => pc[p] \notin InTransaction /\ held[p] # held[q]
    BY NobodyElseIsOpen DEF IInv, TxInv, HeldInTransaction, HeldByOne
  <1>3. ASSUME NEW p \in Processes, Call(p) \/ CheckDrift(p) \/ Inspect(p)
        PROVE  tx'[held'[q]] = db'
    <2>1. UNCHANGED <<db, tx, held>> /\ pc[p] \in {"idle", "drift", "inspect"}
      BY <1>3 DEF Call, Start, CheckDrift, Inspect
    <2>2. \E at \in {"idle", "drift", "inspect", "prepare"} : pc' = [pc EXCEPT ![p] = at]
      BY <1>3 DEF Call, Start, CheckDrift, Inspect, Inspected, Goto, Stop, Enter
    <2> QED BY <1>1, <2>1, <2>2 DEF IInv, JobInv
  <1>4. ASSUME NEW p \in Processes, Begin(p)
        PROVE  tx'[held'[q]] = db'
    <2>1. PICK c \in Connections :
             \/ NobodyWrites /\ tx' = [tx EXCEPT ![c] = db] /\ held' = [held EXCEPT ![p] = c]
             \/ pc' = [pc EXCEPT ![p] = "idle"] /\ UNCHANGED <<tx, held>>
      BY <1>4 DEF Begin, Stop, Enter
    <2>2. db' = db /\ \A r \in Processes \ {p} : pc'[r] = pc[r]
      BY <1>4 DEF Begin, Goto, Stop, Enter, IInv, JobInv
    <2>3. CASE pc' = [pc EXCEPT ![p] = "idle"] /\ UNCHANGED <<tx, held>>
      BY <1>1, <2>2, <2>3 DEF IInv, JobInv
    <2>4. CASE NobodyWrites /\ tx' = [tx EXCEPT ![c] = db] /\ held' = [held EXCEPT ![p] = c]
      <3>1. pc[q] \notin {"prepare_read", "check"}
        BY <2>4 DEF IInv, TxInv, DataTypes, HeldInTransaction, HeldIsOpen, NobodyWrites
      <3>2. q = p
        BY <2>2, <3>1
      <3> QED BY <2>2, <2>4, <3>2 DEF IInv, TxInv, DataTypes
    <2> QED BY <2>1, <2>3, <2>4
  <1>5. ASSUME NEW p \in Processes,
               PrepareLedger(p) \/ Check(p) \/ Commit(p) \/ Fail(p) \/ Execute(p) \/ WriteRow(p)
        PROVE  tx'[held'[q]] = db'
    <2>1. pc[p] \in InTransaction /\ \A r \in Processes \ {p} : pc'[r] = pc[r]
      BY <1>5 DEF PrepareLedger, Check, Commit, Fail, Execute, WriteRow, Prepared, Advance, Run, Goto, Stop,
                  Enter, IInv, JobInv
    <2>2. pc'[p] \notin {"prepare_read", "check"}
      BY <1>5 DEF PrepareLedger, Check, Commit, Fail, Execute, WriteRow, Prepared, Advance, Run, Goto, Stop,
                  Enter, IInv, JobInv
    <2> QED BY <1>2, <2>1, <2>2
  <1>6. ASSUME NEW p \in Processes, Cancel(p)
        PROVE  tx'[held'[q]] = db'
    <2>1. /\ pc' = [pc EXCEPT ![p] = "idle"] /\ db' = db
          /\ held' = [held EXCEPT ![p] = NoConnection]
          /\ \A c \in Connections : c # held[p] => tx'[c] = tx[c]
      BY <1>6 DEF Cancel, Stop, Enter, IInv, TxInv, DataTypes
    <2>2. q # p /\ pc[q] \in {"prepare_read", "check"}
      BY <2>1 DEF IInv, JobInv
    <2> QED BY <1>1, <1>2, <2>1, <2>2 DEF IInv, TxInv, DataTypes
  <1>7. ASSUME NEW c \in Connections, Disconnect(c)
        PROVE  tx'[held'[q]] = db'
    BY <1>1, <1>7 DEF Disconnect, Free, IInv, TxInv, DataTypes
  <1>8. CASE UNCHANGED vars
    BY <1>1, <1>8 DEF vars
  <1> QED BY <1>3, <1>4, <1>5, <1>6, <1>7, <1>8 DEF Next

\* Under the lock a process reads what is committed, and nothing that a dropped
\* call left open (begin_immediate).
THEOREM ReadsAreCommitted == Spec => []NothingAbandonedIsCommitted
  <1>1. Init => NothingAbandonedIsCommitted
    BY DEF Init, NothingAbandonedIsCommitted
  <1> QED BY <1>1, IInvInit, IInvStep, NothingAbandonedStep, PTL DEF Spec

-----------------------------------------------------------------------------
(* What a transaction does, seen from the committed state *)

Acts(p) ==
    \/ Call(p) \/ CheckDrift(p) \/ Inspect(p) \/ Begin(p) \/ PrepareLedger(p)
    \/ Check(p) \/ Execute(p) \/ WriteRow(p) \/ Commit(p) \/ Fail(p) \/ Cancel(p)

Undoes(p) == job[p].op = "rollback"
\* The check of the row has come out in favour of running the migration.
Fits(p) == IF Undoes(p) THEN IsNewest(Current(p), db.rows) ELSE \A r \in db.rows : r.id # Current(p).id
\* The statements that have run, and what they make of the committed schema.
Ran(p) == {Current(p)} \X (1..step[p])
Reached(p) ==
    IF ~Executes(p) THEN db.schema
    ELSE IF Undoes(p) THEN db.schema \ Ran(p) ELSE db.schema \cup Ran(p)
Recorded(p) == IF Undoes(p) THEN db.rows \ {Current(p)} ELSE db.rows \cup {Current(p)}

\* The open transaction of p is the committed state and what p has done of its
\* migration, nothing else.
View(p) ==
    /\ pc[p] = "check" => step[p] = 0
    /\ pc[p] \in {"exec", "commit"} =>
          /\ Fits(p) /\ Mine(p).schema = Reached(p)
          /\ Executes(p) /\ ~Undoes(p) => Ran(p) \cap db.schema = {}
    /\ pc[p] = "exec" => Mine(p).rows = db.rows
    /\ pc[p] = "commit" => Mine(p).rows = Recorded(p) /\ (Executes(p) => step[p] = Statements)
Views == \A p \in Processes : View(p)

ViewInv == IInv /\ NothingAbandonedIsCommitted /\ Views

LEMMA SameCall ==
  ASSUME NEW p, job'[p] = job[p]
  PROVE  Current(p)' = Current(p) /\ (Executes(p)' <=> Executes(p)) /\ (Undoes(p)' <=> Undoes(p))
  BY DEF Current, Executes, Undoes

\* It is through with a migration, which it has found in the ledger or has run.
Proceeds(p) == Advances(p) /\ (Commit(p) \/ (~Undoes(p) /\ Current(p) \in db.rows /\ db' = db))

\* What the step does to the call of its process.
LEMMA JobForms ==
  ASSUME IInv, NothingAbandonedIsCommitted, NEW p \in Processes, Acts(p)
  PROVE  /\ Others(p)
         /\ \/ Begins(p) \/ Selects(p, db.rows) \/ (\E seen : Inspects(p, seen))
            \/ Proceeds(p) \/ Ends(p) \/ Keeps(p)
  <1>1. JobTyped(PCs)
    BY DEF IInv, JobInv, JobTyped
  <1>2. \A at : Goto(p, at) /\ pc[p] # "idle" => Keeps(p) /\ Others(p)
    BY <1>1, GotoForm
  <1>3. Stop(p) => Ends(p) /\ Others(p)
    BY <1>1, StopForm
  <1>4. CASE Call(p)
    BY <1>1, <1>4, StartForm DEF Call
  <1>5. CASE CheckDrift(p) \/ Begin(p) \/ WriteRow(p) \/ Fail(p) \/ Cancel(p)
    BY <1>2, <1>3, <1>5 DEF CheckDrift, Begin, WriteRow, Fail, Cancel
  <1>6. CASE Inspect(p)
    <2>1. PICK c \in Connections : Inspected(p, Seen(c).rows)
      BY <1>6 DEF Inspect
    <2>2. (Ends(p) \/ Inspects(p, Seen(c).rows)) /\ Others(p)
      BY <1>1, <1>6, <2>1, InspectedForm DEF Inspect
    <2> QED BY <2>2
  <1>7. CASE PrepareLedger(p)
    <2>1. pc[p] = "prepare_read" /\ Prepared(p, db.rows)
      BY <1>7 DEF PrepareLedger, NothingAbandonedIsCommitted
    <2>2. (Ends(p) \/ Selects(p, db.rows)) /\ Others(p)
      BY <1>1, <2>1, PreparedForm
    <2> QED BY <2>2
  <1>8. CASE Check(p) \/ Commit(p)
    <2>1. pc[p] # "idle"
      BY <1>8 DEF Check, Commit
    <2>2. \/ Advance(p) /\ (Commit(p) \/ (~Undoes(p) /\ Current(p) \in db.rows /\ db' = db))
          \/ Goto(p, "exec") \/ Stop(p)
      <3>1. CASE Commit(p)
        BY <3>1 DEF Commit
      <3>2. CASE Check(p)
        <4>1. Mine(p) = db
          BY <3>2 DEF Check, NothingAbandonedIsCommitted
        <4>2. {r \in Mine(p).rows : r.id = Current(p).id} = {Current(p)} => Current(p) \in db.rows
          BY <4>1
        <4> QED BY <3>2, <4>1, <4>2 DEF Check, CommitTx, Undoes
      <3> QED BY <1>8, <3>1, <3>2
    <2>3. Advance(p) => (Ends(p) \/ Advances(p)) /\ Others(p)
      BY <1>1, <2>1, AdvanceForm
    <2> QED BY <1>2, <1>3, <2>1, <2>2, <2>3 DEF Proceeds
  <1>9. CASE Execute(p)
    BY <1>9 DEF Execute, Keeps, Others
  <1> QED BY <1>4, <1>5, <1>6, <1>7, <1>8, <1>9 DEF Acts

\* Nobody interferes with an open transaction.
LEMMA Undisturbed ==
  ASSUME IInv, NothingAbandonedIsCommitted, NEW p \in Processes, Acts(p),
         NEW q \in Processes \ {p}, pc[q] \in InTransaction
  PROVE  db' = db /\ Mine(q)' = Mine(q) /\ step'[q] = step[q] /\ pc'[q] = pc[q] /\ job'[q] = job[q]
  <1>1. pc'[q] = pc[q] /\ job'[q] = job[q]
    BY JobForms DEF Others
  <1>2. pc[p] \notin InTransaction
    BY NobodyElseIsOpen
  <1>3. held[q] \in Connections /\ tx[held[q]] # NoTx /\ held[p] # held[q]
    BY DEF IInv, TxInv, DataTypes, HeldInTransaction, HeldIsOpen, HeldByOne
  <1>4. ~NobodyWrites
    BY <1>3 DEF NobodyWrites
  <1>5. CASE Call(p) \/ CheckDrift(p) \/ Inspect(p)
    BY <1>1, <1>5 DEF Call, CheckDrift, Inspect, Mine
  <1>6. CASE Begin(p)
    BY <1>1, <1>4, <1>6 DEF Begin, Mine, IInv, TxInv, DataTypes
  <1>7. CASE Cancel(p)
    BY <1>1, <1>3, <1>7 DEF Cancel, Mine, IInv, TxInv, DataTypes
  <1>8. ~(PrepareLedger(p) \/ Check(p) \/ Execute(p) \/ WriteRow(p) \/ Commit(p) \/ Fail(p))
    BY <1>2 DEF InTransaction, PrepareLedger, Check, Execute, WriteRow, Commit, Fail
  <1> QED BY <1>5, <1>6, <1>7, <1>8 DEF Acts

\* Only a migration with its row is ever committed.
LEMMA DatabaseForms ==
  ASSUME IInv, NothingAbandonedIsCommitted, NEW p \in Processes, Acts(p)
  PROVE  db' = db \/ Commit(p)
  <1>1. pc[p] \in {"prepare_read", "check"} => Mine(p) = db
    BY DEF NothingAbandonedIsCommitted
  <1> QED BY <1>1 DEF Acts, Call, CheckDrift, Inspect, Begin, PrepareLedger, Check, Execute, WriteRow, Fail,
                      Cancel, CommitTx, RollbackTx

\* Its view stays the view of a process that waits.
LEMMA WaitingView ==
  ASSUME ViewInv, NEW p \in Processes, Acts(p), NEW q \in Processes \ {p}
  PROVE  View(q)'
  <1>1. CASE pc[q] \in InTransaction
    <2>1. db' = db /\ Mine(q)' = Mine(q) /\ step'[q] = step[q] /\ pc'[q] = pc[q] /\ job'[q] = job[q]
      BY <1>1, Undisturbed DEF ViewInv
    <2>2. /\ Current(q)' = Current(q) /\ (Executes(q)' <=> Executes(q)) /\ (Undoes(q)' <=> Undoes(q))
      BY <2>1, SameCall
    <2>3. /\ (Fits(q)' <=> Fits(q)) /\ Ran(q)' = Ran(q)
          /\ Reached(q)' = Reached(q) /\ Recorded(q)' = Recorded(q)
      BY <2>1, <2>2 DEF Fits, Ran, Reached, Recorded
    <2> QED BY <2>1, <2>2, <2>3 DEF View, ViewInv, Views
  <1>2. CASE pc[q] \notin InTransaction
    <2>1. pc'[q] = pc[q]
      BY JobForms DEF Others, ViewInv
    <2> QED BY <1>2, <2>1 DEF View, InTransaction
  <1> QED BY <1>1, <1>2

\* A statement adds to what has run, or the row completes it.
LEMMA ActingView ==
  ASSUME ViewInv, NEW p \in Processes, Acts(p)
  PROVE  View(p)'
  <1>m. PICK m : m = Current(p)
    OBVIOUS
  <1>1. /\ pc \in [Processes -> PCs] /\ step \in [Processes -> 0..Statements]
        /\ held \in [Processes -> Connections \cup {NoConnection}]
        /\ tx \in [Connections -> Database \cup {NoTx}] /\ View(p)
    BY DEF ViewInv, Views, IInv, JobInv, TxInv, DataTypes
  <1>2. CASE pc'[p] \notin {"check", "exec", "commit"}
    BY <1>2 DEF View
  <1>3. CASE Begin(p) /\ pc'[p] = "check"
    BY <1>1, <1>3 DEF Begin, View
  <1>4. CASE Check(p) /\ pc'[p] = "exec"
    <2>1. pc[p] = "check" /\ Mine(p) = db /\ step[p] = 0
      BY <1>1, <1>4 DEF Check, View, ViewInv, NothingAbandonedIsCommitted
    <2>2. UNCHANGED <<db, tx, held, step, job>>
      <3>1. ~Advance(p) /\ ~Stop(p)
        BY <1>1, <1>4 DEF Advance, Stop, Enter
      <3> QED BY <1>4, <3>1 DEF Check, Goto
    <2>3. Fits(p)
      <3>1. ~Advance(p) /\ ~Stop(p)
        BY <1>1, <1>4 DEF Advance, Stop, Enter
      <3>2. IF Undoes(p) THEN IsNewest(m, db.rows) ELSE {r \in db.rows : r.id = m.id} = {}
        BY <1>m, <1>4, <2>1, <3>1 DEF Check, Undoes
      <3> QED BY <1>m, <3>2 DEF Fits
    <2>4. Ran(p) = {} /\ Reached(p) = db.schema
      BY <2>1 DEF Ran, Reached
    <2>5. /\ (Fits(p)' <=> Fits(p)) /\ Ran(p)' = Ran(p) /\ Reached(p)' = Reached(p) /\ Mine(p)' = Mine(p)
      BY <2>2, SameCall DEF Fits, Ran, Reached, Mine
    <2> QED BY <1>4, <2>1, <2>2, <2>3, <2>4, <2>5 DEF View
  <1>5. CASE Execute(p)
    <2> DEFINE n == step[p] + 1
               e == <<m, n>>
    <2>1. /\ pc[p] = "exec" /\ Executes(p) /\ (e \in Mine(p).schema) = Undoes(p)
          /\ step'[p] = n /\ step[p] \in Nat /\ UNCHANGED <<pc, job, db, held>>
      BY <1>m, <1>1, <1>5, StatementsAssumption DEF Execute, Undoes
    <2>2. Mine(p) \in Database /\ held[p] \in Connections
      BY <1>1, <2>1, RowsAreMigrations DEF ViewInv, IInv, TxInv, HeldInTransaction, InTransaction
    <2>3. /\ Mine(p)'.rows = Mine(p).rows
          /\ Mine(p)'.schema = IF Undoes(p) THEN Mine(p).schema \ {e} ELSE Mine(p).schema \cup {e}
      BY <1>m, <1>1, <1>5, <2>2 DEF Execute, Mine, Undoes, Database
    <2>4. /\ Current(p)' = m /\ (Executes(p)' <=> Executes(p)) /\ (Undoes(p)' <=> Undoes(p))
          /\ (Fits(p)' <=> Fits(p))
      BY <1>m, <2>1, SameCall DEF Fits
    <2>5. Ran(p)' = Ran(p) \cup {e}
      <3>1. 1..n = 1..step[p] \cup {n}
        BY <2>1
      <3> QED BY <1>m, <2>1, <2>4, <3>1 DEF Ran
    <2>6. /\ Fits(p) /\ Mine(p).rows = db.rows
          /\ Mine(p).schema = IF Undoes(p) THEN db.schema \ Ran(p) ELSE db.schema \cup Ran(p)
          /\ ~Undoes(p) => Ran(p) \cap db.schema = {}
      BY <1>1, <2>1 DEF View, Reached
    <2>7. Mine(p)'.schema = Reached(p)'
      BY <2>1, <2>3, <2>4, <2>5, <2>6 DEF Reached
    <2>8. ~Undoes(p)' => Ran(p)' \cap db'.schema = {}
      BY <2>1, <2>4, <2>5, <2>6
    <2> QED BY <2>1, <2>3, <2>4, <2>6, <2>7, <2>8 DEF View
  <1>6. CASE WriteRow(p)
    <2>1. /\ pc[p] = "exec" /\ pc'[p] = "commit" /\ (Executes(p) => step[p] = Statements)
          /\ UNCHANGED <<job, db, held, step>>
      BY <1>1, <1>6 DEF WriteRow, Goto
    <2>2. Mine(p) \in Database /\ held[p] \in Connections
      BY <1>1, <2>1, RowsAreMigrations DEF ViewInv, IInv, TxInv, HeldInTransaction, InTransaction
    <2>3. /\ Fits(p) /\ Mine(p).rows = db.rows /\ Mine(p).schema = Reached(p)
          /\ Executes(p) /\ ~Undoes(p) => Ran(p) \cap db.schema = {}
      BY <1>1, <2>1 DEF View
    <2>4. Mine(p)'.rows = Recorded(p) /\ Mine(p)'.schema = Mine(p).schema
      BY <1>1, <1>6, <2>2, <2>3 DEF WriteRow, Mine, Recorded, Undoes, Database
    <2>5. /\ (Fits(p)' <=> Fits(p)) /\ Ran(p)' = Ran(p) /\ Reached(p)' = Reached(p)
          /\ Recorded(p)' = Recorded(p) /\ (Executes(p)' <=> Executes(p)) /\ (Undoes(p)' <=> Undoes(p))
      BY <2>1, SameCall DEF Fits, Ran, Reached, Recorded
    <2> QED BY <2>1, <2>3, <2>4, <2>5 DEF View
  <1>7. pc'[p] \in {"check", "exec", "commit"} =>
           \/ Begin(p) /\ pc'[p] = "check"
           \/ Check(p) /\ pc'[p] = "exec"
           \/ Execute(p) \/ WriteRow(p)
    BY <1>1 DEF Acts, Call, Start, CheckDrift, Inspect, Inspected, Begin, PrepareLedger, Prepared, Run, Check,
                Commit, Advance, Fail, Cancel, Goto, Stop, Enter
  <1> QED BY <1>2, <1>3, <1>4, <1>5, <1>6, <1>7

LEMMA ViewStep ==
  ASSUME ViewInv, [Next]_vars
  PROVE  ViewInv'
  <1>1. IInv' /\ NothingAbandonedIsCommitted'
    BY IInvStep, NothingAbandonedStep DEF ViewInv
  <1>2. ASSUME NEW p \in Processes, Acts(p)
        PROVE  Views'
    BY <1>2, WaitingView, ActingView DEF Views
  <1>3. CASE (\E c \in Connections : Disconnect(c)) \/ UNCHANGED vars
    <2>1. UNCHANGED <<pc, job, db, held, step>>
      BY <1>3 DEF Disconnect, vars
    <2>2. ASSUME NEW p \in Processes
          PROVE  View(p)'
      <3>1. pc[p] \in InTransaction => Mine(p)' = Mine(p)
        BY <1>3 DEF Disconnect, vars, Free, Mine, ViewInv, IInv, TxInv, DataTypes, HeldInTransaction
      <3>2. /\ (Fits(p)' <=> Fits(p)) /\ Ran(p)' = Ran(p) /\ Reached(p)' = Reached(p)
            /\ Recorded(p)' = Recorded(p) /\ (Executes(p)' <=> Executes(p)) /\ (Undoes(p)' <=> Undoes(p))
        BY <2>1, SameCall DEF Fits, Ran, Reached, Recorded
      <3> QED BY <2>1, <3>1, <3>2 DEF View, ViewInv, Views, InTransaction
    <2> QED BY <1>1, <2>2 DEF ViewInv, Views
  <1> QED BY <1>1, <1>2, <1>3 DEF ViewInv, Next, Acts

LEMMA ViewInit == Init => ViewInv
  <1> SUFFICES ASSUME Init PROVE ViewInv
    OBVIOUS
  <1>1. IInv
    BY IInvInit
  <1> QED BY <1>1 DEF Init, ViewInv, NothingAbandonedIsCommitted, Views, View

-----------------------------------------------------------------------------
(* The ledger and the schema *)

\* What is asked of the callers: no rollback next to an apply or an adoption, and
\* no adoption through a pool of SQLite connections, which may show it the tables
\* a dropped call left uncommitted.
RollbacksAlone == {"rollback", "apply"} \in Apart /\ {"rollback", "adopt"} \in Apart
AdoptionsUndisturbed == {"adopt", "rollback"} \in Apart
AdoptionsSeeCommitted == <<"sqlite", "adopt">> \in Excluded

\* What is left of a selection ends its artifact set, and the ledger has the rest.
Pends(p) ==
    pc[p] # "idle" /\ job[p].todo # {} =>
        /\ job[p].op \in {"apply", "adopt", "rollback"}
        /\ ~Undoes(p) => Pending(job[p].list, job[p].todo, db.rows)

LedgerInv ==
    /\ ViewInv
    /\ Separate("rollback", "apply") /\ Separate("rollback", "adopt")
    /\ Segment(db.rows)
    /\ \A p \in Processes : Pends(p)

LEMMA KeptApart ==
  ASSUME ViewInv, NEW p \in Processes, Acts(p), NEW op1, NEW op2, op1 # op2,
         {op1, op2} \in Apart, Separate(op1, op2)
  PROVE  Separate(op1, op2)'
  <1>1. JobTyped(PCs) /\ Others(p) /\ \E seen : JobForm(p, db.rows, seen)
    BY JobForms DEF ViewInv, IInv, JobInv, JobTyped, JobForm, Proceeds
  <1> QED BY <1>1, SeparateStep

\* What a commit does to the ledger: a rollback takes the newest row, everything else
\* adds the row that is next in its history.
LEMMA CommitMoves ==
  ASSUME LedgerInv, NEW p \in Processes, Commit(p), NEW m, m = Current(p)
  PROVE  /\ pc[p] = "commit" /\ job[p] \in Job /\ db'.rows = Recorded(p)
         /\ Undoes(p) => IsNewest(m, db.rows) /\ db'.rows = db.rows \ {m}
         /\ ~Undoes(p) =>
               /\ job[p].list \in Artifacts /\ job[p].todo # {} /\ m = First(job[p].todo)
               /\ Pending(job[p].list, job[p].todo, db.rows)
               /\ m \in job[p].list \ db.rows /\ db'.rows = db.rows \cup {m}
               /\ IsBeginning(job[p].list, db.rows) /\ IsBeginning(job[p].list, db.rows \cup {m})
  <1>1. /\ pc[p] = "commit" /\ job[p] \in Job /\ db' = Mine(p) /\ job[p].todo # {}
        /\ View(p) /\ Pends(p) /\ Segment(db.rows)
    BY DEF Commit, CommitTx, LedgerInv, ViewInv, Views, IInv, JobInv, Selected, Selecting
  <1>2. Fits(p) /\ Mine(p).rows = Recorded(p)
    BY <1>1 DEF View
  <1>3. CASE Undoes(p)
    BY <1>1, <1>2, <1>3 DEF Fits, Recorded
  <1>4. CASE ~Undoes(p)
    <2>1. /\ Pending(job[p].list, job[p].todo, db.rows) /\ m = First(job[p].todo)
          /\ \A r \in db.rows : r.id # m.id
      BY <1>1, <1>2, <1>4 DEF Pends, Fits, Undoes, Current
    <2>2. job[p].list \in Artifacts
      BY <1>1, <2>1 DEF Pending, Job
    <2>3. /\ m \in job[p].list \ db.rows
          /\ IsBeginning(job[p].list, db.rows) /\ IsBeginning(job[p].list, db.rows \cup {m})
      <3> DEFINE list == job[p].list
                 todo == job[p].todo
                 r == db.rows
      <3>1. /\ list \in Artifacts /\ Pending(list, todo, r) /\ todo # {} /\ Segment(r)
            /\ \A x \in r : x.id # First(todo).id
        BY <1>1, <2>1, <2>2
      <3>2. m = First(todo)
        BY <2>1
      <3> HIDE DEF list, todo, r
      <3>3. First(todo) \in list \ r /\ IsBeginning(list, r) /\ IsBeginning(list, r \cup {First(todo)})
        BY <3>1, NextContinues
      <3>4. m \in list \ r /\ IsBeginning(list, r) /\ IsBeginning(list, r \cup {m})
        BY <3>2, <3>3
      <3> QED BY <3>4 DEF list, r
    <2> QED BY <1>1, <1>2, <1>4, <2>1, <2>2, <2>3 DEF Recorded
  <1> QED BY <1>3, <1>4

LEMMA PendsStep ==
  ASSUME LedgerInv, NEW p \in Processes, Acts(p), NEW q \in Processes
  PROVE  Pends(q)'
  <1>m. PICK m : m = Current(p)
    OBVIOUS
  <1> SUFFICES ASSUME pc'[q] # "idle", job'[q].todo # {}
               PROVE  /\ job'[q].op \in {"apply", "adopt", "rollback"}
                      /\ job'[q].op # "rollback" => Pending(job'[q].list, job'[q].todo, db'.rows)
    BY DEF Pends, Undoes
  <1>1. job[q] \in Job /\ Pends(q) /\ Segment(db.rows) /\ Segment({})
    BY DEF LedgerInv, ViewInv, IInv, JobInv, Segment
  <1>2. db' = db \/ Commit(p)
    BY DatabaseForms DEF LedgerInv, ViewInv
  <1>3. CASE q # p
    <2>1. pc'[q] = pc[q] /\ job'[q] = job[q]
      BY <1>3, JobForms DEF Others, LedgerInv, ViewInv
    <2>2. ~Undoes(q) => db.rows \subseteq db'.rows
      <3>1. CASE Commit(p) /\ ~Undoes(q)
        <4>1. ~Undoes(p)
          <5>1. pc[p] # "idle" /\ pc[q] # "idle" /\ job[q].op \in {"apply", "adopt", "rollback"}
            BY <1>1, <2>1, <3>1 DEF Pends, Commit
          <5> QED BY <3>1, <5>1 DEF LedgerInv, Separate, Undoes
        <4> QED BY <1>m, <3>1, <4>1, CommitMoves
      <3> QED BY <1>2, <3>1
    <2> QED BY <1>1, <2>1, <2>2 DEF Pends, Undoes, Pending
  <1>4. CASE q = p /\ Commit(p)
    <2>1. Advances(p)
      <3>1. JobTyped(PCs) /\ pc[p] # "idle" /\ Advance(p)
        BY <1>4 DEF LedgerInv, ViewInv, IInv, JobInv, JobTyped, Commit
      <3> QED BY <1>4, <3>1, AdvanceForm DEF Ends
    <2>2. /\ pc[p] = "commit" /\ job'[p].op = job[p].op /\ job'[p].list = job[p].list
          /\ job'[p].todo = job[p].todo \ {m}
      BY <1>m, <1>1, <1>4, <2>1 DEF Advances, Job, Commit
    <2>3. CASE ~Undoes(p)
      <3>1. /\ job[p].list \in Artifacts /\ job[p].todo # {} /\ m = First(job[p].todo)
            /\ Pending(job[p].list, job[p].todo, db.rows) /\ db'.rows = db.rows \cup {m}
        BY <1>m, <1>4, <2>3, CommitMoves
      <3>2. Pending(job[p].list, job[p].todo, db'.rows) /\ First(job[p].todo) \in db'.rows
        BY <3>1 DEF Pending
      <3>3. Pending(job[p].list, job[p].todo \ {m}, db'.rows)
        BY <3>1, <3>2, AdvancePends
      <3> QED BY <1>1, <1>4, <2>2, <3>1, <3>3 DEF Pends
    <2> QED BY <1>4, <2>2, <2>3 DEF Undoes
  <1>5. CASE q = p /\ ~Commit(p)
    <2>1. db' = db
      BY <1>2, <1>5
    <2>2. CASE Begins(p) \/ Ends(p)
      BY <1>5, <2>2 DEF Begins, Ends
    <2>3. CASE Selects(p, db.rows)
      <3>1. /\ job'[p].op = job[p].op /\ job'[p].list = job[p].list /\ job[p].list \in Artifacts \cup {{}}
        BY <1>1, <1>5, <2>3 DEF Selects, Job
      <3>2. CASE job[p].op = "apply" /\ Known(job[p].list, db.rows) /\ job'[p].todo = job[p].list \ db.rows
        BY <1>1, <1>5, <2>1, <3>1, <3>2, SelectionPends
      <3>3. CASE job[p].op = "adopt" /\ db.rows = {} /\ job'[p].todo = job[p].list
        BY <1>5, <2>1, <3>1, <3>3 DEF Pending
      <3> QED BY <1>5, <2>3, <3>1, <3>2, <3>3 DEF Selects
    <2>4. CASE \E seen : Inspects(p, seen)
      <3>1. /\ pc[p] # "idle" /\ job'[p].op = job[p].op /\ job'[p].list = job[p].list
            /\ job'[p].todo = job[p].todo
        BY <1>1, <1>5, <2>4 DEF Inspects, Job
      <3> QED BY <1>1, <1>5, <2>1, <3>1 DEF Pends, Undoes
    <2>5. CASE Proceeds(p)
      <3>1. /\ pc[p] # "idle" /\ ~Undoes(p) /\ m \in db.rows /\ m = First(job[p].todo)
            /\ job'[p].op = job[p].op /\ job'[p].list = job[p].list /\ job[p].list \in Artifacts \cup {{}}
            /\ job'[p].todo = job[p].todo \ {m}
        BY <1>m, <1>1, <1>5, <2>5 DEF Proceeds, Advances, Job, Current, Undoes
      <3>2. job[p].todo # {}
        BY <1>5, <3>1
      <3>3. Pending(job[p].list, job[p].todo \ {m}, db.rows)
        BY <1>1, <1>5, <3>1, <3>2, AdvancePends DEF Pends
      <3> QED BY <1>1, <1>5, <2>1, <3>1, <3>2, <3>3 DEF Pends, Undoes
    <2>6. CASE Keeps(p)
      BY <1>1, <1>5, <2>1, <2>6 DEF Keeps, Pends, Undoes
    <2> QED BY <2>2, <2>3, <2>4, <2>5, <2>6, JobForms DEF LedgerInv, ViewInv
  <1> QED BY <1>3, <1>4, <1>5

\* The ledger holds the beginning of a history before and after every step, and the
\* step is one of the abstract ledger's.
LEMMA LedgerStep ==
  ASSUME RollbacksAlone, LedgerInv, [Next]_vars
  PROVE  LedgerInv' /\ [Ledger!Next]_Ledger!vars
  <1>1. ViewInv'
    BY ViewStep DEF LedgerInv
  <1>2. ASSUME NEW p \in Processes, Acts(p)
        PROVE  LedgerInv' /\ [Ledger!Next]_Ledger!vars
    <2>m. PICK m : m = Current(p)
      OBVIOUS
    <2>1. Separate("rollback", "apply")' /\ Separate("rollback", "adopt")'
      BY <1>2, KeptApart DEF LedgerInv, RollbacksAlone
    <2>2. \A q \in Processes : Pends(q)'
      BY <1>2, PendsStep
    <2>3. CASE db' = db
      BY <1>1, <2>1, <2>2, <2>3 DEF LedgerInv, Ledger!vars
    <2>4. CASE Commit(p) /\ Undoes(p)
      <3>1. IsNewest(m, db.rows) /\ db'.rows = db.rows \ {m}
        BY <2>m, <2>4, CommitMoves
      <3>2. Segment(db'.rows)
        BY <3>1, NewestLeaves DEF LedgerInv
      <3>3. Ledger!Remove
        BY <3>1 DEF Ledger!Remove, IsNewest
      <3> QED BY <1>1, <2>1, <2>2, <3>2, <3>3 DEF LedgerInv, Ledger!Next
    <2>5. CASE Commit(p) /\ ~Undoes(p)
      <3>1. /\ job[p].list \in Artifacts /\ m \in job[p].list \ db.rows /\ db'.rows = db.rows \cup {m}
            /\ IsBeginning(job[p].list, db.rows) /\ IsBeginning(job[p].list, db.rows \cup {m})
        BY <2>m, <2>5, CommitMoves
      <3>2. Segment(db'.rows)
        BY <3>1 DEF Segment
      <3>3. Ledger!Add
        BY <3>1 DEF Ledger!Add, Ledger!IsSegment, IsBeginning, Known, Gapless
      <3> QED BY <1>1, <2>1, <2>2, <3>2, <3>3 DEF LedgerInv, Ledger!Next
    <2> QED BY <1>2, <2>3, <2>4, <2>5, DatabaseForms DEF LedgerInv, ViewInv
  <1>3. CASE (\E c \in Connections : Disconnect(c)) \/ UNCHANGED vars
    <2>1. UNCHANGED <<pc, job, db>>
      BY <1>3 DEF Disconnect, vars
    <2> QED BY <1>1, <2>1 DEF LedgerInv, Separate, Pends, Undoes, Ledger!vars
  <1> QED BY <1>2, <1>3 DEF Next, Acts

LEMMA LedgerInit == Init => LedgerInv /\ Ledger!Init
  <1> SUFFICES ASSUME Init PROVE LedgerInv /\ Ledger!Init
    OBVIOUS
  <1>1. ViewInv
    BY ViewInit
  <1>2. \A p \in Processes : pc[p] = "idle"
    BY DEF Init
  <1>3. db.rows = {}
    BY InitialAssumption DEF Init
  <1> QED BY <1>1, <1>2, <1>3 DEF LedgerInv, Separate, Segment, Pends, Ledger!Init

\* The backends implement the abstract ledger: at every commit the rows are the
\* beginning of a released history, one migration longer or shorter than before,
\* however many releases apply at once and whatever fails or is dropped
\* (apply_migration, rollback_migration; MigrationLedger).
THEOREM ImplementsLedger ==
  ASSUME RollbacksAlone
  PROVE  Spec => LedgerSpec
  <1>1. LedgerInv /\ [Next]_vars => LedgerInv' /\ [Ledger!Next]_Ledger!vars
    BY LedgerStep
  <1> QED BY <1>1, LedgerInit, PTL DEF Spec, LedgerSpec, Ledger!Spec

\* Outside SQLite a transaction ends with the call that opened it.
OpenIsHeld ==
    backend # "sqlite" => \A c \in Connections : tx[c] # NoTx => \E p \in Processes : held[p] = c

\* An adoption has compared the schema with what is committed, and it is still so.
StillAdoptable ==
    \A p \in Processes : pc[p] # "idle" /\ job[p].op = "adopt" =>
        /\ backend # "sqlite"
        /\ pc[p] # "drift" => Effects({First(job[p].list)}) \subseteq db.schema

\* Nothing is selected in a database that nobody has adopted but what begins with
\* its baseline.
BaselineFirst ==
    db.rows = {} /\ db.schema # {} =>
        \A p \in Processes : job[p].todo # {} /\ ~Undoes(p) => job[p].todo = job[p].list

SchemaInv ==
    /\ ViewInv /\ Separate("adopt", "rollback")
    /\ OpenIsHeld /\ StillAdoptable /\ BaselineFirst /\ SchemaMatchesLedger

LEMMA OpenIsHeldStep ==
  ASSUME IInv, OpenIsHeld, [Next]_vars
  PROVE  OpenIsHeld' /\ backend' = backend
  <1>1. backend' = backend
    BY DEF Next, Acts, Call, CheckDrift, Inspect, Begin, PrepareLedger, Check, Execute, WriteRow, Commit, Fail,
           Cancel, Disconnect, vars
  <1> SUFFICES ASSUME backend # "sqlite", NEW c \in Connections, tx'[c] # NoTx
               PROVE  \E p \in Processes : held'[p] = c
    BY <1>1 DEF OpenIsHeld
  <1>2. /\ held \in [Processes -> Connections \cup {NoConnection}]
        /\ tx \in [Connections -> Database \cup {NoTx}]
        /\ tx[c] # NoTx => \E p \in Processes : held[p] = c
    BY DEF OpenIsHeld, IInv, TxInv, DataTypes
  <1>3. CASE \E p \in Processes : Begin(p)
    BY <1>2, <1>3, ConnectionsAssumption DEF Begin, IInv, TxInv, HeldInTransaction, InTransaction
  <1>4. CASE \E p \in Processes : Execute(p) \/ WriteRow(p)
    BY <1>2, <1>4 DEF Execute, WriteRow, IInv, TxInv, HeldIsOpen, HeldInTransaction, InTransaction
  <1>5. CASE \E p \in Processes : PrepareLedger(p) \/ Check(p) \/ Commit(p) \/ Fail(p)
    BY <1>2, <1>5 DEF PrepareLedger, Check, Commit, Fail, CommitTx, RollbackTx
  <1>6. CASE \E p \in Processes : Cancel(p)
    BY <1>2, <1>6 DEF Cancel
  <1>7. CASE \/ \E p \in Processes : Call(p) \/ CheckDrift(p) \/ Inspect(p)
             \/ \E d \in Connections : Disconnect(d)
             \/ UNCHANGED vars
    BY <1>2, <1>7 DEF Call, CheckDrift, Inspect, Disconnect, vars
  <1> QED BY <1>3, <1>4, <1>5, <1>6, <1>7 DEF Next

\* The first migration of a history is the baseline a database may begin with.
LEMMA BaselineIsFirst ==
  ASSUME NEW d \in Initial, NEW list \in Artifacts \ {{}}, d.schema # {}
  PROVE  d.schema = Effects({First(list)})
  <1>1. PICK S \in SUBSET Migrations :
           /\ d = [rows |-> {}, schema |-> Effects(S)]
           /\ \A b \in S : b \in list /\ \A m \in list : b.id <= m.id
    BY InitialAssumption
  <1>2. First(list) \in list /\ \A m \in list : First(list).id <= m.id
    BY ListIsFinite, FirstOf
  <1>3. \A m \in list : m.id \in Nat
    BY ArtifactFacts
  <1>4. \A b \in S : b = First(list)
    BY <1>1, <1>2, <1>3, ArtifactFacts
  <1>5. S # {}
    BY <1>1 DEF Effects
  <1>6. S = {First(list)}
    BY <1>4, <1>5
  <1> QED BY <1>1, <1>6

LEMMA StatementOne == 1 \in 1..Statements
  BY StatementsAssumption

\* A migration is committed with its row: what ran is what was missing.
LEMMA CommitMatches ==
  ASSUME SchemaInv, NEW p \in Processes, Commit(p)
  PROVE  /\ db'.schema = Effects(db'.rows)
         /\ Undoes(p) \/ db'.rows # {}
         /\ ~Undoes(p) => db.schema \subseteq db'.schema
  <1>m. PICK m : m = Current(p)
    OBVIOUS
  <1>1. /\ job[p] \in Job /\ job[p].todo # {} /\ Selected(p) /\ pc[p] = "commit" /\ db' = Mine(p)
        /\ View(p)
    BY DEF Commit, CommitTx, SchemaInv, ViewInv, Views, IInv, JobInv, Selected, Selecting
  <1>2. /\ Fits(p) /\ db'.rows = Recorded(p) /\ db'.schema = Reached(p)
        /\ Executes(p) => Ran(p) = Effects({m})
        /\ Executes(p) /\ ~Undoes(p) => Ran(p) \cap db.schema = {}
    BY <1>m, <1>1 DEF View, Ran, Effects
  <1>3. <<m, 1>> \in Effects({m})
    BY StatementOne DEF Effects
  <1>4. ~Undoes(p) => m \notin db.rows /\ db'.rows = db.rows \cup {m}
    BY <1>m, <1>2 DEF Fits, Recorded
  <1>5. Undoes(p) => m \in db.rows /\ db'.rows = db.rows \ {m} /\ Executes(p)
    BY <1>m, <1>2 DEF Fits, Recorded, IsNewest, Undoes, Executes
  <1>6. ~Executes(p) => /\ ~Undoes(p) /\ job[p].op = "adopt" /\ m = First(job[p].list)
                        /\ job[p].list \in Artifacts \ {{}} /\ Effects({m}) \subseteq db.schema
    BY <1>m, <1>1 DEF Executes, Undoes, Current, Job, SchemaInv, StillAdoptable
  <1>7. CASE db.schema = Effects(db.rows)
    <2>1. Executes(p)
      BY <1>3, <1>4, <1>6, <1>7 DEF Effects
    <2> QED BY <1>2, <1>4, <1>5, <1>7, <2>1 DEF Reached, Effects
  <1>8. CASE db.schema # Effects(db.rows)
    <2>1. db.rows = {} /\ db \in Initial /\ db.schema # {}
      BY <1>8 DEF SchemaInv, SchemaMatchesLedger, Effects
    <2>2. ~Undoes(p) /\ job[p].todo = job[p].list /\ m = First(job[p].list) /\ job[p].list \in Artifacts \ {{}}
      BY <1>m, <1>1, <1>5, <2>1 DEF SchemaInv, BaselineFirst, Undoes, Current, Job
    <2>3. db.schema = Effects({m})
      BY <2>1, <2>2, BaselineIsFirst
    <2>4. ~Executes(p)
      BY <1>2, <1>3, <2>2, <2>3
    <2> QED BY <1>2, <1>4, <2>1, <2>2, <2>3, <2>4 DEF Reached
  <1> QED BY <1>2, <1>4, <1>7, <1>8 DEF Reached

LEMMA StillAdoptableStep ==
  ASSUME AdoptionsSeeCommitted, SchemaInv, NEW p \in Processes, Acts(p), backend' = backend
  PROVE  StillAdoptable'
  <1> SUFFICES ASSUME NEW q \in Processes, pc'[q] # "idle", job'[q].op = "adopt"
               PROVE  /\ backend # "sqlite"
                      /\ pc'[q] # "drift" => Effects({First(job'[q].list)}) \subseteq db'.schema
    BY DEF StillAdoptable
  <1>1. JobTyped(PCs) /\ Others(p) /\ \E seen : JobForm(p, db.rows, seen)
    BY JobForms DEF SchemaInv, ViewInv, IInv, JobInv, JobTyped, JobForm, Proceeds
  <1>2. CASE q = p /\ Begins(p)
    <2>1. Call(p)
      BY <1>2 DEF Begins, Acts, CheckDrift, Inspect, Begin, PrepareLedger, Check, Execute, WriteRow, Commit,
                  Fail, Cancel
    <2>2. PICK op \in Operations, list \in Artifacts : <<backend, op>> \notin Excluded /\ Start(p, op, list)
      BY <2>1 DEF Call
    <2>3. job'[p].op = op /\ pc'[p] = "drift"
      BY <1>1, <1>2, <2>2, StartForm DEF Begins
    <2> QED BY <1>2, <2>2, <2>3 DEF AdoptionsSeeCommitted
  <1>3. CASE q # p \/ ~Begins(p)
    <2>1. /\ pc[q] # "idle" /\ job[q].op = "adopt" /\ job'[q].list = job[q].list
      BY <1>1, <1>3, SameOperation DEF Others
    <2>2. backend # "sqlite" /\ (pc[q] # "drift" => Effects({First(job[q].list)}) \subseteq db.schema)
      BY <2>1 DEF SchemaInv, StillAdoptable
    <2>3. db.schema \subseteq db'.schema
      <3>1. CASE Commit(p)
        <4>1. ~Undoes(p)
          BY <2>1, <3>1 DEF SchemaInv, Separate, Undoes, Commit
        <4> QED BY <3>1, <4>1, CommitMatches
      <3> QED BY <3>1, DatabaseForms DEF SchemaInv, ViewInv
    <2>4. CASE pc[q] = "drift" /\ pc'[q] # "drift"
      <3>1. q = p
        BY <1>1, <2>4 DEF Others
      <3>2. CheckDrift(p) /\ ~Stop(p)
        BY <1>1, <2>4, <3>1, StopForm DEF Ends, Acts, Call, Start, Inspect, Begin, PrepareLedger, Check, Execute,
                                          WriteRow, Commit, Fail, Cancel
      <3>3. PICK c \in Connections : Free(c) /\ Seen(c).schema = Effects({First(job[p].list)})
        BY <3>2 DEF CheckDrift
      <3>4. Seen(c) = db
        BY <2>2, <3>3 DEF Free, Seen, SchemaInv, OpenIsHeld
      <3> QED BY <2>1, <2>2, <2>3, <3>1, <3>3, <3>4
    <2> QED BY <2>1, <2>2, <2>3, <2>4
  <1> QED BY <1>2, <1>3

LEMMA BaselineFirstStep ==
  ASSUME SchemaInv, NEW p \in Processes, Acts(p)
  PROVE  BaselineFirst'
  <1> SUFFICES ASSUME db'.rows = {}, db'.schema # {},
                      NEW q \in Processes, job'[q].todo # {}, job'[q].op # "rollback"
               PROVE  job'[q].todo = job'[q].list
    BY DEF BaselineFirst, Undoes
  <1>1. ~Commit(p)
    BY CommitMatches DEF Effects
  <1>2. db' = db /\ db.rows = {} /\ db.schema # {}
    BY <1>1, DatabaseForms DEF SchemaInv, ViewInv
  <1>3. /\ job[q] \in Job
        /\ job[q].todo # {} /\ job[q].op # "rollback" => job[q].todo = job[q].list
    BY <1>2 DEF SchemaInv, BaselineFirst, Undoes, ViewInv, IInv, JobInv
  <1>4. CASE q # p
    BY <1>3, <1>4, JobForms DEF Others, SchemaInv, ViewInv
  <1>5. CASE q = p /\ Selects(p, db.rows)
    <2>1. job'[p].op = job[p].op /\ job'[p].list = job[p].list
      BY <1>3, <1>5 DEF Selects, Job
    <2> QED BY <1>2, <1>5, <2>1 DEF Selects
  <1>6. CASE q = p /\ ((\E seen : Inspects(p, seen)) \/ Keeps(p))
    <2>1. job'[p].op = job[p].op /\ job'[p].list = job[p].list /\ job'[p].todo = job[p].todo
      BY <1>3, <1>6 DEF Inspects, Keeps, Job
    <2> QED BY <1>3, <1>6, <2>1
  <1>7. CASE q = p /\ (Begins(p) \/ Ends(p))
    BY <1>7 DEF Begins, Ends, NoJob
  <1>8. ~Proceeds(p)
    BY <1>1, <1>2 DEF Proceeds
  <1> QED BY <1>4, <1>5, <1>6, <1>7, <1>8, JobForms DEF SchemaInv, ViewInv

LEMMA SchemaStep ==
  ASSUME AdoptionsUndisturbed, AdoptionsSeeCommitted, SchemaInv, [Next]_vars
  PROVE  SchemaInv'
  <1>1. ViewInv' /\ OpenIsHeld' /\ backend' = backend
    BY ViewStep, OpenIsHeldStep DEF SchemaInv, ViewInv
  <1>2. ASSUME NEW p \in Processes, Acts(p)
        PROVE  SchemaInv'
    <2>1. Separate("adopt", "rollback")'
      BY <1>2, KeptApart DEF SchemaInv, AdoptionsUndisturbed
    <2>2. StillAdoptable' /\ BaselineFirst'
      BY <1>1, <1>2, StillAdoptableStep, BaselineFirstStep
    <2>3. SchemaMatchesLedger'
      BY <1>2, DatabaseForms, CommitMatches DEF SchemaInv, ViewInv, SchemaMatchesLedger, Effects
    <2> QED BY <1>1, <2>1, <2>2, <2>3 DEF SchemaInv
  <1>3. CASE (\E c \in Connections : Disconnect(c)) \/ UNCHANGED vars
    <2>1. UNCHANGED <<pc, job, db>>
      BY <1>3 DEF Disconnect, vars
    <2> QED BY <1>1, <2>1 DEF SchemaInv, Separate, StillAdoptable, BaselineFirst, Undoes, SchemaMatchesLedger
  <1> QED BY <1>2, <1>3 DEF Next, Acts

LEMMA SchemaInit == Init => SchemaInv
  <1> SUFFICES ASSUME Init PROVE SchemaInv
    OBVIOUS
  <1>1. ViewInv
    BY ViewInit
  <1>2. \A p \in Processes : pc[p] = "idle" /\ job[p].todo = {}
    BY DEF Init, NoJob
  <1>3. db.rows = {} /\ OpenIsHeld
    BY InitialAssumption DEF Init, OpenIsHeld
  <1> QED BY <1>1, <1>2, <1>3 DEF Init, SchemaInv, Separate, StillAdoptable, BaselineFirst, SchemaMatchesLedger

\* A migration and its row are committed or given up together: the schema is that
\* of the rows, or the baseline nobody has adopted yet, whoever else runs, fails or
\* is dropped at any await (apply_migration, rollback_migration, finish_transaction).
THEOREM SchemaFollowsLedger ==
  ASSUME AdoptionsUndisturbed, AdoptionsSeeCommitted
  PROVE  Spec => []SchemaMatchesLedger
  <1>1. SchemaInv /\ [Next]_vars => SchemaInv'
    BY SchemaStep
  <1>2. SchemaInv => SchemaMatchesLedger
    BY DEF SchemaInv
  <1> QED BY <1>1, <1>2, SchemaInit, PTL DEF Spec
=============================================================================
