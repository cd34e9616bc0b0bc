------------------------- MODULE MySqlBackendProofs -------------------------
(***************************************************************************)
(* The proof that GET_LOCK serialises what the MySQL backend does under    *)
(* it, for any number of processes and sessions, with calls dropped and    *)
(* sessions lost between any two steps; that its states are well typed;    *)
(* that nothing runs next to the marker of an interrupted run; that the    *)
(* markers tell the truth; and that the ledger is the abstract one.        *)
(***************************************************************************)
EXTENDS MySqlBackend, MigratorProofs

\* Where a process has a connection of its own: waiting for the lock, or under it.
Connected == Critical \cup {"get_lock"}

LockTypes ==
    /\ pc \in [Processes -> PCs]
    /\ owner \in Connections \cup {NoConnection}
    /\ held \in [Processes -> Connections \cup {NoConnection}]
HeldWhileConnected == \A p \in Processes : held[p] # NoConnection <=> pc[p] \in Connected
HeldByOne == \A p, q \in Processes : held[p] # NoConnection /\ held[p] = held[q] => p = q
CriticalOwns == \A p \in Processes : pc[p] \in Critical => owner = held[p]

\* Two processes in the critical section would both hold the owner's connection,
\* and no connection is held by two.
LockInv == LockTypes /\ HeldWhileConnected /\ HeldByOne /\ CriticalOwns

Moves(p, at) == pc' = [pc EXCEPT ![p] = at]

\* A step of a process that has no connection, and gets none.
LEMMA OutsideStep ==
  ASSUME LockInv, NEW p \in Processes, NEW at \in PCs \ Connected, pc[p] \notin Connected,
         Moves(p, at), UNCHANGED <<owner, held>>
  PROVE  LockInv'
  BY DEF LockInv, LockTypes, HeldWhileConnected, HeldByOne, CriticalOwns, Moves, Connected

\* A step inside the critical section.
LEMMA CriticalStep ==
  ASSUME LockInv, NEW p \in Processes, NEW at \in Critical, pc[p] \in Critical,
         Moves(p, at), UNCHANGED <<owner, held>>
  PROVE  LockInv'
  BY DEF LockInv, LockTypes, HeldWhileConnected, HeldByOne, CriticalOwns, Moves, Connected,
         Critical, Running, PCs

\* RELEASE_LOCK and back to the pool: nobody else can own what p releases.
LEMMA UnlockStep ==
  ASSUME LockInv, NEW p \in Processes, NEW at \in PCs \ Connected, pc[p] \in Connected,
         Moves(p, at), Unlock(p)
  PROVE  LockInv'
  <1> USE ConnectionsAssumption DEF LockInv, LockTypes, Moves, Unlock
  <1>1. LockTypes'
    OBVIOUS
  <1>2. HeldWhileConnected'
    BY DEF HeldWhileConnected
  <1>3. HeldByOne'
    BY DEF HeldByOne
  <1>4. CriticalOwns'
    BY DEF CriticalOwns, HeldWhileConnected, HeldByOne, Connected
  <1> QED BY <1>1, <1>2, <1>3, <1>4

\* The manager goes on, or ends the call.
LEMMA ManagerMoves ==
  ASSUME NEW p \in Processes, NEW r, Prepared(p, r) \/ Advance(p)
  PROVE  Moves(p, "idle") \/ Moves(p, "run")
  BY DEF Prepared, Advance, Run, Stop, Enter, Moves

LEMMA OutsideStepsLock ==
  ASSUME LockInv, NEW p \in Processes,
         Call(p) \/ CheckDrift(p) \/ InspectMarkers(p) \/ InspectRows(p)
  PROVE  LockInv'
  <1> USE DEF PCs, Connected, Critical, Running
  <1>1. CASE Call(p)
    <2>1. pc[p] \notin Connected /\ UNCHANGED <<owner, held>>
      BY <1>1 DEF Call, Start
    <2>2. \E at \in {"drift", "inspect", "sync"} : Moves(p, at)
      BY <1>1 DEF Call, Start, Enter, Moves
    <2> QED BY <2>1, <2>2, OutsideStep
  <1>2. CASE CheckDrift(p)
    <2>1. pc[p] \notin Connected /\ UNCHANGED <<owner, held>> /\ \E at \in {"inspect", "idle"} : Moves(p, at)
      BY <1>2 DEF CheckDrift, Goto, Stop, Enter, Moves
    <2> QED BY <2>1, OutsideStep
  <1>3. CASE InspectMarkers(p)
    <2>1. /\ pc[p] \notin Connected /\ UNCHANGED <<owner, held>>
          /\ \E at \in {"inspect_rows", "idle"} : Moves(p, at)
      BY <1>3 DEF InspectMarkers, Goto, Stop, Enter, Moves
    <2> QED BY <2>1, OutsideStep
  <1>4. CASE InspectRows(p)
    <2>1. pc[p] \notin Connected /\ UNCHANGED <<owner, held>> /\ \E at \in {"prepare", "idle"} : Moves(p, at)
      BY <1>4 DEF InspectRows, Inspected, Stop, Enter, Moves
    <2> QED BY <2>1, OutsideStep
  <1> QED BY <1>1, <1>2, <1>3, <1>4

\* acquire_lock: a stale lock is released only from the session p has just taken,
\* and GET_LOCK is granted only when no session owns it.
LEMMA AcquireLockStep ==
  ASSUME LockInv, NEW p \in Processes, ReleaseStale(p) \/ GetLock(p)
  PROVE  LockInv'
  <1>1. CASE ReleaseStale(p)
    <2>1. PICK c \in Connections :
             /\ Free(c) /\ held' = [held EXCEPT ![p] = c]
             /\ owner' = IF owner = c THEN NoConnection ELSE owner
      BY <1>1 DEF ReleaseStale
    <2>2. pc[p] \in {"prepare", "run", "sync"} /\ Moves(p, "get_lock")
      BY <1>1 DEF ReleaseStale, Goto, Moves
    <2> USE <2>1, <2>2, ConnectionsAssumption DEF LockInv, LockTypes, Moves, Free
    <2>3. LockTypes'
      BY DEF PCs
    <2>4. HeldWhileConnected'
      BY DEF HeldWhileConnected, Connected
    <2>5. HeldByOne'
      BY DEF HeldByOne
    <2>6. CriticalOwns'
      BY DEF CriticalOwns, Critical, Running
    <2> QED BY <2>3, <2>4, <2>5, <2>6
  <1>2. CASE GetLock(p) /\ owner = NoConnection
    <2>1. pc[p] = "get_lock" /\ owner' = held[p] /\ Moves(p, "check") /\ held' = held
      BY <1>2 DEF GetLock, Goto, Moves
    <2>2. \A q \in Processes : pc[q] \notin Critical
      BY <1>2 DEF LockInv, HeldWhileConnected, CriticalOwns, Connected
    <2> QED BY <2>1, <2>2 DEF LockInv, LockTypes, HeldWhileConnected, HeldByOne, CriticalOwns, Moves,
                              Connected, Critical, Running, PCs
  <1>3. CASE GetLock(p) /\ owner # NoConnection
    <2>1. pc[p] \in Connected /\ Moves(p, "idle") /\ Unlock(p)
      BY <1>3 DEF GetLock, Stop, Enter, Moves, Connected
    <2> QED BY <2>1, UnlockStep DEF PCs, Connected, Critical, Running
  <1> QED BY <1>1, <1>2, <1>3

\* What a process does under the lock: it stays there, or releases it and leaves.
LEMMA LockedMoves ==
  ASSUME NEW p \in Processes,
         \/ Check(p) \/ CheckSync(p) \/ FinishSync(p) \/ Mark(p) \/ Progress(p) \/ Statement(p)
         \/ WriteRow(p) \/ Unmark(p) \/ Fail(p)
  PROVE  /\ pc[p] \in Critical
         /\ \/ \E at \in Critical : Moves(p, at) /\ UNCHANGED <<owner, held>>
            \/ \E at \in {"idle", "run"} : Moves(p, at) /\ Unlock(p)
  <1> USE DEF Critical, Running, Goto, Stop, Enter
  <1>1. CASE Check(p)
    <2>1. CASE Prepared(p, rows) /\ Unlock(p)
      BY <1>1, <2>1, ManagerMoves DEF Check
    <2>2. CASE Advance(p) /\ Unlock(p)
      BY <1>1, <2>2, ManagerMoves DEF Check
    <2>3. CASE Stop(p) /\ Unlock(p)
      BY <1>1, <2>3 DEF Check, Moves
    <2>4. CASE Goto(p, IF Executes(p) THEN "mark" ELSE "row") /\ UNCHANGED <<owner, held>>
      BY <1>1, <2>4 DEF Check, Moves
    <2> QED BY <1>1, <2>1, <2>2, <2>3, <2>4 DEF Check
  <1>2. CASE CheckSync(p) \/ FinishSync(p) \/ Fail(p)
    BY <1>2 DEF CheckSync, FinishSync, Fail, Moves
  <1>3. CASE Mark(p) \/ Progress(p)
    BY <1>3 DEF Mark, Progress, Moves
  <1>4. CASE Statement(p)
    BY <1>4 DEF Statement, Moves
  <1>5. CASE WriteRow(p)
    <2>1. CASE Advance(p) /\ Unlock(p)
      BY <1>5, <2>1, ManagerMoves DEF WriteRow
    <2>2. CASE Goto(p, "unmark") /\ UNCHANGED <<owner, held>>
      BY <1>5, <2>2 DEF WriteRow, Moves
    <2> QED BY <1>5, <2>1, <2>2 DEF WriteRow
  <1>6. CASE Unmark(p)
    BY <1>6, ManagerMoves DEF Unmark
  <1> QED BY <1>1, <1>2, <1>3, <1>4, <1>5, <1>6

\* A dropped call gives its connection back, with the lock if it has it.
LEMMA CancelStep ==
  ASSUME LockInv, NEW p \in Processes, Cancel(p)
  PROVE  LockInv'
  BY DEF Cancel, Stop, Enter, LockInv, LockTypes, HeldWhileConnected, HeldByOne, CriticalOwns,
         Connected, Critical, Running, PCs

LEMMA LockInvInit == Init => LockInv
  BY DEF Init, LockInv, LockTypes, HeldWhileConnected, HeldByOne, CriticalOwns, Connected, Critical,
         Running, PCs

LEMMA LockInvStep ==
  ASSUME LockInv, [Next]_vars
  PROVE  LockInv'
  <1>1. ASSUME NEW p \in Processes, Step(p)
        PROVE  LockInv'
    <2>1. CASE CheckDrift(p) \/ InspectMarkers(p) \/ InspectRows(p)
      BY <2>1, OutsideStepsLock
    <2>2. CASE ReleaseStale(p) \/ GetLock(p)
      BY <2>2, AcquireLockStep
    <2>3. CASE \/ Check(p) \/ CheckSync(p) \/ FinishSync(p) \/ Mark(p) \/ Progress(p) \/ Statement(p)
               \/ WriteRow(p) \/ Unmark(p) \/ Fail(p)
      <3>1. pc[p] \in Critical
        BY <2>3, LockedMoves
      <3>2. CASE \E at \in Critical : Moves(p, at) /\ UNCHANGED <<owner, held>>
        BY <3>1, <3>2, CriticalStep
      <3>3. CASE \E at \in {"idle", "run"} : Moves(p, at) /\ Unlock(p)
        BY <3>1, <3>3, UnlockStep DEF PCs, Connected, Critical, Running
      <3> QED BY <2>3, <3>2, <3>3, LockedMoves
    <2> QED BY <1>1, <2>1, <2>2, <2>3 DEF Step
  <1>2. ASSUME NEW c \in Connections, Disconnect(c)
        PROVE  LockInv'
    BY <1>2 DEF Disconnect, Free, LockInv, LockTypes, HeldWhileConnected, HeldByOne, CriticalOwns
  <1>3. CASE UNCHANGED vars
    BY <1>3 DEF vars, LockInv, LockTypes, HeldWhileConnected, HeldByOne, CriticalOwns
  <1> QED BY <1>1, <1>2, <1>3, OutsideStepsLock, CancelStep DEF Next

LEMMA LockInvImplies == LockInv => MigrationLock
  BY DEF LockInv, HeldWhileConnected, HeldByOne, CriticalOwns, MigrationLock, Connected

\* At most one process is between GET_LOCK and RELEASE_LOCK, whatever sessions
\* dropped calls left the lock with (mysql.rs, acquire_lock and finish_lock).
THEOREM OneAtATime == Spec => []MigrationLock
  BY LockInvInit, LockInvStep, LockInvImplies, PTL DEF Spec

-----------------------------------------------------------------------------
(* Types and markers *)

\* What the manager has established of a call by the time it gets there.
Fits(at, j) ==
    /\ at \in {"drift", "inspect", "inspect_rows", "prepare", "sync"} => j.todo = {}
    /\ at \in {"prepare", "sync", "get_lock", "check"} /\ j.todo = {} => j.inspected \subseteq j.list
    /\ at \in {"get_lock", "check"} => IsFiniteSet(j.todo)
    /\ at \in Running \cup {"run"} => j.todo # {} /\ IsFiniteSet(j.todo)

JobInv ==
    /\ pc \in [Processes -> PCs]
    /\ job \in [Processes -> Job]
    /\ \A p \in Processes : Fits(pc[p], job[p])

DataTypes ==
    /\ rows \subseteq Migrations
    /\ schema \subseteq Effects(Migrations)
    /\ markers \in [Migrations -> Marker \cup {NoMarker}]
    /\ tables \in BOOLEAN
    /\ step \in [Processes -> 0..Statements]

\* A process that is to run a statement has one left, and its marker is there.
Fresh(p) ==
    /\ pc[p] \in {"check", "mark", "progress", "statement"} => step[p] < Statements
    /\ pc[p] \in {"progress", "statement"} => markers[Current(p)] # NoMarker
OwnMarker(p) ==
    pc[p] \in Running => Marked \subseteq {Current(p)} /\ (pc[p] = "mark" => Marked = {})
DataInv == DataTypes /\ \A p \in Processes : Fresh(p) /\ OwnMarker(p)

\* Only the lock makes it inductive: a second process under it could put its marker
\* next to that of the first.
IInv == LockInv /\ JobInv /\ DataInv

LEMMA IInvImplies == IInv => TypeOK /\ NoGuessedRetry
  BY DEF IInv, LockInv, LockTypes, JobInv, DataInv, DataTypes, OwnMarker, TypeOK, NoGuessedRetry

LEMMA MovedJobInv ==
  ASSUME JobInv, NEW p \in Processes, NEW at \in PCs, NEW j \in Job, Moved(p, at, j), Fits(at, j)
  PROVE  JobInv' /\ Others(p) /\ pc'[p] = at /\ job'[p] = j
  BY DEF JobInv, Moved, Others

LEMMA GotoJobInv ==
  ASSUME JobInv, NEW p \in Processes, NEW at \in PCs, Goto(p, at), Fits(at, job[p])
  PROVE  JobInv' /\ Others(p) /\ pc'[p] = at /\ job'[p] = job[p]
  BY DEF JobInv, Goto, Others

LEMMA StopJobInv ==
  ASSUME JobInv, NEW p \in Processes, Stop(p)
  PROVE  JobInv' /\ Others(p) /\ pc'[p] = "idle"
  <1>1. Moved(p, "idle", NoJob)
    BY StopMoves
  <1>2. "idle" \in PCs /\ Fits("idle", NoJob)
    BY DEF PCs, Fits, Running
  <1> QED BY <1>1, <1>2, NoJobType, MovedJobInv

\* Out of the backend: the call is over, or a migration that was selected is next.
LEMMA LeavesJobInv ==
  ASSUME JobInv, NEW p \in Processes, rows \subseteq Migrations,
         \/ Advance(p) /\ job[p].todo # {} /\ IsFiniteSet(job[p].todo)
         \/ Prepared(p, rows) /\ Validated(p)
  PROVE  JobInv' /\ Others(p) /\ pc'[p] \in {"idle", "run"}
  <1>1. job[p] \in Job /\ job[p].todo \subseteq Migrations
    BY DEF JobInv, Job
  <1>2. Moved(p, "idle", NoJob) \/ \E j \in Job : Moved(p, "run", j) /\ Runs(j)
    BY <1>1, AdvanceMoves, PreparedMoves DEF Selected
  <1>3. CASE Moved(p, "idle", NoJob)
    BY <1>3, NoJobType, MovedJobInv DEF PCs, Fits, Running
  <1>4. CASE \E j \in Job : Moved(p, "run", j) /\ Runs(j)
    <2>1. PICK j \in Job : Moved(p, "run", j) /\ Runs(j)
      BY <1>4
    <2>2. "run" \in PCs /\ Fits("run", j)
      BY <2>1 DEF PCs, Fits, Runs
    <2> QED BY <2>1, <2>2, MovedJobInv
  <1> QED BY <1>2, <1>3, <1>4

LEMMA SameCurrent ==
  ASSUME NEW p, job'[p] = job[p]
  PROVE  Current(p)' = Current(p)
  BY DEF Current

\* Under the lock there is nobody else.
LEMMA Alone ==
  ASSUME LockInv, NEW p \in Processes, NEW q \in Processes, pc[p] \in Critical, pc[q] \in Critical
  PROVE  p = q
  BY LockInvImplies DEF MigrationLock

\* A step that writes neither rows nor schema nor markers, and does not begin to run.
LEMMA QuietData ==
  ASSUME DataInv, NEW p \in Processes, Others(p), UNCHANGED <<rows, schema, markers>>, tables' \in BOOLEAN,
         NEW n \in 0..Statements, step' = [step EXCEPT ![p] = n],
         pc'[p] \notin Running, pc'[p] = "check" => n < Statements
  PROVE  DataInv'
  <1>1. DataTypes'
    BY DEF DataInv, DataTypes
  <1>2. Fresh(p)' /\ OwnMarker(p)'
    BY DEF DataInv, DataTypes, Fresh, OwnMarker, Running
  <1>3. ASSUME NEW q \in Processes \ {p}
        PROVE  Fresh(q)' /\ OwnMarker(q)'
    <2>1. pc'[q] = pc[q] /\ step'[q] = step[q] /\ Current(q)' = Current(q) /\ Marked' = Marked
      BY <1>3, SameCurrent DEF Others, DataInv, DataTypes, Marked
    <2> QED BY <2>1 DEF DataInv, Fresh, OwnMarker
  <1> QED BY <1>1, <1>2, <1>3 DEF DataInv

\* A step under the lock: only the process that has it can be running.
LEMMA LockedData ==
  ASSUME LockInv, NEW p \in Processes, pc[p] \in Critical, Others(p),
         DataTypes', Fresh(p)', OwnMarker(p)'
  PROVE  DataInv'
  <1>1. \A q \in Processes \ {p} : pc'[q] \notin Critical
    BY Alone DEF Others
  <1>2. \A q \in Processes \ {p} : Fresh(q)' /\ OwnMarker(q)'
    BY <1>1 DEF Fresh, OwnMarker, Critical, Running
  <1> QED BY <1>2 DEF DataInv
LEMMA OutsideStepInv ==
  ASSUME IInv, NEW p \in Processes, Call(p) \/ CheckDrift(p) \/ InspectMarkers(p) \/ InspectRows(p)
  PROVE  JobInv' /\ DataInv'
  <1> USE DEF IInv, PCs
  <1>1. JobInv' /\ Others(p) /\ pc'[p] \in {"drift", "inspect", "inspect_rows", "prepare", "sync", "idle"}
    <2>1. CASE \E op \in Operations \ {"sync"}, list \in Artifacts : Start(p, op, list)
      <3>1. PICK at \in {"drift", "inspect"}, j \in Job : Moved(p, at, j) /\ j.todo = {}
        BY <2>1, StartMoves
      <3>2. Fits(at, j)
        BY <3>1 DEF Fits, Running
      <3> QED BY <3>1, <3>2, MovedJobInv
    <2>2. CASE "sync" \in Operations /\ Enter(p, "sync", [NoJob EXCEPT !.op = "sync"])
      <3> DEFINE j == [NoJob EXCEPT !.op = "sync"]
      <3>1. j \in Job /\ Moved(p, "sync", j) /\ Fits("sync", j)
        BY <2>2 DEF NoJob, Job, Enter, Moved, Fits, Running
      <3> QED BY <3>1, MovedJobInv
    <2>3. CASE CheckDrift(p)
      <3>1. pc[p] = "drift" /\ (Goto(p, "inspect") \/ Stop(p))
        BY <2>3 DEF CheckDrift
      <3>2. Fits("inspect", job[p])
        BY <3>1 DEF JobInv, Fits, Running
      <3> QED BY <3>1, <3>2, GotoJobInv, StopJobInv
    <2>4. CASE InspectMarkers(p)
      <3>1. pc[p] = "inspect" /\ (Goto(p, "inspect_rows") \/ Stop(p))
        BY <2>4 DEF InspectMarkers
      <3>2. Fits("inspect_rows", job[p])
        BY <3>1 DEF JobInv, Fits, Running
      <3> QED BY <3>1, <3>2, GotoJobInv, StopJobInv
    <2>5. CASE InspectRows(p)
      <3>1. job[p] \in Job /\ rows \in SUBSET Migrations /\ job[p].todo = {}
        BY <2>5 DEF InspectRows, JobInv, DataInv, DataTypes, Fits
      <3>2. \/ Moved(p, "idle", NoJob)
            \/ \E j \in Job : Moved(p, "prepare", j) /\ j.inspected \subseteq j.list /\ j.todo = {}
        BY <2>5, <3>1, InspectedMoves DEF InspectRows
      <3>3. CASE Moved(p, "idle", NoJob)
        BY <3>3, NoJobType, MovedJobInv DEF Fits, Running
      <3>4. CASE \E j \in Job : Moved(p, "prepare", j) /\ j.inspected \subseteq j.list /\ j.todo = {}
        <4>1. PICK j \in Job : Moved(p, "prepare", j) /\ j.inspected \subseteq j.list /\ j.todo = {}
          BY <3>4
        <4>2. Fits("prepare", j)
          BY <4>1 DEF Fits, Running
        <4> QED BY <4>1, <4>2, MovedJobInv
      <3> QED BY <3>2, <3>3, <3>4
    <2> QED BY <2>1, <2>2, <2>3, <2>4, <2>5 DEF Call
  <1>2. UNCHANGED <<database, step>>
    BY DEF Call, CheckDrift, InspectMarkers, InspectRows
  <1>3. step[p] \in 0..Statements /\ step' = [step EXCEPT ![p] = step[p]] /\ tables' \in BOOLEAN
        /\ UNCHANGED <<rows, schema, markers>>
    BY <1>2 DEF DataInv, DataTypes, database
  <1> QED BY <1>1, <1>3, QuietData DEF Running

\* Towards the lock, and out of it without having run a migration.
LEMMA QuietStepInv ==
  ASSUME IInv, NEW p \in Processes,
         ReleaseStale(p) \/ GetLock(p) \/ CheckSync(p) \/ FinishSync(p) \/ Fail(p) \/ Cancel(p)
  PROVE  JobInv' /\ DataInv'
  <1> USE DEF IInv, PCs
  <1>1. CASE ReleaseStale(p)
    <2>1. pc[p] \in {"prepare", "run", "sync"} /\ Goto(p, "get_lock")
      BY <1>1 DEF ReleaseStale
    <2>2. Fits("get_lock", job[p])
      <3>1. Fits(pc[p], job[p])
        BY DEF JobInv
      <3>2. IsFiniteSet({})
        BY FS_EmptySet
      <3> QED BY <2>1, <3>1, <3>2 DEF Fits, Running
    <2>3. JobInv' /\ Others(p) /\ pc'[p] = "get_lock"
      BY <2>1, <2>2, GotoJobInv
    <2>4. step[p] \in 0..Statements /\ step' = [step EXCEPT ![p] = step[p]] /\ tables' \in BOOLEAN
          /\ UNCHANGED <<rows, schema, markers>>
      BY <1>1 DEF ReleaseStale, DataInv, DataTypes, database
    <2> QED BY <2>3, <2>4, QuietData DEF Running
  <1>2. CASE GetLock(p)
    <2>1. pc[p] = "get_lock" /\ (Goto(p, "check") \/ Stop(p))
      BY <1>2 DEF GetLock
    <2>2. Fits("check", job[p])
      BY <2>1 DEF JobInv, Fits, Running
    <2>3. JobInv' /\ Others(p) /\ pc'[p] \in {"check", "idle"}
      BY <2>1, <2>2, GotoJobInv, StopJobInv
    <2>4. 0 \in 0..Statements /\ 0 < Statements /\ step' = [step EXCEPT ![p] = 0] /\ tables' \in BOOLEAN
          /\ UNCHANGED <<rows, schema, markers>>
      BY <1>2, StatementsAssumption DEF GetLock, DataInv, DataTypes, database
    <2> QED BY <2>3, <2>4, QuietData DEF Running
  <1>3. CASE CheckSync(p) \/ FinishSync(p) \/ Fail(p) \/ Cancel(p)
    <2>1. (pc[p] = "check" /\ Goto(p, "syncing")) \/ Stop(p)
      BY <1>3 DEF CheckSync, FinishSync, Fail, Cancel
    <2>2. Fits("syncing", job[p])
      BY DEF Fits, Running
    <2>3. JobInv' /\ Others(p) /\ pc'[p] \in {"syncing", "idle"}
      BY <2>1, <2>2, GotoJobInv, StopJobInv
    <2>4. step[p] \in 0..Statements /\ step' = [step EXCEPT ![p] = step[p]] /\ tables' \in BOOLEAN
          /\ UNCHANGED <<rows, schema, markers>>
      BY <1>3 DEF CheckSync, FinishSync, Fail, Cancel, DataInv, DataTypes, database
    <2> QED BY <2>3, <2>4, QuietData DEF Running
  <1> QED BY <1>1, <1>2, <1>3

\* A process that runs has a migration to work on.
LEMMA RunningHasCurrent ==
  ASSUME IInv, NEW p \in Processes, pc[p] \in Running
  PROVE  Current(p) \in Migrations /\ IsFiniteSet(job[p].todo) /\ job[p].todo # {}
  <1>1. job[p].todo \in SUBSET Migrations /\ IsFiniteSet(job[p].todo) /\ job[p].todo # {}
    BY DEF IInv, JobInv, Job, Fits
  <1> QED BY <1>1, CurrentIsSelected

\* ensure_no_recovery_marker: a migration is begun only if there is no marker.
LEMMA CheckStepInv ==
  ASSUME IInv, NEW p \in Processes, Check(p)
  PROVE  JobInv' /\ DataInv'
  <1> USE DEF IInv, PCs
  <1>1. /\ pc[p] = "check" /\ tables' \in BOOLEAN /\ UNCHANGED <<rows, schema, markers>>
        /\ step[p] \in 0..Statements /\ step' = [step EXCEPT ![p] = step[p]]
    BY DEF Check, DataInv, DataTypes
  <1>2. /\ IsFiniteSet(job[p].todo)
        /\ job[p].todo = {} => Validated(p)
    BY <1>1 DEF JobInv, Fits, Validated
  <1>3. \/ Stop(p)
        \/ Preparing(p) /\ Prepared(p, rows)
        \/ ~Preparing(p) /\ Advance(p)
        \/ ~Interrupted /\ ~Preparing(p) /\ \E at \in {"mark", "row"} : Goto(p, at)
    BY DEF Check
  <1>4. job[p].op # "sync"
    BY DEF Check
  <1>5. CASE Stop(p) \/ (Preparing(p) /\ Prepared(p, rows)) \/ (~Preparing(p) /\ Advance(p))
    <2>1. JobInv' /\ Others(p) /\ pc'[p] \in {"idle", "run"}
      BY <1>2, <1>4, <1>5, StopJobInv, LeavesJobInv DEF Preparing, DataInv, DataTypes
    <2> QED BY <1>1, <2>1, QuietData DEF Running
  <1>6. CASE ~Interrupted /\ ~Preparing(p) /\ \E at \in {"mark", "row"} : Goto(p, at)
    <2>1. PICK at \in {"mark", "row"} : Goto(p, at)
      BY <1>6
    <2>2. Fits(at, job[p])
      BY <1>2, <1>4, <1>6 DEF Preparing, Fits, Running
    <2>3. JobInv' /\ Others(p) /\ pc'[p] = at
      BY <2>1, <2>2, GotoJobInv
    <2>4. DataTypes'
      BY <1>1 DEF DataInv, DataTypes
    <2>5. Fresh(p)'
      BY <1>1, <2>3 DEF DataInv, DataTypes, Fresh
    <2>6. OwnMarker(p)'
      BY <1>1, <1>6 DEF OwnMarker, Marked, Interrupted
    <2> QED BY <1>1, <2>3, <2>4, <2>5, <2>6, LockedData DEF Critical
  <1> QED BY <1>3, <1>5, <1>6
\* create_run_marker, execute_with_progress: the marker and the statements under it.
LEMMA RunStepInv ==
  ASSUME IInv, NEW p \in Processes, Mark(p) \/ Progress(p) \/ Statement(p)
  PROVE  JobInv' /\ DataInv'
  <1> USE DEF IInv, PCs
  <1>1. pc[p] \in {"mark", "progress", "statement"}
    BY DEF Mark, Progress, Statement
  <1>2. Current(p) \in Migrations /\ Fits(pc[p], job[p])
    BY <1>1, RunningHasCurrent DEF JobInv, Running
  <1>3. \A at \in Running : Fits(at, job[p])
    BY <1>1, <1>2 DEF Fits, Running
  <1>4. step[p] \in 0..(Statements - 1) /\ Marked \subseteq {Current(p)}
    BY <1>1, StatementsAssumption DEF DataInv, DataTypes, Fresh, OwnMarker, Running
  <1>5. CASE Mark(p)
    <2>1. JobInv' /\ Others(p) /\ pc'[p] = "progress" /\ Current(p)' = Current(p)
      BY <1>3, <1>5, GotoJobInv, SameCurrent DEF Mark, Running
    <2>2. markers' = [markers EXCEPT ![Current(p)] = [dir |-> Direction(p), at |-> 0]]
          /\ UNCHANGED <<rows, schema, tables, step>>
      BY <1>5 DEF Mark
    <2>3. [dir |-> Direction(p), at |-> 0] \in Marker /\ [dir |-> Direction(p), at |-> 0] # NoMarker
      BY StatementsAssumption DEF Direction, Marker, NoMarker
    <2>4. DataTypes'
      BY <2>2, <2>3 DEF DataInv, DataTypes
    <2>5. Fresh(p)' /\ OwnMarker(p)'
      BY <1>2, <1>4, <2>1, <2>2, <2>3, StatementsAssumption
         DEF DataInv, DataTypes, Fresh, OwnMarker, Marked
    <2> QED BY <1>1, <2>1, <2>4, <2>5, LockedData DEF Critical, Running
  <1>6. CASE Progress(p)
    <2>1. JobInv' /\ Others(p) /\ pc'[p] = "statement" /\ Current(p)' = Current(p)
      BY <1>3, <1>6, GotoJobInv, SameCurrent DEF Progress, Running
    <2>2. markers' = [markers EXCEPT ![Current(p)].at = step[p]]
          /\ UNCHANGED <<rows, schema, tables, step>>
      BY <1>6 DEF Progress
    <2>3. markers[Current(p)] \in Marker
      BY <1>2, <1>6 DEF Progress, DataInv, DataTypes, Fresh
    <2>4. [markers[Current(p)] EXCEPT !.at = step[p]] \in Marker
      BY <1>4, <2>3 DEF Marker
    <2>5. \A x \in Marker : x # NoMarker
      BY DEF Marker, NoMarker
    <2>6. DataTypes'
      BY <2>2, <2>4 DEF DataInv, DataTypes
    <2>7. markers'[Current(p)] # NoMarker /\ \A m \in Migrations \ {Current(p)} : markers'[m] = markers[m]
      BY <1>2, <2>2, <2>4, <2>5 DEF DataInv, DataTypes
    <2>8. Fresh(p)' /\ OwnMarker(p)'
      BY <1>4, <2>1, <2>2, <2>7, StatementsAssumption DEF DataInv, DataTypes, Fresh, OwnMarker, Marked
    <2> QED BY <1>1, <2>1, <2>6, <2>8, LockedData DEF Critical, Running
  <1>7. CASE Statement(p)
    <2>1. /\ UNCHANGED <<rows, markers, tables>> /\ step' = [step EXCEPT ![p] = @ + 1]
          /\ Goto(p, IF step'[p] < Statements THEN "progress" ELSE "row")
          /\ markers[Current(p)] # NoMarker
      BY <1>7 DEF Statement, DataInv, Fresh
    <2>2. step'[p] = step[p] + 1
      BY <2>1 DEF DataInv, DataTypes
    <2>3. /\ JobInv' /\ Others(p) /\ Current(p)' = Current(p)
          /\ pc'[p] = IF step'[p] < Statements THEN "progress" ELSE "row"
      BY <1>3, <2>1, GotoJobInv, SameCurrent DEF Running
    <2>4. <<Current(p), step[p] + 1>> \in Effects(Migrations)
      BY <1>2, <1>4, StatementsAssumption DEF Effects
    <2>5. schema' \subseteq Effects(Migrations)
      BY <1>7, <2>4 DEF Statement, DataInv, DataTypes
    <2>6. DataTypes'
      BY <1>4, <2>1, <2>5, StatementsAssumption DEF DataInv, DataTypes
    <2>7. Fresh(p)' /\ OwnMarker(p)'
      BY <1>4, <2>1, <2>3 DEF Fresh, OwnMarker, Marked
    <2> QED BY <1>1, <2>3, <2>6, <2>7, LockedData DEF Critical, Running
  <1> QED BY <1>5, <1>6, <1>7

\* The row, then delete_run_marker and out of the lock.
LEMMA RecordStepInv ==
  ASSUME IInv, NEW p \in Processes, WriteRow(p) \/ Unmark(p)
  PROVE  JobInv' /\ DataInv'
  <1> USE DEF IInv, PCs
  <1>1. pc[p] \in {"row", "unmark"}
    BY DEF WriteRow, Unmark
  <1>2. Current(p) \in Migrations /\ job[p].todo # {} /\ IsFiniteSet(job[p].todo) /\ Fits(pc[p], job[p])
    BY <1>1, RunningHasCurrent DEF JobInv, Running
  <1>3. Fits("unmark", job[p])
    BY <1>1, <1>2 DEF Fits, Running
  <1>4. DataTypes'
    BY <1>2 DEF WriteRow, Unmark, DataInv, DataTypes
  <1>5. CASE Advance(p)
    <2>1. JobInv' /\ Others(p) /\ pc'[p] \in {"idle", "run"}
      BY <1>2, <1>5, LeavesJobInv DEF DataInv, DataTypes
    <2>2. Fresh(p)' /\ OwnMarker(p)'
      BY <2>1 DEF Fresh, OwnMarker, Running
    <2> QED BY <1>1, <1>4, <2>1, <2>2, LockedData DEF Critical, Running
  <1>6. CASE WriteRow(p) /\ Goto(p, "unmark")
    <2>1. JobInv' /\ Others(p) /\ pc'[p] = "unmark" /\ Current(p)' = Current(p)
      BY <1>3, <1>6, GotoJobInv, SameCurrent
    <2>2. Marked' = Marked /\ Marked \subseteq {Current(p)}
      BY <1>1, <1>6 DEF WriteRow, DataInv, OwnMarker, Marked, Running
    <2>3. Fresh(p)' /\ OwnMarker(p)'
      BY <2>1, <2>2 DEF Fresh, OwnMarker
    <2> QED BY <1>1, <1>4, <2>1, <2>3, LockedData DEF Critical, Running
  <1> QED BY <1>5, <1>6 DEF WriteRow, Unmark

LEMMA IInvInit == Init => IInv
  <1> SUFFICES ASSUME Init PROVE IInv
    OBVIOUS
  <1>1. LockInv
    BY LockInvInit
  <1>2. JobInv
    BY NoJobType DEF Init, JobInv, Fits, PCs, Running
  <1>3. schema \subseteq Effects(Migrations)
    BY BaselinesAssumption DEF Init, Effects
  <1>4. DataTypes
    <2>1. 0 \in 0..Statements
      BY StatementsAssumption
    <2>2. step \in [Processes -> 0..Statements]
      BY <2>1 DEF Init
    <2>3. markers \in [Migrations -> Marker \cup {NoMarker}]
      BY DEF Init
    <2> QED BY <1>3, <2>2, <2>3 DEF Init, DataTypes
  <1>5. DataInv
    BY <1>4 DEF Init, DataInv, Fresh, OwnMarker, Running
  <1> QED BY <1>1, <1>2, <1>5 DEF IInv

LEMMA IInvStep ==
  ASSUME IInv, [Next]_vars
  PROVE  IInv'
  <1>1. LockInv'
    BY LockInvStep DEF IInv
  <1>2. ASSUME NEW p \in Processes, Call(p) \/ Step(p) \/ Cancel(p)
        PROVE  JobInv' /\ DataInv'
    BY <1>2, OutsideStepInv, QuietStepInv, CheckStepInv, RunStepInv, RecordStepInv DEF Step
  <1>3. CASE (\E c \in Connections : Disconnect(c)) \/ UNCHANGED vars
    <2>1. UNCHANGED <<pc, job, rows, schema, markers, tables, step>>
      BY <1>3 DEF Disconnect, vars, database
    <2>2. \A p \in Processes : Current(p)' = Current(p)
      BY <2>1, SameCurrent
    <2>3. JobInv' /\ DataTypes'
      BY <2>1 DEF IInv, JobInv, DataInv, DataTypes
    <2>4. Marked' = Marked
      BY <2>1 DEF Marked
    <2>5. \A p \in Processes : Fresh(p)' /\ OwnMarker(p)'
      BY <2>1, <2>2, <2>4 DEF IInv, DataInv, Fresh, OwnMarker
    <2> QED BY <1>1, <2>3, <2>5 DEF IInv, DataInv
  <1> QED BY <1>1, <1>2, <1>3 DEF Next, IInv

\* The states of the MySQL backend are well typed: each statement index is one of the
\* migration, each marker belongs to a migration (mysql.rs).
THEOREM TypeCorrect == Spec => []TypeOK
  BY IInvInit, IInvStep, IInvImplies, PTL DEF Spec

\* No statement runs next to the marker of an interrupted run, wherever the call that
\* left it was dropped (mysql.rs, ensure_no_recovery_marker).
THEOREM NoRetryOnAGuess == Spec => []NoGuessedRetry
  BY IInvInit, IInvStep, IInvImplies, PTL DEF Spec

-----------------------------------------------------------------------------
(***************************************************************************)
(* The markers tell the truth: a migration without one is done or absent,  *)
(* whatever calls failed or were dropped between any two statements, and a *)
(* marker says how far its run came.                                       *)
(*                                                                         *)
(* It needs one thing of the callers: no rollback while a baseline is      *)
(* adopted, for the adoption compares the live schema with its snapshot    *)
(* long before it takes the lock.                                          *)
(***************************************************************************)

AdoptionsUndisturbed == {"adopt", "rollback"} \in Apart

-----------------------------------------------------------------------------
(* The inductive invariant *)

\* A database that has a baseline's schema and an empty ledger, untouched so far.
Unadopted(b) == b \in Baselines \ Marked /\ rows = {} /\ schema = Effects({b})

\* Nothing is selected in it but what begins with the baseline.
BaselineFirst ==
    \A b \in Baselines : Unadopted(b) =>
        \A p \in Processes :
            /\ job[p].inspected = {}
            /\ job[p].todo # {} => job[p].op \in {"apply", "adopt"} /\ job[p].todo = job[p].list

\* What the adoption has compared is still so.
StillAdoptable ==
    \A p \in Processes : pc[p] \notin {"idle", "drift"} /\ job[p].op = "adopt" =>
        Effects({First(job[p].list)}) \subseteq schema
NotBoth == Separate("adopt", "rollback")

ManagerInv == BaselineFirst /\ StillAdoptable /\ NotBoth

Done(p, i) == <<Current(p), i>> \in schema <=> ~Rollback(p)
\* The run of an apply on what the database has had all along: its first statement
\* fails.
Blocked(p) ==
    /\ ~Rollback(p) /\ step[p] = 0 /\ rows = {}
    /\ Current(p) \in Baselines /\ schema = Effects({Current(p)})

\* How far a process is with its migration, and what its marker says of it.
Work(p) ==
    LET m == Current(p) IN
    /\ pc[p] \in {"check", "mark"} => step[p] = 0
    /\ pc[p] \in {"mark", "progress", "statement", "row"} => (m \in rows <=> Rollback(p))
    /\ pc[p] \in {"mark", "progress", "statement", "unmark"} => Executes(p)
    /\ pc[p] = "row" /\ ~Executes(p) => Marked = {}
    /\ pc[p] \in {"progress", "statement"} =>
          /\ markers[m].dir = Direction(p)
          /\ pc[p] = "statement" => markers[m].at = step[p]
          /\ pc[p] = "progress" => markers[m].at + 1 = step[p] \/ (markers[m].at = 0 /\ step[p] = 0)
          /\ (\A i \in 1..Statements : Done(p, i) <=> i <= step[p]) \/ Blocked(p)
    /\ (pc[p] = "row" /\ Executes(p)) \/ pc[p] = "unmark" =>
          /\ markers[m].dir = Direction(p) /\ m \in Marked
          /\ markers[m].at + 1 = Statements
          /\ \A i \in 1..Statements : Done(p, i)
    /\ pc[p] = "unmark" => (m \in rows <=> ~Rollback(p))

RecoveryInv ==
    /\ IInv /\ ManagerInv
    /\ DoubtIsMarked /\ MarkerIsExact /\ \A p \in Processes : Work(p)

-----------------------------------------------------------------------------
(* Steps that leave the database alone *)

LEMMA SameWork ==
  ASSUME NEW p, job'[p] = job[p]
  PROVE  /\ Current(p)' = Current(p) /\ (Executes(p)' <=> Executes(p))
         /\ (Rollback(p)' <=> Rollback(p)) /\ Direction(p)' = Direction(p)
  BY SameCurrent DEF Executes, Rollback, Direction

LEMMA WorkUnchanged ==
  ASSUME NEW p, job'[p] = job[p], pc'[p] = pc[p], step'[p] = step[p],
         UNCHANGED <<rows, schema, markers>>, Work(p)
  PROVE  Work(p)'
  <1>1. Marked' = Marked
    BY DEF Marked
  <1>2. (\A i \in 1..Statements : Done(p, i)' <=> Done(p, i)) /\ (Blocked(p)' <=> Blocked(p))
    BY SameWork DEF Done, Blocked
  <1> QED BY <1>1, <1>2, SameWork DEF Work

LEMMA DatabaseUnchanged ==
  ASSUME DoubtIsMarked, MarkerIsExact, UNCHANGED <<rows, schema, markers>>
  PROVE  DoubtIsMarked' /\ MarkerIsExact'
  BY DEF DoubtIsMarked, MarkerIsExact, Marked, Complete, Absent

\* A process that is not running, and does not begin to.
LEMMA QuietWork ==
  ASSUME RecoveryInv, NEW p \in Processes, Others(p), UNCHANGED <<rows, schema, markers>>,
         \A q \in Processes \ {p} : step'[q] = step[q],
         pc'[p] \notin Running, pc'[p] = "check" => step'[p] = 0
  PROVE  DoubtIsMarked' /\ MarkerIsExact' /\ \A q \in Processes : Work(q)'
  <1>1. DoubtIsMarked' /\ MarkerIsExact'
    BY DatabaseUnchanged DEF RecoveryInv
  <1>2. Work(p)'
    BY DEF Work, Running
  <1>3. \A q \in Processes \ {p} : Work(q)'
    BY WorkUnchanged DEF Others, RecoveryInv
  <1> QED BY <1>1, <1>2, <1>3

\* A step under the lock.
LEMMA LockedWork ==
  ASSUME RecoveryInv, NEW p \in Processes, pc[p] \in Critical, Others(p), Work(p)'
  PROVE  \A q \in Processes : Work(q)'
  <1>1. \A q \in Processes \ {p} : pc'[q] \notin Critical
    BY Alone DEF Others, RecoveryInv, IInv
  <1> QED BY <1>1 DEF Work, Critical, Running

-----------------------------------------------------------------------------
(* What a step does to the call of its process *)

\* It is through with a migration, which it has run or found in the ledger.
Proceeds(p) == pc[p] \in {"check", "row", "unmark"} /\ Advance(p) /\ Advances(p)

LEMMA JobForms ==
  ASSUME IInv, NEW p \in Processes, Call(p) \/ Step(p) \/ Cancel(p)
  PROVE  /\ Begins(p) \/ Selects(p, rows) \/ Inspects(p, rows) \/ Proceeds(p) \/ Ends(p) \/ Keeps(p)
         /\ Others(p)
  <1>1. JobTyped(PCs)
    BY DEF IInv, JobInv, JobTyped
  <1>2. \A at : Goto(p, at) /\ pc[p] # "idle" => Keeps(p) /\ Others(p)
    BY <1>1, GotoForm
  <1>3. Stop(p) => Ends(p) /\ Others(p)
    BY <1>1, StopForm
  <1>5. CASE Call(p)
    <2>1. CASE \E op \in Operations \ {"sync"}, list \in Artifacts : Start(p, op, list)
      BY <1>1, <2>1, StartForm
    <2>2. CASE pc[p] = "idle" /\ MayCall("sync") /\ Enter(p, "sync", [NoJob EXCEPT !.op = "sync"])
      <3> DEFINE j == [NoJob EXCEPT !.op = "sync"]
      <3>1. j.op = "sync" /\ j.inspected = {} /\ j.todo = {}
        BY DEF NoJob
      <3>2. job'[p] = j /\ Others(p)
        BY <1>1, <2>2, EnterForm
      <3> QED BY <2>2, <3>1, <3>2 DEF Begins
    <2> QED BY <1>5, <2>1, <2>2 DEF Call
  <1>6. CASE CheckDrift(p) \/ InspectMarkers(p)
    BY <1>2, <1>3, <1>6 DEF CheckDrift, InspectMarkers
  <1>7. CASE InspectRows(p)
    BY <1>1, <1>7, InspectedForm DEF InspectRows
  <1>8. CASE ReleaseStale(p) \/ GetLock(p)
    BY <1>2, <1>3, <1>8 DEF ReleaseStale, GetLock
  <1>9. CASE CheckSync(p) \/ FinishSync(p) \/ Fail(p) \/ Cancel(p)
    BY <1>2, <1>3, <1>9 DEF CheckSync, FinishSync, Fail, Cancel
  <1>10. CASE Mark(p) \/ Progress(p) \/ Statement(p)
    BY <1>2, <1>10 DEF Mark, Progress, Statement
  <1>11. Advance(p) /\ pc[p] \in {"check", "row", "unmark"} => (Ends(p) \/ Proceeds(p)) /\ Others(p)
    BY <1>1, AdvanceForm DEF Proceeds
  <1>12. Prepared(p, rows) /\ pc[p] = "check" => (Ends(p) \/ Selects(p, rows)) /\ Others(p)
    BY <1>1, PreparedForm
  <1>13. CASE Check(p)
    <2>1. pc[p] = "check"
      BY <1>13 DEF Check
    <2>2. Stop(p) \/ Prepared(p, rows) \/ Advance(p) \/ \E at \in {"mark", "row"} : Goto(p, at)
      BY <1>13 DEF Check
    <2> QED BY <1>2, <1>3, <1>11, <1>12, <2>1, <2>2
  <1>14. CASE WriteRow(p) \/ Unmark(p)
    BY <1>2, <1>11, <1>14 DEF WriteRow, Unmark
  <1> QED BY <1>5, <1>6, <1>7, <1>8, <1>9, <1>10, <1>13, <1>14 DEF Step

-----------------------------------------------------------------------------
(* The manager's part *)

LEMMA Statement1 == 1 \in 1..Statements
  BY StatementsAssumption

\* Only statements of a migration, its row and its marker change the database.
LEMMA DatabaseForms ==
  ASSUME NEW p \in Processes, Call(p) \/ Step(p) \/ Cancel(p)
  PROVE  \/ UNCHANGED <<rows, schema, markers>>
         \/ Mark(p) \/ Progress(p) \/ Statement(p) \/ WriteRow(p) \/ Unmark(p)
  BY DEF Call, Step, CheckDrift, InspectMarkers, InspectRows, ReleaseStale, GetLock, Check, CheckSync,
         FinishSync, Fail, Cancel, database

\* What is left behind of a baseline is not found untouched again.
LEMMA UnadoptedBefore ==
  ASSUME RecoveryInv, DataInv', NEW p \in Processes, Call(p) \/ Step(p) \/ Cancel(p),
         NEW b \in Baselines, Unadopted(b)'
  PROVE  Unadopted(b)
  <1>1. /\ Work(p) /\ b \in Migrations /\ markers \in [Migrations -> Marker \cup {NoMarker}]
        /\ markers'[b] = NoMarker /\ rows' = {} /\ schema' = Effects({b})
    BY BaselinesAssumption DEF RecoveryInv, IInv, DataInv, DataTypes, Unadopted, Marked
  <1>2. CASE UNCHANGED <<rows, schema, markers>>
    BY <1>2 DEF Unadopted, Marked
  <1>3. CASE Mark(p) \/ Progress(p)
    <2>1. Current(p)' = Current(p) /\ Fresh(p)' /\ pc'[p] \in {"progress", "statement"}
      BY <1>3, SameCurrent DEF Mark, Progress, Goto, DataInv, RecoveryInv, IInv, JobInv
    <2>2. markers'[Current(p)] # NoMarker
      BY <2>1 DEF Fresh
    <2>3. rows' = rows /\ schema' = schema /\ b # Current(p)
      BY <1>1, <1>3, <2>2 DEF Mark, Progress
    <2>4. \A m \in Migrations \ {Current(p)} : markers'[m] = markers[m]
      BY <1>1, <1>3 DEF Mark, Progress
    <2>5. markers[b] = NoMarker
      BY <1>1, <2>3, <2>4
    <2> QED BY <1>1, <2>3, <2>5 DEF Unadopted, Marked
  <1>4. CASE Statement(p)
    <2>1. pc[p] = "statement" /\ UNCHANGED <<rows, markers>>
      BY <1>4 DEF Statement
    <2>2. ~Rollback(p)
      BY <1>1, <2>1 DEF Work
    <2>3. <<Current(p), step[p] + 1>> \in Effects({b}) /\ markers[Current(p)] # NoMarker
      BY <1>1, <1>4, <2>1, <2>2 DEF Statement, RecoveryInv, IInv, DataInv, Fresh
    <2>4. Current(p) = b
      BY <2>3 DEF Effects
    <2> QED BY <1>1, <2>1, <2>3, <2>4
  <1>5. CASE WriteRow(p)
    <2>1. pc[p] = "row" /\ UNCHANGED <<schema, markers>> /\ Rollback(p)
      BY <1>1, <1>5 DEF WriteRow
    <2>2. Executes(p) /\ Current(p) \in rows /\ Current(p) \in Marked
      BY <1>1, <2>1 DEF Work, Executes, Rollback
    <2>3. b \notin Marked /\ b \notin rows
      BY <1>1, <1>5, <2>1, <2>2 DEF Marked, WriteRow
    <2>4. Absent(b)
      BY <1>1, <2>2, <2>3 DEF RecoveryInv, DoubtIsMarked
    <2>5. <<b, 1>> \in Effects({b})
      BY Statement1 DEF Effects
    <2> QED BY <1>1, <2>1, <2>4, <2>5 DEF Absent
  <1>6. CASE Unmark(p)
    <2>1. pc[p] = "unmark" /\ UNCHANGED <<rows, schema>>
      BY <1>6 DEF Unmark
    <2>2. Rollback(p) /\ Done(p, 1)
      BY <1>1, <2>1, Statement1 DEF Work
    <2>3. Current(p) # b
      BY <1>1, <2>1, <2>2, Statement1 DEF Done, Effects
    <2>4. markers[b] = markers'[b]
      BY <1>1, <1>6, <2>3 DEF Unmark
    <2> QED BY <1>1, <2>1, <2>4 DEF Unadopted, Marked
  <1> QED BY <1>2, <1>3, <1>4, <1>5, <1>6, DatabaseForms

\* A call goes on to its next migration only with rows in the ledger, or after a
\* rollback.
LEMMA AdvancesWithRows ==
  ASSUME RecoveryInv, NEW p \in Processes, Call(p) \/ Step(p) \/ Cancel(p), Proceeds(p)
  PROVE  rows # {} \/ rows' # {} \/ Rollback(p)
  <1>1. Work(p) /\ job[p] \in Job
    BY DEF RecoveryInv, IInv, JobInv
  <1>2. CASE pc[p] = "check"
    <2>1. pc'[p] = "run" /\ Advance(p) /\ (Check(p) \/ CheckSync(p))
      BY <1>2 DEF Proceeds, Advances, Call, Start, Step, CheckDrift, InspectMarkers, InspectRows, ReleaseStale, GetLock,
             FinishSync, Mark, Progress, Statement, WriteRow, Unmark, Fail, Cancel, Stop, Enter, RecoveryInv,
             IInv, JobInv
    <2>2. Check(p) /\ job[p].todo # {}
      BY <2>1 DEF CheckSync, Goto, Stop, Enter, RecoveryInv, IInv, JobInv, Advance
    <2>3. ~Preparing(p) /\ ~(\E at \in {"mark", "row"} : Goto(p, at)) /\ ~Stop(p)
      BY <2>1, <2>2 DEF Preparing, Goto, Stop, Enter, RecoveryInv, IInv, JobInv
    <2>4. {r \in rows : r.id = Current(p).id} = {Current(p)}
      BY <2>2, <2>3 DEF Check
    <2> QED BY <2>4
  <1>3. CASE pc[p] = "row"
    BY <1>1, <1>3 DEF Proceeds, Advances, Call, Start, Step, CheckDrift, InspectMarkers, InspectRows, ReleaseStale, GetLock,
             Check, CheckSync, FinishSync, Mark, Progress, Statement, WriteRow, Unmark, Fail, Cancel, Stop,
             Enter, RecoveryInv, IInv, JobInv, Work
  <1>4. CASE pc[p] = "unmark"
    BY <1>1, <1>4 DEF Work
  <1> QED BY <1>2, <1>3, <1>4 DEF Proceeds

LEMMA BaselineFirstStep ==
  ASSUME RecoveryInv, DataInv', NEW p \in Processes, Call(p) \/ Step(p) \/ Cancel(p)
  PROVE  BaselineFirst'
  <1> SUFFICES ASSUME NEW b \in Baselines, Unadopted(b)', NEW q \in Processes
               PROVE  /\ job'[q].inspected = {}
                      /\ job'[q].todo # {} => /\ job'[q].op \in {"apply", "adopt"}
                                              /\ job'[q].todo = job'[q].list
    BY DEF BaselineFirst
  <1>1. Unadopted(b) /\ rows = {} /\ rows' = {}
    BY UnadoptedBefore DEF Unadopted
  <1>2. /\ job[q].inspected = {}
        /\ job[q].todo # {} => job[q].op \in {"apply", "adopt"} /\ job[q].todo = job[q].list
        /\ job[q] \in Job
    BY <1>1 DEF RecoveryInv, ManagerInv, BaselineFirst, IInv, JobInv
  <1>3. CASE q # p
    BY <1>2, <1>3, JobForms DEF Others, RecoveryInv
  <1>4. CASE q = p /\ Selects(p, rows)
    <2>1. job'[p].op = job[p].op /\ job'[p].inspected = {} /\ job'[p].list = job[p].list
      BY <1>2, <1>4 DEF Selects, Job
    <2>2. Selections({}) = {}
      BY DEF Selections
    <2> QED BY <1>1, <1>2, <1>4, <2>1, <2>2 DEF Selects
  <1>5. CASE q = p /\ Inspects(p, rows)
    <2>1. /\ job'[p].op = job[p].op /\ job'[p].inspected = {} /\ job'[p].list = job[p].list
          /\ job'[p].todo = job[p].todo
      BY <1>1, <1>2, <1>5 DEF Inspects, Job
    <2> QED BY <1>2, <1>5, <2>1
  <1>6. CASE q = p /\ Proceeds(p)
    <2>1. Rollback(p)
      BY <1>1, <1>6, AdvancesWithRows
    <2>2. job[p].todo = {}
      BY <1>2, <1>6, <2>1 DEF Rollback
    <2> QED BY <1>2, <1>6, <2>2 DEF Proceeds, Advances, Job
  <1>7. CASE q = p /\ (Begins(p) \/ Ends(p) \/ Keeps(p))
    BY <1>2, <1>7 DEF Begins, Ends, Keeps, NoJob
  <1> QED BY <1>3, <1>4, <1>5, <1>6, <1>7, JobForms DEF RecoveryInv

\* Once a call has begun it keeps its operation and its artifact set.
LEMMA KeptOperation ==
  ASSUME RecoveryInv, NEW p \in Processes, Call(p) \/ Step(p) \/ Cancel(p), pc'[p] # "idle", ~Begins(p)
  PROVE  pc[p] # "idle" /\ job'[p].op = job[p].op /\ job'[p].list = job[p].list
  <1>1. JobTyped(PCs) /\ JobForm(p, rows, rows)
    BY JobForms DEF RecoveryInv, IInv, JobInv, JobTyped, JobForm, Proceeds
  <1> QED BY <1>1, SameOperation

LEMMA NotBothStep ==
  ASSUME AdoptionsUndisturbed, RecoveryInv, NEW p \in Processes, Call(p) \/ Step(p) \/ Cancel(p)
  PROVE  NotBoth'
  <1>1. JobTyped(PCs) /\ JobForm(p, rows, rows) /\ Others(p)
    BY JobForms DEF RecoveryInv, IInv, JobInv, JobTyped, JobForm, Proceeds
  <1> QED BY <1>1, SeparateStep DEF RecoveryInv, ManagerInv, NotBoth, AdoptionsUndisturbed

LEMMA StillAdoptableStep ==
  ASSUME AdoptionsUndisturbed, RecoveryInv, NEW p \in Processes, Call(p) \/ Step(p) \/ Cancel(p)
  PROVE  StillAdoptable'
  <1>1. Others(p) /\ NotBoth /\ NotBoth' /\ StillAdoptable
    BY JobForms, NotBothStep DEF RecoveryInv, ManagerInv
  <1> SUFFICES ASSUME NEW q \in Processes, pc'[q] \notin {"idle", "drift"}, job'[q].op = "adopt"
               PROVE  Effects({First(job'[q].list)}) \subseteq schema'
    BY DEF StillAdoptable
  <1>2. pc[q] # "idle" /\ job[q].op = "adopt" /\ job'[q].list = job[q].list
    <2>1. CASE q # p
      BY <1>1, <2>1 DEF Others
    <2>2. CASE q = p
      <3>1. ~Begins(p)
        BY <2>2 DEF Begins
      <3> QED BY <2>2, <3>1, KeptOperation
    <2> QED BY <2>1, <2>2
  <1>3. Effects({First(job[q].list)}) \subseteq schema
    <2>1. CASE pc[q] # "drift"
      BY <1>1, <1>2, <2>1 DEF StillAdoptable
    <2>2. CASE pc[q] = "drift"
      <3>1. q = p /\ pc'[p] \notin {"idle", "drift"}
        BY <1>1, <2>2 DEF Others
      <3>2. CheckDrift(p) /\ ~Stop(p)
        BY <2>2, <3>1 DEF Call, Start, Step, InspectMarkers, InspectRows, ReleaseStale, GetLock, Check, CheckSync,
           FinishSync, Mark, Progress, Statement, WriteRow, Unmark, Fail, Critical, Running, Cancel, Stop,
           Enter, RecoveryInv, IInv, JobInv
      <3> QED BY <3>1, <3>2 DEF CheckDrift
    <2> QED BY <2>1, <2>2
  <1>4. schema \subseteq schema'
    <2>1. CASE Statement(p)
      <3>1. pc[p] = "statement" /\ pc'[p] # "idle" /\ job'[p] = job[p]
        BY <2>1 DEF Statement, Goto, RecoveryInv, IInv, JobInv
      <3>2. ~Rollback(p)
        BY <1>1, <1>2, <3>1 DEF NotBoth, Separate, Rollback
      <3> QED BY <2>1, <3>2 DEF Statement
    <2>2. CASE ~Statement(p)
      BY <2>2, DatabaseForms DEF Mark, Progress, WriteRow, Unmark
    <2> QED BY <2>1, <2>2
  <1> QED BY <1>2, <1>3, <1>4

LEMMA ManagerStep ==
  ASSUME AdoptionsUndisturbed, RecoveryInv, DataInv', NEW p \in Processes, Call(p) \/ Step(p) \/ Cancel(p)
  PROVE  ManagerInv'
  BY BaselineFirstStep, NotBothStep, StillAdoptableStep DEF ManagerInv

-----------------------------------------------------------------------------
(* The run of a migration *)

\* The lock is taken, or left, without running.
LEMMA QuietStepWork ==
  ASSUME RecoveryInv, NEW p \in Processes,
         \/ Call(p) \/ CheckDrift(p) \/ InspectMarkers(p) \/ InspectRows(p) \/ ReleaseStale(p) \/ GetLock(p)
         \/ CheckSync(p) \/ FinishSync(p) \/ Fail(p) \/ Cancel(p)
  PROVE  DoubtIsMarked' /\ MarkerIsExact' /\ \A q \in Processes : Work(q)'
  <1>1. Others(p) /\ UNCHANGED <<rows, schema, markers>>
    BY JobForms DEF RecoveryInv, Step, Call, CheckDrift, InspectMarkers, InspectRows, ReleaseStale, GetLock,
           CheckSync, FinishSync, Fail, Cancel, database
  <1>2. pc \in [Processes -> PCs] /\ step \in [Processes -> 0..Statements]
    BY DEF RecoveryInv, IInv, JobInv, DataInv, DataTypes
  <1>3. CASE GetLock(p)
    <2>1. pc'[p] \in {"check", "idle"} /\ step' = [step EXCEPT ![p] = 0]
      BY <1>2, <1>3 DEF GetLock, Goto, Stop, Enter
    <2> QED BY <1>1, <1>2, <2>1, QuietWork DEF Running
  <1>4. CASE \/ Call(p) \/ CheckDrift(p) \/ InspectMarkers(p) \/ InspectRows(p) \/ ReleaseStale(p)
             \/ CheckSync(p) \/ FinishSync(p) \/ Fail(p) \/ Cancel(p)
    <2>1. step' = step
      BY <1>4 DEF Call, CheckDrift, InspectMarkers, InspectRows, ReleaseStale, CheckSync, FinishSync, Fail, Cancel
    <2>2. pc'[p] \in {"idle", "drift", "inspect", "inspect_rows", "prepare", "sync", "get_lock", "syncing"}
      BY <1>2, <1>4 DEF Call, Start, CheckDrift, InspectMarkers, InspectRows, Inspected, ReleaseStale,
             CheckSync, FinishSync, Fail, Cancel, Goto, Stop, Enter
    <2> QED BY <1>1, <2>1, <2>2, QuietWork DEF Running
  <1> QED BY <1>3, <1>4

LEMMA CheckStepWork ==
  ASSUME RecoveryInv, NEW p \in Processes, Check(p)
  PROVE  DoubtIsMarked' /\ MarkerIsExact' /\ \A q \in Processes : Work(q)'
  <1>1. Others(p) /\ UNCHANGED <<rows, schema, markers, step>> /\ pc[p] = "check"
    BY JobForms DEF RecoveryInv, Step, Check
  <1>2. pc \in [Processes -> PCs]
    BY DEF RecoveryInv, IInv, JobInv
  <1>3. CASE Stop(p) \/ Prepared(p, rows) \/ Advance(p)
    <2>1. pc'[p] \in {"idle", "run"}
      BY <1>2, <1>3 DEF Prepared, Advance, Run, Stop, Enter
    <2> QED BY <1>1, <2>1, QuietWork DEF Running
  <1>4. CASE /\ ~Interrupted
             /\ IF Rollback(p) THEN IsNewest(Current(p), rows) ELSE {r \in rows : r.id = Current(p).id} = {}
             /\ Goto(p, IF Executes(p) THEN "mark" ELSE "row")
    <2>1. Current(p) \in rows <=> Rollback(p)
      BY <1>4 DEF IsNewest
    <2>2. job'[p] = job[p] /\ pc'[p] = IF Executes(p) THEN "mark" ELSE "row"
      BY <1>2, <1>4 DEF Goto
    <2>3. Marked' = {} /\ step[p] = 0
      BY <1>1, <1>4 DEF Interrupted, Marked, RecoveryInv, Work
    <2>4. Work(p)'
      BY <1>1, <2>1, <2>2, <2>3, SameWork DEF Work
    <2>5. DoubtIsMarked' /\ MarkerIsExact'
      BY <1>1, DatabaseUnchanged DEF RecoveryInv
    <2> QED BY <1>1, <2>4, <2>5, LockedWork DEF Critical
  <1> QED BY <1>3, <1>4 DEF Check

\* On an untouched baseline a process runs nothing but that baseline.
LEMMA CurrentIsBaseline ==
  ASSUME RecoveryInv, NEW p \in Processes, pc[p] \in Running, NEW b \in Baselines, Unadopted(b)
  PROVE  Current(p) = b
  <1>1. job[p] \in Job /\ job[p].todo # {} /\ job[p].todo = job[p].list /\ job[p].op # "rollback"
    BY RunningHasCurrent DEF RecoveryInv, ManagerInv, BaselineFirst, IInv, JobInv
  <1> DEFINE list == job[p].list
  <1>2. list \in Artifacts \ {{}} /\ Current(p) = First(list)
    BY <1>1 DEF Job, Current
  <1>3. b \in list /\ \A m \in list : b.id <= m.id
    BY <1>2, BaselinesAssumption
  <1>4. First(list) \in list /\ \A m \in list : First(list).id <= m.id
    BY <1>3 DEF First
  <1>5. list \subseteq Migrations /\ \A m, n \in list : m.id = n.id => m = n
    BY <1>2, ArtifactsAssumption
  <1>6. b.id \in Nat /\ First(list).id \in Nat /\ b.id <= First(list).id /\ First(list).id <= b.id
    BY <1>3, <1>4, <1>5, MigrationsAssumption
  <1>7. b.id = First(list).id
    BY <1>6
  <1> QED BY <1>2, <1>3, <1>4, <1>5, <1>7

DoubtAt(m) ==
    \/ m \in rows /\ Complete(m)
    \/ m \notin rows /\ Absent(m)
    \/ rows = {} /\ m \in Baselines /\ schema = Effects({m})
ExactAt(m) ==
    \A i \in 1..Statements :
        LET done == (<<m, i>> \in schema) = (markers[m].dir = "apply") IN
        \/ m \in rows /\ markers[m].dir = "apply" /\ Complete(m)
        \/ m \notin rows /\ markers[m].dir = "rollback" /\ Absent(m)
        \/ (i <= markers[m].at => done) /\ (i > markers[m].at + 1 => ~done)
        \/ rows = {} /\ m \in Baselines /\ markers[m].at = 0

\* A run touches its own migration only.
LEMMA RunWork ==
  ASSUME RecoveryInv, NEW p \in Processes, pc[p] \in Running, Others(p), NEW m, m = Current(p),
         Marked' \subseteq {m}, rows' \ {m} = rows \ {m},
         \A x \in Migrations \ {m} : Effects({x}) \cap schema' = Effects({x}) \cap schema,
         m \notin Marked' => DoubtAt(m)', m \in Marked' => ExactAt(m)', Work(p)'
  PROVE  DoubtIsMarked' /\ MarkerIsExact' /\ \A q \in Processes : Work(q)'
  <1>1. Marked \subseteq {m}
    BY DEF RecoveryInv, IInv, DataInv, OwnMarker
  <1>2. ASSUME NEW x \in Migrations \ {m}
        PROVE  DoubtAt(x)'
    <2>1. x \notin Marked /\ ~Unadopted(x)
      BY <1>1, CurrentIsBaseline DEF Unadopted
    <2>2. (x \in rows /\ Complete(x)) \/ (x \notin rows /\ Absent(x))
      BY <2>1 DEF RecoveryInv, DoubtIsMarked, Unadopted
    <2>3. (x \in rows' <=> x \in rows) /\ Effects({x}) \cap schema' = Effects({x}) \cap schema
      OBVIOUS
    <2>4. Complete(x) => Complete(x)'
      BY <2>3 DEF Complete
    <2>5. Absent(x) => Absent(x)'
      BY <2>3 DEF Absent
    <2> QED BY <2>2, <2>3, <2>4, <2>5 DEF DoubtAt
  <1>3. DoubtIsMarked'
    BY <1>2 DEF DoubtIsMarked, DoubtAt
  <1>4. MarkerIsExact'
    BY DEF MarkerIsExact, ExactAt
  <1>5. \A q \in Processes : Work(q)'
    BY LockedWork DEF Critical
  <1> QED BY <1>3, <1>4, <1>5

\* A marker is exact that is at the last of the n statements done, or behind it.
LEMMA ExactAfter ==
  ASSUME NEW p, NEW m, m = Current(p)', markers'[m].dir = Direction(p)', markers'[m].at \in Nat,
         NEW n \in {markers'[m].at, markers'[m].at + 1},
         \/ \A i \in 1..Statements : Done(p, i)' <=> i <= n
         \/ Blocked(p)' /\ markers'[m].at = 0
  PROVE  ExactAt(m)'
  <1>1. \A i : ((<<m, i>> \in schema') = (markers'[m].dir = "apply")) <=> Done(p, i)'
    BY DEF Done, Direction
  <1>2. CASE Blocked(p)' /\ markers'[m].at = 0
    BY <1>2 DEF Blocked, ExactAt
  <1>3. CASE \A i \in 1..Statements : Done(p, i)' <=> i <= n
    <2>1. ASSUME NEW i \in 1..Statements
          PROVE  /\ i <= markers'[m].at => Done(p, i)'
                 /\ i > markers'[m].at + 1 => ~Done(p, i)'
      BY <1>3, StatementsAssumption
    <2> QED BY <1>1, <2>1 DEF ExactAt
  <1> QED BY <1>2, <1>3

\* What holds of the process that runs, before any of its steps.
LEMMA RunnerFacts ==
  ASSUME RecoveryInv, NEW p \in Processes, pc[p] \in Running
  PROVE  /\ Work(p) /\ Current(p) \in Migrations /\ Marked \subseteq {Current(p)}
         /\ markers \in [Migrations -> Marker \cup {NoMarker}]
         /\ pc \in [Processes -> PCs] /\ step \in [Processes -> 0..Statements]
         /\ pc[p] \in {"progress", "statement"} =>
               markers[Current(p)] \in Marker /\ step[p] < Statements
         /\ pc[p] = "mark" => Marked = {}
  BY RunningHasCurrent DEF RecoveryInv, IInv, JobInv, DataInv, DataTypes, OwnMarker, Fresh

LEMMA MarkWork ==
  ASSUME RecoveryInv, NEW p \in Processes, Mark(p)
  PROVE  DoubtIsMarked' /\ MarkerIsExact' /\ \A q \in Processes : Work(q)'
  <1>m. PICK m : m = Current(p)
    OBVIOUS
  <1>1. pc[p] = "mark" /\ UNCHANGED <<rows, schema, step>> /\ pc[p] \in Running
    BY DEF Mark, Running
  <1>2. /\ Work(p) /\ m \in Migrations /\ Marked = {}
        /\ markers \in [Migrations -> Marker \cup {NoMarker}] /\ pc \in [Processes -> PCs]
        /\ step[p] = 0
    BY <1>m, <1>1, RunnerFacts DEF Work
  <1>3. Others(p) /\ job'[p] = job[p] /\ pc'[p] = "progress"
    BY <1>m, <1>2, JobForms DEF RecoveryInv, Step, Mark, Goto
  <1>4. /\ m = Current(p)' /\ (Executes(p)' <=> Executes(p)) /\ (Rollback(p)' <=> Rollback(p))
        /\ Direction(p)' = Direction(p)
    BY <1>m, <1>3, SameWork
  <1>5. /\ markers'[m] = [dir |-> Direction(p), at |-> 0] /\ m \in Marked'
        /\ Marked' \subseteq {m}
    BY <1>m, <1>2 DEF Mark, Marked, NoMarker, Direction
  <1>6. (\A i \in 1..Statements : Done(p, i)' <=> i <= 0) \/ Blocked(p)'
    <2>1. m \in rows <=> Rollback(p)
      BY <1>m, <1>1, <1>2 DEF Work
    <2>2. \/ m \in rows /\ Complete(m)
          \/ m \notin rows /\ Absent(m)
          \/ rows = {} /\ m \in Baselines /\ schema = Effects({m})
      BY <1>m, <1>2 DEF RecoveryInv, DoubtIsMarked
    <2>3. CASE m \in rows /\ Complete(m)
      BY <1>m, <1>1, <1>4, <2>1, <2>3 DEF Done, Complete, Effects
    <2>4. CASE m \notin rows /\ Absent(m)
      BY <1>m, <1>1, <1>4, <2>1, <2>4 DEF Done, Absent, Effects
    <2>5. CASE rows = {} /\ m \in Baselines /\ schema = Effects({m})
      BY <1>m, <1>1, <1>2, <1>4, <2>1, <2>5 DEF Blocked
    <2> QED BY <1>m, <2>2, <2>3, <2>4, <2>5
  <1>7. ExactAt(m)'
    BY <1>m, <1>4, <1>5, <1>6, ExactAfter
  <1>8. Work(p)'
    BY <1>m, <1>1, <1>2, <1>3, <1>4, <1>5, <1>6 DEF Work
  <1> QED BY <1>m, <1>1, <1>3, <1>5, <1>7, <1>8, RunWork

LEMMA ProgressWork ==
  ASSUME RecoveryInv, NEW p \in Processes, Progress(p)
  PROVE  DoubtIsMarked' /\ MarkerIsExact' /\ \A q \in Processes : Work(q)'
  <1>m. PICK m : m = Current(p)
    OBVIOUS
  <1>1. pc[p] = "progress" /\ UNCHANGED <<rows, schema, step>> /\ pc[p] \in Running
    BY DEF Progress, Running
  <1>2. /\ Work(p) /\ m \in Migrations /\ Marked \subseteq {m} /\ markers[m] \in Marker
        /\ markers \in [Migrations -> Marker \cup {NoMarker}] /\ pc \in [Processes -> PCs]
        /\ step[p] \in 0..Statements
    BY <1>m, <1>1, RunnerFacts
  <1>3. Others(p) /\ job'[p] = job[p] /\ pc'[p] = "statement"
    BY <1>m, <1>2, JobForms DEF RecoveryInv, Step, Progress, Goto
  <1>4. /\ m = Current(p)' /\ (Executes(p)' <=> Executes(p)) /\ (Rollback(p)' <=> Rollback(p))
        /\ Direction(p)' = Direction(p)
    BY <1>m, <1>3, SameWork
  <1>5. markers'[m].at = step[p] /\ markers'[m].dir = Direction(p)
    BY <1>m, <1>1, <1>2 DEF Progress, Marker, Work
  <1>6. m \in Marked' /\ Marked' \subseteq {m}
    <2>1. markers'[m] # NoMarker
      BY <1>m, <1>5 DEF NoMarker, Direction
    <2>2. \A x \in Migrations \ {m} : markers'[x] = markers[x]
      BY <1>m, <1>2 DEF Progress
    <2> QED BY <1>m, <1>2, <2>1, <2>2 DEF Marked
  <1>7. (\A i \in 1..Statements : Done(p, i)' <=> i <= step[p]) \/ Blocked(p)'
    BY <1>m, <1>1, <1>2, <1>4 DEF Work, Done, Blocked
  <1>8. Blocked(p)' => markers'[m].at = 0
    BY <1>m, <1>1, <1>5 DEF Blocked
  <1>9. ExactAt(m)'
    BY <1>m, <1>2, <1>4, <1>5, <1>7, <1>8, ExactAfter
  <1>10. Work(p)'
    BY <1>m, <1>1, <1>2, <1>3, <1>4, <1>5, <1>7 DEF Work
  <1> QED BY <1>m, <1>1, <1>3, <1>6, <1>9, <1>10, RunWork

LEMMA StatementWork ==
  ASSUME RecoveryInv, NEW p \in Processes, Statement(p)
  PROVE  DoubtIsMarked' /\ MarkerIsExact' /\ \A q \in Processes : Work(q)'
  <1> DEFINE n == step[p] + 1
  <1>m. PICK m : m = Current(p)
    OBVIOUS
  <1>1. pc[p] = "statement" /\ UNCHANGED <<rows, markers>> /\ pc[p] \in Running
    BY DEF Statement, Running
  <1>2. /\ Work(p) /\ m \in Migrations /\ Marked \subseteq {m} /\ markers[m] \in Marker
        /\ pc \in [Processes -> PCs] /\ step \in [Processes -> 0..Statements]
        /\ step[p] \in 0..Statements /\ step[p] < Statements
    BY <1>m, <1>1, RunnerFacts
  <1>3. /\ Others(p) /\ job'[p] = job[p] /\ step'[p] = n
        /\ pc'[p] = IF n < Statements THEN "progress" ELSE "row"
    BY <1>m, <1>2, JobForms DEF RecoveryInv, Step, Statement, Goto
  <1>4. /\ m = Current(p)' /\ (Executes(p)' <=> Executes(p)) /\ (Rollback(p)' <=> Rollback(p))
        /\ Direction(p)' = Direction(p)
    BY <1>m, <1>3, SameWork
  <1>5. /\ markers'[m].at = step[p] /\ markers'[m].dir = Direction(p)
        /\ m \in Marked /\ Marked' = Marked /\ (m \in rows <=> Rollback(p)) /\ Executes(p)
    BY <1>m, <1>1, <1>2 DEF Work, Marked, Marker, NoMarker
  <1>6. n \in 1..Statements
    BY <1>m, <1>2, StatementsAssumption
  <1>7. \A i \in 1..Statements : Done(p, i) <=> i <= step[p]
    <2>1. ASSUME Blocked(p) PROVE FALSE
      BY <1>m, <1>6, <2>1 DEF Statement, Blocked, Effects
    <2> QED BY <1>m, <1>1, <1>2, <2>1 DEF Work
  <1>8. \A i : i # n => (<<m, i>> \in schema' <=> <<m, i>> \in schema)
    BY <1>m DEF Statement
  <1>9. <<m, n>> \in schema' <=> ~Rollback(p)
    BY <1>m DEF Statement
  <1>10. \A i \in 1..Statements : Done(p, i)' <=> i <= n
    <2> SUFFICES ASSUME NEW i \in 1..Statements PROVE Done(p, i)' <=> i <= n
      OBVIOUS
    <2>1. CASE i = n
      BY <1>m, <1>4, <1>6, <1>9, <2>1 DEF Done
    <2>2. CASE i # n
      <3>1. Done(p, i)' <=> Done(p, i)
        BY <1>m, <1>4, <1>8, <2>2 DEF Done
      <3>2. i <= step[p] <=> i <= n
        BY <1>m, <1>2, <2>2
      <3> QED BY <1>m, <1>7, <3>1, <3>2
    <2> QED BY <1>m, <2>1, <2>2
  <1>11. ExactAt(m)'
    BY <1>m, <1>2, <1>4, <1>5, <1>10, ExactAfter
  <1>12. Work(p)'
    <2>1. pc'[p] = "row" => n = Statements
      BY <1>m, <1>2, <1>3, <1>6, StatementsAssumption
    <2> QED BY <1>m, <1>1, <1>2, <1>3, <1>4, <1>5, <1>10, <2>1 DEF Work
  <1>13. \A x \in Migrations \ {m} : Effects({x}) \cap schema' = Effects({x}) \cap schema
    BY <1>m DEF Statement, Effects
  <1> QED BY <1>m, <1>1, <1>2, <1>3, <1>5, <1>11, <1>12, <1>13, RunWork

LEMMA WriteRowWork ==
  ASSUME RecoveryInv, NEW p \in Processes, WriteRow(p)
  PROVE  DoubtIsMarked' /\ MarkerIsExact' /\ \A q \in Processes : Work(q)'
  <1>m. PICK m : m = Current(p)
    OBVIOUS
  <1>1. pc[p] = "row" /\ UNCHANGED <<schema, markers, step>> /\ pc[p] \in Running
    BY DEF WriteRow, Running
  <1>2. Work(p) /\ m \in Migrations /\ Marked \subseteq {m} /\ pc \in [Processes -> PCs]
    BY <1>m, <1>1, RunnerFacts
  <1>3. Others(p) /\ Marked' = Marked
    BY <1>1, JobForms DEF RecoveryInv, Step, Marked
  <1>4. rows' = IF Rollback(p) THEN rows \ {m} ELSE rows \cup {m}
    BY <1>m DEF WriteRow
  <1>5. CASE Executes(p) /\ Goto(p, "unmark")
    <2>1. job'[p] = job[p] /\ pc'[p] = "unmark"
      BY <1>2, <1>5 DEF Goto, RecoveryInv, IInv, JobInv
    <2>2. /\ m = Current(p)' /\ (Executes(p)' <=> Executes(p)) /\ (Rollback(p)' <=> Rollback(p))
          /\ Direction(p)' = Direction(p)
      BY <1>m, <2>1, SameWork
    <2>3. /\ markers[m].dir = Direction(p) /\ m \in Marked /\ markers[m].at + 1 = Statements
          /\ \A i \in 1..Statements : Done(p, i)
      BY <1>m, <1>1, <1>2, <1>5 DEF Work
    <2>4. \A i \in 1..Statements : <<m, i>> \in schema <=> ~Rollback(p)
      BY <1>m, <2>3 DEF Done
    <2>5. ExactAt(m)'
      BY <1>1, <1>4, <2>3, <2>4 DEF ExactAt, Complete, Absent, Effects, Direction
    <2>6. \A i \in 1..Statements : Done(p, i)'
      BY <1>1, <2>2, <2>4 DEF Done
    <2>7. Work(p)'
      BY <1>1, <1>3, <1>4, <1>5, <2>1, <2>2, <2>3, <2>6 DEF Work
    <2> QED BY <1>m, <1>1, <1>2, <1>3, <1>4, <2>3, <2>5, <2>7, RunWork
  <1>6. CASE ~Executes(p) /\ Advance(p)
    <2>1. Marked = {} /\ job[p].op = "adopt" /\ job[p].todo = job[p].list /\ ~Rollback(p)
      BY <1>1, <1>2, <1>6 DEF Work, Executes, Rollback
    <2>2. m = First(job[p].list) /\ Complete(m)
      BY <1>m, <1>1, <2>1 DEF Current, RecoveryInv, ManagerInv, StillAdoptable, Complete
    <2>3. DoubtAt(m)'
      BY <1>1, <1>4, <2>1, <2>2 DEF DoubtAt, Complete
    <2>4. pc'[p] \in {"idle", "run"}
      BY <1>2, <1>6 DEF Advance, Stop, Enter
    <2>5. Work(p)'
      BY <2>4 DEF Work
    <2> QED BY <1>m, <1>1, <1>3, <1>4, <2>1, <2>3, <2>5, RunWork
  <1> QED BY <1>5, <1>6 DEF WriteRow

LEMMA UnmarkWork ==
  ASSUME RecoveryInv, NEW p \in Processes, Unmark(p)
  PROVE  DoubtIsMarked' /\ MarkerIsExact' /\ \A q \in Processes : Work(q)'
  <1>m. PICK m : m = Current(p)
    OBVIOUS
  <1>1. pc[p] = "unmark" /\ UNCHANGED <<rows, schema, step>> /\ pc[p] \in Running
    BY DEF Unmark, Running
  <1>2. /\ Work(p) /\ m \in Migrations /\ Marked \subseteq {m} /\ pc \in [Processes -> PCs]
        /\ markers \in [Migrations -> Marker \cup {NoMarker}]
    BY <1>m, <1>1, RunnerFacts
  <1>3. Others(p)
    BY <1>1, JobForms DEF RecoveryInv, Step
  <1>4. Marked' = {}
    BY <1>m, <1>2 DEF Unmark, Marked
  <1>5. (m \in rows <=> ~Rollback(p)) /\ \A i \in 1..Statements : <<m, i>> \in schema <=> ~Rollback(p)
    BY <1>m, <1>1, <1>2 DEF Work, Done
  <1>6. DoubtAt(m)'
    BY <1>1, <1>5 DEF DoubtAt, Complete, Absent, Effects
  <1>7. pc'[p] \in {"idle", "run"}
    BY <1>2 DEF Unmark, Advance, Stop, Enter
  <1>8. Work(p)'
    BY <1>7 DEF Work
  <1> QED BY <1>m, <1>1, <1>3, <1>4, <1>6, <1>8, RunWork

-----------------------------------------------------------------------------
(* The theorems *)

LEMMA RecoveryInit == Init => RecoveryInv
  <1> SUFFICES ASSUME Init PROVE RecoveryInv
    OBVIOUS
  <1>1. IInv
    BY IInvInit
  <1>2. \A p \in Processes : pc[p] = "idle" /\ job[p] = NoJob
    BY DEF Init
  <1>3. ManagerInv
    BY <1>2 DEF ManagerInv, BaselineFirst, StillAdoptable, NotBoth, Separate, NoJob
  <1>4. MarkerIsExact
    BY DEF Init, MarkerIsExact, Marked
  <1>5. DoubtIsMarked
    <2>1. CASE schema = {}
      BY <2>1 DEF Init, DoubtIsMarked, Absent
    <2>2. CASE \E b \in Baselines : schema = Effects({b})
      BY <2>2 DEF Init, DoubtIsMarked, Absent, Effects
    <2> QED BY <2>1, <2>2 DEF Init
  <1>6. \A p \in Processes : Work(p)
    BY <1>2 DEF Work
  <1> QED BY <1>1, <1>3, <1>4, <1>5, <1>6 DEF RecoveryInv

LEMMA RecoveryStep ==
  ASSUME AdoptionsUndisturbed, RecoveryInv, [Next]_vars
  PROVE  RecoveryInv'
  <1>1. IInv'
    BY IInvStep DEF RecoveryInv
  <1>2. ASSUME NEW p \in Processes, Call(p) \/ Step(p) \/ Cancel(p)
        PROVE  RecoveryInv'
    <2>1. ManagerInv'
      BY <1>1, <1>2, ManagerStep DEF IInv
    <2>2. DoubtIsMarked' /\ MarkerIsExact' /\ \A q \in Processes : Work(q)'
      BY <1>2, QuietStepWork, CheckStepWork, MarkWork, ProgressWork, StatementWork, WriteRowWork, UnmarkWork
         DEF Step
    <2> QED BY <1>1, <2>1, <2>2 DEF RecoveryInv
  <1>3. CASE (\E c \in Connections : Disconnect(c)) \/ UNCHANGED vars
    <2>1. UNCHANGED <<pc, job, rows, schema, markers, step>>
      BY <1>3 DEF Disconnect, vars, database
    <2>2. DoubtIsMarked' /\ MarkerIsExact'
      BY <2>1, DatabaseUnchanged DEF RecoveryInv
    <2>3. \A p \in Processes : Work(p)'
      BY <2>1, WorkUnchanged DEF RecoveryInv
    <2>4. Marked' = Marked
      BY <2>1 DEF Marked
    <2>5. ManagerInv'
      BY <2>1, <2>4 DEF RecoveryInv, ManagerInv, BaselineFirst, Unadopted, StillAdoptable, NotBoth, Separate
    <2> QED BY <1>1, <2>2, <2>3, <2>5 DEF RecoveryInv
  <1> QED BY <1>2, <1>3 DEF Next

\* Nothing half-done goes unnoticed: a migration without a marker is done and in the
\* ledger or absent from both, wherever a call failed or was dropped (mysql.rs,
\* apply_migration and rollback_migration).
THEOREM NothingGoesUnnoticed ==
  ASSUME AdoptionsUndisturbed
  PROVE  Spec => []DoubtIsMarked
  <1>1. RecoveryInv /\ [Next]_vars => RecoveryInv'
    BY RecoveryStep
  <1>2. RecoveryInv => DoubtIsMarked
    BY DEF RecoveryInv
  <1> QED BY <1>1, <1>2, RecoveryInit, PTL DEF Spec

\* The statement index an operator repairs by is exact, for migrations of any length
\* and in both directions (mysql.rs, execute_with_progress).
THEOREM MarkersAreExact ==
  ASSUME AdoptionsUndisturbed
  PROVE  Spec => []MarkerIsExact
  <1>1. RecoveryInv /\ [Next]_vars => RecoveryInv'
    BY RecoveryStep
  <1>2. RecoveryInv => MarkerIsExact
    BY DEF RecoveryInv
  <1> QED BY <1>1, <1>2, RecoveryInit, PTL DEF Spec

-----------------------------------------------------------------------------
(***************************************************************************)
(* The ledger of a MySQL source is the abstract one, if rollbacks run      *)
(* alone: a run that was interrupted leaves its marker, and with it a      *)
(* ledger that does not move again.                                        *)
(***************************************************************************)

RollbacksAlone == {"rollback", "apply"} \in Apart /\ {"rollback", "adopt"} \in Apart

\* What is left of a selection ends its artifact set, and the ledger has the rest.
Pends(p) ==
    pc[p] # "idle" /\ job[p].todo # {} =>
        /\ job[p].op \in {"apply", "adopt", "rollback"}
        /\ ~Rollback(p) => Pending(job[p].list, job[p].todo, rows)

\* The check of the row has come out in favour of the migration, and still would.
Suits(p) ==
    /\ pc[p] \in {"mark", "progress", "statement", "row"} =>
          IF Rollback(p) THEN IsNewest(Current(p), rows) ELSE \A r \in rows : r.id # Current(p).id
    /\ pc[p] = "unmark" => Rollback(p) \/ Current(p) \in rows
    /\ pc[p] \in {"mark", "progress", "statement"} => Executes(p)
    /\ pc[p] = "row" /\ ~Executes(p) => Marked = {}

LedgerInv ==
    /\ IInv
    /\ Separate("rollback", "apply") /\ Separate("rollback", "adopt")
    /\ Segment(rows)
    /\ \A p \in Processes : Pends(p) /\ Suits(p)

\* A process that takes another migration has the one before in the ledger, if it
\* does not roll back.
LEMMA ProceedsRecorded ==
  ASSUME LedgerInv, NEW p \in Processes, Call(p) \/ Step(p) \/ Cancel(p), Proceeds(p)
  PROVE  job[p].todo # {} /\ (Rollback(p) \/ Current(p) \in rows')
  <1> USE DEF LedgerInv, IInv, JobInv
  <1>1. job[p] \in Job /\ Suits(p) /\ Advance(p) /\ pc'[p] = "run"
    BY DEF Proceeds, Advances
  <1>2. job[p].todo # {}
    BY <1>1 DEF Advance, Stop, Enter
  <1>3. ~Preparing(p) /\ ~(\E at \in {"mark", "row"} : Goto(p, at)) /\ ~Stop(p)
    BY <1>1, <1>2 DEF Preparing, Goto, Stop, Enter
  <1>4. CASE pc[p] = "check"
    <2>1. Check(p)
      BY <1>1, <1>3, <1>4 DEF Call, Start, Step, CheckDrift, InspectMarkers, InspectRows, ReleaseStale, GetLock,
             CheckSync, Goto, FinishSync, Mark, Progress, Statement, WriteRow, Unmark, Fail, Cancel
    <2>2. Rollback(p) \/ {r \in rows : r.id = Current(p).id} = {Current(p)}
      BY <1>3, <2>1 DEF Check
    <2> QED BY <1>2, <2>1, <2>2 DEF Check
  <1>5. CASE pc[p] = "row"
    <2>1. WriteRow(p)
      BY <1>3, <1>5 DEF Call, Start, Step, CheckDrift, InspectMarkers, InspectRows, ReleaseStale, GetLock,
             Check, CheckSync, FinishSync, Mark, Progress, Statement, Unmark, Fail, Cancel
    <2> QED BY <1>2, <2>1 DEF WriteRow
  <1>6. CASE pc[p] = "unmark"
    <2>1. Unmark(p)
      BY <1>3, <1>6 DEF Call, Start, Step, CheckDrift, InspectMarkers, InspectRows, ReleaseStale, GetLock,
             Check, CheckSync, FinishSync, Mark, Progress, Statement, WriteRow, Fail, Cancel
    <2> QED BY <1>1, <1>2, <1>6, <2>1 DEF Unmark, Suits
  <1> QED BY <1>4, <1>5, <1>6 DEF Proceeds

\* What a row that is written does to the ledger.
LEMMA RowMoves ==
  ASSUME LedgerInv, NEW p \in Processes, WriteRow(p), NEW m, m = Current(p)
  PROVE  /\ pc[p] = "row"
         /\ Rollback(p) => IsNewest(m, rows) /\ rows' = rows \ {m}
         /\ ~Rollback(p) =>
               /\ job[p].list \in Artifacts /\ m \in job[p].list \ rows /\ rows' = rows \cup {m}
               /\ IsBeginning(job[p].list, rows) /\ IsBeginning(job[p].list, rows \cup {m})
  <1>1. pc[p] = "row" /\ job[p] \in Job /\ Pends(p) /\ Suits(p) /\ Segment(rows)
    BY DEF WriteRow, LedgerInv, IInv, JobInv
  <1>2. CASE Rollback(p)
    BY <1>1, <1>2 DEF WriteRow, Suits
  <1>3. CASE ~Rollback(p)
    <2> DEFINE list == job[p].list
               todo == job[p].todo
    <2>1. todo # {} /\ m = First(todo)
      BY <1>1, <1>3, RunningHasCurrent DEF LedgerInv, Running, Current, Rollback
    <2>2. Pending(list, todo, rows) /\ \A x \in rows : x.id # First(todo).id
      BY <1>1, <1>3, <2>1 DEF Pends, Suits, Rollback
    <2>3. list \in Artifacts
      BY <1>1, <2>1, <2>2 DEF Pending, Job
    <2> HIDE DEF list, todo
    <2>4. First(todo) \in list \ rows /\ IsBeginning(list, rows) /\ IsBeginning(list, rows \cup {First(todo)})
      BY <1>1, <2>1, <2>2, <2>3, NextContinues
    <2>5. m \in list \ rows /\ IsBeginning(list, rows) /\ IsBeginning(list, rows \cup {m})
      BY <2>1, <2>4
    <2> QED BY <1>1, <1>3, <2>3, <2>5 DEF WriteRow, list
  <1> QED BY <1>2, <1>3

LEMMA RowsForms ==
  ASSUME NEW p \in Processes, Call(p) \/ Step(p) \/ Cancel(p)
  PROVE  rows' = rows \/ WriteRow(p)
  BY DatabaseForms DEF Mark, Progress, Statement, Unmark

LEMMA PendsStep ==
  ASSUME LedgerInv, NEW p \in Processes, Call(p) \/ Step(p) \/ Cancel(p), NEW q \in Processes
  PROVE  Pends(q)'
  <1>m. PICK m : m = Current(p)
    OBVIOUS
  <1> SUFFICES ASSUME pc'[q] # "idle", job'[q].todo # {}
               PROVE  /\ job'[q].op \in {"apply", "adopt", "rollback"}
                      /\ job'[q].op # "rollback" => Pending(job'[q].list, job'[q].todo, rows')
    BY DEF Pends, Rollback
  <1>1. job[q] \in Job /\ Pends(q) /\ Segment(rows) /\ Segment({})
    BY DEF LedgerInv, IInv, JobInv, Segment
  <1>2. rows' = rows \/ WriteRow(p)
    BY RowsForms
  <1>3. CASE q # p
    <2>1. pc'[q] = pc[q] /\ job'[q] = job[q]
      BY <1>3, JobForms DEF Others, LedgerInv
    <2>2. CASE WriteRow(p) /\ ~Rollback(q)
      <3>1. pc[p] # "idle" /\ pc[q] # "idle" /\ job[q].op \in {"apply", "adopt", "rollback"}
        BY <1>1, <2>1, <2>2 DEF Pends, WriteRow
      <3>2. ~Rollback(p)
        BY <2>2, <3>1 DEF LedgerInv, Separate, Rollback
      <3>3. rows \subseteq rows'
        BY <1>m, <2>2, <3>2, RowMoves
      <3> QED BY <1>1, <2>1, <2>2, <3>3 DEF Pends, Rollback, Pending
    <2> QED BY <1>1, <1>2, <2>1, <2>2 DEF Pends, Rollback
  <1>4. CASE q = p
    <2>1. ~Rollback(p) => rows \subseteq rows'
      BY <1>m, <1>2, RowMoves
    <2>2. CASE Begins(p) \/ Ends(p)
      BY <1>4, <2>2 DEF Begins, Ends
    <2>3. CASE Selects(p, rows)
      <3>1. /\ job'[p].op = job[p].op /\ job'[p].list = job[p].list /\ job[p].list \in Artifacts \cup {{}}
        BY <1>1, <1>4, <2>3 DEF Selects, Job
      <3>2. CASE job[p].op = "apply" /\ Known(job[p].list, rows) /\ job'[p].todo = job[p].list \ rows
        <4>1. Pending(job[p].list, job[p].list \ rows, rows)
          BY <1>1, <3>1, <3>2, SelectionPends
        <4> QED BY <1>4, <2>1, <3>1, <3>2, <4>1 DEF Pending, Rollback
      <3>3. CASE job[p].op = "adopt" /\ rows = {} /\ job'[p].todo = job[p].list
        BY <1>4, <3>1, <3>3 DEF Pending
      <3> QED BY <1>4, <2>3, <3>1, <3>2, <3>3 DEF Selects
    <2>4. CASE Inspects(p, rows) \/ Keeps(p)
      <3>1. /\ pc[p] # "idle" /\ job'[p].op = job[p].op /\ job'[p].list = job[p].list
            /\ job'[p].todo = job[p].todo
        BY <1>1, <1>4, <2>4 DEF Inspects, Keeps, Job
      <3> QED BY <1>1, <1>4, <2>1, <3>1 DEF Pends, Rollback, Pending
    <2>5. CASE Proceeds(p)
      <3>1. /\ pc[p] # "idle" /\ job'[p].op = job[p].op /\ job'[p].list = job[p].list
            /\ job[p].list \in Artifacts \cup {{}} /\ job'[p].todo = job[p].todo \ {m} /\ job[p].todo # {}
        BY <1>m, <1>1, <1>4, <2>5, ProceedsRecorded DEF Proceeds, Advances, Job
      <3>2. CASE ~Rollback(p)
        <4>1. m = First(job[p].todo) /\ m \in rows'
          BY <1>m, <2>5, <3>2, ProceedsRecorded DEF Rollback, Current
        <4>2. Pending(job[p].list, job[p].todo, rows')
          BY <1>1, <1>4, <2>1, <3>1, <3>2 DEF Pends, Pending
        <4>3. Pending(job[p].list, job[p].todo \ {m}, rows')
          BY <3>1, <4>1, <4>2, AdvancePends
        <4> QED BY <1>1, <1>4, <3>1, <4>3 DEF Pends
      <3> QED BY <1>4, <3>1, <3>2 DEF Rollback
    <2> QED BY <2>2, <2>3, <2>4, <2>5, JobForms DEF LedgerInv
  <1> QED BY <1>3, <1>4

LEMMA SuitsStep ==
  ASSUME LedgerInv, NEW p \in Processes, Call(p) \/ Step(p) \/ Cancel(p), NEW q \in Processes
  PROVE  Suits(q)'
  <1> USE DEF LedgerInv, IInv, JobInv
  <1>1. Suits(q) /\ pc \in [Processes -> PCs]
    OBVIOUS
  <1>2. CASE q # p
    <2>1. pc'[q] = pc[q] /\ job'[q] = job[q]
      BY <1>2, JobForms DEF Others
    <2>2. CASE pc[q] \in Running
      <3>1. pc[p] \notin Critical
        BY <1>2, <2>2, Alone DEF Critical
      <3>2. UNCHANGED <<rows, markers>>
        BY <3>1, DatabaseForms DEF Critical, Running, Mark, Progress, Statement, WriteRow, Unmark
      <3>3. /\ Current(q)' = Current(q) /\ (Executes(q)' <=> Executes(q)) /\ (Rollback(q)' <=> Rollback(q))
            /\ Marked' = Marked
        BY <2>1, <3>2, SameWork DEF Marked
      <3> QED BY <1>1, <2>1, <3>2, <3>3 DEF Suits
    <2> QED BY <2>1, <2>2 DEF Suits, Running
  <1>3. CASE q = p /\ pc'[p] \notin Running
    BY <1>3 DEF Suits, Running
  <1>4. CASE q = p /\ Check(p) /\ pc'[p] \in Running
    <2>1. ~Stop(p) /\ ~Advance(p) /\ ~Prepared(p, rows)
      BY <1>1, <1>4 DEF Stop, Advance, Prepared, Run, Enter, Running
    <2>2. /\ ~Interrupted /\ UNCHANGED <<rows, markers>>
          /\ IF Rollback(p) THEN IsNewest(Current(p), rows) ELSE {r \in rows : r.id = Current(p).id} = {}
          /\ pc'[p] = (IF Executes(p) THEN "mark" ELSE "row") /\ job'[p] = job[p]
      BY <1>1, <1>4, <2>1 DEF Check, Goto
    <2>3. Marked' = {}
      BY <2>2 DEF Interrupted, Marked
    <2> QED BY <1>4, <2>2, <2>3, SameWork DEF Suits
  <1>5. CASE q = p /\ (Mark(p) \/ Progress(p) \/ Statement(p))
    <2>1. /\ pc[p] \in {"mark", "progress", "statement"} /\ rows' = rows /\ job'[p] = job[p]
          /\ pc'[p] \in {"progress", "statement", "row"}
      BY <1>1, <1>5 DEF Mark, Progress, Statement, Goto
    <2> QED BY <1>1, <1>5, <2>1, SameWork DEF Suits
  <1>6. CASE q = p /\ WriteRow(p) /\ pc'[p] \in Running
    <2>1. pc'[p] = "unmark" /\ job'[p] = job[p]
      BY <1>1, <1>6 DEF WriteRow, Goto, Advance, Stop, Enter, Running
    <2> QED BY <1>6, <2>1, SameWork DEF Suits, WriteRow
  <1>7. pc'[p] \in Running => Check(p) \/ Mark(p) \/ Progress(p) \/ Statement(p) \/ WriteRow(p)
    BY <1>1 DEF Call, Start, Step, CheckDrift, InspectMarkers, InspectRows, Inspected, ReleaseStale, GetLock,
           CheckSync, FinishSync, Unmark, Advance, Fail, Cancel, Goto, Stop, Enter, Running
  <1> QED BY <1>2, <1>3, <1>4, <1>5, <1>6, <1>7

\* An interrupted run stays one: with its marker there, nobody begins.
LEMMA DoubtStays ==
  ASSUME LedgerInv, InDoubt, NEW p \in Processes, Call(p) \/ Step(p) \/ Cancel(p)
  PROVE  InDoubt' /\ rows' = rows
  <1> USE DEF LedgerInv, IInv, JobInv
  <1>1. PICK m \in Marked : \A q \in Processes : pc[q] \in Running => Current(q) # m
    BY DEF InDoubt
  <1>2. \A q \in Processes : pc[q] \notin Running
    BY <1>1 DEF DataInv, OwnMarker
  <1>3. UNCHANGED <<rows, markers>>
    BY <1>2, DatabaseForms DEF Running, Mark, Progress, Statement, WriteRow, Unmark
  <1>4. pc'[p] \notin Running
    <2>1. ~(Mark(p) \/ Progress(p) \/ Statement(p) \/ WriteRow(p) \/ Unmark(p))
      BY <1>2 DEF Running, Mark, Progress, Statement, WriteRow, Unmark
    <2>2. CASE Check(p)
      BY <1>1, <2>2 DEF Check, Interrupted, Stop, Enter, Running
    <2> QED BY <2>1, <2>2 DEF Call, Start, Step, CheckDrift, InspectMarkers, InspectRows, Inspected, ReleaseStale,
                  GetLock, CheckSync, FinishSync, Fail, Cancel, Goto, Stop, Enter, Running
  <1>5. \A q \in Processes : pc'[q] \notin Running
    BY <1>2, <1>4, JobForms DEF Others
  <1>6. m \in Marked'
    BY <1>1, <1>3 DEF Marked
  <1> QED BY <1>3, <1>5, <1>6 DEF InDoubt

\* While a row is written nothing is in doubt, before and after.
LEMMA RowIsCertain ==
  ASSUME LedgerInv, NEW p \in Processes, WriteRow(p)
  PROVE  ~InDoubt /\ ~InDoubt'
  <1> USE DEF LedgerInv, IInv, JobInv
  <1>1. pc[p] = "row" /\ Marked' = Marked /\ Marked \subseteq {Current(p)} /\ Suits(p)
    BY DEF WriteRow, Marked, DataInv, OwnMarker, Running
  <1>2. ~InDoubt
    BY <1>1 DEF InDoubt, Running
  <1>3. CASE Executes(p) /\ Goto(p, "unmark")
    <2>1. pc'[p] = "unmark" /\ Current(p)' = Current(p)
      BY <1>3, SameWork DEF Goto
    <2> QED BY <1>1, <1>2, <2>1 DEF InDoubt, Running
  <1>4. CASE ~Executes(p)
    BY <1>1, <1>2, <1>4 DEF InDoubt, Suits
  <1> QED BY <1>3, <1>4 DEF WriteRow

\* The ledger holds the beginning of a history before and after every step, and the
\* step is one of the abstract ledger's.
LEMMA LedgerStep ==
  ASSUME RollbacksAlone, LedgerInv, [Next]_vars
  PROVE  LedgerInv' /\ [Ledger!Next]_Ledger!vars
  <1>1. IInv'
    BY IInvStep DEF LedgerInv
  <1>2. ASSUME NEW p \in Processes, Call(p) \/ Step(p) \/ Cancel(p)
        PROVE  LedgerInv' /\ [Ledger!Next]_Ledger!vars
    <2>m. PICK m : m = Current(p)
      OBVIOUS
    <2>1. Separate("rollback", "apply")' /\ Separate("rollback", "adopt")'
      <3>1. JobTyped(PCs) /\ JobForm(p, rows, rows) /\ Others(p)
        BY <1>2, JobForms DEF LedgerInv, IInv, JobInv, JobTyped, JobForm, Proceeds
      <3> QED BY <3>1, SeparateStep DEF LedgerInv, RollbacksAlone
    <2>2. \A q \in Processes : Pends(q)' /\ Suits(q)'
      BY <1>2, PendsStep, SuitsStep
    <2>3. CASE WriteRow(p) /\ Rollback(p)
      <3>1. IsNewest(m, rows) /\ rows' = rows \ {m} /\ ~InDoubt /\ ~InDoubt'
        BY <2>m, <2>3, RowMoves, RowIsCertain
      <3>2. Segment(rows')
        BY <3>1, NewestLeaves DEF LedgerInv
      <3>3. Ledger!Remove
        BY <3>1 DEF Ledger!Remove, IsNewest, InDoubt
      <3> QED BY <1>1, <2>1, <2>2, <3>2, <3>3 DEF LedgerInv, Ledger!Next
    <2>4. CASE WriteRow(p) /\ ~Rollback(p)
      <3>1. /\ job[p].list \in Artifacts /\ m \in job[p].list \ rows /\ rows' = rows \cup {m}
            /\ IsBeginning(job[p].list, rows) /\ IsBeginning(job[p].list, rows \cup {m})
            /\ ~InDoubt /\ ~InDoubt'
        BY <2>m, <2>4, RowMoves, RowIsCertain
      <3>2. Segment(rows')
        BY <3>1 DEF Segment
      <3>3. Ledger!Add
        BY <3>1 DEF Ledger!Add, Ledger!IsSegment, IsBeginning, Known, Gapless, InDoubt
      <3> QED BY <1>1, <2>1, <2>2, <3>2, <3>3 DEF LedgerInv, Ledger!Next
    <2>5. CASE rows' = rows
      <3>1. LedgerInv'
        BY <1>1, <2>1, <2>2, <2>5 DEF LedgerInv
      <3>2. CASE InDoubt'
        BY <2>5, <3>1, <3>2 DEF Ledger!Next, Ledger!Interrupt, InDoubt
      <3>3. CASE ~InDoubt'
        BY <1>2, <2>5, <3>1, <3>3, DoubtStays DEF Ledger!vars, InDoubt
      <3> QED BY <3>1, <3>2, <3>3
    <2> QED BY <1>2, <2>3, <2>4, <2>5, RowsForms
  <1>3. CASE (\E c \in Connections : Disconnect(c)) \/ UNCHANGED vars
    <2>1. UNCHANGED <<pc, job, rows, markers>>
      BY <1>3 DEF Disconnect, vars, database
    <2>2. /\ \A p \in Processes : Current(p)' = Current(p) /\ (Executes(p)' <=> Executes(p))
          /\ Marked' = Marked
      BY <2>1, SameWork DEF Marked
    <2>3. InDoubt' <=> InDoubt
      BY <2>1, <2>2 DEF InDoubt
    <2>4. \A p \in Processes : Pends(p)' /\ Suits(p)'
      BY <2>1, <2>2 DEF LedgerInv, Pends, Suits, Rollback
    <2>5. [Ledger!Next]_Ledger!vars
      BY <2>1, <2>3 DEF Ledger!vars, InDoubt
    <2> QED BY <1>1, <2>1, <2>4, <2>5 DEF LedgerInv, Separate
  <1> QED BY <1>2, <1>3 DEF Next

LEMMA LedgerInit == Init => LedgerInv /\ Ledger!Init
  <1> SUFFICES ASSUME Init PROVE LedgerInv /\ Ledger!Init
    OBVIOUS
  <1>1. IInv
    BY IInvInit
  <1>2. \A p \in Processes : pc[p] = "idle"
    BY DEF Init
  <1>3. rows = {} /\ Marked = {}
    BY DEF Init, Marked
  <1>4. ~InDoubt
    BY <1>3 DEF InDoubt
  <1>5. Ledger!Init
    BY <1>3, <1>4 DEF Ledger!Init, InDoubt
  <1> QED BY <1>1, <1>2, <1>3, <1>5 DEF LedgerInv, Separate, Segment, Pends, Suits

\* The MySQL backend implements the abstract ledger: every row written continues a
\* released history by one or takes the newest back, and nothing moves the ledger
\* any more once a run was interrupted (mysql.rs; MigrationLedger).
THEOREM ImplementsLedger ==
  ASSUME RollbacksAlone
  PROVE  Spec => LedgerSpec
  <1>1. LedgerInv /\ [Next]_vars => LedgerInv' /\ [Ledger!Next]_Ledger!vars
    BY LedgerStep
  <1> QED BY <1>1, LedgerInit, PTL DEF Spec, LedgerSpec, Ledger!Spec
=============================================================================
