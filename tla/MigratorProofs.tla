--------------------------- MODULE MigratorProofs ---------------------------
(***************************************************************************)
(* What the backends' proofs need of Migrator: the first and the newest    *)
(* migration of a set exist, each of its steps moves one process on, and   *)
(* what it selects carries the ledger on along one history.                *)
(***************************************************************************)
EXTENDS Migrator, FiniteSetTheorems, WellFoundedInduction, TLAPS

\* Every non-empty finite set of migrations has one of least and one of greatest
\* id: of the finite sets that lack one, none is minimal.
LEMMA Extremes ==
  ASSUME NEW S \in SUBSET Migrations, IsFiniteSet(S), S # {}
  PROVE  (\E m \in S : \A n \in S : m.id <= n.id) /\ (\E m \in S : IsNewest(m, S))
  <1> DEFINE Good(T) == (\E m \in T : \A n \in T : m.id <= n.id) /\ (\E m \in T : IsNewest(m, T))
             Bad == {T \in SUBSET S : T # {} /\ ~Good(T)}
  <1>1. SUFFICES Bad = {}
    OBVIOUS
  <1>2. SUFFICES ASSUME Bad # {} PROVE FALSE
    OBVIOUS
  <1>3. Bad \subseteq FiniteSubsetsOf(S)
    BY FS_FiniteSubsetsOfFinite
  <1>4. \E T \in Bad : \A U \in Bad : ~(<<U, T>> \in StrictSubsetOrdering(S))
    <2> HIDE DEF Bad
    <2> QED BY <1>2, <1>3, WFMin, FS_StrictSubsetOrderingWellFounded
  <1>5. PICK T \in Bad : \A U \in Bad : ~(<<U, T>> \in StrictSubsetOrdering(S))
    BY <1>4
  <1>6. PICK x \in T : TRUE
    OBVIOUS
  <1>7. CASE T = {x}
    <2>1. x.id \in Nat
      BY MigrationsAssumption
    <2>2. Good(T)
      BY <1>7, <2>1 DEF IsNewest
    <2> QED BY <2>2
  <1>8. CASE T # {x}
    <2> DEFINE U == T \ {x}
    <2>1. U \in SUBSET S /\ U # {} /\ <<U, T>> \in StrictSubsetOrdering(S)
      BY <1>6, <1>8 DEF StrictSubsetOrdering
    <2>2. Good(U)
      BY <1>5, <2>1
    <2>3. PICK a \in U : \A n \in U : a.id <= n.id
      BY <2>2
    <2>4. PICK b \in U : IsNewest(b, U)
      BY <2>2
    <2>5. \A m \in T : m.id \in Nat
      BY MigrationsAssumption
    <2>6. \E m \in T : \A n \in T : m.id <= n.id
      <3>1. CASE x.id <= a.id
        BY <1>6, <2>3, <2>5, <3>1
      <3>2. CASE a.id <= x.id
        BY <1>6, <2>3, <2>5, <3>2
      <3> QED BY <1>6, <2>3, <2>5, <3>1, <3>2
    <2>7. \E m \in T : IsNewest(m, T)
      <3>1. CASE x.id >= b.id
        BY <1>6, <2>4, <2>5, <3>1 DEF IsNewest
      <3>2. CASE b.id >= x.id
        BY <1>6, <2>4, <2>5, <3>2 DEF IsNewest
      <3> QED BY <1>6, <2>4, <2>5, <3>1, <3>2
    <2> QED BY <2>6, <2>7
  <1> QED BY <1>7, <1>8

\* The migration a process works on is one of those it has selected.
LEMMA CurrentIsSelected ==
  ASSUME NEW p \in Processes, job[p].todo \in SUBSET Migrations,
         IsFiniteSet(job[p].todo), job[p].todo # {}
  PROVE  Current(p) \in job[p].todo
  <1>1. First(job[p].todo) \in job[p].todo
    BY Extremes DEF First
  <1>2. Newest(job[p].todo) \in job[p].todo
    BY Extremes DEF Newest
  <1> QED BY <1>1, <1>2 DEF Current

\* Artifact sets are finite sets of migrations, the empty one of a sync included.
LEMMA ListIsFinite ==
  ASSUME NEW list \in Artifacts \cup {{}}
  PROVE  IsFiniteSet(list) /\ list \subseteq Migrations
  BY ArtifactsAssumption, FS_EmptySet

-----------------------------------------------------------------------------
\* Where the manager is between two calls of the backend.
Outside == {"idle", "drift", "inspect", "prepare", "run"}
\* What a process holds there and on the way through the backend.
Selected(p) == job[p].todo \in SUBSET Migrations /\ IsFiniteSet(job[p].todo) /\ job[p].todo # {}
Validated(p) == job[p].inspected \subseteq job[p].list

Moved(p, at, j) == pc' = [pc EXCEPT ![p] = at] /\ job' = [job EXCEPT ![p] = j]

LEMMA NoJobType == NoJob \in Job
  BY DEF NoJob, Job

\* A call starts with nothing selected.
LEMMA StartMoves ==
  ASSUME NEW p \in Processes, NEW op \in Operations, NEW list \in Artifacts, Start(p, op, list)
  PROVE  \E at \in {"drift", "inspect"}, j \in Job : Moved(p, at, j) /\ j.todo = {}
  <1> DEFINE j == [NoJob EXCEPT !.op = op, !.list = list]
             at == IF op = "adopt" THEN "drift" ELSE "inspect"
  <1>1. j \in Job /\ j.todo = {} /\ at \in {"drift", "inspect"}
    BY DEF NoJob, Job
  <1>2. Moved(p, at, j)
    BY DEF Start, Enter, Moved
  <1> QED BY <1>1, <1>2

LEMMA StopMoves ==
  ASSUME NEW p \in Processes, Stop(p)
  PROVE  Moved(p, "idle", NoJob)
  BY DEF Stop, Enter, Moved

\* inspect_applied_ids: the call stops, or goes on with ids of its artifact set.
LEMMA InspectedMoves ==
  ASSUME NEW p \in Processes, NEW r \in SUBSET Migrations, job[p] \in Job, Inspected(p, r)
  PROVE  \/ Moved(p, "idle", NoJob)
         \/ \E j \in Job :
               Moved(p, "prepare", j) /\ j.inspected \subseteq j.list /\ j.todo = job[p].todo
  <1> DEFINE j == [job[p] EXCEPT !.inspected = r]
  <1>1. CASE Known(job[p].list, r)
    <2>1. j \in Job /\ j.inspected = r /\ j.list = job[p].list /\ j.todo = job[p].todo
      BY DEF Job
    <2>2. Moved(p, "prepare", j)
      BY <1>1 DEF Inspected, Enter, Moved
    <2> QED BY <1>1, <2>1, <2>2 DEF Known
  <1>2. CASE ~Known(job[p].list, r)
    BY <1>2, StopMoves DEF Inspected
  <1> QED BY <1>1, <1>2

\* What a step that goes on running leaves behind.
Runs(j) == j \in Job /\ j.todo # {} /\ IsFiniteSet(j.todo)

LEMMA RunMoves ==
  ASSUME NEW p \in Processes, job[p] \in Job, NEW todo \in SUBSET Migrations, IsFiniteSet(todo), Run(p, todo)
  PROVE  Moved(p, "idle", NoJob) \/ \E j \in Job : Moved(p, "run", j) /\ Runs(j)
  <1> DEFINE j == [job[p] EXCEPT !.todo = todo]
  <1>1. CASE todo = {}
    BY <1>1, StopMoves DEF Run
  <1>2. CASE todo # {}
    <2>1. j \in Job /\ j.todo = todo
      BY DEF Job
    <2>2. Moved(p, "run", j)
      BY <1>2 DEF Run, Enter, Moved
    <2> QED BY <1>2, <2>1, <2>2 DEF Runs
  <1> QED BY <1>1, <1>2

\* prepare_ledger: every selection is a finite set of migrations.
LEMMA PreparedMoves ==
  ASSUME NEW p \in Processes, job[p] \in Job, Validated(p), NEW r \in SUBSET Migrations, Prepared(p, r)
  PROVE  Moved(p, "idle", NoJob) \/ \E j \in Job : Moved(p, "run", j) /\ Runs(j)
  <1>1. job[p].list \in Artifacts \cup {{}}
    BY DEF Job
  <1>2. IsFiniteSet(job[p].list) /\ job[p].list \subseteq Migrations
    BY <1>1, ListIsFinite
  <1>3. \A S \in SUBSET job[p].list : IsFiniteSet(S) /\ S \in SUBSET Migrations
    BY <1>2, FS_Subset
  <1>4. CASE Run(p, job[p].list \ r)
    BY <1>3, <1>4, RunMoves
  <1>5. CASE Run(p, job[p].list)
    BY <1>3, <1>5, RunMoves
  <1>6. CASE \E s \in Selections(job[p].inspected) : Run(p, s)
    <2>1. PICK s \in Selections(job[p].inspected) : Run(p, s)
      BY <1>6
    <2>2. s \in SUBSET job[p].list
      BY <2>1 DEF Selections, Validated
    <2> QED BY <1>3, <2>1, <2>2, RunMoves
  <1>7. CASE Stop(p)
    BY <1>7, StopMoves
  <1> QED BY <1>4, <1>5, <1>6, <1>7 DEF Prepared

\* The next migration of a run, if one is left.
LEMMA AdvanceMoves ==
  ASSUME NEW p \in Processes, job[p] \in Job, Selected(p), Advance(p)
  PROVE  Moved(p, "idle", NoJob) \/ \E j \in Job : Moved(p, "run", j) /\ Runs(j)
  <1> DEFINE rest == job[p].todo \ {Current(p)}
             j == [job[p] EXCEPT !.todo = rest]
  <1>1. rest \in SUBSET Migrations /\ IsFiniteSet(rest)
    BY FS_Subset DEF Selected
  <1>2. CASE rest = {}
    BY <1>2, StopMoves DEF Advance
  <1>3. CASE rest # {}
    <2>1. j \in Job /\ j.todo = rest
      BY <1>1 DEF Job
    <2>2. Moved(p, "run", j)
      BY <1>3 DEF Advance, Enter, Moved
    <2> QED BY <1>1, <1>3, <2>1, <2>2 DEF Runs
  <1> QED BY <1>2, <1>3

-----------------------------------------------------------------------------
(* What a step does to the call of its process *)

Others(p) == \A q \in Processes \ {p} : pc'[q] = pc[q] /\ job'[q] = job[q]

\* A call begins, with an empty selection, next to those it may run next to.
Begins(p) ==
    /\ pc[p] = "idle" /\ job'[p].inspected = {} /\ job'[p].todo = {}
    /\ MayCall(job'[p].op) /\ (job'[p].op = "adopt" => pc'[p] = "drift")
Inspects(p, r) == pc[p] # "idle" /\ job'[p] = [job[p] EXCEPT !.inspected = r]
\* It selects migrations, from the ids it has inspected or from its artifact set.
Selects(p, r) ==
    /\ pc[p] # "idle" /\ pc'[p] = "run" /\ job'[p] = [job[p] EXCEPT !.todo = job'[p].todo]
    /\ \/ job[p].op = "apply" /\ Known(job[p].list, r) /\ job'[p].todo = job[p].list \ r
       \/ job[p].op = "adopt" /\ r = {} /\ job'[p].todo = job[p].list
       \/ job[p].op = "rollback" /\ job'[p].todo \in Selections(job[p].inspected)
Advances(p) ==
    /\ pc[p] # "idle" /\ pc'[p] = "run"
    /\ job'[p] = [job[p] EXCEPT !.todo = @ \ {Current(p)}]
Ends(p) == pc'[p] = "idle" /\ job'[p] = NoJob
Keeps(p) == pc[p] # "idle" /\ job'[p] = job[p]

JobTyped(S) == pc \in [Processes -> S] /\ job \in [Processes -> Job]

LEMMA GotoForm ==
  ASSUME NEW S, JobTyped(S), NEW p \in Processes, NEW at, Goto(p, at), pc[p] # "idle"
  PROVE  Keeps(p) /\ Others(p) /\ pc'[p] = at
  BY DEF JobTyped, Goto, Keeps, Others

LEMMA EnterForm ==
  ASSUME NEW S, JobTyped(S), NEW p \in Processes, NEW at, NEW j, Enter(p, at, j)
  PROVE  Others(p) /\ pc'[p] = at /\ job'[p] = j
  BY DEF JobTyped, Enter, Others

LEMMA StopForm ==
  ASSUME NEW S, JobTyped(S), NEW p \in Processes, Stop(p)
  PROVE  Ends(p) /\ Others(p)
  BY EnterForm DEF Stop, Ends

LEMMA StartForm ==
  ASSUME NEW S, JobTyped(S), NEW p \in Processes, NEW op, NEW list, Start(p, op, list)
  PROVE  Begins(p) /\ Others(p) /\ job'[p].op = op
  <1> DEFINE j == [NoJob EXCEPT !.op = op, !.list = list]
  <1>1. j.op = op /\ j.inspected = {} /\ j.todo = {}
    BY DEF NoJob
  <1>2. pc'[p] = (IF op = "adopt" THEN "drift" ELSE "inspect") /\ job'[p] = j /\ Others(p)
    BY EnterForm DEF Start
  <1> QED BY <1>1, <1>2 DEF Start, Begins

LEMMA InspectedForm ==
  ASSUME NEW S, JobTyped(S), NEW p \in Processes, NEW r, Inspected(p, r), pc[p] # "idle"
  PROVE  (Ends(p) \/ Inspects(p, r)) /\ Others(p)
  BY EnterForm, StopForm DEF Inspected, Inspects

LEMMA RunForm ==
  ASSUME NEW S, JobTyped(S), NEW p \in Processes, NEW T, Run(p, T)
  PROVE  /\ Ends(p) \/ (pc'[p] = "run" /\ job'[p] = [job[p] EXCEPT !.todo = T] /\ job'[p].todo = T)
         /\ Others(p)
  <1>1. [job[p] EXCEPT !.todo = T].todo = T
    BY DEF JobTyped, Job
  <1> QED BY <1>1, EnterForm, StopForm DEF Run

LEMMA PreparedForm ==
  ASSUME NEW S, JobTyped(S), NEW p \in Processes, NEW r, Prepared(p, r), pc[p] # "idle"
  PROVE  (Ends(p) \/ Selects(p, r)) /\ Others(p)
  <1>1. CASE job[p].op = "apply" /\ Known(job[p].list, r) /\ Run(p, job[p].list \ r)
    BY <1>1, RunForm DEF Selects
  <1>2. CASE job[p].op = "adopt" /\ r = {} /\ Run(p, job[p].list)
    BY <1>2, RunForm DEF Selects
  <1>3. CASE job[p].op = "rollback" /\ \E s \in Selections(job[p].inspected) : Run(p, s)
    BY <1>3, RunForm DEF Selects
  <1> QED BY <1>1, <1>2, <1>3, StopForm DEF Prepared

LEMMA AdvanceForm ==
  ASSUME NEW S, JobTyped(S), NEW p \in Processes, Advance(p), pc[p] # "idle"
  PROVE  (Ends(p) \/ Advances(p)) /\ Others(p)
  BY EnterForm, StopForm DEF Advance, Advances

\* The forms of a step: "read" are the rows a call selects by, "seen" those it
\* inspects.
JobForm(p, read, seen) ==
    Begins(p) \/ Selects(p, read) \/ Inspects(p, seen) \/ Advances(p) \/ Ends(p) \/ Keeps(p)

\* Once a call has begun it keeps its operation and its artifact set.
LEMMA SameOperation ==
  ASSUME NEW S, JobTyped(S), NEW p \in Processes, NEW r, NEW s, JobForm(p, r, s), pc'[p] # "idle", ~Begins(p)
  PROVE  pc[p] # "idle" /\ job'[p].op = job[p].op /\ job'[p].list = job[p].list
  <1>1. job[p] \in Job
    BY DEF JobTyped
  <1>2. Selects(p, r) \/ Inspects(p, s) \/ Advances(p) \/ Keeps(p)
    BY DEF JobForm, Ends
  <1> QED BY <1>1, <1>2 DEF Selects, Inspects, Advances, Keeps, Job

\* Operations that are kept apart do not come together.
Separate(op1, op2) ==
    \A p, q \in Processes : pc[p] # "idle" /\ pc[q] # "idle" => ~(job[p].op = op1 /\ job[q].op = op2)

LEMMA SeparateStep ==
  ASSUME NEW S, JobTyped(S), NEW p \in Processes, NEW r, NEW s, JobForm(p, r, s), Others(p),
         NEW op1, NEW op2, op1 # op2, {op1, op2} \in Apart, Separate(op1, op2)
  PROVE  Separate(op1, op2)'
  <1> SUFFICES ASSUME NEW x \in Processes, NEW y \in Processes, pc'[x] # "idle", pc'[y] # "idle",
                      job'[x].op = op1, job'[y].op = op2
               PROVE  FALSE
    BY DEF Separate
  <1>1. CASE p \notin {x, y} \/ ~Begins(p)
    BY <1>1, SameOperation DEF Others, Separate
  <1>2. CASE p \in {x, y} /\ Begins(p)
    <2>1. \A z \in Processes : pc[z] # "idle" => {job'[p].op, job[z].op} # {op1, op2}
      BY <1>2 DEF Begins, MayCall
    <2> QED BY <1>2, <2>1 DEF Others
  <1> QED BY <1>1, <1>2

-----------------------------------------------------------------------------
(* Selections and histories *)

\* The ledger holds the beginning of a history.
IsBeginning(list, r) == Known(list, r) /\ Gapless(list, r)
Segment(r) == r = {} \/ \E list \in Artifacts : IsBeginning(list, r)
\* What is left to do of an artifact set is its end, and the ledger r has the rest.
Pending(list, todo, r) ==
    /\ todo \subseteq list /\ list \ todo \subseteq r
    /\ \A m \in todo, n \in list : m.id < n.id => n \in todo

LEMMA FirstOf ==
  ASSUME NEW S \in SUBSET Migrations, IsFiniteSet(S), S # {}
  PROVE  First(S) \in S /\ \A m \in S : First(S).id <= m.id
  BY Extremes DEF First

LEMMA ArtifactFacts ==
  ASSUME NEW list \in Artifacts
  PROVE  \A m \in list : m.id \in Nat /\ \A n \in list : m.id = n.id => m = n
  BY ArtifactsAssumption, MigrationsAssumption

\* A ledger with the beginning of some history has the beginning of every other that
\* knows its rows.
LEMMA SelectionPends ==
  ASSUME NEW list \in Artifacts \cup {{}}, NEW r, Segment(r), Known(list, r)
  PROVE  Pending(list, list \ r, r)
  <1> SUFFICES ASSUME NEW m \in list \ r, NEW n \in list, m.id < n.id, n \in r
               PROVE  FALSE
    BY DEF Pending
  <1>1. list \in Artifacts
    OBVIOUS
  <1>2. PICK past \in Artifacts : IsBeginning(past, r)
    BY DEF Segment
  <1>3. n \in past /\ m.id <= n.id
    BY <1>1, <1>2, ArtifactFacts DEF IsBeginning, Known
  <1>4. m \in past
    BY <1>1, <1>3, LineagesAssumption
  <1> QED BY <1>2, <1>4 DEF IsBeginning, Gapless

LEMMA AdvancePends ==
  ASSUME NEW list \in Artifacts \cup {{}}, NEW todo, NEW r, Pending(list, todo, r), todo # {}, First(todo) \in r
  PROVE  Pending(list, todo \ {First(todo)}, r)
  <1>1. list \in Artifacts /\ todo \in SUBSET Migrations /\ IsFiniteSet(todo) /\ todo \subseteq list
    BY ListIsFinite, FS_Subset DEF Pending
  <1>2. First(todo) \in todo /\ \A m \in todo : First(todo).id <= m.id
    BY <1>1, FirstOf
  <1>3. \A m \in list : m.id \in Nat
    BY <1>1, ArtifactFacts
  <1> QED BY <1>1, <1>2, <1>3 DEF Pending

\* The next migration of a selection continues the history in the ledger, whatever
\* others have recorded since it was selected: it is enough that its id is free.
LEMMA NextContinues ==
  ASSUME NEW list \in Artifacts, NEW todo, NEW r, Pending(list, todo, r), todo # {}, Segment(r),
         \A x \in r : x.id # First(todo).id
  PROVE  /\ First(todo) \in list \ r
         /\ IsBeginning(list, r) /\ IsBeginning(list, r \cup {First(todo)})
  <1>1. todo \in SUBSET Migrations /\ IsFiniteSet(todo) /\ todo \subseteq list
    BY ListIsFinite, FS_Subset DEF Pending
  <1>m. PICK m : m = First(todo)
    OBVIOUS
  <1>2. m \in todo /\ m \in list /\ m \notin r /\ \A n \in todo : m.id <= n.id
    BY <1>1, <1>m, FirstOf
  <1>3. \A n \in list : n.id \in Nat
    BY ArtifactFacts
  <1>4. \A n \in list : n.id < m.id => n \in r
    BY <1>2, <1>3 DEF Pending
  <1>5. ASSUME NEW x \in r
        PROVE  x \in list /\ x.id < m.id
    <2>1. PICK past \in Artifacts : IsBeginning(past, r)
      BY DEF Segment
    <2>2. x \in past /\ x.id \in Nat
      BY <2>1, ArtifactFacts DEF IsBeginning, Known
    <2>3. x.id < m.id
      <3>1. SUFFICES ASSUME m.id <= x.id PROVE FALSE
        BY <1>2, <1>3, <2>2
      <3>2. PICK k \in past : k.id = m.id
        BY <1>2, <2>2, <3>1, LineagesAssumption
      <3>3. k.id < x.id
        BY <1>2, <1>3, <1>m, <2>2, <3>1, <3>2
      <3>4. k \in r
        BY <2>1, <3>3 DEF IsBeginning, Gapless
      <3> QED BY <1>m, <3>2, <3>4
    <2>4. PICK k \in list : k.id = x.id
      BY <1>2, <1>3, <2>2, <2>3, LineagesAssumption
    <2>5. k \in r /\ k \in past
      BY <1>4, <2>1, <2>3, <2>4 DEF IsBeginning, Known
    <2> QED BY <2>2, <2>3, <2>4, <2>5, ArtifactFacts
  <1>6. \A n \in list, x \in r \cup {m} : n.id < x.id => n.id < m.id
    BY <1>2, <1>3, <1>5
  <1> QED BY <1>2, <1>4, <1>5, <1>6, <1>m DEF IsBeginning, Known, Gapless

\* Without its newest row the ledger still holds the beginning of that history.
LEMMA NewestLeaves ==
  ASSUME NEW r, Segment(r), NEW m, IsNewest(m, r)
  PROVE  Segment(r \ {m})
  <1>1. PICK list \in Artifacts : IsBeginning(list, r)
    BY DEF Segment, IsNewest
  <1>2. \A n \in list : n.id \in Nat
    BY ArtifactFacts
  <1>3. IsBeginning(list, r \ {m})
    BY <1>1, <1>2 DEF IsBeginning, Known, Gapless, IsNewest
  <1> QED BY <1>3 DEF Segment
=============================================================================
