------------------------- MODULE ConnRegistryProofs -------------------------
(***************************************************************************)
(* Theorems about ConnRegistry for any number of callers, codes, alias     *)
(* maps and row versions. Types, the lock and what a failed call leaves    *)
(* need no assumption on what overlaps; that aliases follow their source,  *)
(* that a source is opened once and that its newest row wins need the      *)
(* discipline operations.md asks of an application (RegistrationsAlone).   *)
(***************************************************************************)
EXTENDS ConnRegistry, SequenceTheorems, TLAPS

-----------------------------------------------------------------------------
(* Type correctness *)

LEMMA ConstantTypes ==
    /\ NoAliases \in [Codes -> Codes \cup {NoSource}]
    /\ NoFrame \in Frame
    /\ Base \in Codes /\ 0 \in Versions /\ 1 \in Versions
  BY CodesAssumption, VersionsAssumption
  DEF NoAliases, NoFrame, Frame, Connection, Versions

LEMMA GotoType ==
  ASSUME TypeOK, NEW t \in Tasks, NEW at \in PCs, NEW f \in Frame, Goto(t, at, f)
  PROVE  /\ pc' \in [Tasks -> PCs]
         /\ frame' \in [Tasks -> Frame]
         /\ loadLock' \in Tasks \cup {NoTask}
  BY DEF TypeOK, Goto

LEMMA ReturnType ==
  ASSUME TypeOK, NEW t \in Tasks, Return(t)
  PROVE  /\ pc' \in [Tasks -> PCs]
         /\ frame' \in [Tasks -> Frame]
         /\ loadLock' \in Tasks \cup {NoTask}
  BY ConstantTypes DEF TypeOK, Return, PCs

LEMMA PutType ==
  ASSUME TypeOK, NEW c \in Codes, NEW con \in Connection \cup {NoConn}, Put(c, con)
  PROVE  connections' \in [Codes -> Connection \cup {NoConn}]
  BY DEF TypeOK, Put

LEMMA ActType ==
  ASSUME TypeOK, NEW s \in Codes, NEW url \in Versions, Act(s, url)
  PROVE  seen' \in [Codes -> Versions]
  BY VersionsAssumption DEF TypeOK, Act, Newest, Versions

\* The fields of a frame.
LEMMA FrameType ==
  ASSUME TypeOK, NEW t \in Tasks
  PROVE  /\ frame[t] \in Frame
         /\ frame[t].op \in Operations \cup {"none"}
         /\ frame[t].code \in Codes /\ frame[t].src \in Codes
         /\ frame[t].con \in Connection
         /\ frame[t].con.src \in Codes /\ frame[t].con.url \in Versions
         /\ frame[t].models \in ModelSets \cup {NoModels}
         /\ frame[t].listed \subseteq Codes /\ frame[t].todo \subseteq Codes
         /\ frame[t].built \subseteq Codes
         /\ frame[t].values \in [Codes -> Codes \cup {NoSource}]
  BY DEF TypeOK, Frame, Connection

LEMMA GetMissType ==
  ASSUME TypeOK, NEW t \in Tasks, NEW c \in Codes, GetMiss(t, c)
  PROVE  TypeOK'
  <1> DEFINE f == [NoFrame EXCEPT !.code = c, !.src = c, !.op = "get"]
  <1>1. f \in Frame
    BY ConstantTypes, OperationsAssumption DEF GetMiss, Begin, MayCall, Frame, NoFrame
  <1>2. Goto(t, "wait", f)
    BY DEF GetMiss, Begin, NoFrame
  <1>3. QED
    BY <1>1, <1>2, GotoType DEF GetMiss, TypeOK, shared, PCs

LEMMA ReloadType ==
  ASSUME TypeOK, NEW t \in Tasks, NEW c \in Codes, Reload(t, c)
  PROVE  TypeOK'
  <1> DEFINE f == [NoFrame EXCEPT !.code = c, !.src = SourceOf(c), !.op = "reload"]
  <1>1. f \in Frame
    BY ConstantTypes DEF Reload, Begin, MayCall, Frame, Connection, NoFrame, Versions, Keys, Address, SourceOf, IsAlias, TypeOK
  <1>2. Goto(t, "wait", f)
    BY DEF Reload, Begin, NoFrame
  <1>3. QED
    BY <1>1, <1>2, GotoType DEF Reload, TypeOK, shared, PCs

LEMMA UnregisterType ==
  ASSUME TypeOK, NEW t \in Tasks, NEW c \in Codes, Unregister(t, c)
  PROVE  TypeOK'
  <1> DEFINE f == [NoFrame EXCEPT !.code = c, !.op = "unregister"]
  <1>1. f \in Frame
    BY ConstantTypes DEF Unregister, Begin, MayCall, Frame, Connection, NoFrame, Versions, Keys, Address, SourceOf, IsAlias, TypeOK
  <1>2. Goto(t, "unset_models", f)
    BY DEF Unregister, Begin, NoFrame
  <1>3. QED
    BY <1>1, <1>2, GotoType, PutType DEF Unregister, TypeOK, shared, others, PCs

LEMMA AddSourceType ==
  ASSUME TypeOK, NEW t \in Tasks, NEW c \in Codes, NEW m \in ModelSets, AddSource(t, c, m)
  PROVE  TypeOK'
  <1> DEFINE f == [NoFrame EXCEPT !.code = c, !.src = c, !.models = m,
                                 !.con = [src |-> c, url |-> Address(c)], !.op = "add"]
  <1>1. f \in Frame
    BY ConstantTypes DEF AddSource, Begin, MayCall, Frame, Connection, NoFrame, Versions, Keys, Address, SourceOf, IsAlias, TypeOK
  <1>2. Goto(t, "connect", f)
    BY DEF AddSource, Begin, NoFrame
  <1>3. QED
    BY <1>1, <1>2, GotoType DEF AddSource, TypeOK, shared, others, PCs

LEMMA InitAliasType ==
  ASSUME TypeOK, NEW t \in Tasks, NEW values \in AliasMaps, InitAlias(t, values)
  PROVE  TypeOK'
  <1> DEFINE f == [NoFrame EXCEPT !.values = values, !.todo = Keys(aliases), !.op = "init_alias"]
  <1>1. f \in Frame
    BY ConstantTypes, AliasMapsAssumption DEF InitAlias, Begin, MayCall, Frame, Connection, NoFrame, Versions, Keys, Address, SourceOf, IsAlias, TypeOK
  <1>2. Goto(t, "init_map", f)
    BY DEF InitAlias, Begin, NoFrame
  <1>3. QED
    BY <1>1, <1>2, GotoType DEF InitAlias, TypeOK, shared, others, PCs

LEMMA LockStepsType ==
  ASSUME TypeOK, NEW t \in Tasks,
         AcquireLock(t) \/ Recheck(t) \/ FoundSource(t) \/ QueryBase(t) \/ ReadRow(t)
  PROVE  TypeOK'
  <1> DEFINE f == frame[t]
  <1>1. CASE AcquireLock(t)
    <2>1. pc' \in [Tasks -> PCs] /\ waiters' \in Seq(Tasks)
      BY <1>1 DEF AcquireLock, TypeOK, PCs
    <2>2. QED
      BY <1>1, <2>1 DEF AcquireLock, TypeOK, shared
  <1>2. CASE Recheck(t)
    <2> DEFINE g == [f EXCEPT !.src = SourceOf(f.code)]
    <2>1. g \in Frame
      BY FrameType DEF Frame, SourceOf, IsAlias, TypeOK
    <2>2. Return(t) \/ Goto(t, "load", g)
      BY <1>2 DEF Recheck
    <2>3. QED
      BY <1>2, <2>1, <2>2, GotoType, ReturnType DEF Recheck, TypeOK, shared, others, PCs
  <1>3. CASE FoundSource(t)
    <2> DEFINE g == [f EXCEPT !.con = connections[f.src]]
    <2>1. g \in Frame
      BY <1>3, FrameType DEF FoundSource, Has, Frame, TypeOK
    <2>2. Goto(t, "alias", g)
      BY <1>3 DEF FoundSource
    <2>3. QED
      BY <1>3, <2>1, <2>2, GotoType DEF FoundSource, TypeOK, shared, others, PCs
  <1>4. CASE QueryBase(t)
    <2>1. Return(t) \/ Goto(t, "row", f)
      BY <1>4 DEF QueryBase
    <2>2. QED
      BY <1>4, <2>1, FrameType, GotoType, ReturnType DEF QueryBase, TypeOK, shared, others, PCs
  <1>5. CASE ReadRow(t)
    <2> DEFINE g == [f EXCEPT !.con = [src |-> f.src, url |-> catalog[f.src]],
                              !.models = modelSets[f.src]]
    <2>1. g \in Frame
      BY FrameType DEF Frame, Connection, TypeOK
    <2>2. Return(t) \/ Goto(t, "connect", g) \/ Goto(t, "evict", g)
      BY <1>5 DEF ReadRow
    <2>3. QED
      BY <1>5, <2>1, <2>2, GotoType, ReturnType DEF ReadRow, TypeOK, shared, others, PCs
  <1>6. QED
    BY <1>1, <1>2, <1>3, <1>4, <1>5

LEMMA PublishStepsType ==
  ASSUME TypeOK, NEW t \in Tasks,
         \/ Connect(t) \/ StoreModels(t) \/ AddCon(t)
         \/ \E a \in Codes : DeriveAlias(t, a) \/ AddAlias(t, a)
  PROVE  TypeOK'
  <1> DEFINE f == frame[t]
  <1>1. CASE Connect(t)
    <2> DEFINE g == [f EXCEPT !.listed = AliasesOf(f.src), !.todo = AliasesOf(f.src)]
    <2>1. g \in Frame
      BY FrameType DEF Frame, AliasesOf
    <2>2. Goto(t, "derive", g)
      BY <1>1 DEF Connect
    <2>3. QED
      BY <1>1, <2>1, <2>2, GotoType DEF Connect, TypeOK, shared, others, PCs
  <1>2. CASE StoreModels(t)
    <2> DEFINE g == [f EXCEPT !.wrote = TRUE]
    <2>1. g \in Frame
      BY FrameType DEF Frame
    <2>2. Goto(t, "add_con", g)
      BY <1>2 DEF StoreModels
    <2>3. modelSets' \in [Codes -> ModelSets \cup {NoModels}]
      BY <1>2, FrameType DEF StoreModels, TypeOK
    <2>4. QED
      BY <1>2, <2>1, <2>2, <2>3, GotoType DEF StoreModels, TypeOK, others, PCs
  <1>3. CASE AddCon(t)
    <2> DEFINE g == [f EXCEPT !.todo = f.listed, !.wrote = TRUE]
    <2>1. g \in Frame
      BY FrameType DEF Frame
    <2>2. Goto(t, "add_aliases", g)
      BY <1>3 DEF AddCon
    <2>3. /\ connections' \in [Codes -> Connection \cup {NoConn}]
          /\ seen' \in [Codes -> Versions]
      BY <1>3, FrameType, PutType, ActType DEF AddCon
    <2>4. QED
      BY <1>3, <2>1, <2>2, <2>3, GotoType DEF AddCon, TypeOK, PCs
  <1>4. ASSUME NEW a \in Codes, DeriveAlias(t, a)
        PROVE  TypeOK'
    <2> DEFINE g == [f EXCEPT !.todo = @ \ {a}, !.built = IF HasModels(a) THEN @ \cup {a} ELSE @]
    <2>1. g \in Frame
      BY FrameType DEF Frame
    <2>2. Goto(t, "derive", g)
      BY <1>4 DEF DeriveAlias
    <2>3. QED
      BY <1>4, <2>1, <2>2, GotoType DEF DeriveAlias, TypeOK, shared, others, PCs
  <1>5. ASSUME NEW a \in Codes, AddAlias(t, a)
        PROVE  TypeOK'
    <2> DEFINE g == [f EXCEPT !.todo = @ \ {a}]
    <2>1. g \in Frame
      BY FrameType DEF Frame
    <2>2. Goto(t, "add_aliases", g)
      BY <1>5 DEF AddAlias
    <2>3. connections' \in [Codes -> Connection \cup {NoConn}]
      BY <1>5, FrameType, PutType DEF AddAlias
    <2>4. QED
      BY <1>5, <2>1, <2>2, <2>3, GotoType DEF AddAlias, TypeOK, others, PCs
  <1>6. QED
    BY <1>1, <1>2, <1>3, <1>4, <1>5

\* TypeOK alone is not inductive: init_aliases looks up the source of every alias
\* it still has to open, so those aliases must be keys of the new map.
InitTodoMapped == \A t \in Tasks :
    pc[t] \in {"init_aliases", "init_build"} => frame[t].todo \subseteq Keys(frame[t].values)

LEMMA InitTodoMappedStep ==
  ASSUME TypeOK, InitTodoMapped, [Next]_vars
  PROVE  InitTodoMapped'
  <1> USE DEF InitTodoMapped, TypeOK
  <1>1. ASSUME NEW t \in Tasks, Call(t)
        PROVE  InitTodoMapped'
    BY <1>1 DEF Call, GetMiss, Reload, Unregister, AddSource, InitAlias, Begin, Goto
  <1>2. ASSUME NEW t \in Tasks, Step(t)
        PROVE  InitTodoMapped'
    <2>1. CASE AcquireLock(t)
      BY <2>1 DEF AcquireLock
    <2>2. CASE Recheck(t) \/ FoundSource(t) \/ QueryBase(t) \/ ReadRow(t)
      BY <2>2 DEF Recheck, FoundSource, QueryBase, ReadRow, Goto, Return
    <2>3. CASE Connect(t) \/ StoreModels(t) \/ AddCon(t) \/ ServeAlias(t) \/ EvictSource(t)
               \/ UnsetModels(t) \/ ReplaceAliases(t)
      BY <2>3 DEF Connect, StoreModels, AddCon, ServeAlias, EvictSource, UnsetModels, ReplaceAliases,
                  Goto, Return
    <2>4. CASE BuildAlias(t)
      BY <2>4 DEF BuildAlias, Goto, Return
    <2>5. CASE LoopDone(t)
      <3>1. CASE Goto(t, "init_aliases", [frame[t] EXCEPT !.todo = Keys(frame[t].values)])
        BY <3>1, FrameType DEF Goto, Frame
      <3>2. CASE Return(t) \/ Goto(t, "alias", frame[t])
        BY <3>2 DEF Goto, Return
      <3>3. QED
        BY <2>5, <3>1, <3>2 DEF LoopDone
    <2>6. ASSUME NEW a \in Codes, DeriveAlias(t, a) \/ AddAlias(t, a) \/ DropAlias(t, a)
          PROVE  InitTodoMapped'
      BY <2>6 DEF DeriveAlias, AddAlias, DropAlias, Goto
    <2>7. ASSUME NEW a \in Codes, InitOneAlias(t, a)
          PROVE  InitTodoMapped'
      <3> DEFINE g == [frame[t] EXCEPT !.todo = @ \ {a}]
                 h == [g EXCEPT !.code = a, !.con = connections[frame[t].values[a]]]
      <3>1. /\ g.todo \subseteq frame[t].todo /\ g.values = frame[t].values
            /\ h.todo \subseteq frame[t].todo /\ h.values = frame[t].values
        BY FrameType DEF Frame
      <3>2. Return(t) \/ Goto(t, "init_aliases", g) \/ Goto(t, "init_build", h)
        BY <2>7 DEF InitOneAlias
      <3>3. frame[t].todo \subseteq Keys(frame[t].values)
        BY <2>7 DEF InitOneAlias
      <3>4. QED
        BY <3>1, <3>2, <3>3 DEF Goto, Return
    <2>8. QED
      BY <1>2, <2>1, <2>2, <2>3, <2>4, <2>5, <2>6, <2>7 DEF Step
  <1>3. ASSUME NEW t \in Tasks, Fail(t)
        PROVE  InitTodoMapped'
    BY <1>3 DEF Fail, Return
  <1>4. CASE Immediate
    BY <1>4 DEF Immediate, AddDb, Remove, SetModels, Clear
  <1>5. CASE (\E c \in Codes : UpdateRow(c)) \/ UNCHANGED vars
    BY <1>5 DEF UpdateRow, vars
  <1>6. QED
    BY <1>1, <1>2, <1>3, <1>4, <1>5 DEF Next

LEMMA AliasStepsType ==
  ASSUME TypeOK, InitTodoMapped, NEW t \in Tasks,
         \/ ServeAlias(t) \/ BuildAlias(t) \/ EvictSource(t)
         \/ UnsetModels(t) \/ ReplaceAliases(t) \/ LoopDone(t)
         \/ \E a \in Codes : DropAlias(t, a) \/ InitOneAlias(t, a)
  PROVE  TypeOK'
  <1> DEFINE f == frame[t]
  <1>1. CASE ServeAlias(t)
    <2>1. Return(t) \/ Goto(t, "build_alias", f)
      BY <1>1 DEF ServeAlias
    <2>2. QED
      BY <1>1, <2>1, FrameType, GotoType, ReturnType DEF ServeAlias, TypeOK, shared, others, PCs
  <1>2. CASE BuildAlias(t)
    <2>1. Return(t) \/ Goto(t, "init_aliases", f)
      BY <1>2 DEF BuildAlias
    <2>2. connections' \in [Codes -> Connection \cup {NoConn}]
      BY <1>2, FrameType, PutType DEF BuildAlias
    <2>3. QED
      BY <1>2, <2>1, <2>2, FrameType, GotoType, ReturnType DEF BuildAlias, TypeOK, others, PCs
  <1>3. CASE EvictSource(t)
    <2> DEFINE g == [f EXCEPT !.todo = AliasesOf(f.src)]
    <2>1. g \in Frame
      BY FrameType DEF Frame, AliasesOf
    <2>2. Goto(t, "evict_aliases", g)
      BY <1>3 DEF EvictSource
    <2>3. /\ connections' \in [Codes -> Connection \cup {NoConn}]
          /\ seen' \in [Codes -> Versions]
      BY <1>3, FrameType, PutType, ActType DEF EvictSource
    <2>4. QED
      BY <1>3, <2>1, <2>2, <2>3, GotoType DEF EvictSource, TypeOK, PCs
  <1>4. CASE UnsetModels(t)
    <2>1. modelSets' \in [Codes -> ModelSets \cup {NoModels}]
      BY <1>4, FrameType DEF UnsetModels, TypeOK
    <2>2. QED
      BY <1>4, <2>1, ReturnType DEF UnsetModels, TypeOK, others
  <1>5. CASE ReplaceAliases(t)
    <2>1. Return(t) \/ Goto(t, "drop_aliases", f)
      BY <1>5 DEF ReplaceAliases
    <2>2. aliases' \in [Codes -> Codes \cup {NoSource}]
      BY <1>5, FrameType DEF ReplaceAliases, TypeOK
    <2>3. QED
      BY <1>5, <2>1, <2>2, FrameType, GotoType, ReturnType DEF ReplaceAliases, TypeOK, others, PCs
  <1>6. CASE LoopDone(t)
    <2> DEFINE g == [f EXCEPT !.todo = Keys(f.values)]
    <2>1. g \in Frame
      BY FrameType DEF Frame, Keys
    <2>2. Return(t) \/ Goto(t, "alias", f) \/ Goto(t, "init_aliases", g)
      BY <1>6 DEF LoopDone
    <2>3. QED
      BY <1>6, <2>1, <2>2, FrameType, GotoType, ReturnType DEF LoopDone, TypeOK, shared, others, PCs
  <1>7. ASSUME NEW a \in Codes, DropAlias(t, a)
        PROVE  TypeOK'
    <2> DEFINE g == [f EXCEPT !.todo = @ \ {a}]
    <2>1. g \in Frame
      BY FrameType DEF Frame
    <2>2. Goto(t, pc[t], g) /\ pc[t] \in PCs
      BY <1>7 DEF DropAlias, TypeOK
    <2>3. connections' \in [Codes -> Connection \cup {NoConn}]
      BY <1>7, PutType DEF DropAlias
    <2>4. QED
      BY <1>7, <2>1, <2>2, <2>3, GotoType DEF DropAlias, TypeOK, others
  <1>8. ASSUME NEW a \in Codes, InitOneAlias(t, a)
        PROVE  TypeOK'
    <2> DEFINE source == connections[f.values[a]]
               g == [f EXCEPT !.todo = @ \ {a}]
               h == [g EXCEPT !.code = a, !.con = source]
    <2>1. g \in Frame
      BY FrameType DEF Frame
    <2>2. connections' \in [Codes -> Connection \cup {NoConn}]
      BY <1>8, PutType DEF InitOneAlias, TypeOK
    <2>3. CASE Return(t) \/ Goto(t, "init_aliases", g)
      BY <1>8, <2>1, <2>2, <2>3, GotoType, ReturnType DEF InitOneAlias, TypeOK, others, PCs
    <2>4. CASE Goto(t, "init_build", h) /\ source # NoConn /\ source.url # NoUrl
      <3>1. f.values[a] \in Codes
        BY <1>8, FrameType DEF InitOneAlias, InitTodoMapped, Keys
      <3>2. source \in Connection
        BY <2>4, <3>1 DEF TypeOK
      <3>3. h \in Frame
        BY <2>1, <3>2 DEF Frame
      <3>4. QED
        BY <1>8, <2>2, <2>4, <3>3, GotoType DEF InitOneAlias, TypeOK, others, PCs
    <2>5. QED
      BY <1>8, <2>3, <2>4 DEF InitOneAlias
  <1>9. QED
    BY <1>1, <1>2, <1>3, <1>4, <1>5, <1>6, <1>7, <1>8

LEMMA FailType ==
  ASSUME TypeOK, NEW t \in Tasks, Fail(t)
  PROVE  TypeOK'
  <1>1. waiters' \in Seq(Tasks)
    <2>1. CASE UNCHANGED waiters
      BY <2>1 DEF TypeOK
    <2>2. ASSUME NEW i \in 1..Len(waiters),
                 waiters' = SubSeq(waiters, 1, i - 1) \o SubSeq(waiters, i + 1, Len(waiters))
          PROVE  waiters' \in Seq(Tasks)
      <3>1. waiters \in Seq(Tasks) /\ Len(waiters) \in Nat /\ i \in Int
        BY DEF TypeOK
      <3>2. SubSeq(waiters, 1, i - 1) \in Seq(Tasks)
        BY <3>1, SubSeqProperties
      <3>3. SubSeq(waiters, i + 1, Len(waiters)) \in Seq(Tasks)
        BY <3>1, SubSeqProperties
      <3>4. QED
        BY <2>2, <3>2, <3>3, ConcatProperties
    <2>3. QED
      BY <2>1, <2>2 DEF Fail
  <1>2. QED
    BY <1>1, ReturnType DEF Fail, TypeOK, shared

LEMMA ImmediateType ==
  ASSUME TypeOK, Immediate
  PROVE  TypeOK'
  <1>1. ASSUME NEW c \in Codes, AddDb(c)
        PROVE  TypeOK'
    <2>1. [src |-> c, url |-> NoUrl] \in Connection
      BY ConstantTypes DEF Connection, NoUrl
    <2>2. QED
      BY <1>1, <2>1, PutType DEF AddDb, TypeOK, others
  <1>2. ASSUME NEW c \in Codes, Remove(c)
        PROVE  TypeOK'
    BY <1>2, PutType DEF Remove, TypeOK, others
  <1>3. ASSUME NEW c \in Codes, NEW m \in ModelSets, SetModels(c, m)
        PROVE  TypeOK'
    BY <1>3 DEF SetModels, TypeOK, others
  <1>4. CASE Clear
    BY <1>4 DEF Clear, TypeOK, others
  <1>5. QED
    BY <1>1, <1>2, <1>3, <1>4 DEF Immediate

\* Every reachable state of the registry is well typed: in particular only an
\* existing connection is ever opened again for an alias (registry.rs, build_alias).
THEOREM TypeCorrect == Spec => []TypeOK
  <1>1. Init => TypeOK /\ InitTodoMapped
    BY ConstantTypes, CodesAssumption DEF Init, TypeOK, PCs, NoConn, Versions, InitTodoMapped
  <1>2. TypeOK /\ InitTodoMapped /\ [Next]_vars => TypeOK' /\ InitTodoMapped'
    <2> SUFFICES ASSUME TypeOK, InitTodoMapped, [Next]_vars PROVE TypeOK'
      BY InitTodoMappedStep
    <2>1. ASSUME NEW t \in Tasks, Call(t)
          PROVE  TypeOK'
      BY <2>1, GetMissType, ReloadType, UnregisterType, AddSourceType, InitAliasType DEF Call
    <2>2. ASSUME NEW t \in Tasks, Step(t)
          PROVE  TypeOK'
      BY <2>2, LockStepsType, PublishStepsType, AliasStepsType DEF Step
    <2>3. ASSUME NEW c \in Codes, UpdateRow(c)
          PROVE  TypeOK'
      BY <2>3, VersionsAssumption DEF UpdateRow, TypeOK, Versions, shared
    <2>4. CASE UNCHANGED vars
      BY <2>4 DEF vars, TypeOK
    <2>5. QED
      BY <2>1, <2>2, <2>3, <2>4, FailType, ImmediateType DEF Next
  <1>3. QED
    BY <1>1, <1>2, PTL DEF Spec

-----------------------------------------------------------------------------
(* LOAD_LOCK *)

\* Whoever waits for the lock, or works under it alone, is a get or a reload.
LockUsersAreLoads == \A t \in Tasks :
    pc[t] \in Locked \cup {"wait"} => frame[t].op \in {"get", "reload"}

LockInv == LockUsersAreLoads /\ LoadLockHeld

\* A task that moves on within its call stays inside the critical section, or outside.
Stays(t) ==
    /\ \A u \in Tasks \ {t} : pc'[u] = pc[u] /\ frame'[u] = frame[u]
    /\ frame'[t].op = frame[t].op
    /\ \/ pc[t] \in Locked /\ pc'[t] \in Locked \cup Publishing
       \/ pc[t] \in Publishing /\ pc'[t] \in Publishing
       \/ pc[t] \in Publishing /\ pc'[t] \in Locked /\ frame[t].op = "get"
       \/ pc[t] \notin Locked \cup Publishing /\ pc'[t] \notin Locked \cup Publishing \cup {"wait"}
    /\ loadLock' = loadLock

LEMMA StaysLockInv ==
  ASSUME TypeOK, LockInv, NEW t \in Tasks, Stays(t)
  PROVE  LockInv'
  BY DEF Stays, LockInv, LockUsersAreLoads, LoadLockHeld, InCriticalSection, Locked, Publishing

LEMMA ReturnLockInv ==
  ASSUME TypeOK, LockInv, NEW t \in Tasks, Return(t)
  PROVE  LockInv'
  BY TasksAssumption
  DEF TypeOK, Return, LockInv, LockUsersAreLoads, LoadLockHeld, InCriticalSection, Locked, Publishing

LEMMA StepStays ==
  ASSUME TypeOK, NEW t \in Tasks, Step(t), ~AcquireLock(t)
  PROVE  Stays(t) \/ Return(t)
  <1> USE FrameType DEF Stays, Goto, Frame, TypeOK, Locked, Publishing
  <1>1. CASE Recheck(t)
    BY <1>1 DEF Recheck
  <1>2. CASE FoundSource(t)
    BY <1>2 DEF FoundSource
  <1>3. CASE QueryBase(t)
    BY <1>3 DEF QueryBase
  <1>4. CASE ReadRow(t)
    <2> DEFINE g == [frame[t] EXCEPT !.con = [src |-> frame[t].src, url |-> catalog[frame[t].src]],
                                     !.models = modelSets[frame[t].src]]
    <2>1. g.op = frame[t].op
      OBVIOUS
    <2>2. pc[t] = "row" /\ (Return(t) \/ Goto(t, "connect", g) \/ Goto(t, "evict", g))
      BY <1>4 DEF ReadRow
    <2> HIDE DEF g
    <2>3. QED
      BY <2>1, <2>2
  <1>5. CASE Connect(t)
    BY <1>5 DEF Connect
  <1>6. CASE StoreModels(t)
    BY <1>6 DEF StoreModels
  <1>7. CASE AddCon(t)
    BY <1>7 DEF AddCon
  <1>8. CASE ServeAlias(t)
    BY <1>8 DEF ServeAlias
  <1>9. CASE BuildAlias(t)
    BY <1>9 DEF BuildAlias
  <1>10. CASE EvictSource(t)
    BY <1>10 DEF EvictSource
  <1>11. CASE UnsetModels(t)
    BY <1>11 DEF UnsetModels
  <1>12. CASE ReplaceAliases(t)
    BY <1>12 DEF ReplaceAliases
  <1>13. CASE LoopDone(t)
    BY <1>13 DEF LoopDone
  <1>14. ASSUME NEW a \in Codes, DeriveAlias(t, a)
         PROVE  Stays(t)
    BY <1>14 DEF DeriveAlias
  <1>15. ASSUME NEW a \in Codes, AddAlias(t, a)
         PROVE  Stays(t)
    BY <1>15 DEF AddAlias
  <1>16. ASSUME NEW a \in Codes, DropAlias(t, a)
         PROVE  Stays(t)
    BY <1>16 DEF DropAlias
  <1>17. ASSUME NEW a \in Codes, InitOneAlias(t, a)
         PROVE  Stays(t) \/ Return(t)
    <2> DEFINE g == [frame[t] EXCEPT !.todo = @ \ {a}]
               h == [g EXCEPT !.code = a, !.con = connections[frame[t].values[a]]]
    <2>1. g.op = frame[t].op /\ h.op = frame[t].op
      OBVIOUS
    <2>2. /\ pc[t] = "init_aliases"
          /\ Return(t) \/ Goto(t, "init_aliases", g) \/ Goto(t, "init_build", h)
      BY <1>17 DEF InitOneAlias
    <2> HIDE DEF g, h
    <2>3. QED
      BY <2>1, <2>2
  <1>18. QED
    BY <1>1, <1>2, <1>3, <1>4, <1>5, <1>6, <1>7, <1>8, <1>9, <1>10, <1>11, <1>12, <1>13, <1>14,
       <1>15, <1>16, <1>17 DEF Step

\* At most one get_or_load or reload is past LOAD_LOCK, the one that holds it:
\* whatever they do between the second look at the cache and their return is
\* serialised (registry.rs, get_or_load and reload).
THEOREM LoadsAreSerialised == Spec => []LoadLockHeld
  <1>1. Init => LockInv
    BY TasksAssumption DEF Init, LockInv, LockUsersAreLoads, LoadLockHeld, InCriticalSection, Locked, Publishing
  <1>2. TypeOK /\ LockInv /\ [Next]_vars => LockInv'
    <2> SUFFICES ASSUME TypeOK, LockInv, [Next]_vars PROVE LockInv'
      OBVIOUS
    <2> USE DEF TypeOK, LockInv, LockUsersAreLoads, LoadLockHeld, InCriticalSection, Locked, Publishing
    <2>1. ASSUME NEW t \in Tasks, Call(t)
          PROVE  LockInv'
      <3>1. ASSUME NEW c \in Codes, GetMiss(t, c) \/ Reload(t, c) PROVE LockInv'
        <4>1. /\ pc[t] = "idle" /\ loadLock' = loadLock
              /\ \A u \in Tasks \ {t} : pc'[u] = pc[u] /\ frame'[u] = frame[u]
          BY <3>1 DEF GetMiss, Reload, Begin, Goto
        <4>2. CASE GetMiss(t, c)
          <5>1. frame' = [frame EXCEPT ![t] = [NoFrame EXCEPT !.code = c, !.src = c, !.op = "get"]]
            BY <4>2 DEF GetMiss, Begin, Goto
          <5>2. pc'[t] = "wait" /\ frame'[t].op = "get"
            BY <4>2, <5>1, ConstantTypes DEF GetMiss, Begin, Goto, Frame
          <5>3. QED
            BY <4>1, <5>2
        <4>3. CASE Reload(t, c)
          <5>1. frame' = [frame EXCEPT ![t] = [NoFrame EXCEPT !.code = c, !.src = SourceOf(c), !.op = "reload"]]
            BY <4>3 DEF Reload, Begin, Goto
          <5>2. pc'[t] = "wait" /\ frame'[t].op = "reload"
            BY <4>3, <5>1, ConstantTypes DEF Reload, Begin, Goto, Frame
          <5>3. QED
            BY <4>1, <5>2
        <4>4. QED
          BY <3>1, <4>2, <4>3
      <3>2. ASSUME NEW c \in Codes, Unregister(t, c) PROVE LockInv'
        BY <3>2, TasksAssumption DEF Unregister, Begin, Goto, NoFrame
      <3>3. ASSUME NEW c \in Codes, NEW m \in ModelSets, AddSource(t, c, m) PROVE LockInv'
        BY <3>3, TasksAssumption DEF AddSource, Begin, Goto, NoFrame
      <3>4. ASSUME NEW values \in AliasMaps, InitAlias(t, values) PROVE LockInv'
        BY <3>4, TasksAssumption DEF InitAlias, Begin, Goto, NoFrame
      <3>5. QED
        BY <2>1, <3>1, <3>2, <3>3, <3>4 DEF Call
    <2>2. ASSUME NEW t \in Tasks, AcquireLock(t)
          PROVE  LockInv'
      BY <2>2, TasksAssumption DEF AcquireLock
    <2>3. ASSUME NEW t \in Tasks, Step(t), ~AcquireLock(t)
          PROVE  LockInv'
      BY <2>3, StepStays, StaysLockInv, ReturnLockInv
    <2>4. ASSUME NEW t \in Tasks, Fail(t)
          PROVE  LockInv'
      BY <2>4, ReturnLockInv DEF Fail
    <2>5. CASE Immediate \/ (\E c \in Codes : UpdateRow(c)) \/ UNCHANGED vars
      BY <2>5 DEF Immediate, AddDb, Remove, SetModels, Clear, UpdateRow, vars
    <2>6. QED
      BY <2>1, <2>2, <2>3, <2>4, <2>5 DEF Next
  <1>3. QED
    BY <1>1, <1>2, TypeCorrect, PTL DEF Spec, LockInv

-----------------------------------------------------------------------------
(* One call works at a time *)

\* The application registers sources and replaces the alias map next to no other call
\* that opens connections, and leaves every connection to the registry.
RegistrationsAlone ==
    /\ "add_db" \notin Operations
    /\ {"add"} \in Apart /\ {"add", "get"} \in Apart /\ {"add", "reload"} \in Apart
    /\ {"init_alias"} \in Apart /\ {"init_alias", "get"} \in Apart /\ {"init_alias", "reload"} \in Apart
    /\ {"init_alias", "add"} \in Apart

\* Calls that the application keeps apart do not run at once.
RunApart == \A t, u \in Tasks :
    t # u /\ pc[t] # "idle" /\ pc[u] # "idle" => {frame[t].op, frame[u].op} \notin Apart

\* The calls that come to a point.
Initialising == {"init_map", "drop_aliases", "init_aliases", "init_build"}
Reaches(op, at) ==
    /\ at = "idle" => op = "none"
    /\ at \in {"wait", "row"} => op \in {"get", "reload"}
    /\ at \in {"recheck", "load", "alias", "build_alias"} => op = "get"
    /\ at \in {"base", "evict", "evict_aliases"} => op = "reload"
    /\ at \in Publishing => op \in {"get", "reload", "add"}
    /\ at \in Initialising => op = "init_alias"
CallsInPlace == \A t \in Tasks : Reaches(frame[t].op, pc[t])

\* Past the start of a call only one at a time opens connections or replaces aliases.
Resting == {"idle", "wait", "unset_models"}

LEMMA OneWorks ==
  ASSUME TypeOK, LoadLockHeld, RunApart, CallsInPlace, RegistrationsAlone,
         NEW t \in Tasks, NEW u \in Tasks, pc[t] \notin Resting, pc[u] \notin Resting
  PROVE  t = u
  <1> SUFFICES ASSUME t # u PROVE FALSE
    OBVIOUS
  <1>1. pc[t] # "idle" /\ pc[u] # "idle" /\ {frame[t].op, frame[u].op} \notin Apart
    BY DEF Resting, RunApart
  <1>2. \A v \in {t, u} : /\ frame[v].op \in {"get", "reload", "add", "init_alias"}
                          /\ frame[v].op \in {"get", "reload"} => loadLock = v
    <2>1. ASSUME NEW v \in {t, u}
          PROVE  /\ frame[v].op \in {"get", "reload", "add", "init_alias"}
                 /\ frame[v].op \in {"get", "reload"} => loadLock = v
      <3>1. pc[v] \in PCs /\ pc[v] \notin Resting /\ Reaches(frame[v].op, pc[v])
        BY DEF TypeOK, CallsInPlace
      <3>2. pc[v] \in Locked \cup Publishing \cup Initialising
        BY <3>1 DEF PCs, Resting, Locked, Publishing, Initialising
      <3>3. frame[v].op \in {"get", "reload", "add", "init_alias"}
        BY <3>1, <3>2 DEF Reaches, Locked
      <3>4. frame[v].op \in {"get", "reload"} => InCriticalSection(v)
        BY <3>1, <3>2 DEF Reaches, InCriticalSection
      <3> QED BY <3>3, <3>4 DEF LoadLockHeld
    <2> QED BY <2>1
  <1>3. frame[t].op \in {"get", "reload"} => frame[u].op \in {"add", "init_alias"}
    BY <1>2
  <1>4. PICK o, p : o = frame[t].op /\ p = frame[u].op
    OBVIOUS
  <1>5. {o, p} \notin Apart /\ o \in {"get", "reload", "add", "init_alias"} /\ p \in {"get", "reload", "add", "init_alias"}
        /\ (o \in {"get", "reload"} => p \in {"add", "init_alias"})
    BY <1>1, <1>2, <1>3, <1>4
  <1>6. {o, p} \in { {"add"}, {"add", "get"}, {"add", "reload"}, {"init_alias"}, {"init_alias", "get"},
                     {"init_alias", "reload"}, {"init_alias", "add"} }
    BY <1>5
  <1> QED BY <1>5, <1>6 DEF RegistrationsAlone

-----------------------------------------------------------------------------
(* The cache *)

\* The source of a call is none of the aliases, and stays the source of its code.
Bound == {"load", "row", "alias", "build_alias"} \cup Publishing
Targeted(at, f) ==
    /\ f.op = "reload" \/ at \in Bound => ~IsAlias(f.src)
    /\ at \in Bound /\ f.op = "get" => f.code = f.src \/ aliases[f.code] = f.src
    /\ at = "build_alias" => f.code # f.src

\* What a publication is about to write, and has written.
Published(at, f) ==
    /\ at \in {"row", "connect", "derive", "add_con"} /\ f.op = "get" => ~Has(f.src)
    /\ at \in {"connect", "derive", "add_con", "evict"} => f.con.src = f.src
    /\ at \in {"derive", "add_con", "add_aliases"} => f.listed = AliasesOf(f.src)
    /\ at \in {"add_aliases", "alias", "build_alias"} /\ Has(f.src) => connections[f.src] = f.con
    /\ at = "add_aliases" => f.todo \subseteq f.listed
    /\ at = "evict_aliases" => ~Has(f.src) /\ \A a \in AliasesOf(f.src) : Has(a) => a \in f.todo

\* How far the aliases of the new map are.
Initialised(at, f) ==
    /\ at = "init_map" => f.todo = Keys(aliases) /\ \A c \in Keys(f.values) : IsAlias(c) \/ ~Has(c)
    /\ at \in {"drop_aliases", "init_aliases", "init_build"} => aliases = f.values
    /\ at = "drop_aliases" => \A c \in Keys(f.values) : Has(c) => c \in f.todo
    /\ at \in {"init_aliases", "init_build"} => f.todo \subseteq Keys(f.values) /\ \A c \in f.todo : ~Has(c)
    /\ at = "init_build" =>
          /\ f.code \in Keys(f.values) /\ ~Has(f.code) /\ f.code \notin f.todo
          /\ Has(f.values[f.code]) => connections[f.values[f.code]] = f.con

Holds(at, f) == Targeted(at, f) /\ Published(at, f) /\ Initialised(at, f)
CallInv == \A t \in Tasks : Holds(pc[t], frame[t])

RegistryInv == RunApart /\ CallsInPlace /\ CallInv /\ ValidAliases(aliases) /\ AliasFollowsSource

\* The aliases a call has still to renew.
Pending(at, f) == IF at \in {"add_aliases", "evict_aliases", "drop_aliases", "init_aliases"} THEN f.todo ELSE {}
Settled(a) == IsAlias(a) /\ Has(a) /\ Has(aliases[a]) => connections[a] = connections[aliases[a]]

\* Connections go, none comes.
Calm == aliases' = aliases /\ \A c \in Codes : connections'[c] = connections[c] \/ connections'[c] = NoConn

LEMMA CalmHolds ==
  ASSUME TypeOK, Calm, NEW at, NEW f \in Frame, Holds(at, f)
  PROVE  Holds(at, f)'
  <1>1. /\ f.src \in Codes /\ f.code \in Codes /\ f.todo \subseteq Codes
        /\ f.values \in [Codes -> Codes \cup {NoSource}] /\ Keys(f.values) \subseteq Codes
        /\ \A c \in Keys(f.values) : f.values[c] \in Codes
    BY DEF Frame, Keys
  <1>2. \A c \in Codes : Has(c)' => Has(c) /\ connections'[c] = connections[c]
    BY DEF Calm, Has
  <1>3. aliases' = aliases
    BY DEF Calm
  <1>4. Targeted(at, f)'
    BY <1>3 DEF Holds, Targeted, IsAlias
  <1>5. Published(at, f)'
    BY <1>1, <1>2, <1>3 DEF Holds, Published, AliasesOf
  <1>6. Initialised(at, f)'
    BY <1>1, <1>2, <1>3 DEF Holds, Initialised, IsAlias
  <1> QED BY <1>4, <1>5, <1>6 DEF Holds

\* A call that has not begun to work does not look at the connections.
LEMMA RestHolds ==
  ASSUME NEW at \in Resting, NEW f, Holds(at, f), aliases' = aliases \/ f.op # "reload"
  PROVE  Holds(at, f)'
  BY DEF Holds, Targeted, Published, Initialised, Resting, Bound, Publishing, IsAlias

LEMMA Follows == AliasFollowsSource <=> \A a \in Codes : Settled(a) \/ \E t \in Tasks : a \in Pending(pc[t], frame[t])
  BY DEF AliasFollowsSource, Settled, Renewing, Pending

LEMMA CalmSettled ==
  ASSUME TypeOK, Calm, NEW a \in Codes, Settled(a)
  PROVE  Settled(a)'
  <1>1. aliases' = aliases /\ (IsAlias(a) => aliases[a] \in Codes)
    BY DEF Calm, TypeOK, IsAlias
  <1>2. \A c \in Codes : Has(c)' => Has(c) /\ connections'[c] = connections[c]
    BY DEF Calm, Has
  <1> QED BY <1>1, <1>2 DEF Settled, IsAlias

\* A task goes from one point of a call to the next, starts a call or ends it.
Moves(t, at, f) ==
    /\ pc' = [pc EXCEPT ![t] = at] /\ frame' = [frame EXCEPT ![t] = f]
    /\ Reaches(f.op, at)
    /\ at = "idle" \/ (pc[t] # "idle" /\ f.op = frame[t].op) \/ MayCall(f.op)

LEMMA Moved ==
  ASSUME TypeOK, RegistryInv, NEW t \in Tasks, NEW at, NEW f, Moves(t, at, f), Holds(at, f)', ValidAliases(aliases)',
         \A u \in Tasks \ {t} : Holds(pc[u], frame[u])',
         \A a \in Codes : Settled(a) \/ a \in Pending(pc[t], frame[t]) => Settled(a)' \/ a \in Pending(at, f)
  PROVE  RegistryInv'
  <1>1. /\ pc'[t] = at /\ frame'[t] = f /\ DOMAIN pc' = Tasks /\ DOMAIN frame' = Tasks
        /\ \A u \in Tasks \ {t} : pc'[u] = pc[u] /\ frame'[u] = frame[u]
    BY DEF Moves, TypeOK
  <1>2. RunApart'
    <2>1. ASSUME NEW u \in Tasks \ {t}, pc'[t] # "idle", pc'[u] # "idle"
          PROVE  {frame'[t].op, frame'[u].op} \notin Apart
      <3>1. CASE pc[t] # "idle" /\ f.op = frame[t].op
        BY <1>1, <2>1, <3>1 DEF RegistryInv, RunApart
      <3>2. CASE MayCall(f.op)
        BY <1>1, <2>1, <3>2 DEF MayCall
      <3> QED BY <1>1, <2>1, <3>1, <3>2 DEF Moves
    <2>2. \A o, p : {o, p} = {p, o}
      OBVIOUS
    <2>3. ASSUME NEW u \in Tasks \ {t}, NEW v \in Tasks \ {t}, u # v, pc'[u] # "idle", pc'[v] # "idle"
          PROVE  {frame'[u].op, frame'[v].op} \notin Apart
      BY <1>1, <2>3 DEF RegistryInv, RunApart
    <2> QED BY <2>1, <2>2, <2>3 DEF RunApart
  <1>3. CallsInPlace'
    BY <1>1 DEF Moves, RegistryInv, CallsInPlace
  <1>4. CallInv'
    <2>1. Holds(pc[t], frame[t])'
      BY <1>1
    <2> QED BY <2>1 DEF CallInv
  <1>5. AliasFollowsSource'
    <2>1. ASSUME NEW a \in Codes
          PROVE  IsAlias(a)' /\ Has(a)' /\ Has(aliases[a])' =>
                    connections'[a] = connections'[aliases'[a]] \/ Renewing(a)'
      <3>1. Settled(a) \/ \E u \in Tasks : a \in Pending(pc[u], frame[u])
        BY Follows DEF RegistryInv
      <3>2. Settled(a)' \/ \E u \in Tasks : a \in Pending(pc'[u], frame'[u])
        BY <1>1, <3>1
      <3> QED BY <3>2 DEF Settled, Renewing, Pending
    <2> QED BY <2>1 DEF AliasFollowsSource
  <1> QED BY <1>2, <1>3, <1>4, <1>5 DEF RegistryInv

LEMMA MovedCalmly ==
  ASSUME TypeOK, RegistryInv, NEW t \in Tasks, NEW at, NEW f, Moves(t, at, f), Calm, Holds(at, f)',
         \A a \in Pending(pc[t], frame[t]) \ Pending(at, f) : Settled(a)'
  PROVE  RegistryInv'
  <1>1. \A u \in Tasks \ {t} : pc'[u] = pc[u] /\ frame'[u] = frame[u]
    BY DEF Moves, TypeOK
  <1>2. ASSUME NEW u \in Tasks \ {t} PROVE Holds(pc[u], frame[u])'
    <2>1. PICK b, g : b = pc[u] /\ g = frame[u]
      OBVIOUS
    <2>2. g \in Frame /\ Holds(b, g)
      BY <2>1, FrameType DEF RegistryInv, CallInv
    <2>3. Holds(b, g)'
      BY <2>2, CalmHolds
    <2> QED BY <1>1, <2>1, <2>3
  <1>3. ValidAliases(aliases)'
    BY DEF Calm, RegistryInv
  <1> QED BY <1>2, <1>3, CalmSettled, Moved

\* The one call that works opens a connection or replaces the aliases.
LEMMA MovedAtWork ==
  ASSUME TypeOK, LoadLockHeld, RegistryInv, RegistrationsAlone, NEW t \in Tasks, NEW at, NEW f,
         Moves(t, at, f), pc[t] \notin Resting, aliases' = aliases \/ frame[t].op = "init_alias",
         Holds(at, f)', ValidAliases(aliases)',
         \A a \in Codes : Settled(a) \/ a \in Pending(pc[t], frame[t]) => Settled(a)' \/ a \in Pending(at, f)
  PROVE  RegistryInv'
  <1>1. \A u \in Tasks \ {t} : pc'[u] = pc[u] /\ frame'[u] = frame[u]
    BY DEF Moves, TypeOK
  <1>2. ASSUME NEW u \in Tasks \ {t} PROVE Holds(pc[u], frame[u])'
    <2>1. PICK b, g : b = pc[u] /\ g = frame[u]
      OBVIOUS
    <2>2. Holds(b, g) /\ b \in Resting
      BY <2>1, OneWorks DEF RegistryInv, CallInv
    <2>3. aliases' = aliases \/ g.op # "reload"
      <3>1. g.op = "reload" => b # "idle"
        BY <2>1 DEF RegistryInv, CallsInPlace, Reaches
      <3>2. ~(frame[t].op = "init_alias" /\ g.op = "reload")
        BY <2>1, <3>1 DEF RegistryInv, RunApart, RegistrationsAlone, Resting
      <3> QED BY <3>2
    <2>4. Holds(b, g)'
      BY <2>2, <2>3, RestHolds
    <2> QED BY <1>1, <2>1, <2>4
  <1> QED BY <1>2, Moved

\* The end of a call: nothing is asked of it any more.
LEMMA Ended ==
  ASSUME TypeOK, RegistryInv, NEW t \in Tasks, Return(t), Calm,
         \A a \in Pending(pc[t], frame[t]) : Settled(a)'
  PROVE  RegistryInv'
  <1>1. Holds("idle", NoFrame)'
    BY DEF Holds, Targeted, Published, Initialised, Bound, Publishing, NoFrame
  <1>2. Moves(t, "idle", NoFrame)
    BY DEF Return, Moves, Reaches, NoFrame, Publishing, Initialising
  <1> QED BY <1>1, <1>2, MovedCalmly

\* One that ends where it has nothing to renew.
LEMMA EndedCalmly ==
  ASSUME TypeOK, RegistryInv, NEW t \in Tasks, Return(t), Calm, Pending(pc[t], frame[t]) = {}
  PROVE  RegistryInv'
  BY Ended

LEMMA CallOf ==
  ASSUME TypeOK, RegistryInv, NEW t \in Tasks
  PROVE  /\ Reaches(frame[t].op, pc[t]) /\ Holds(pc[t], frame[t])
         /\ Targeted(pc[t], frame[t]) /\ Published(pc[t], frame[t]) /\ Initialised(pc[t], frame[t])
         /\ frame[t] \in Frame
  BY FrameType DEF RegistryInv, CallInv, CallsInPlace, Holds

-----------------------------------------------------------------------------
(* What the steps do to the invariant *)

LEMMA CallStep == ASSUME TypeOK, RegistryInv, NEW t \in Tasks, Call(t) PROVE RegistryInv'
  <1>1. pc[t] = "idle" /\ Pending(pc[t], frame[t]) = {}
    BY DEF Call, GetMiss, Reload, Unregister, AddSource, InitAlias, Begin, Pending
  <1>2. ASSUME NEW c \in Codes, GetMiss(t, c) PROVE RegistryInv'
    <2>1. PICK f : f = [NoFrame EXCEPT !.code = c, !.src = c, !.op = "get"]
      OBVIOUS
    <2>2. f.op = "get" /\ f.src = c /\ f.wrote = FALSE
      BY <2>1 DEF NoFrame
    <2>3. Moves(t, "wait", f) /\ Calm
      BY <1>2, <2>1, <2>2 DEF GetMiss, Begin, Goto, NoFrame, Moves, Reaches, Calm, shared, Publishing, Initialising
    <2>4. Holds("wait", f)'
      BY <2>2 DEF Holds, Targeted, Published, Initialised, Bound, Publishing
    <2> QED BY <1>1, <2>3, <2>4, MovedCalmly
  <1>3. ASSUME NEW c \in Codes, Reload(t, c) PROVE RegistryInv'
    <2>1. PICK f : f = [NoFrame EXCEPT !.code = c, !.src = SourceOf(c), !.op = "reload"]
      OBVIOUS
    <2>2. f.op = "reload" /\ f.src = SourceOf(c) /\ f.wrote = FALSE
      BY <2>1 DEF NoFrame
    <2>3. Moves(t, "wait", f) /\ Calm
      BY <1>3, <2>1, <2>2 DEF Reload, Begin, Goto, NoFrame, Moves, Reaches, Calm, shared, Publishing, Initialising
    <2>4. ~IsAlias(f.src)
      BY <2>2 DEF SourceOf, IsAlias, RegistryInv, ValidAliases, Keys, TypeOK
    <2>5. Holds("wait", f)'
      BY <2>2, <2>3, <2>4 DEF Holds, Targeted, Published, Initialised, Bound, Publishing, Calm, IsAlias
    <2> QED BY <1>1, <2>3, <2>5, MovedCalmly
  <1>4. ASSUME NEW c \in Codes, Unregister(t, c) PROVE RegistryInv'
    <2>1. PICK f : f = [NoFrame EXCEPT !.code = c, !.op = "unregister"]
      OBVIOUS
    <2>2. f.op = "unregister"
      BY <2>1 DEF NoFrame
    <2>3. Moves(t, "unset_models", f) /\ Calm
      BY <1>4, <2>1, <2>2 DEF Unregister, Begin, Goto, NoFrame, Moves, Reaches, Calm, Put, TypeOK, Publishing, Initialising
    <2>4. Holds("unset_models", f)'
      BY <2>2 DEF Holds, Targeted, Published, Initialised, Bound, Publishing
    <2> QED BY <1>1, <2>3, <2>4, MovedCalmly
  <1>5. ASSUME NEW c \in Codes, NEW m \in ModelSets, AddSource(t, c, m) PROVE RegistryInv'
    <2>1. PICK f : f = [NoFrame EXCEPT !.code = c, !.src = c, !.models = m,
                                       !.con = [src |-> c, url |-> Address(c)], !.op = "add"]
      OBVIOUS
    <2>2. f.op = "add" /\ f.src = c /\ f.con.src = c /\ f.wrote = FALSE
      BY <2>1 DEF NoFrame
    <2>3. Moves(t, "connect", f) /\ Calm
      BY <1>5, <2>1, <2>2 DEF AddSource, Begin, Goto, NoFrame, Moves, Reaches, Calm, shared, Publishing, Initialising
    <2>4. Holds("connect", f)'
      BY <1>5, <2>2, <2>3 DEF Holds, Targeted, Published, Initialised, Bound, Publishing, AddSource, Calm, IsAlias
    <2> QED BY <1>1, <2>3, <2>4, MovedCalmly
  <1>6. ASSUME NEW values \in AliasMaps, InitAlias(t, values) PROVE RegistryInv'
    <2>1. PICK f : f = [NoFrame EXCEPT !.values = values, !.todo = Keys(aliases), !.op = "init_alias"]
      OBVIOUS
    <2>2. f.op = "init_alias" /\ f.values = values /\ f.todo = Keys(aliases)
      BY <2>1 DEF NoFrame
    <2>3. Moves(t, "init_map", f) /\ Calm
      BY <1>6, <2>1, <2>2 DEF InitAlias, Begin, Goto, NoFrame, Moves, Reaches, Calm, shared, Publishing, Initialising
    <2>4. Holds("init_map", f)'
      BY <1>6, <2>2, <2>3 DEF Holds, Targeted, Published, Initialised, Bound, Publishing, InitAlias, Calm, shared, IsAlias, Has
    <2> QED BY <1>1, <2>3, <2>4, MovedCalmly
  <1> QED BY <1>2, <1>3, <1>4, <1>5, <1>6 DEF Call

LEMMA LockStep ==
  ASSUME TypeOK, RegistryInv, NEW t \in Tasks,
         AcquireLock(t) \/ Recheck(t) \/ FoundSource(t) \/ QueryBase(t) \/ ReadRow(t)
  PROVE  RegistryInv'
  <1>1. PICK b, f : b = pc[t] /\ f = frame[t]
    OBVIOUS
  <1>2. f \in Frame /\ Reaches(f.op, b) /\ Targeted(b, f) /\ Published(b, f)
    BY <1>1, CallOf
  <1>3. Calm /\ Pending(pc[t], frame[t]) = {} /\ b \in {"wait", "recheck", "load", "base", "row"}
    BY <1>1 DEF AcquireLock, Recheck, FoundSource, QueryBase, ReadRow, Calm, shared, Pending
  <1>4. ASSUME NEW at, NEW g, Goto(t, at, g), g.op = f.op, Reaches(g.op, at), Holds(at, g)
        PROVE  RegistryInv'
    <2>1. Moves(t, at, g)
      BY <1>1, <1>3, <1>4 DEF Goto, Moves
    <2>2. Holds(at, g)'
      BY <1>3, <1>4 DEF AcquireLock, Recheck, FoundSource, QueryBase, ReadRow, shared,
                        Holds, Targeted, Published, Initialised, IsAlias, Has, AliasesOf
    <2> QED BY <1>3, <2>1, <2>2, MovedCalmly
  <1>5. CASE AcquireLock(t)
    <2>1. PICK at : at = IF f.op = "get" THEN "recheck" ELSE "base"
      OBVIOUS
    <2>2. b = "wait" /\ pc' = [pc EXCEPT ![t] = at] /\ frame' = frame /\ frame = [frame EXCEPT ![t] = f]
      BY <1>1, <1>5, <2>1 DEF AcquireLock, TypeOK
    <2>3. Reaches(f.op, at)
      BY <1>2, <2>1, <2>2 DEF Reaches, Publishing, Initialising
    <2>4. Moves(t, at, f)
      BY <1>1, <2>2, <2>3 DEF Moves
    <2>5. Holds(at, f)'
      BY <1>2, <1>5, <2>1, <2>2 DEF Holds, Targeted, Published, Initialised, Bound, Publishing, AcquireLock, shared, IsAlias
    <2> QED BY <1>3, <2>4, <2>5, MovedCalmly
  <1>6. CASE Recheck(t)
    <2>1. CASE Return(t)
      BY <1>3, <2>1, EndedCalmly
    <2>2. PICK g : g = [f EXCEPT !.src = SourceOf(f.code)]
      OBVIOUS
    <2>3. b = "recheck" /\ g.op = f.op /\ g.src = SourceOf(f.code) /\ g.code = f.code /\ g.wrote = f.wrote /\ f.code \in Codes
      BY <1>1, <1>2, <1>6, <2>2 DEF Frame, Recheck
    <2>4. ~IsAlias(g.src) /\ (g.code = g.src \/ aliases[g.code] = g.src)
      BY <2>3 DEF SourceOf, IsAlias, RegistryInv, ValidAliases, Keys, TypeOK
    <2>5. Holds("load", g) /\ Reaches(g.op, "load")
      BY <1>2, <2>3, <2>4 DEF Holds, Targeted, Published, Initialised, Reaches, Bound, Publishing, Initialising
    <2>6. CASE Goto(t, "load", g)
      BY <1>4, <2>3, <2>5, <2>6
    <2> QED BY <1>1, <1>6, <2>1, <2>2, <2>6 DEF Recheck
  <1>7. CASE FoundSource(t)
    <2>1. PICK g : g = [f EXCEPT !.con = connections[f.src]]
      OBVIOUS
    <2>2. b = "load" /\ g.op = f.op /\ g.src = f.src /\ g.code = f.code /\ g.con = connections[f.src] /\ Goto(t, "alias", g)
      BY <1>1, <1>2, <1>7, <2>1 DEF Frame, FoundSource
    <2>3. Holds("alias", g) /\ Reaches(g.op, "alias")
      BY <1>2, <2>2 DEF Holds, Targeted, Published, Initialised, Reaches, Bound, Publishing, Initialising
    <2> QED BY <1>4, <2>2, <2>3
  <1>8. CASE QueryBase(t)
    <2>1. CASE Return(t)
      BY <1>3, <2>1, EndedCalmly
    <2>2. CASE Goto(t, "row", f)
      <3>1. b = "base" \/ (b = "load" /\ ~Has(f.src))
        BY <1>1, <1>8 DEF QueryBase
      <3>2. Holds("row", f) /\ Reaches(f.op, "row")
        BY <1>2, <3>1 DEF Holds, Targeted, Published, Initialised, Reaches, Bound, Publishing, Initialising
      <3> QED BY <1>4, <2>2, <3>2
    <2> QED BY <1>1, <1>8, <2>1, <2>2 DEF QueryBase
  <1>9. CASE ReadRow(t)
    <2>1. CASE Return(t)
      BY <1>3, <2>1, EndedCalmly
    <2>2. PICK g : g = [f EXCEPT !.con = [src |-> f.src, url |-> catalog[f.src]], !.models = modelSets[f.src]]
      OBVIOUS
    <2>3. b = "row" /\ g.op = f.op /\ g.src = f.src /\ g.code = f.code /\ g.con.src = f.src /\ g.wrote = f.wrote
      BY <1>1, <1>2, <1>9, <2>2 DEF Frame, ReadRow
    <2>4. CASE Goto(t, "connect", g)
      <3>1. Holds("connect", g) /\ Reaches(g.op, "connect")
        BY <1>2, <2>3 DEF Holds, Targeted, Published, Initialised, Reaches, Bound, Publishing, Initialising
      <3> QED BY <1>4, <2>3, <2>4, <3>1
    <2>5. CASE Goto(t, "evict", g) /\ f.op = "reload"
      <3>1. Holds("evict", g) /\ Reaches(g.op, "evict")
        BY <1>2, <2>3, <2>5 DEF Holds, Targeted, Published, Initialised, Reaches, Bound, Publishing, Initialising
      <3> QED BY <1>4, <2>3, <2>5, <3>1
    <2> QED BY <1>1, <1>9, <2>1, <2>2, <2>4, <2>5 DEF ReadRow
  <1> QED BY <1>5, <1>6, <1>7, <1>8, <1>9

LEMMA OpenStep ==
  ASSUME TypeOK, RegistryInv, NEW t \in Tasks,
         Connect(t) \/ StoreModels(t) \/ \E a \in Codes : DeriveAlias(t, a)
  PROVE  RegistryInv'
  <1>1. PICK b, f : b = pc[t] /\ f = frame[t]
    OBVIOUS
  <1>2. f \in Frame /\ Reaches(f.op, b) /\ Targeted(b, f) /\ Published(b, f)
    BY <1>1, CallOf
  <1>3. Calm /\ Pending(pc[t], frame[t]) = {} /\ connections' = connections /\ aliases' = aliases /\ b # "idle"
    BY <1>1 DEF Connect, StoreModels, DeriveAlias, Calm, shared, Pending
  <1>4. ASSUME NEW at, NEW g, Goto(t, at, g), g.op = f.op, Reaches(g.op, at), Holds(at, g)
        PROVE  RegistryInv'
    <2>1. Moves(t, at, g)
      BY <1>1, <1>3, <1>4 DEF Goto, Moves
    <2>2. Holds(at, g)'
      BY <1>3, <1>4 DEF Holds, Targeted, Published, Initialised, IsAlias, Has, AliasesOf
    <2> QED BY <1>3, <2>1, <2>2, MovedCalmly
  <1>5. CASE Connect(t)
    <2>1. PICK g : g = [f EXCEPT !.listed = AliasesOf(f.src), !.todo = AliasesOf(f.src)]
      OBVIOUS
    <2>2. /\ b = "connect" /\ g.op = f.op /\ g.src = f.src /\ g.code = f.code /\ g.con = f.con /\ g.wrote = f.wrote
          /\ g.listed = AliasesOf(f.src) /\ Goto(t, "derive", g)
      BY <1>1, <1>2, <1>5, <2>1 DEF Frame, Connect
    <2>3. Holds("derive", g) /\ Reaches(g.op, "derive")
      BY <1>2, <2>2 DEF Holds, Targeted, Published, Initialised, Reaches, Bound, Publishing, Initialising
    <2> QED BY <1>4, <2>2, <2>3
  <1>6. ASSUME NEW a \in Codes, DeriveAlias(t, a) PROVE RegistryInv'
    <2>1. PICK g : g = [f EXCEPT !.todo = @ \ {a}, !.built = IF HasModels(a) THEN @ \cup {a} ELSE @]
      OBVIOUS
    <2>2. /\ b = "derive" /\ g.op = f.op /\ g.src = f.src /\ g.code = f.code /\ g.con = f.con /\ g.wrote = f.wrote
          /\ g.listed = f.listed /\ Goto(t, "derive", g)
      BY <1>1, <1>2, <1>6, <2>1 DEF Frame, DeriveAlias
    <2>3. Holds("derive", g) /\ Reaches(g.op, "derive")
      BY <1>2, <2>2 DEF Holds, Targeted, Published, Initialised, Reaches, Bound, Publishing, Initialising
    <2> QED BY <1>4, <2>2, <2>3
  <1>7. CASE StoreModels(t)
    <2>1. PICK g : g = [f EXCEPT !.wrote = TRUE]
      OBVIOUS
    <2>2. /\ b = "derive" /\ g.op = f.op /\ g.src = f.src /\ g.code = f.code /\ g.con = f.con /\ g.listed = f.listed
          /\ Goto(t, "add_con", g)
      BY <1>1, <1>2, <1>7, <2>1 DEF Frame, StoreModels
    <2>3. Holds("add_con", g) /\ Reaches(g.op, "add_con")
      BY <1>2, <2>2 DEF Holds, Targeted, Published, Initialised, Reaches, Bound, Publishing, Initialising
    <2> QED BY <1>4, <2>2, <2>3
  <1> QED BY <1>5, <1>6, <1>7

\* A connection is one: it reaches a source.
LEMMA ConnectionIs == NoConn \notin Connection
  BY CodesAssumption DEF NoConn, Connection

LEMMA PublishStep ==
  ASSUME TypeOK, LoadLockHeld, RegistryInv, RegistrationsAlone, NEW t \in Tasks,
         AddCon(t) \/ \E a \in Codes : AddAlias(t, a)
  PROVE  RegistryInv'
  <1>1. PICK b, f : b = pc[t] /\ f = frame[t]
    OBVIOUS
  <1>2. f \in Frame /\ f.con \in Connection /\ f.src \in Codes /\ Reaches(f.op, b) /\ Targeted(b, f) /\ Published(b, f)
    BY <1>1, CallOf DEF Frame
  <1>3. aliases' = aliases /\ pc[t] \notin Resting /\ b # "idle" /\ ValidAliases(aliases)' /\ b \in {"add_con", "add_aliases"}
    BY <1>1 DEF AddCon, AddAlias, Resting, RegistryInv
  <1>4. ~IsAlias(f.src) /\ aliases \in [Codes -> Codes \cup {NoSource}] /\ f.listed = AliasesOf(f.src)
    BY <1>2, <1>3 DEF Targeted, Bound, Publishing, TypeOK, Published
  <1>5. CASE AddCon(t)
    <2>1. PICK g : g = [f EXCEPT !.todo = f.listed, !.wrote = TRUE]
      OBVIOUS
    <2>2. /\ b = "add_con" /\ g.op = f.op /\ g.src = f.src /\ g.code = f.code /\ g.con = f.con
          /\ g.listed = f.listed /\ g.todo = f.listed /\ Goto(t, "add_aliases", g)
      BY <1>1, <1>2, <1>5, <2>1 DEF Frame, AddCon
    <2>3. connections'[f.src] = f.con /\ \A c \in Codes \ {f.src} : connections'[c] = connections[c]
      BY <1>1, <1>2, <1>5 DEF AddCon, Put, TypeOK
    <2>4. Moves(t, "add_aliases", g)
      BY <1>1, <1>2, <1>3, <2>2 DEF Moves, Goto, Reaches, Publishing, Initialising
    <2>5. Holds("add_aliases", g)'
      BY <1>2, <1>3, <1>4, <2>2, <2>3
         DEF Holds, Targeted, Published, Initialised, Bound, Publishing, Initialising, IsAlias, AliasesOf
    <2>6. ASSUME NEW a \in Codes, Settled(a) \/ a \in Pending(pc[t], frame[t])
          PROVE  Settled(a)' \/ a \in Pending("add_aliases", g)
      <3>1. Settled(a)
        BY <1>1, <2>2, <2>6 DEF Pending
      <3>2. CASE aliases[a] = f.src
        BY <1>4, <2>2, <3>2 DEF Pending, AliasesOf
      <3>3. CASE aliases[a] # f.src /\ a # f.src
        BY <1>3, <1>4, <2>3, <3>1, <3>3 DEF Settled, IsAlias, Has
      <3>4. CASE a = f.src
        BY <1>3, <1>4, <3>4 DEF Settled, IsAlias
      <3> QED BY <3>2, <3>3, <3>4
    <2> QED BY <1>3, <2>4, <2>5, <2>6, MovedAtWork
  <1>6. ASSUME NEW a \in Codes, AddAlias(t, a) PROVE RegistryInv'
    <2>1. PICK g : g = [f EXCEPT !.todo = @ \ {a}]
      OBVIOUS
    <2>2. /\ b = "add_aliases" /\ g.op = f.op /\ g.src = f.src /\ g.code = f.code /\ g.con = f.con
          /\ g.listed = f.listed /\ g.todo = f.todo \ {a} /\ a \in f.todo /\ Goto(t, "add_aliases", g)
      BY <1>1, <1>2, <1>6, <2>1 DEF Frame, AddAlias
    <2>3. /\ connections'[a] = f.con \/ connections'[a] = NoConn
          /\ \A c \in Codes \ {a} : connections'[c] = connections[c]
      BY <1>1, <1>2, <1>6 DEF AddAlias, Put, TypeOK
    <2>4. aliases[a] = f.src /\ IsAlias(a) /\ a # f.src
      BY <1>2, <1>4, <2>2, CodesAssumption DEF Published, AliasesOf, IsAlias
    <2>5. Moves(t, "add_aliases", g)
      BY <1>1, <1>2, <1>3, <2>2 DEF Moves, Goto, Reaches, Publishing, Initialising
    <2>6. Holds("add_aliases", g)'
      BY <1>2, <1>3, <1>4, <2>2, <2>3, <2>4
         DEF Holds, Targeted, Published, Initialised, Bound, Publishing, Initialising, IsAlias, AliasesOf, Has
    <2>7. ASSUME NEW c \in Codes, Settled(c) \/ c \in Pending(pc[t], frame[t])
          PROVE  Settled(c)' \/ c \in Pending("add_aliases", g)
      <3>1. CASE c = a
        BY <1>2, <1>3, <2>2, <2>3, <2>4, <3>1 DEF Settled, Published, Has
      <3>2. CASE c # a /\ c \in Pending(pc[t], frame[t])
        BY <1>1, <2>2, <3>2 DEF Pending
      <3>3. CASE c # a /\ Settled(c)
        <4>1. IsAlias(c) => aliases[c] \in Codes /\ aliases[c] # a
          BY <1>4, <2>4 DEF IsAlias, RegistryInv, ValidAliases, Keys
        <4> QED BY <1>3, <2>3, <3>3, <4>1 DEF Settled, IsAlias, Has
      <3> QED BY <2>7, <3>1, <3>2, <3>3
    <2> QED BY <1>3, <2>5, <2>6, <2>7, MovedAtWork
  <1> QED BY <1>5, <1>6

LEMMA AliasStep ==
  ASSUME TypeOK, LoadLockHeld, RegistryInv, RegistrationsAlone, NEW t \in Tasks, ServeAlias(t) \/ BuildAlias(t)
  PROVE  RegistryInv'
  <1>1. PICK b, f : b = pc[t] /\ f = frame[t]
    OBVIOUS
  <1>2. /\ f \in Frame /\ f.con \in Connection /\ f.src \in Codes /\ f.code \in Codes /\ Reaches(f.op, b)
        /\ Targeted(b, f) /\ Published(b, f) /\ Initialised(b, f)
    BY <1>1, CallOf DEF Frame
  <1>3. aliases' = aliases /\ b # "idle" /\ ValidAliases(aliases) /\ aliases \in [Codes -> Codes \cup {NoSource}]
    BY <1>1 DEF ServeAlias, BuildAlias, RegistryInv, TypeOK, shared
  <1>4. CASE ServeAlias(t)
    <2>1. Calm /\ b = "alias" /\ Pending(pc[t], frame[t]) = {} /\ connections' = connections
      BY <1>1, <1>4 DEF ServeAlias, Calm, shared, Pending
    <2>2. CASE Return(t)
      BY <2>1, <2>2, EndedCalmly
    <2>3. CASE Goto(t, "build_alias", f) /\ f.code # f.src
      <3>1. Moves(t, "build_alias", f)
        BY <1>1, <1>2, <1>3, <2>1, <2>3 DEF Moves, Goto, Reaches, Publishing, Initialising
      <3>2. Holds("build_alias", f)'
        BY <1>2, <1>3, <2>1, <2>3 DEF Holds, Targeted, Published, Initialised, Bound, Publishing, Initialising, IsAlias, Has
      <3> QED BY <2>1, <3>1, <3>2, MovedCalmly
    <2> QED BY <1>1, <1>4, <2>2, <2>3 DEF ServeAlias
  <1>5. ASSUME BuildAlias(t)
        PROVE  /\ connections'[f.code] = f.con /\ \A c \in Codes \ {f.code} : connections'[c] = connections[c]
               /\ pc[t] \notin Resting /\ Pending(pc[t], frame[t]) = {}
               /\ IsAlias(f.code) /\ (Has(aliases[f.code]) => connections[aliases[f.code]] = f.con)
               /\ \A c \in Codes : Settled(c) => Settled(c)'
    <2>1. connections'[f.code] = f.con /\ \A c \in Codes \ {f.code} : connections'[c] = connections[c]
      BY <1>1, <1>2, <1>5 DEF BuildAlias, Put, TypeOK
    <2>2. b \in {"build_alias", "init_build"} /\ pc[t] \notin Resting /\ Pending(pc[t], frame[t]) = {}
      BY <1>1, <1>5 DEF BuildAlias, Resting, Pending
    <2>3. IsAlias(f.code) /\ (Has(aliases[f.code]) => connections[aliases[f.code]] = f.con)
      <3>1. CASE b = "build_alias"
        BY <1>2, <3>1, CodesAssumption DEF Targeted, Published, Reaches, Bound, IsAlias
      <3>2. CASE b = "init_build"
        BY <1>2, <3>2 DEF Initialised, IsAlias, Keys
      <3> QED BY <2>2, <3>1, <3>2
    <2>4. ASSUME NEW c \in Codes, Settled(c) PROVE Settled(c)'
      <3>1. IsAlias(c) => aliases[c] \in Codes /\ aliases[c] # f.code
        BY <1>2, <1>3, <2>3 DEF IsAlias, ValidAliases, Keys
      <3> QED BY <1>3, <2>1, <2>3, <2>4, <3>1 DEF Settled, IsAlias, Has
    <2> QED BY <2>1, <2>2, <2>3, <2>4
  <1>6. CASE BuildAlias(t) /\ Return(t)
    <2>1. Moves(t, "idle", NoFrame)
      BY <1>6 DEF Return, Moves, Reaches, NoFrame, Publishing, Initialising
    <2>2. Holds("idle", NoFrame)'
      BY DEF Holds, Targeted, Published, Initialised, Bound, Publishing, NoFrame
    <2> QED BY <1>3, <1>5, <1>6, <2>1, <2>2, MovedAtWork
  <1>7. CASE BuildAlias(t) /\ b = "init_build" /\ Goto(t, "init_aliases", f)
    <2>1. Moves(t, "init_aliases", f)
      BY <1>1, <1>2, <1>7 DEF Goto, Moves, Reaches, Publishing, Initialising
    <2>2. f.todo \subseteq Codes /\ \A c \in f.todo : ~Has(c)'
      BY <1>2, <1>5, <1>7 DEF Initialised, Has, Frame
    <2>3. Holds("init_aliases", f)'
      BY <1>2, <1>3, <1>7, <2>2 DEF Holds, Targeted, Published, Initialised, Bound, Publishing, Reaches, Initialising
    <2>4. ValidAliases(aliases)' /\ \A c \in Codes : Settled(c) \/ c \in Pending(pc[t], frame[t]) => Settled(c)'
      BY <1>3, <1>5, <1>7
    <2> QED BY <1>3, <1>5, <1>7, <2>1, <2>3, <2>4, MovedAtWork
  <1> QED BY <1>1, <1>4, <1>6, <1>7 DEF BuildAlias

LEMMA DropStep ==
  ASSUME TypeOK, RegistryInv, NEW t \in Tasks,
         EvictSource(t) \/ UnsetModels(t) \/ \E a \in Codes : DropAlias(t, a)
  PROVE  RegistryInv'
  <1>1. PICK b, f : b = pc[t] /\ f = frame[t]
    OBVIOUS
  <1>2. /\ f \in Frame /\ f.src \in Codes /\ Reaches(f.op, b)
        /\ Targeted(b, f) /\ Published(b, f) /\ Initialised(b, f)
    BY <1>1, CallOf DEF Frame
  <1>3. aliases' = aliases /\ b # "idle"
    BY <1>1 DEF EvictSource, UnsetModels, DropAlias
  <1>4. CASE UnsetModels(t)
    BY <1>4, EndedCalmly DEF UnsetModels, Calm, Pending
  <1>5. CASE EvictSource(t)
    <2>1. PICK g : g = [f EXCEPT !.todo = AliasesOf(f.src)]
      OBVIOUS
    <2>2. /\ b = "evict" /\ g.op = f.op /\ g.src = f.src /\ g.code = f.code
          /\ g.todo = AliasesOf(f.src) /\ Goto(t, "evict_aliases", g)
      BY <1>1, <1>2, <1>5, <2>1 DEF Frame, EvictSource
    <2>3. connections'[f.src] = NoConn /\ \A c \in Codes \ {f.src} : connections'[c] = connections[c]
      BY <1>1, <1>2, <1>5 DEF EvictSource, Put, TypeOK
    <2>4. Calm /\ Pending(pc[t], frame[t]) = {}
      BY <1>1, <1>3, <2>2, <2>3 DEF Calm, Pending
    <2>5. Moves(t, "evict_aliases", g)
      BY <1>1, <1>2, <2>2 DEF Moves, Goto, Reaches, Publishing, Initialising
    <2>6. Holds("evict_aliases", g)'
      BY <1>2, <1>3, <2>2, <2>3
         DEF Holds, Targeted, Published, Initialised, Bound, Publishing, Initialising, Reaches, IsAlias, AliasesOf, Has
    <2> QED BY <2>4, <2>5, <2>6, MovedCalmly
  <1>6. ASSUME NEW a \in Codes, DropAlias(t, a) PROVE RegistryInv'
    <2>1. PICK g : g = [f EXCEPT !.todo = @ \ {a}]
      OBVIOUS
    <2>2. /\ b \in {"evict_aliases", "drop_aliases"} /\ g.op = f.op /\ g.src = f.src /\ g.code = f.code
          /\ g.values = f.values /\ g.todo = f.todo \ {a} /\ Goto(t, b, g)
          /\ f.values \in [Codes -> Codes \cup {NoSource}]
      BY <1>1, <1>2, <1>6, <2>1 DEF Frame, DropAlias
    <2>3. connections'[a] = NoConn /\ \A c \in Codes \ {a} : connections'[c] = connections[c]
      BY <1>6 DEF DropAlias, Put, TypeOK
    <2>4. Calm /\ \A c \in Codes : Has(c)' => Has(c) /\ c # a
      BY <1>3, <2>3 DEF Calm, Has
    <2>5. Moves(t, b, g)
      BY <1>1, <1>2, <1>3, <2>2 DEF Moves, Goto
    <2>6. Holds(b, g)'
      BY <1>2, <1>3, <2>2, <2>4
         DEF Holds, Targeted, Published, Initialised, Bound, Publishing, IsAlias, AliasesOf, Keys
    <2>7. \A c \in Pending(pc[t], frame[t]) \ Pending(b, g) : Settled(c)'
      BY <1>1, <2>2, <2>4 DEF Pending, Settled
    <2> QED BY <2>4, <2>5, <2>6, <2>7, MovedCalmly
  <1> QED BY <1>4, <1>5, <1>6

LEMMA LoopStep ==
  ASSUME TypeOK, RegistryInv, NEW t \in Tasks, LoopDone(t)
  PROVE  RegistryInv'
  <1>1. PICK b, f : b = pc[t] /\ f = frame[t]
    OBVIOUS
  <1>2. /\ f \in Frame /\ Reaches(f.op, b) /\ Targeted(b, f) /\ Published(b, f) /\ Initialised(b, f)
    BY <1>1, CallOf
  <1>3. /\ aliases' = aliases /\ connections' = connections /\ Calm /\ b # "idle" /\ f.todo = {}
        /\ Pending(pc[t], frame[t]) = {}
    BY <1>1 DEF LoopDone, Calm, shared, Pending
  <1>4. CASE Return(t)
    BY <1>3, <1>4, EndedCalmly
  <1>5. CASE b = "add_aliases" /\ f.op = "get" /\ Goto(t, "alias", f)
    <2>1. Moves(t, "alias", f)
      BY <1>1, <1>2, <1>5 DEF Moves, Goto, Reaches, Publishing, Initialising
    <2>2. Holds("alias", f)'
      BY <1>2, <1>3, <1>5 DEF Holds, Targeted, Published, Initialised, Bound, Publishing, Initialising, IsAlias, Has
    <2> QED BY <1>3, <2>1, <2>2, MovedCalmly
  <1>6. CASE b = "drop_aliases" /\ Goto(t, "init_aliases", [f EXCEPT !.todo = Keys(f.values)])
    <2>1. PICK g : g = [f EXCEPT !.todo = Keys(f.values)]
      OBVIOUS
    <2>2. g.op = f.op /\ g.values = f.values /\ g.todo = Keys(f.values) /\ g.src = f.src /\ g.code = f.code
      BY <1>2, <2>1 DEF Frame
    <2>3. Moves(t, "init_aliases", g)
      BY <1>1, <1>2, <1>6, <2>1, <2>2 DEF Moves, Goto, Reaches, Publishing, Initialising
    <2>4. Holds("init_aliases", g)'
      BY <1>2, <1>3, <1>6, <2>2 DEF Holds, Targeted, Published, Initialised, Bound, Publishing, Reaches, Initialising, Has, IsAlias
    <2> QED BY <1>3, <2>3, <2>4, MovedCalmly
  <1> QED BY <1>1, <1>4, <1>5, <1>6 DEF LoopDone

LEMMA MapStep ==
  ASSUME TypeOK, LoadLockHeld, RegistryInv, RegistrationsAlone, NEW t \in Tasks,
         ReplaceAliases(t) \/ \E a \in Codes : InitOneAlias(t, a)
  PROVE  RegistryInv'
  <1>1. PICK b, f : b = pc[t] /\ f = frame[t]
    OBVIOUS
  <1>2. /\ f \in Frame /\ f.values \in [Codes -> Codes \cup {NoSource}] /\ f.todo \subseteq Codes
        /\ Reaches(f.op, b) /\ Initialised(b, f)
    BY <1>1, CallOf DEF Frame
  <1>3. b \in {"init_map", "init_aliases"} /\ f.op = "init_alias" /\ pc[t] \notin Resting /\ pc[t] # "idle"
    BY <1>1, <1>2 DEF ReplaceAliases, InitOneAlias, Reaches, Initialising, Resting
  <1>4. aliases \in [Codes -> Codes \cup {NoSource}] /\ ValidAliases(aliases)
    BY DEF TypeOK, RegistryInv
  <1>5. CASE ReplaceAliases(t)
    <2>1. b = "init_map" /\ connections' = connections /\ Pending(pc[t], frame[t]) = {}
      BY <1>1, <1>5 DEF ReplaceAliases, Pending
    <2>2. CASE Return(t) /\ aliases' = aliases
      BY <2>1, <2>2, EndedCalmly DEF Calm
    <2>3. CASE ValidAliases(f.values) /\ aliases' = f.values /\ Goto(t, "drop_aliases", f)
      <3>1. Moves(t, "drop_aliases", f)
        BY <1>1, <1>3, <2>3 DEF Moves, Goto, Reaches, Publishing, Initialising
      <3>2. f.todo = Keys(aliases) /\ \A c \in Keys(f.values) : Has(c) => c \in f.todo
        BY <1>2, <2>1 DEF Initialised, IsAlias, Keys
      <3>3. Holds("drop_aliases", f)'
        BY <1>3, <2>1, <2>3, <3>2 DEF Holds, Targeted, Published, Initialised, Bound, Publishing, Has
      <3>4. ASSUME NEW a \in Codes PROVE Settled(a)' \/ a \in Pending("drop_aliases", f)
        BY <2>1, <2>3, <3>2 DEF Settled, Pending, IsAlias, Keys, Has
      <3>5. ValidAliases(aliases)'
        BY <2>3
      <3> QED BY <1>1, <1>3, <3>1, <3>3, <3>4, <3>5, MovedAtWork
    <2> QED BY <1>1, <1>5, <2>2, <2>3 DEF ReplaceAliases
  <1>6. ASSUME NEW a \in Codes, InitOneAlias(t, a) PROVE RegistryInv'
    <2>1. PICK source, g : source = connections[f.values[a]] /\ g = [f EXCEPT !.todo = @ \ {a}]
      OBVIOUS
    <2>2. /\ b = "init_aliases" /\ a \in f.todo /\ aliases' = aliases /\ aliases = f.values
          /\ f.todo \subseteq Keys(f.values) /\ \A c \in f.todo : ~Has(c)
          /\ g.op = f.op /\ g.values = f.values /\ g.todo = f.todo \ {a} /\ g.src = f.src
      BY <1>1, <1>2, <1>6, <2>1 DEF InitOneAlias, Initialised, Frame
    <2>3. Calm
      BY <1>6, <2>2 DEF InitOneAlias, Put, TypeOK, Calm
    <2>4. \A c \in Codes : Has(c)' => Has(c) /\ connections'[c] = connections[c]
      BY <2>3 DEF Calm, Has
    <2>5. \A c \in f.todo : Settled(c)'
      BY <1>2, <2>2, <2>4 DEF Settled
    <2>6. CASE Return(t)
      BY <1>1, <2>2, <2>3, <2>5, <2>6, Ended DEF Pending
    <2>7. CASE Goto(t, "init_aliases", g)
      <3>1. Moves(t, "init_aliases", g)
        BY <1>1, <1>3, <2>2, <2>7 DEF Moves, Goto, Reaches, Publishing, Initialising
      <3>2. Holds("init_aliases", g)'
        BY <1>2, <1>3, <2>2, <2>4 DEF Holds, Targeted, Published, Initialised, Bound, Publishing
      <3> QED BY <1>1, <2>2, <2>3, <2>5, <3>1, <3>2, MovedCalmly DEF Pending
    <2>8. CASE Goto(t, "init_build", [g EXCEPT !.code = a, !.con = source]) /\ UNCHANGED connections
      <3>1. PICK h : h = [g EXCEPT !.code = a, !.con = source]
        OBVIOUS
      <3>2. h.op = f.op /\ h.values = f.values /\ h.todo = g.todo /\ h.code = a /\ h.con = source
        BY <1>2, <2>1, <2>2, <3>1 DEF Frame
      <3>3. Moves(t, "init_build", h)
        BY <1>1, <1>3, <2>8, <3>1, <3>2 DEF Moves, Goto, Reaches, Publishing, Initialising
      <3>4. Holds("init_build", h)'
        BY <1>2, <1>3, <2>1, <2>2, <2>8, <3>2 DEF Holds, Targeted, Published, Initialised, Bound, Publishing, Has
      <3> QED BY <1>1, <2>2, <2>3, <2>5, <3>3, <3>4, MovedCalmly DEF Pending
    <2> QED BY <1>1, <1>6, <2>1, <2>6, <2>7, <2>8 DEF InitOneAlias
  <1> QED BY <1>5, <1>6

LEMMA FailStep == ASSUME TypeOK, RegistryInv, NEW t \in Tasks, Fail(t) PROVE RegistryInv'
  <1>1. Calm /\ Return(t)
    BY DEF Fail, Calm, shared
  <1>2. Pending(pc[t], frame[t]) = {}
    BY DEF Fail, Awaits, Pending
  <1> QED BY <1>1, <1>2, EndedCalmly

\* The calls that take one step, the operator and a stutter only take connections away.
LEMMA ImmediateStep ==
  ASSUME TypeOK, RegistryInv, RegistrationsAlone,
         Immediate \/ (\E c \in Codes : UpdateRow(c)) \/ UNCHANGED vars
  PROVE  RegistryInv'
  <1>1. pc' = pc /\ frame' = frame
    BY DEF Immediate, AddDb, Remove, Clear, SetModels, UpdateRow, vars
  <1>2. Calm
    <2>1. \A c \in Codes : ~AddDb(c)
      BY DEF AddDb, MayCall, RegistrationsAlone
    <2>2. CASE \E c \in Codes : Remove(c)
      BY <2>2 DEF Remove, Put, TypeOK, Calm
    <2>3. CASE Clear
      BY <2>3 DEF Clear, Calm
    <2>4. CASE (\E c \in Codes, m \in ModelSets : SetModels(c, m)) \/ (\E c \in Codes : UpdateRow(c)) \/ UNCHANGED vars
      BY <2>4 DEF SetModels, UpdateRow, vars, shared, Calm
    <2> QED BY <2>1, <2>2, <2>3, <2>4 DEF Immediate
  <1>3. CallInv'
    <2>1. ASSUME NEW u \in Tasks PROVE Holds(pc[u], frame[u])'
      <3>1. PICK b, g : b = pc[u] /\ g = frame[u]
        OBVIOUS
      <3>2. g \in Frame /\ Holds(b, g)
        BY <3>1, FrameType DEF RegistryInv, CallInv
      <3>3. Holds(b, g)'
        BY <1>2, <3>2, CalmHolds
      <3> QED BY <1>1, <3>1, <3>3
    <2> QED BY <2>1 DEF CallInv
  <1>4. AliasFollowsSource'
    <2>1. ASSUME NEW a \in Codes
          PROVE  IsAlias(a)' /\ Has(a)' /\ Has(aliases[a])' =>
                    connections'[a] = connections'[aliases'[a]] \/ Renewing(a)'
      <3>1. Settled(a) \/ \E u \in Tasks : a \in Pending(pc[u], frame[u])
        BY Follows DEF RegistryInv
      <3>2. Settled(a)' \/ \E u \in Tasks : a \in Pending(pc'[u], frame'[u])
        BY <1>1, <1>2, <3>1, CalmSettled
      <3> QED BY <3>2 DEF Settled, Renewing, Pending
    <2> QED BY <2>1 DEF AliasFollowsSource
  <1>5. RunApart' /\ CallsInPlace' /\ ValidAliases(aliases)'
    BY <1>1, <1>2 DEF RegistryInv, RunApart, CallsInPlace, Calm
  <1> QED BY <1>3, <1>4, <1>5 DEF RegistryInv

LEMMA RegistryInvStep ==
  ASSUME TypeOK, LoadLockHeld, RegistryInv, RegistrationsAlone, [Next]_vars
  PROVE  RegistryInv'
  <1>1. ASSUME NEW t \in Tasks, Call(t) PROVE RegistryInv'
    BY <1>1, CallStep
  <1>2. ASSUME NEW t \in Tasks, Step(t) PROVE RegistryInv'
    <2>1. CASE AcquireLock(t) \/ Recheck(t) \/ FoundSource(t) \/ QueryBase(t) \/ ReadRow(t)
      BY <2>1, LockStep
    <2>2. CASE Connect(t) \/ StoreModels(t) \/ \E a \in Codes : DeriveAlias(t, a)
      BY <2>2, OpenStep
    <2>3. CASE AddCon(t) \/ \E a \in Codes : AddAlias(t, a)
      BY <2>3, PublishStep
    <2>4. CASE ServeAlias(t) \/ BuildAlias(t)
      BY <2>4, AliasStep
    <2>5. CASE EvictSource(t) \/ UnsetModels(t) \/ \E a \in Codes : DropAlias(t, a)
      BY <2>5, DropStep
    <2>6. CASE LoopDone(t)
      BY <2>6, LoopStep
    <2>7. CASE ReplaceAliases(t) \/ \E a \in Codes : InitOneAlias(t, a)
      BY <2>7, MapStep
    <2> QED BY <1>2, <2>1, <2>2, <2>3, <2>4, <2>5, <2>6, <2>7 DEF Step
  <1>3. ASSUME NEW t \in Tasks, Fail(t) PROVE RegistryInv'
    BY <1>3, FailStep
  <1> QED BY <1>1, <1>2, <1>3, ImmediateStep DEF Next

LEMMA RegistryInvInit == ASSUME Init PROVE RegistryInv
  <1>1. /\ \A t \in Tasks : pc[t] = "idle" /\ frame[t] = NoFrame
        /\ \A c \in Codes : aliases[c] = NoSource
    BY DEF Init, NoAliases
  <1>2. RunApart /\ CallsInPlace
    BY <1>1 DEF RunApart, CallsInPlace, Reaches, NoFrame, Publishing, Initialising
  <1>3. CallInv
    BY <1>1 DEF CallInv, Holds, Targeted, Published, Initialised, Bound, Publishing, NoFrame
  <1>4. ValidAliases(aliases) /\ AliasFollowsSource
    BY <1>1 DEF ValidAliases, Keys, AliasFollowsSource, IsAlias
  <1> QED BY <1>2, <1>3, <1>4 DEF RegistryInv

LEMMA RegistryInvariant == ASSUME RegistrationsAlone PROVE Spec => []RegistryInv
  <1>1. Init => RegistryInv
    BY RegistryInvInit
  <1>2. TypeOK /\ LoadLockHeld /\ RegistryInv /\ [Next]_vars => RegistryInv'
    BY RegistryInvStep
  <1> QED BY <1>1, <1>2, TypeCorrect, LoadsAreSerialised, PTL DEF Spec

-----------------------------------------------------------------------------
(* What the registry promises an application that registers alone *)

\* After a reload nobody reaches the old pool through an alias, once the reload has come
\* to it (publish_source, add_alias_by_con, init_alias).
THEOREM AliasesFollow == ASSUME RegistrationsAlone PROVE Spec => []AliasFollowsSource
  <1>1. RegistryInv => AliasFollowsSource
    BY DEF RegistryInv
  <1> QED BY <1>1, RegistryInvariant, PTL

\* However many callers miss the cache at once, one of them opens the pool and the others
\* find it: the second look under the lock is enough (get_or_load).
THEOREM LoadsOpenOnePool == ASSUME RegistrationsAlone PROVE Spec => []LoadOpensOnePool
  <1>1. RegistryInv => LoadOpensOnePool
    BY DEF RegistryInv, CallInv, Holds, Published, LoadOpensOnePool, Publishing
  <1> QED BY <1>1, RegistryInvariant, PTL

\* A call that has not published yet has written nothing.
Unpublished == {"wait", "recheck", "load", "base", "row", "connect", "derive"}
NothingWritten == \A t \in Tasks : pc[t] \in Unpublished => ~frame[t].wrote

LEMMA NothingWrittenStep == ASSUME TypeOK, NothingWritten, [Next]_vars PROVE NothingWritten'
  <1>1. ASSUME NEW t \in Tasks, NEW at, NEW f, pc' = [pc EXCEPT ![t] = at], frame' = [frame EXCEPT ![t] = f],
               at \in Unpublished => ~f.wrote
        PROVE  NothingWritten'
    BY <1>1 DEF NothingWritten, TypeOK
  <1>2. ASSUME NEW t \in Tasks, Return(t) PROVE NothingWritten'
    BY <1>1, <1>2 DEF Return, Unpublished
  <1>3. ASSUME NEW t \in Tasks, NEW at, NEW f, Goto(t, at, f), at \in Unpublished => ~f.wrote PROVE NothingWritten'
    BY <1>1, <1>3 DEF Goto
  <1>4. ASSUME NEW t \in Tasks, Call(t) PROVE NothingWritten'
    <2>1. CASE \E c \in Codes : GetMiss(t, c) \/ Reload(t, c) \/ Unregister(t, c)
      BY <1>3, <2>1 DEF GetMiss, Reload, Unregister, Begin, NoFrame
    <2>2. CASE \E c \in Codes, m \in ModelSets : AddSource(t, c, m)
      BY <1>3, <2>2 DEF AddSource, Begin, NoFrame
    <2>3. CASE \E values \in AliasMaps : InitAlias(t, values)
      BY <1>3, <2>3 DEF InitAlias, Begin, NoFrame
    <2> QED BY <1>4, <2>1, <2>2, <2>3 DEF Call
  <1>5. ASSUME NEW t \in Tasks, Step(t) PROVE NothingWritten'
    <2>1. PICK b, f : b = pc[t] /\ f = frame[t]
      OBVIOUS
    <2>2. f \in Frame /\ (b \in Unpublished => ~f.wrote)
      BY <2>1, FrameType DEF NothingWritten
    <2>3. CASE AcquireLock(t)
      <3>1. b = "wait" /\ frame' = [frame EXCEPT ![t] = f]
        BY <2>1, <2>3 DEF AcquireLock, TypeOK
      <3> QED BY <1>1, <2>2, <2>3, <3>1 DEF AcquireLock, Unpublished
    <2>4. CASE Recheck(t)
      <3>1. b = "recheck" /\ [f EXCEPT !.src = SourceOf(f.code)].wrote = f.wrote
        BY <2>1, <2>2, <2>4 DEF Recheck, Frame
      <3> QED BY <1>2, <1>3, <2>1, <2>2, <2>4, <3>1 DEF Recheck, Unpublished
    <2>5. CASE QueryBase(t)
      BY <1>2, <1>3, <2>1, <2>2, <2>5 DEF QueryBase, Unpublished
    <2>6. CASE ReadRow(t)
      <3>1. /\ b = "row"
            /\ [f EXCEPT !.con = [src |-> f.src, url |-> catalog[f.src]], !.models = modelSets[f.src]].wrote = f.wrote
        BY <2>1, <2>2, <2>6 DEF ReadRow, Frame
      <3> QED BY <1>2, <1>3, <2>1, <2>2, <2>6, <3>1 DEF ReadRow, Unpublished
    <2>7. CASE Connect(t)
      <3>1. b = "connect" /\ [f EXCEPT !.listed = AliasesOf(f.src), !.todo = AliasesOf(f.src)].wrote = f.wrote
        BY <2>1, <2>2, <2>7 DEF Connect, Frame
      <3> QED BY <1>3, <2>1, <2>2, <2>7, <3>1 DEF Connect, Unpublished
    <2>8. ASSUME NEW a \in Codes, DeriveAlias(t, a) PROVE NothingWritten'
      <3>1. /\ b = "derive"
            /\ [f EXCEPT !.todo = @ \ {a}, !.built = IF HasModels(a) THEN @ \cup {a} ELSE @].wrote = f.wrote
        BY <2>1, <2>2, <2>8 DEF DeriveAlias, Frame
      <3> QED BY <1>3, <2>1, <2>2, <2>8, <3>1 DEF DeriveAlias, Unpublished
    <2>9. CASE \E a \in Codes : DropAlias(t, a)
      BY <1>3, <2>9 DEF DropAlias, Unpublished
    <2>10. CASE FoundSource(t) \/ StoreModels(t) \/ AddCon(t) \/ ServeAlias(t) \/ BuildAlias(t) \/ EvictSource(t)
                \/ UnsetModels(t) \/ ReplaceAliases(t) \/ LoopDone(t) \/ \E a \in Codes : AddAlias(t, a) \/ InitOneAlias(t, a)
      BY <1>2, <1>3, <2>10 DEF FoundSource, StoreModels, AddCon, ServeAlias, BuildAlias, EvictSource, UnsetModels,
                               ReplaceAliases, LoopDone, AddAlias, InitOneAlias, Unpublished
    <2> QED BY <1>5, <2>3, <2>4, <2>5, <2>6, <2>7, <2>8, <2>9, <2>10 DEF Step
  <1>6. ASSUME NEW t \in Tasks, Fail(t) PROVE NothingWritten'
    BY <1>2, <1>6 DEF Fail
  <1>7. CASE Immediate \/ (\E c \in Codes : UpdateRow(c)) \/ UNCHANGED vars
    BY <1>7 DEF NothingWritten, Immediate, AddDb, Remove, Clear, SetModels, UpdateRow, vars
  <1> QED BY <1>4, <1>5, <1>6, <1>7 DEF Next

\* A call that fails before its publication is over, at whichever await, leaves no trace of
\* itself, whatever runs next to it (publish_source).
THEOREM FailuresWriteNothing == Spec => FailureWritesNothing
  <1>1. Init => NothingWritten
    BY DEF Init, NothingWritten, Unpublished
  <1>2. TypeOK /\ NothingWritten /\ [Next]_vars => NothingWritten'
    BY NothingWrittenStep
  <1>3. NothingWritten /\ [Next]_vars =>
          [\A t \in Tasks : pc[t] \in {"wait", "row", "connect", "derive"} /\ pc'[t] = "idle" => ~frame[t].wrote]_vars
    BY DEF NothingWritten, Unpublished
  <1> QED BY <1>1, <1>2, <1>3, TypeCorrect, PTL DEF Spec, FailureWritesNothing

LEMMA OnlyItsTask ==
  ASSUME TypeOK, NEW t \in Tasks, NEW u \in Tasks \ {t}, Call(u) \/ Step(u) \/ Fail(u)
  PROVE  pc'[t] = pc[t]
  <1>1. CASE Call(u)
    BY <1>1 DEF Call, GetMiss, Reload, Unregister, AddSource, InitAlias, Begin, Goto, TypeOK
  <1>2. CASE Fail(u)
    BY <1>2 DEF Fail, Return, TypeOK
  <1>3. CASE Step(u)
    <2>1. ASSUME NEW at, NEW f, Goto(u, at, f) PROVE pc'[t] = pc[t]
      BY <2>1 DEF Goto, TypeOK
    <2>2. CASE Return(u) \/ AcquireLock(u)
      BY <2>2 DEF Return, AcquireLock, TypeOK
    <2> QED BY <1>3, <2>1, <2>2 DEF Step, Recheck, FoundSource, QueryBase, ReadRow, Connect, StoreModels, AddCon,
               ServeAlias, BuildAlias, EvictSource, UnsetModels, ReplaceAliases, LoopDone, DeriveAlias, AddAlias,
               DropAlias, InitOneAlias
  <1> QED BY <1>1, <1>2, <1>3

\* The reload of a disabled row returns only when its loop over the aliases is through.
LEMMA EvictionEnds ==
  ASSUME TypeOK, Next, NEW t \in Tasks, pc[t] = "evict_aliases", pc'[t] = "idle"
  PROVE  frame[t].todo = {}
  <1>1. Call(t) \/ Step(t) \/ Fail(t)
    <2>1. ~Immediate /\ ~\E c \in Codes : UpdateRow(c)
      BY DEF Immediate, AddDb, Remove, Clear, SetModels, UpdateRow
    <2> QED BY <2>1, OnlyItsTask DEF Next
  <1>2. ~Call(t) /\ ~Fail(t)
    BY DEF Call, GetMiss, Reload, Unregister, AddSource, InitAlias, Begin, Fail, Awaits
  <1>3. ~\E a \in Codes : DropAlias(t, a)
    BY DEF DropAlias, Goto, TypeOK
  <1>4. LoopDone(t)
    BY <1>1, <1>2, <1>3 DEF Step, AcquireLock, Recheck, FoundSource, QueryBase, ReadRow, Connect, StoreModels, AddCon,
               ServeAlias, BuildAlias, EvictSource, UnsetModels, ReplaceAliases, DeriveAlias, AddAlias, InitOneAlias
  <1> QED BY <1>4 DEF LoopDone

\* A source that is disabled in the catalog is not served any more once its reload has
\* returned, nor is one of its aliases (evict_source).
THEOREM DisabledSourcesAreEvicted == ASSUME RegistrationsAlone PROVE Spec => DisabledIsEvicted
  <1>1. ASSUME TypeOK, RegistryInv, [Next]_vars
        PROVE  [\A t \in Tasks : pc[t] = "evict_aliases" /\ pc'[t] = "idle" =>
                  ~Has(frame[t].src) /\ \A a \in AliasesOf(frame[t].src) : ~Has(a)]_vars
    <2>1. CASE Next
      <3>1. ASSUME NEW t \in Tasks, pc[t] = "evict_aliases", pc'[t] = "idle"
            PROVE  ~Has(frame[t].src) /\ \A a \in AliasesOf(frame[t].src) : ~Has(a)
        <4>1. frame[t].todo = {}
          BY <1>1, <2>1, <3>1, EvictionEnds
        <4>2. Published("evict_aliases", frame[t])
          BY <1>1, <3>1, CallOf
        <4> QED BY <4>1, <4>2 DEF Published
      <3> QED BY <3>1
    <2> QED BY <1>1, <2>1
  <1> QED BY <1>1, TypeCorrect, RegistryInvariant, PTL DEF Spec, DisabledIsEvicted

-----------------------------------------------------------------------------
(* Which row a cached source stands for *)

\* No alias has the name of a source.
NamesApart == \A values \in AliasMaps : Keys(values) \cap Sources = {}

\* The row a call is about to act on: not older than those acted on before.
Fresh(at, f) ==
    /\ Keys(f.values) \cap Sources = {}
    /\ at \in {"connect", "derive", "add_con", "evict"} /\ f.src \in Sources =>
          seen[f.src] <= f.con.url /\ f.con.url <= catalog[f.src]
CachedInv ==
    /\ Keys(aliases) \cap Sources = {}
    /\ \A s \in Sources : seen[s] <= catalog[s]
    /\ \A t \in Tasks : Fresh(pc[t], frame[t])
    /\ CachedIsNewestSeen

LEMMA VersionType == Versions \subseteq Nat /\ \A con \in Connection : con.url \in Nat
  BY VersionsAssumption DEF Versions, Connection

\* A step that acts on no row and opens no source.
LEMMA QuietStep ==
  ASSUME TypeOK, CachedInv, NEW t \in Tasks, NEW at, NEW f,
         pc' = [pc EXCEPT ![t] = at], frame' = [frame EXCEPT ![t] = f], Fresh(at, f),
         seen' = seen, catalog' = catalog, Keys(aliases') \cap Sources = {},
         \A s \in Sources : connections'[s] = connections[s] \/ connections'[s] = NoConn
  PROVE  CachedInv'
  <1>1. ASSUME NEW u \in Tasks PROVE Fresh(pc[u], frame[u])'
    <2>1. PICK b, g : b = pc'[u] /\ g = frame'[u]
      OBVIOUS
    <2>2. Fresh(b, g)
      BY <2>1 DEF CachedInv, TypeOK
    <2> QED BY <2>1, <2>2 DEF Fresh
  <1>2. CachedIsNewestSeen'
    BY DEF CachedInv, CachedIsNewestSeen, Has
  <1> QED BY <1>1, <1>2 DEF CachedInv

LEMMA QuietReturn ==
  ASSUME TypeOK, CachedInv, NEW t \in Tasks, Return(t),
         seen' = seen, catalog' = catalog, aliases' = aliases,
         \A s \in Sources : connections'[s] = connections[s] \/ connections'[s] = NoConn
  PROVE  CachedInv'
  <1>1. Fresh("idle", NoFrame)
    BY DEF Fresh, NoFrame, NoAliases, Keys
  <1> QED BY <1>1, QuietStep DEF Return, CachedInv

\* A row is acted on by the one call that works.
LEMMA RowActedOn ==
  ASSUME TypeOK, LoadLockHeld, RegistryInv, CachedInv, RegistrationsAlone, NEW t \in Tasks, NEW at, NEW f,
         pc[t] \in {"add_con", "evict"}, at \notin {"connect", "derive", "add_con", "evict"}, Goto(t, at, f),
         f.values = frame[t].values, Act(frame[t].src, frame[t].con.url),
         catalog' = catalog, aliases' = aliases,
         \A s \in Sources \ {frame[t].src} : connections'[s] = connections[s],
         connections'[frame[t].src] \in {frame[t].con, NoConn}
  PROVE  CachedInv'
  <1>1. PICK b, h : b = pc[t] /\ h = frame[t]
    OBVIOUS
  <1>2. h \in Frame /\ h.src \in Codes /\ h.con \in Connection /\ h.con.src = h.src /\ Fresh(b, h)
    BY <1>1, CallOf DEF Frame, Published, CachedInv
  <1>3. \A s \in Codes : seen[s] \in Nat /\ catalog[s] \in Nat
    BY VersionType DEF TypeOK
  <1>4. /\ \A s \in Sources \ {h.src} : seen'[s] = seen[s]
        /\ h.src \in Sources => seen'[h.src] = h.con.url /\ h.con.url <= catalog[h.src]
    <2>1. h.con.url \in Nat
      BY <1>2, VersionType
    <2>2. \A s \in Sources : s \in Codes
      BY CodesAssumption
    <2>3. DOMAIN seen = Codes /\ seen' = [seen EXCEPT ![h.src] = Newest(seen[h.src], h.con.url)]
      BY <1>1 DEF Act, TypeOK
    <2>4. h.src \in Sources => seen[h.src] <= h.con.url /\ h.con.url <= catalog[h.src]
      BY <1>1, <1>2 DEF Fresh
    <2>5. h.src \in Sources => Newest(seen[h.src], h.con.url) = h.con.url
      BY <1>2, <1>3, <2>1, <2>4 DEF Newest
    <2> QED BY <1>2, <2>2, <2>3, <2>4, <2>5
  <1>5. \A s \in Sources : seen'[s] <= catalog'[s]
    BY <1>4 DEF CachedInv
  <1>6. ASSUME NEW u \in Tasks PROVE Fresh(pc[u], frame[u])'
    <2>1. PICK c, g : c = pc'[u] /\ g = frame'[u]
      OBVIOUS
    <2>2. CASE u = t
      <3>1. c = at /\ Keys(g.values) \cap Sources = {}
        BY <1>1, <1>2, <2>1, <2>2 DEF Goto, TypeOK, Fresh
      <3> QED BY <2>1, <3>1 DEF Fresh
    <2>3. CASE u # t
      <3>1. c = pc[u] /\ g = frame[u]
        BY <2>1, <2>3 DEF Goto, TypeOK
      <3>2. c \in Resting
        BY <1>1, <2>3, <3>1, OneWorks DEF Resting, RegistryInv
      <3>3. Keys(g.values) \cap Sources = {}
        BY <3>1 DEF CachedInv, Fresh
      <3> QED BY <2>1, <3>2, <3>3 DEF Fresh, Resting
    <2> QED BY <2>2, <2>3
  <1>7. CachedIsNewestSeen'
    <2>1. ASSUME NEW s \in Sources, Has(s)' PROVE connections'[s] = [src |-> s, url |-> seen'[s]]
      <3>1. CASE s = h.src
        <4>1. connections'[s] = h.con
          BY <1>1, <2>1, <3>1 DEF Has
        <4>2. h.con = [src |-> h.con.src, url |-> h.con.url]
          BY <1>2 DEF Connection
        <4> QED BY <1>2, <1>4, <3>1, <4>1, <4>2
      <3>2. CASE s # h.src
        BY <1>1, <1>4, <2>1, <3>2 DEF CachedInv, CachedIsNewestSeen, Has
      <3> QED BY <3>1, <3>2
    <2> QED BY <2>1 DEF CachedIsNewestSeen
  <1>8. Keys(aliases') \cap Sources = {}
    BY DEF CachedInv
  <1> QED BY <1>5, <1>6, <1>7, <1>8 DEF CachedInv

LEMMA CachedInvCall ==
  ASSUME TypeOK, CachedInv, NamesApart, NEW t \in Tasks, Call(t) PROVE CachedInv'
  <1>1. ASSUME NEW c \in Codes, GetMiss(t, c) \/ Reload(t, c) \/ Unregister(t, c) PROVE CachedInv'
    <2>1. seen' = seen /\ catalog' = catalog /\ aliases' = aliases
      BY <1>1 DEF GetMiss, Reload, Unregister, shared, others
    <2>2. \A s \in Sources : connections'[s] = connections[s] \/ connections'[s] = NoConn
      BY <1>1, CodesAssumption DEF GetMiss, Reload, Unregister, Put, shared, TypeOK
    <2>3. ASSUME NEW at \in {"wait", "unset_models"}, NEW f, Goto(t, at, f), f.values = NoAliases
          PROVE  CachedInv'
      <3>1. Fresh(at, f)
        BY <2>3 DEF Fresh, NoAliases, Keys
      <3> QED BY <2>1, <2>2, <2>3, <3>1, QuietStep DEF Goto, CachedInv
    <2>4. CASE GetMiss(t, c)
      BY <2>3, <2>4 DEF GetMiss, Begin, NoFrame
    <2>5. CASE Reload(t, c)
      BY <2>3, <2>5 DEF Reload, Begin, NoFrame
    <2>6. CASE Unregister(t, c)
      BY <2>3, <2>6 DEF Unregister, Begin, NoFrame
    <2> QED BY <1>1, <2>4, <2>5, <2>6
  <1>2. ASSUME NEW c \in Codes, NEW m \in ModelSets, AddSource(t, c, m) PROVE CachedInv'
    <2>1. PICK f : f = [NoFrame EXCEPT !.code = c, !.src = c, !.models = m,
                                       !.con = [src |-> c, url |-> Address(c)], !.op = "add"]
      OBVIOUS
    <2>2. f.values = NoAliases /\ f.src = c /\ f.con.url = Address(c)
      BY <2>1 DEF NoFrame
    <2>3. c \in Sources => Address(c) = catalog[c] /\ seen[c] <= catalog[c] /\ catalog[c] \in Nat
      BY CodesAssumption, VersionType DEF Address, CachedInv, TypeOK
    <2>4. Fresh("connect", f)
      BY <2>2, <2>3 DEF Fresh, NoAliases, Keys
    <2>5. Goto(t, "connect", f)
      BY <1>2, <2>1 DEF AddSource, Begin, NoFrame
    <2>6. seen' = seen /\ catalog' = catalog /\ aliases' = aliases /\ connections' = connections
      BY <1>2 DEF AddSource, shared, others
    <2> QED BY <2>4, <2>5, <2>6, QuietStep DEF Goto, CachedInv
  <1>3. ASSUME NEW values \in AliasMaps, InitAlias(t, values) PROVE CachedInv'
    <2>1. PICK f : f = [NoFrame EXCEPT !.values = values, !.todo = Keys(aliases), !.op = "init_alias"]
      OBVIOUS
    <2>2. f.values = values
      BY <2>1 DEF NoFrame
    <2>3. Fresh("init_map", f)
      BY <2>2 DEF Fresh, NamesApart
    <2>4. Goto(t, "init_map", f)
      BY <1>3, <2>1 DEF InitAlias, Begin, NoFrame
    <2>5. seen' = seen /\ catalog' = catalog /\ aliases' = aliases /\ connections' = connections
      BY <1>3 DEF InitAlias, shared, others
    <2> QED BY <2>3, <2>4, <2>5, QuietStep DEF Goto, CachedInv
  <1> QED BY <1>1, <1>2, <1>3 DEF Call

LEMMA CachedInvStep ==
  ASSUME TypeOK, LoadLockHeld, RegistryInv, CachedInv, RegistrationsAlone, NEW t \in Tasks, Step(t)
  PROVE  CachedInv'
  <1>1. PICK b, f : b = pc[t] /\ f = frame[t]
    OBVIOUS
  <1>2. /\ f \in Frame /\ f.src \in Codes /\ f.code \in Codes /\ Fresh(b, f)
        /\ Targeted(b, f) /\ Published(b, f) /\ Initialised(b, f) /\ Reaches(f.op, b)
    BY <1>1, CallOf DEF Frame, CachedInv
  <1>3. ASSUME NEW c \in Codes, IsAlias(c) PROVE c \notin Sources
    BY <1>3 DEF CachedInv, IsAlias, Keys
  <1>4. ASSUME NEW at, NEW g, Goto(t, at, g), Fresh(at, g), aliases' = aliases, seen' = seen, catalog' = catalog,
               \A s \in Sources : connections'[s] = connections[s] \/ connections'[s] = NoConn
        PROVE  CachedInv'
    BY <1>4, QuietStep DEF Goto, CachedInv
  <1>5. CASE AcquireLock(t)
    <2>1. PICK at : at = IF f.op = "get" THEN "recheck" ELSE "base"
      OBVIOUS
    <2>2. pc' = [pc EXCEPT ![t] = at] /\ frame' = frame /\ frame = [frame EXCEPT ![t] = f]
      BY <1>1, <1>5, <2>1 DEF AcquireLock, TypeOK
    <2>3. Fresh(at, f)
      BY <1>2, <2>1 DEF Fresh
    <2> QED BY <1>5, <2>2, <2>3, QuietStep DEF AcquireLock, shared, CachedInv
  <1>6. CASE Recheck(t)
    <2>1. Fresh("load", [f EXCEPT !.src = SourceOf(f.code)])
      BY <1>2 DEF Fresh, Frame
    <2> QED BY <1>1, <1>4, <1>6, <2>1, QuietReturn DEF Recheck, shared, others
  <1>7. CASE FoundSource(t)
    <2>1. Fresh("alias", [f EXCEPT !.con = connections[f.src]])
      BY <1>2 DEF Fresh, Frame
    <2> QED BY <1>1, <1>4, <1>7, <2>1 DEF FoundSource, shared, others
  <1>8. CASE QueryBase(t)
    <2>1. Fresh("row", f)
      BY <1>2 DEF Fresh
    <2> QED BY <1>1, <1>4, <1>8, <2>1, QuietReturn DEF QueryBase, shared, others
  <1>9. CASE ReadRow(t)
    <2>1. PICK g : g = [f EXCEPT !.con = [src |-> f.src, url |-> catalog[f.src]], !.models = modelSets[f.src]]
      OBVIOUS
    <2>2. g.values = f.values /\ g.src = f.src /\ g.con.url = catalog[f.src] /\ catalog[f.src] \in Nat
      BY <1>2, <2>1, VersionType DEF Frame, TypeOK
    <2>3. Fresh("connect", g) /\ Fresh("evict", g)
      BY <1>2, <2>2 DEF Fresh, CachedInv
    <2>4. seen' = seen /\ catalog' = catalog /\ aliases' = aliases /\ connections' = connections
      BY <1>9 DEF ReadRow, shared, others
    <2>5. Goto(t, "connect", g) \/ Goto(t, "evict", g) \/ Return(t)
      BY <1>1, <1>9, <2>1 DEF ReadRow
    <2> QED BY <1>4, <2>3, <2>4, <2>5, QuietReturn
  <1>10. CASE Connect(t)
    <2>1. b = "connect"
      BY <1>1, <1>10 DEF Connect
    <2>2. Fresh("derive", [f EXCEPT !.listed = AliasesOf(f.src), !.todo = AliasesOf(f.src)])
      BY <1>2, <2>1 DEF Fresh, Frame
    <2> QED BY <1>1, <1>4, <1>10, <2>2 DEF Connect, shared, others
  <1>11. CASE StoreModels(t)
    <2>1. b = "derive"
      BY <1>1, <1>11 DEF StoreModels
    <2>2. Fresh("add_con", [f EXCEPT !.wrote = TRUE])
      BY <1>2, <2>1 DEF Fresh, Frame
    <2> QED BY <1>1, <1>4, <1>11, <2>2 DEF StoreModels, others
  <1>12. CASE AddCon(t)
    <2>1. /\ connections'[f.src] = f.con /\ \A s \in Sources \ {f.src} : connections'[s] = connections[s]
          /\ [f EXCEPT !.todo = f.listed, !.wrote = TRUE].values = f.values
      BY <1>1, <1>2, <1>12, CodesAssumption DEF AddCon, Put, TypeOK, Frame
    <2>2. PICK g : g = [f EXCEPT !.todo = f.listed, !.wrote = TRUE]
      OBVIOUS
    <2>3. g.values = f.values /\ b = "add_con" /\ Goto(t, "add_aliases", g) /\ Act(f.src, f.con.url)
          /\ catalog' = catalog /\ aliases' = aliases
      BY <1>1, <1>12, <2>1, <2>2 DEF AddCon
    <2>4. /\ pc[t] \in {"add_con", "evict"} /\ g.values = frame[t].values /\ Act(frame[t].src, frame[t].con.url)
          /\ \A s \in Sources \ {frame[t].src} : connections'[s] = connections[s]
          /\ connections'[frame[t].src] \in {frame[t].con, NoConn}
      BY <1>1, <2>1, <2>3
    <2> QED BY <2>3, <2>4, RowActedOn
  <1>13. CASE EvictSource(t)
    <2>1. /\ connections'[f.src] = NoConn /\ \A s \in Sources \ {f.src} : connections'[s] = connections[s]
          /\ [f EXCEPT !.todo = AliasesOf(f.src)].values = f.values
      BY <1>1, <1>2, <1>13, CodesAssumption DEF EvictSource, Put, TypeOK, Frame
    <2>2. PICK g : g = [f EXCEPT !.todo = AliasesOf(f.src)]
      OBVIOUS
    <2>3. g.values = f.values /\ b = "evict" /\ Goto(t, "evict_aliases", g) /\ Act(f.src, f.con.url)
          /\ catalog' = catalog /\ aliases' = aliases
      BY <1>1, <1>13, <2>1, <2>2 DEF EvictSource
    <2>4. /\ pc[t] \in {"add_con", "evict"} /\ g.values = frame[t].values /\ Act(frame[t].src, frame[t].con.url)
          /\ \A s \in Sources \ {frame[t].src} : connections'[s] = connections[s]
          /\ connections'[frame[t].src] \in {frame[t].con, NoConn}
      BY <1>1, <2>1, <2>3
    <2> QED BY <2>3, <2>4, RowActedOn
  <1>14. CASE ServeAlias(t)
    <2>1. Fresh("build_alias", f)
      BY <1>2 DEF Fresh
    <2> QED BY <1>1, <1>4, <1>14, <2>1, QuietReturn DEF ServeAlias, shared, others
  <1>15. CASE BuildAlias(t)
    <2>1. IsAlias(f.code)
      <3>1. CASE b = "build_alias"
        BY <1>2, <3>1, CodesAssumption DEF Targeted, Reaches, Bound, IsAlias
      <3>2. CASE b = "init_build"
        BY <1>2, <3>2 DEF Initialised, IsAlias, Keys
      <3> QED BY <1>1, <1>15, <3>1, <3>2 DEF BuildAlias
    <2>2. \A s \in Sources : connections'[s] = connections[s]
      BY <1>1, <1>2, <1>3, <1>15, <2>1, CodesAssumption DEF BuildAlias, Put, TypeOK
    <2>3. Fresh("init_aliases", f)
      BY <1>2 DEF Fresh
    <2> QED BY <1>1, <1>4, <1>15, <2>2, <2>3, QuietReturn DEF BuildAlias, others
  <1>16. CASE UnsetModels(t)
    BY <1>16, QuietReturn DEF UnsetModels, others
  <1>17. CASE ReplaceAliases(t)
    <2>1. Fresh("drop_aliases", f) /\ Keys(f.values) \cap Sources = {}
      BY <1>2 DEF Fresh
    <2>2. CASE aliases' = f.values /\ Goto(t, "drop_aliases", f)
      BY <1>17, <2>1, <2>2, QuietStep DEF ReplaceAliases, Goto, others
    <2> QED BY <1>1, <1>17, <2>2, QuietReturn DEF ReplaceAliases, others
  <1>18. CASE LoopDone(t)
    <2>1. Fresh("alias", f) /\ Fresh("init_aliases", [f EXCEPT !.todo = Keys(f.values)])
      BY <1>2 DEF Fresh, Frame
    <2> QED BY <1>1, <1>4, <1>18, <2>1, QuietReturn DEF LoopDone, shared, others
  <1>19. ASSUME NEW a \in Codes, DeriveAlias(t, a) PROVE CachedInv'
    <2>1. b = "derive"
      BY <1>1, <1>19 DEF DeriveAlias
    <2>2. Fresh("derive", [f EXCEPT !.todo = @ \ {a}, !.built = IF HasModels(a) THEN @ \cup {a} ELSE @])
      BY <1>2, <2>1 DEF Fresh, Frame
    <2> QED BY <1>1, <1>4, <1>19, <2>2 DEF DeriveAlias, shared, others
  <1>20. ASSUME NEW a \in Codes, AddAlias(t, a) PROVE CachedInv'
    <2>1. b = "add_aliases" /\ a \in f.todo
      BY <1>1, <1>20 DEF AddAlias
    <2>2. IsAlias(a)
      BY <1>2, <2>1, CodesAssumption DEF Published, AliasesOf, IsAlias
    <2>3. \A s \in Sources : connections'[s] = connections[s]
      BY <1>3, <1>20, <2>2, CodesAssumption DEF AddAlias, Put, TypeOK
    <2>4. Fresh("add_aliases", [f EXCEPT !.todo = @ \ {a}])
      BY <1>2 DEF Fresh, Frame
    <2> QED BY <1>1, <1>4, <1>20, <2>3, <2>4 DEF AddAlias, others
  <1>21. ASSUME NEW a \in Codes, DropAlias(t, a) PROVE CachedInv'
    <2>1. Fresh(b, [f EXCEPT !.todo = @ \ {a}])
      BY <1>2 DEF Fresh, Frame
    <2>2. \A s \in Sources : connections'[s] = connections[s] \/ connections'[s] = NoConn
      BY <1>21, CodesAssumption DEF DropAlias, Put, TypeOK
    <2> QED BY <1>1, <1>4, <1>21, <2>1, <2>2 DEF DropAlias, others
  <1>22. ASSUME NEW a \in Codes, InitOneAlias(t, a) PROVE CachedInv'
    <2>1. PICK g, h : g = [f EXCEPT !.todo = @ \ {a}] /\ h = [g EXCEPT !.code = a, !.con = connections[f.values[a]]]
      OBVIOUS
    <2>2. g.values = f.values /\ h.values = f.values
      BY <1>2, <2>1 DEF Frame
    <2>3. Fresh("init_aliases", g) /\ Fresh("init_build", h)
      BY <1>2, <2>2 DEF Fresh
    <2>4. \A s \in Sources : connections'[s] = connections[s] \/ connections'[s] = NoConn
      BY <1>22, CodesAssumption DEF InitOneAlias, Put, TypeOK
    <2>5. Goto(t, "init_aliases", g) \/ Goto(t, "init_build", h) \/ Return(t)
      BY <1>1, <1>22, <2>1 DEF InitOneAlias
    <2>6. seen' = seen /\ catalog' = catalog /\ aliases' = aliases
      BY <1>22 DEF InitOneAlias, others
    <2> QED BY <1>4, <2>3, <2>4, <2>5, <2>6, QuietReturn
  <1> QED BY <1>5, <1>6, <1>7, <1>8, <1>9, <1>10, <1>11, <1>12, <1>13, <1>14, <1>15, <1>16, <1>17, <1>18,
             <1>19, <1>20, <1>21, <1>22, Zenon DEF Step

\* The other steps: rows get newer, connections go.
LEMMA CachedInvOthers ==
  ASSUME TypeOK, CachedInv, RegistrationsAlone,
         Immediate \/ (\E c \in Codes : UpdateRow(c)) \/ UNCHANGED vars
  PROVE  CachedInv'
  <1>1. pc' = pc /\ frame' = frame /\ seen' = seen /\ aliases' = aliases
    BY DEF Immediate, AddDb, Remove, Clear, SetModels, UpdateRow, vars, others, shared
  <1>2. \A s \in Sources : connections'[s] = connections[s] \/ connections'[s] = NoConn
    <2>1. \A c \in Codes : ~AddDb(c)
      BY DEF AddDb, MayCall, RegistrationsAlone
    <2> QED BY <2>1, CodesAssumption DEF Immediate, Remove, Clear, SetModels, UpdateRow, vars, shared, Put, TypeOK
  <1>3. \A s \in Codes : catalog[s] \in Nat /\ seen[s] \in Nat /\ catalog'[s] \in Nat /\ catalog[s] <= catalog'[s]
    <2>1. \A s \in Codes : catalog[s] \in Nat /\ seen[s] \in Nat
      BY VersionType DEF TypeOK
    <2>2. CASE \E c \in Codes : UpdateRow(c)
      <3>1. PICK c \in Codes : catalog' = [catalog EXCEPT ![c] = catalog[c] + 1]
        BY <2>2 DEF UpdateRow
      <3>2. \A s \in Codes : catalog'[s] = IF s = c THEN catalog[s] + 1 ELSE catalog[s]
        BY <3>1 DEF TypeOK
      <3> QED BY <2>1, <3>2
    <2>3. CASE Immediate \/ UNCHANGED vars
      <3>1. catalog' = catalog
        BY <2>3 DEF Immediate, AddDb, Remove, Clear, SetModels, vars, others
      <3> QED BY <2>1, <3>1
    <2> QED BY <2>2, <2>3
  <1>4. ASSUME NEW t \in Tasks PROVE Fresh(pc[t], frame[t])'
    <2>1. PICK b, f : b = pc[t] /\ f = frame[t]
      OBVIOUS
    <2>2. f.src \in Codes /\ f.con.url \in Nat /\ Fresh(b, f)
      BY <2>1, FrameType, VersionType DEF Frame, CachedInv
    <2>3. Fresh(b, f)'
      <3>1. f.src \in Sources /\ f.con.url <= catalog[f.src] => f.con.url <= catalog'[f.src]
        BY <1>3, <2>2
      <3> QED BY <1>1, <2>2, <3>1 DEF Fresh
    <2> QED BY <1>1, <2>1, <2>3
  <1>5. CachedIsNewestSeen'
    BY <1>1, <1>2 DEF CachedInv, CachedIsNewestSeen, Has
  <1>6. \A s \in Sources : seen'[s] <= catalog'[s]
    BY <1>1, <1>3, CodesAssumption DEF CachedInv
  <1> QED BY <1>1, <1>4, <1>5, <1>6 DEF CachedInv

\* However slow the calls, a cached source stands for the newest of the rows a load, a
\* registration or an eviction acted on (get_or_load, reload).
THEOREM CachesTheNewestRow == ASSUME RegistrationsAlone, NamesApart PROVE Spec => []CachedIsNewestSeen
  <1>1. Init => CachedInv
    <2>1. ASSUME Init PROVE CachedInv
      <3>1. \A s \in Sources : s \in Codes
        BY CodesAssumption
      <3>2. Keys(aliases) = {} /\ \A s \in Sources : seen[s] <= catalog[s] /\ ~Has(s)
        BY <2>1, <3>1 DEF Init, NoAliases, Keys, Has
      <3>3. \A t \in Tasks : Fresh(pc[t], frame[t])
        BY <2>1 DEF Init, Fresh, NoFrame, NoAliases, Keys
      <3> QED BY <3>2, <3>3 DEF CachedInv, CachedIsNewestSeen
    <2> QED BY <2>1
  <1>2. ASSUME TypeOK, LoadLockHeld, RegistryInv, CachedInv, [Next]_vars PROVE CachedInv'
    <2>1. ASSUME NEW t \in Tasks, Fail(t) PROVE CachedInv'
      BY <1>2, <2>1, QuietReturn DEF Fail, shared
    <2> QED BY <1>2, <2>1, CachedInvCall, CachedInvStep, CachedInvOthers DEF Next
  <1>3. CachedInv => CachedIsNewestSeen
    BY DEF CachedInv
  <1> QED BY <1>1, <1>2, <1>3, TypeCorrect, LoadsAreSerialised, RegistryInvariant, PTL DEF Spec
=============================================================================
