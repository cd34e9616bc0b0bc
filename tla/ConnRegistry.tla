---------------------------- MODULE ConnRegistry ----------------------------
(***************************************************************************)
(* The process-wide connection registry of toasty-mgr (registry.rs) behind *)
(* the TcMgr facade (ext.rs): lazily loaded connection pools, business     *)
(* aliases derived from them, and the model sets they are opened with.     *)
(*                                                                         *)
(* Three maps are shared, each behind its own RwLock that is released      *)
(* after every access; only get_or_load and reload serialise on LOAD_LOCK, *)
(* a FIFO asynchronous mutex.  One step of this module is one access that  *)
(* writes a shared map together with the reads that lead to it, or one     *)
(* await (catalog query, opening a pool, waiting for LOAD_LOCK).           *)
(*                                                                         *)
(* A connection is known by the physical source it reaches and by the      *)
(* address it was opened with: the version of the catalog row of that      *)
(* source.                                                                 *)
(***************************************************************************)
EXTENDS Naturals, Sequences, FiniteSets

CONSTANTS
    Tasks,          \* concurrent callers (tokio tasks)
    Codes,          \* data-source codes and alias names
    Base,           \* the code "base" of the control connection
    Sources,        \* codes that have a row in the base_ds table
    AliasMaps,      \* alias maps the application passes to init_alias
    ModelSets,      \* application model sets
    MaxVersion,     \* bound on the updates of one catalog row
    Enabled,        \* row versions whose state column is true
    Operations,     \* the operations the application calls
    Apart,          \* ... and the sets {op, op'} of those it never runs at once
    NoTask, NoSource, NoModels

ASSUME CodesAssumption ==
    /\ Base \in Codes
    /\ Sources \subseteq Codes \ {Base}
    /\ NoSource \notin Codes
ASSUME TasksAssumption == NoTask \notin Tasks
ASSUME VersionsAssumption == MaxVersion \in Nat \ {0} /\ Enabled \subseteq 1..MaxVersion
ASSUME ModelSetsAssumption == NoModels \notin ModelSets
ASSUME AliasMapsAssumption ==
    AliasMaps \subseteq [Codes -> Codes \cup {NoSource}]
ASSUME OperationsAssumption ==
    /\ Operations \subseteq {"get", "reload", "add", "add_db", "init_alias", "remove",
                            "clear", "set_models", "unregister"}
    /\ Apart \subseteq SUBSET Operations

VARIABLES
    connections,    \* CONNECTIONS: code -> cached connection
    modelSets,      \* MODEL_SETS: code -> model set
    aliases,        \* ALIASES: alias -> physical source code
    loadLock,       \* holder of LOAD_LOCK
    waiters,        \* tasks queued on LOAD_LOCK, first come first served
    catalog,        \* version of the base_ds row of every code, 0 if none
    pc,             \* where every task is
    frame,          \* local variables of the call a task is running
    seen            \* history: newest row acted on, per source

shared == <<connections, modelSets, aliases>>
others == <<waiters, catalog, seen>>
vars == <<connections, modelSets, aliases, loadLock, waiters, catalog, pc, frame, seen>>

-----------------------------------------------------------------------------
(* Types *)

Versions == 0..MaxVersion
NoUrl == 0                  \* connect_url is None (connections of add_db)
Connection == [src: Codes, url: Versions]
NoConn == [src |-> NoSource, url |-> 0]

PCs == {"idle", "wait", "recheck", "load", "base", "row", "connect", "derive",
        "add_con", "add_aliases", "alias", "build_alias", "evict", "evict_aliases",
        "init_map", "drop_aliases", "init_aliases", "init_build", "unset_models"}

NoAliases == [c \in Codes |-> NoSource]
Keys(values) == {c \in Codes : values[c] # NoSource}

Frame == [op: Operations \cup {"none"}, code: Codes, src: Codes, con: Connection,
          models: ModelSets \cup {NoModels}, listed: SUBSET Codes, todo: SUBSET Codes,
          built: SUBSET Codes, values: [Codes -> Codes \cup {NoSource}], wrote: BOOLEAN]
NoFrame == [op |-> "none", code |-> Base, src |-> Base, con |-> [src |-> Base, url |-> 0],
            models |-> NoModels, listed |-> {}, todo |-> {}, built |-> {},
            values |-> NoAliases, wrote |-> FALSE]

TypeOK ==
    /\ connections \in [Codes -> Connection \cup {NoConn}]
    /\ modelSets \in [Codes -> ModelSets \cup {NoModels}]
    /\ aliases \in [Codes -> Codes \cup {NoSource}]
    /\ loadLock \in Tasks \cup {NoTask}
    /\ waiters \in Seq(Tasks)
    /\ catalog \in [Codes -> Versions]
    /\ pc \in [Tasks -> PCs]
    /\ frame \in [Tasks -> Frame]
    /\ seen \in [Codes -> Versions]

-----------------------------------------------------------------------------
(* Lookups *)

Has(c) == connections[c] # NoConn
\* get_opt: the control connection falls back to the built-in model set.
HasModels(c) == c = Base \/ modelSets[c] # NoModels
IsAlias(c) == aliases[c] # NoSource
SourceOf(c) == IF IsAlias(c) THEN aliases[c] ELSE c
AliasesOf(s) == {c \in Codes : aliases[c] = s}
\* An alias without models of its own is a view of its source.
Cached(c) == IF IsAlias(c) /\ ~HasModels(c) THEN Has(aliases[c]) ELSE Has(c)
ValidAliases(values) == \A c \in Keys(values) : values[c] \notin Keys(values)
\* The address the application or the catalog gives for a source.
Address(c) == IF c = Base THEN 1 ELSE catalog[c]
Newest(a, b) == IF a < b THEN b ELSE a

-----------------------------------------------------------------------------
(* Calls start, advance and return *)

\* The application calls op, next to the calls that run already.
MayCall(op) ==
    op \in Operations /\ \A t \in Tasks : pc[t] # "idle" => {op, frame[t].op} \notin Apart

Goto(t, at, f) ==
    /\ pc' = [pc EXCEPT ![t] = at]
    /\ frame' = [frame EXCEPT ![t] = f]
    /\ UNCHANGED loadLock

Begin(t, op, at, f) == pc[t] = "idle" /\ MayCall(op) /\ Goto(t, at, [f EXCEPT !.op = op])

\* Mutant: a guard that outlives its call.
ReturnLocked(t) ==
    /\ pc' = [pc EXCEPT ![t] = "idle"]
    /\ frame' = [frame EXCEPT ![t] = NoFrame]
    /\ UNCHANGED loadLock

\* The end of a call, with a result or an error: the guard of LOAD_LOCK is dropped.
Return(t) ==
    /\ pc' = [pc EXCEPT ![t] = "idle"]
    /\ frame' = [frame EXCEPT ![t] = NoFrame]
    /\ loadLock' = IF loadLock = t THEN NoTask ELSE loadLock

Put(c, con) == connections' = [connections EXCEPT ![c] = con]
Act(s, url) == seen' = [seen EXCEPT ![s] = Newest(@, url)]

-----------------------------------------------------------------------------
(* get_or_load and reload *)

\* A hit returns at once and changes nothing.
GetMiss(t, c) ==
    /\ ~Cached(c)
    /\ Begin(t, "get", "wait", [NoFrame EXCEPT !.code = c, !.src = c])
    /\ waiters' = Append(waiters, t)
    /\ UNCHANGED <<shared, catalog, seen>>

\* Mutant: a reload that does not take LOAD_LOCK.
ReloadUnlocked(t, c) ==
    /\ SourceOf(c) # Base
    /\ Begin(t, "reload", "base", [NoFrame EXCEPT !.code = c, !.src = SourceOf(c)])
    /\ UNCHANGED <<shared, others>>

Reload(t, c) ==
    /\ SourceOf(c) # Base
    /\ Begin(t, "reload", "wait", [NoFrame EXCEPT !.code = c, !.src = SourceOf(c)])
    /\ waiters' = Append(waiters, t)
    /\ UNCHANGED <<shared, catalog, seen>>

\* Mutant: the lock is handed over before it is free.
AcquireLockEarly(t) ==
    /\ pc[t] = "wait"
    /\ waiters # <<>> /\ Head(waiters) = t
    /\ loadLock' = t
    /\ waiters' = Tail(waiters)
    /\ pc' = [pc EXCEPT ![t] = IF frame[t].op = "get" THEN "recheck" ELSE "base"]
    /\ UNCHANGED <<shared, catalog, seen, frame>>

AcquireLock(t) ==
    /\ pc[t] = "wait" /\ loadLock = NoTask
    /\ waiters # <<>> /\ Head(waiters) = t
    /\ loadLock' = t
    /\ waiters' = Tail(waiters)
    /\ pc' = [pc EXCEPT ![t] = IF frame[t].op = "get" THEN "recheck" ELSE "base"]
    /\ UNCHANGED <<shared, catalog, seen, frame>>

\* The second look at the cache, under the lock.
Recheck(t) ==
    LET f == frame[t] IN
    /\ pc[t] = "recheck"
    /\ \/ Cached(f.code) /\ Return(t)
       \/ ~Cached(f.code) /\ Goto(t, "load", [f EXCEPT !.src = SourceOf(f.code)])
    /\ UNCHANGED <<shared, others>>

\* Mutant: the cached source is unwrapped without looking.
FoundSourceUnchecked(t) ==
    LET f == frame[t] IN
    /\ pc[t] = "load"
    /\ Goto(t, "alias", [f EXCEPT !.con = connections[f.src]])
    /\ UNCHANGED <<shared, others>>

\* A cached source needs no load.
FoundSource(t) ==
    LET f == frame[t] IN
    /\ pc[t] = "load" /\ Has(f.src)
    /\ Goto(t, "alias", [f EXCEPT !.con = connections[f.src]])
    /\ UNCHANGED <<shared, others>>

\* Mutant: a load does not look for the source in the cache.
QueryBaseAlways(t) ==
    LET f == frame[t] IN
    /\ pc[t] \in {"base", "load"}
    /\ IF f.src # Base /\ Has(Base) THEN Goto(t, "row", f) ELSE Return(t)
    /\ UNCHANGED <<shared, others>>

\* Loads and reloads query the catalog over the control connection.
QueryBase(t) ==
    LET f == frame[t]
        possible == f.src # Base /\ Has(Base)
    IN
    /\ pc[t] = "base" \/ (pc[t] = "load" /\ ~Has(f.src))
    /\ \/ possible /\ Goto(t, "row", f)
       \/ ~possible /\ Return(t)
    /\ UNCHANGED <<shared, others>>

\* The answer: a load sees enabled rows only, a reload of a disabled row
\* evicts, and a pool is opened only with the models of the source.
ReadRow(t) ==
    LET f == frame[t]
        row == catalog[f.src]
        disabled == row \in Versions \ (Enabled \cup {0})
        opens == row \in Enabled /\ HasModels(f.src)
        evicts == disabled /\ f.op = "reload"
        read == [f EXCEPT !.con = [src |-> f.src, url |-> row], !.models = modelSets[f.src]]
    IN
    /\ pc[t] = "row"
    /\ \/ opens /\ Goto(t, "connect", read)
       \/ evicts /\ Goto(t, "evict", read)
       \/ ~opens /\ ~evicts /\ Return(t)
    /\ UNCHANGED <<shared, others>>

-----------------------------------------------------------------------------
(* publish_source, for loads, reloads and explicit registrations *)

\* Mutants: no alias is listed; the new pool is published before the aliases' are open.
ConnectAlone(t) ==
    /\ pc[t] = "connect"
    /\ Goto(t, "derive", frame[t])
    /\ UNCHANGED <<shared, others>>
ConnectAndPublish(t) ==
    LET found == AliasesOf(frame[t].src) IN
    /\ pc[t] = "connect"
    /\ Put(frame[t].src, frame[t].con)
    /\ Goto(t, "derive", [frame[t] EXCEPT !.listed = found, !.todo = found, !.wrote = TRUE])
    /\ UNCHANGED <<modelSets, aliases, others>>

\* The new pool is open; the aliases to renew are listed.
Connect(t) ==
    LET found == AliasesOf(frame[t].src) IN
    /\ pc[t] = "connect"
    /\ Goto(t, "derive", [frame[t] EXCEPT !.listed = found, !.todo = found])
    /\ UNCHANGED <<shared, others>>

\* One alias of the list: a pool of its own if it has models.
DeriveAlias(t, a) ==
    LET f == frame[t] IN
    /\ pc[t] = "derive" /\ a \in f.todo
    /\ Goto(t, "derive", [f EXCEPT !.todo = @ \ {a},
                                   !.built = IF HasModels(a) THEN @ \cup {a} ELSE @])
    /\ UNCHANGED <<shared, others>>

StoreModels(t) ==
    LET f == frame[t] IN
    /\ pc[t] = "derive" /\ f.todo = {}
    /\ modelSets' = [modelSets EXCEPT ![f.src] = f.models]
    /\ Goto(t, "add_con", [f EXCEPT !.wrote = TRUE])
    /\ UNCHANGED <<connections, aliases, others>>

AddCon(t) ==
    LET f == frame[t] IN
    /\ pc[t] = "add_con"
    /\ Put(f.src, f.con) /\ Act(f.src, f.con.url)
    /\ Goto(t, "add_aliases", [f EXCEPT !.todo = f.listed, !.wrote = TRUE])
    /\ UNCHANGED <<modelSets, aliases, waiters, catalog>>

AddAlias(t, a) ==
    LET f == frame[t] IN
    /\ pc[t] = "add_aliases" /\ a \in f.todo
    /\ Put(a, IF a \in f.built THEN f.con ELSE NoConn)
    /\ Goto(t, "add_aliases", [f EXCEPT !.todo = @ \ {a}])
    /\ UNCHANGED <<modelSets, aliases, others>>

\* get_or_load with the source there: an alias with models and no pool of its own
\* gets one; otherwise the source, a view of it or the cached alias is returned.
ServeAlias(t) ==
    LET f == frame[t]
        opens == f.code # f.src /\ HasModels(f.code) /\ ~Has(f.code) /\ f.con.url # NoUrl
    IN
    /\ pc[t] = "alias"
    /\ \/ opens /\ Goto(t, "build_alias", f)
       \/ ~opens /\ Return(t)
    /\ UNCHANGED <<shared, others>>

\* Mutant: the aliases of a disabled source are left alone.
EvictSourceAlone(t) ==
    /\ pc[t] = "evict"
    /\ Put(frame[t].src, NoConn) /\ Act(frame[t].src, frame[t].con.url)
    /\ Goto(t, "evict_aliases", frame[t])
    /\ UNCHANGED <<modelSets, aliases, waiters, catalog>>

\* A disabled row: the source goes first, then its aliases one by one.
EvictSource(t) ==
    LET f == frame[t] IN
    /\ pc[t] = "evict"
    /\ Put(f.src, NoConn) /\ Act(f.src, f.con.url)
    /\ Goto(t, "evict_aliases", [f EXCEPT !.todo = AliasesOf(f.src)])
    /\ UNCHANGED <<modelSets, aliases, waiters, catalog>>

-----------------------------------------------------------------------------
(* Registration calls; none of them takes LOAD_LOCK *)

\* add_by_url and add_by_ds_model, with the models registered or given.
AddSource(t, c, m) ==
    /\ c \in Sources \cup {Base} /\ ~IsAlias(c)
    /\ Begin(t, "add", "connect", [NoFrame EXCEPT !.code = c, !.src = c, !.models = m,
                                                  !.con = [src |-> c, url |-> Address(c)]])
    /\ UNCHANGED <<shared, others>>

\* A connection of the application's own, which cannot be opened again.
AddDb(c) ==
    /\ MayCall("add_db") /\ c \in Sources
    /\ Put(c, [src |-> c, url |-> NoUrl])
    /\ UNCHANGED <<modelSets, aliases, loadLock, others, pc, frame>>

SetModels(c, m) ==
    /\ MayCall("set_models")
    /\ modelSets' = [modelSets EXCEPT ![c] = m]
    /\ UNCHANGED <<connections, aliases, loadLock, others, pc, frame>>

Remove(c) ==
    /\ MayCall("remove")
    /\ Put(c, NoConn)
    /\ UNCHANGED <<modelSets, aliases, loadLock, others, pc, frame>>

Clear ==
    /\ MayCall("clear")
    /\ connections' = [c \in Codes |-> NoConn]
    /\ UNCHANGED <<modelSets, aliases, loadLock, others, pc, frame>>

\* unregister: the connection first, the model set in a second step.
Unregister(t, c) ==
    /\ Begin(t, "unregister", "unset_models", [NoFrame EXCEPT !.code = c])
    /\ Put(c, NoConn)
    /\ UNCHANGED <<modelSets, aliases, others>>

UnsetModels(t) ==
    /\ pc[t] = "unset_models"
    /\ modelSets' = [modelSets EXCEPT ![frame[t].code] = NoModels]
    /\ Return(t)
    /\ UNCHANGED <<connections, aliases, others>>

-----------------------------------------------------------------------------
(* init_alias *)

\* A new alias may not be the code of a connected source.
InitAlias(t, values) ==
    /\ \A c \in Keys(values) : IsAlias(c) \/ ~Has(c)
    /\ Begin(t, "init_alias", "init_map",
             [NoFrame EXCEPT !.values = values, !.todo = Keys(aliases)])
    /\ UNCHANGED <<shared, others>>

ReplaceAliases(t) ==
    LET f == frame[t] IN
    /\ pc[t] = "init_map"
    /\ \/ ValidAliases(f.values) /\ aliases' = f.values /\ Goto(t, "drop_aliases", f)
       \/ ~ValidAliases(f.values) /\ Return(t) /\ UNCHANGED aliases
    /\ UNCHANGED <<connections, modelSets, others>>

\* One alias of the new map, in any order: skipped while its source is not
\* connected, left to be a view without models, opened otherwise.
InitOneAlias(t, a) ==
    LET f == frame[t]
        source == connections[f.values[a]]
        rest == [f EXCEPT !.todo = @ \ {a}]
    IN
    /\ pc[t] = "init_aliases" /\ a \in f.todo
    /\ \/ /\ source = NoConn
          /\ Goto(t, "init_aliases", rest) /\ UNCHANGED connections
       \/ /\ source # NoConn /\ ~HasModels(a)
          /\ Goto(t, "init_aliases", rest) /\ Put(a, NoConn)
       \/ /\ source # NoConn /\ HasModels(a) /\ source.url # NoUrl
          /\ Goto(t, "init_build", [rest EXCEPT !.code = a, !.con = source])
          /\ UNCHANGED connections
       \/ /\ source # NoConn /\ HasModels(a) /\ source.url = NoUrl
          /\ Return(t) /\ UNCHANGED connections
    /\ UNCHANGED <<modelSets, aliases, others>>

-----------------------------------------------------------------------------
(* Steps several calls share *)

\* add_alias_by_con, of get_or_load and of init_aliases.
BuildAlias(t) ==
    /\ \/ pc[t] = "build_alias" /\ Return(t)
       \/ pc[t] = "init_build" /\ Goto(t, "init_aliases", frame[t])
    /\ Put(frame[t].code, frame[t].con)
    /\ UNCHANGED <<modelSets, aliases, others>>

\* An alias of a disabled source, or of the map init_alias replaced.
DropAlias(t, a) ==
    LET f == frame[t] IN
    /\ pc[t] \in {"evict_aliases", "drop_aliases"} /\ a \in f.todo
    /\ Put(a, NoConn)
    /\ Goto(t, pc[t], [f EXCEPT !.todo = @ \ {a}])
    /\ UNCHANGED <<modelSets, aliases, others>>

\* A loop over aliases is through.
LoopDone(t) ==
    LET f == frame[t] IN
    /\ f.todo = {}
    /\ \/ /\ pc[t] = "add_aliases" /\ f.op = "get"
          /\ Goto(t, "alias", f)
       \/ /\ pc[t] = "drop_aliases"
          /\ Goto(t, "init_aliases", [f EXCEPT !.todo = Keys(f.values)])
       \/ /\ \/ pc[t] = "add_aliases" /\ f.op # "get"
             \/ pc[t] \in {"evict_aliases", "init_aliases"}
          /\ Return(t)
    /\ UNCHANGED <<shared, others>>

\* An await that ends in an error, or a caller that drops the future there.
Awaits == {"wait", "row", "connect", "derive", "build_alias", "init_build"}
Fail(t) ==
    /\ pc[t] \in Awaits
    /\ pc[t] = "derive" => frame[t].todo # {}
    /\ Return(t)
    /\ \/ pc[t] # "wait" /\ UNCHANGED waiters
       \/ pc[t] = "wait" /\ \E i \in 1..Len(waiters) :
             /\ waiters[i] = t
             /\ waiters' = SubSeq(waiters, 1, i - 1) \o SubSeq(waiters, i + 1, Len(waiters))
    /\ UNCHANGED <<shared, catalog, seen>>

\* An operator rewrites the row of a source.
UpdateRow(c) ==
    /\ c \in Sources /\ catalog[c] < MaxVersion
    /\ catalog' = [catalog EXCEPT ![c] = @ + 1]
    /\ UNCHANGED <<shared, loadLock, waiters, pc, frame, seen>>

-----------------------------------------------------------------------------
Init ==
    /\ connections = [c \in Codes |-> NoConn]
    /\ modelSets = [c \in Codes |-> NoModels]
    /\ aliases = NoAliases
    /\ loadLock = NoTask
    /\ waiters = <<>>
    /\ catalog = [c \in Codes |-> IF c \in Sources THEN 1 ELSE 0]
    /\ pc = [t \in Tasks |-> "idle"]
    /\ frame = [t \in Tasks |-> NoFrame]
    /\ seen = [c \in Codes |-> 0]

Call(t) ==
    \/ \E c \in Codes : GetMiss(t, c) \/ Reload(t, c) \/ Unregister(t, c)
    \/ \E c \in Codes, m \in ModelSets : AddSource(t, c, m)
    \/ \E values \in AliasMaps : InitAlias(t, values)

Immediate ==
    \/ \E c \in Codes : AddDb(c) \/ Remove(c)
    \/ \E c \in Codes, m \in ModelSets : SetModels(c, m)
    \/ Clear

Step(t) ==
    \/ AcquireLock(t) \/ Recheck(t) \/ FoundSource(t) \/ QueryBase(t) \/ ReadRow(t)
    \/ Connect(t) \/ StoreModels(t) \/ AddCon(t)
    \/ ServeAlias(t) \/ BuildAlias(t) \/ EvictSource(t)
    \/ UnsetModels(t) \/ ReplaceAliases(t) \/ LoopDone(t)
    \/ \E a \in Codes : DeriveAlias(t, a) \/ AddAlias(t, a) \/ DropAlias(t, a) \/ InitOneAlias(t, a)

Next ==
    \/ \E t \in Tasks : Call(t) \/ Step(t) \/ Fail(t)
    \/ Immediate
    \/ \E c \in Codes : UpdateRow(c)

Spec == Init /\ [][Next]_vars

\* The runtime polls every task that can run, queries and connection attempts
\* end, and the mutex is handed over in order of arrival.
FairSpec == Spec /\ \A t \in Tasks : WF_vars(Step(t))

-----------------------------------------------------------------------------
(* Properties *)

\* Two tasks never hold LOAD_LOCK, and none works under it without holding it:
\* the critical section of get_or_load and reload (registry.rs, LOAD_LOCK).
Locked == {"recheck", "load", "base", "row", "alias", "build_alias", "evict", "evict_aliases"}
Publishing == {"connect", "derive", "add_con", "add_aliases"}
InCriticalSection(t) ==
    pc[t] \in Locked \/ (pc[t] \in Publishing /\ frame[t].op \in {"get", "reload"})
LoadLockHeld == \A t \in Tasks : InCriticalSection(t) <=> loadLock = t

\* However many callers miss the cache at once, a lazy load never opens a pool
\* over one that is cached already: the reason for the second look under the
\* lock (get_or_load).
LoadOpensOnePool ==
    \A t \in Tasks : pc[t] \in Publishing \ {"add_aliases"} /\ frame[t].op = "get"
        => ~Has(frame[t].src)

\* What a source is cached with is the newest catalog row any load, reload or
\* eviction acted on: a slow load never brings an older address back, nor a
\* source a reload found disabled (reload, publish_source, evict_source).
CachedIsNewestSeen ==
    \A s \in Sources : Has(s) => connections[s] = [src |-> s, url |-> seen[s]]

\* A task still has to renew or drop the cached pool of alias a.
Renewing(a) == \E t \in Tasks :
    pc[t] \in {"add_aliases", "evict_aliases", "drop_aliases", "init_aliases"} /\ a \in frame[t].todo

\* A cached alias reaches the source it is mapped to, at the address that
\* source is cached with, unless a task is on its way to renew it: nobody keeps
\* using the old pool through an alias after a reload (publish_source).
AliasFollowsSource ==
    \A a \in Codes : IsAlias(a) /\ Has(a) /\ Has(aliases[a]) =>
        connections[a] = connections[aliases[a]] \/ Renewing(a)

\* A load, reload or registration that ends before its publication is over has
\* written nothing: every pool is open before the first write (publish_source,
\* "failed reload keeps the old connection").
FailureWritesNothing ==
    [][\A t \in Tasks : pc[t] \in {"wait", "row", "connect", "derive"} /\ pc'[t] = "idle" => ~frame[t].wrote]_vars

\* When the reload of a disabled row returns, neither the source nor any of
\* its aliases is cached (evict_source).
DisabledIsEvicted ==
    [][\A t \in Tasks : pc[t] = "evict_aliases" /\ pc'[t] = "idle" =>
        ~Has(frame[t].src) /\ \A a \in AliasesOf(frame[t].src) : ~Has(a)]_vars

\* Every call returns: no caller waits for LOAD_LOCK for ever.
CallsReturn == \A t \in Tasks : pc[t] # "idle" ~> pc[t] = "idle"

=============================================================================
