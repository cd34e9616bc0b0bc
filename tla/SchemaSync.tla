----------------------------- MODULE SchemaSync -----------------------------
(***************************************************************************)
(* sync and sync_all (manager.rs): read the live schema from the catalog,  *)
(* normalise it against the models' schema (normalize_observed), let Toasty *)
(* diff the two, execute the plan, then read and compare once more.        *)
(*                                                                         *)
(* Nothing is held while the catalog is read, in several queries, nor      *)
(* until the plan runs: another process, or somebody else, may change the  *)
(* schema in between.  The sources share one database, each with its scope. *)
(***************************************************************************)
EXTENDS ColumnTypes, Naturals, FiniteSets, SequencesExt

CONSTANTS
    Processes,
    Sources,        \* the registered sources as source_codes orders them: base first
    Scenarios,      \* what a run starts from
    MaxForeign,     \* bound: changes of the schema by somebody else
    NativeTypes(_), \* the native types that a backend's columns may have
    StorageTypes(_), \* the storage types that models may ask a backend for
    Declared(_, _), \* external: the native type Toasty's DDL gives a column
    Casts(_, _, _), \* external: whether a backend makes a column of one native type one of another
    Stores(_, _),   \* for the properties: what a native type stores (<<>>: no adapter reads it)
    Settling(_)     \* for the properties: the storage types whose own DDL reads back as them

VARIABLES
    world,      \* constant: [backend, targets, scopes, markers, refused, others, callers, calls]
    live,       \* the schema: table -> [cols, idx, odd]
    foreign,    \* changes by somebody else so far
    pc,
    job,        \* process -> [op, todo, verify]
    seen,       \* process -> what its inspection has read
    plan,       \* process -> statements still to execute
    since,      \* process -> who wrote since its inspections began
    result,     \* process -> how the last source ended, and which it was: unchanged,
                \* planned (dry), synced, incomplete, refused, failed or error
    owner       \* source -> the process that has its MySQL lock

vars == <<world, live, foreign, pc, job, seen, plan, since, result, owner>>

(* An index is [name, cols, unique, pk, partial, constraint], the last one   *)
(* telling that it belongs to a constraint, with which alone it goes; an     *)
(* expression among its columns is named by Expression.  A live table is     *)
(* [cols, idx, odd] with native types, "odd" holding what no Toasty schema   *)
(* has; a target or normalised table is [cols, idx] with storage types.      *)
Expression == "(expression)"
Nobody == "nobody"
Odd == {"strict", "generated", "foreign_key"}
Operations == {"sync", "dry", "sync_all"}
NoResult == [is |-> "none", source |-> "none"]
NoJob == [op |-> "none", todo |-> <<>>, verify |-> FALSE]
Nothing == [cols |-> <<>>, idx |-> <<>>, odd |-> FALSE, todo |-> {}]

Put(f, x, value) == [u \in DOMAIN f \cup {x} |-> IF u = x THEN value ELSE f[u]]

ASSUME SourcesAssumption == Sources \in Seq(Range(Sources)) /\ Sources # <<>>

Alike(i, j) == i.cols = j.cols /\ i.unique = j.unique /\ i.pk = j.pk

IsTable(table) ==
    /\ IsFiniteSet(DOMAIN table.cols) /\ IsFiniteSet(table.idx)
    /\ \A i \in table.idx :
          /\ DOMAIN i = {"name", "cols", "unique", "pk", "partial", "constraint"}
          /\ {i.unique, i.pk, i.partial, i.constraint} \subseteq BOOLEAN
          /\ i.cols # <<>> /\ Range(i.cols) \subseteq DOMAIN table.cols \cup {Expression}
          /\ i.pk => ~i.partial /\ Expression \notin Range(i.cols)
          /\ \A j \in table.idx : i.name = j.name => i = j

\* Only SQLite has STRICT tables.
IsSchema(backend, schema) ==
    /\ IsFiniteSet(DOMAIN schema)
    /\ \A t \in DOMAIN schema :
          /\ DOMAIN schema[t] = {"cols", "idx", "odd"} /\ IsTable(schema[t])
          /\ \A c \in DOMAIN schema[t].cols : schema[t].cols[c] \in NativeTypes(backend)
          /\ schema[t].odd \subseteq (IF backend = "sqlite" THEN Odd ELSE Odd \ {"strict"})

\* Toasty has no partial indices, none on expressions and no constraints; a table has one
\* primary key.
IsModels(backend, target) ==
    /\ IsFiniteSet(DOMAIN target)
    /\ \A t \in DOMAIN target :
          /\ IsTable(target[t])
          /\ \A c \in DOMAIN target[t].cols : target[t].cols[c] \in StorageTypes(backend)
          /\ \A i \in target[t].idx :
                ~i.partial /\ ~i.constraint /\ Range(i.cols) \subseteq DOMAIN target[t].cols \ {Expression}
          /\ \E i \in target[t].idx : i.pk /\ \A j \in target[t].idx : j.pk => j = i

ASSUME ScenariosAssumption ==
    \A s \in Scenarios :
        /\ s.world.backend \in {"sqlite", "postgresql", "mysql"}
        /\ s.world.calls \subseteq Operations
        /\ \A schema \in {s.live} \cup s.world.others : IsSchema(s.world.backend, schema)
        /\ \A source \in Range(Sources) :
              /\ IsModels(s.world.backend, s.world.targets[source])
              /\ s.world.scopes[source].kind \in {"managed", "tables", "prefixes", "exclusive"}

\* What an adapter reads but cannot tell from something else: on PostgreSQL the precision
\* of a number or a time, on MySQL the case of an enum's labels and a MEDIUMINT.
Unsized == {"numeric", "time without time zone", "timestamp without time zone", "timestamp with time zone"}
Blurred(backend, native) ==
    CASE backend = "sqlite" -> FALSE
      [] backend = "postgresql" -> native.base \in Unsized
      [] backend = "mysql" ->
           native.base = "mediumint" \/ (native.base = "enum" /\ Labels(native) # native.args)

\* A column is taken for one of the target's type only if it stores the same; a column
\* that a settling type was declared as is.
ASSUME TypesAssumption ==
    \A s \in Scenarios : LET b == s.world.backend IN
        /\ \A n \in NativeTypes(b) : Stores(b, n) # <<>> => Inferred(b, n) # Unreadable
        /\ \A n \in NativeTypes(b), t \in StorageTypes(b) :
              ReadType(b, n, {t}) = t /\ ~Blurred(b, n) => Stores(b, n) = Stores(b, Declared(b, t))
        /\ \A t \in StorageTypes(b) : t # Unreadable /\ Declared(b, t) \in NativeTypes(b)
        /\ \A t \in StorageTypes(b) \cap Settling(b) :
              ReadType(b, Declared(b, t), {t}) = t /\ Stores(b, Declared(b, t)) # <<>>

\* A column can be given the type that it has.
ASSUME CastsAssumption ==
    \A s \in Scenarios : \A n \in NativeTypes(s.world.backend) : Casts(s.world.backend, n, n)

Backend == world.backend
Source(p) == Head(job[p].todo)
Target(p) == world.targets[Source(p)]

-----------------------------------------------------------------------------
(* Scope.                                                                    *)

\* Mutant: every table of the namespace is managed.
IsManagedAlways(source, table) == TRUE

\* is_managed: "prefixes" comes with the names that have one of them.
IsManaged(source, table) ==
    LET scope == world.scopes[source] IN
    CASE scope.kind = "managed" -> table \in DOMAIN world.targets[source]
      [] scope.kind \in {"tables", "prefixes"} -> table \in scope.names
      [] scope.kind = "exclusive" -> TRUE

\* is_internal_table; PostgreSQL knows only Toasty's own ledger.
Internal ==
    CASE Backend = "sqlite" -> {"sqlite_sequence", "__toasty_migrations", "__toasty_mgr_migrations"}
      [] Backend = "postgresql" -> {"__toasty_migrations"}
      [] Backend = "mysql" ->
           {"__toasty_migrations", "__toasty_mgr_migrations", "__toasty_mgr_migration_runs"}

Visible(source) == {t \in DOMAIN live : t \notin Internal /\ IsManaged(source, t)}

HasOdd(t, what) == t \in DOMAIN live /\ what \in live[t].odd

-----------------------------------------------------------------------------
(* normalize_observed.                                                       *)

\* Mutant: uniqueness is not part of an index's shape.
AnyUniqueness(candidate, index) == candidate.pk = index.pk /\ candidate.cols = index.cols

\* index_shape_matches
ShapeMatches(candidate, index) ==
    /\ candidate.pk = index.pk
    /\ candidate.unique = index.unique
    /\ candidate.cols = index.cols

\* Mutant: no index is a shadow.
NoShadow(index, candidates, observed) == FALSE

\* An index of no target's shape that has a target's name, while that target is
\* there under another name.
Shadow(index, candidates, observed) ==
    \E c \in candidates :
        c.name = index.name /\ \E other \in observed : ShapeMatches(c, other)

\* Partial indices are skipped; an index of the shape of a target's, the first such, takes
\* its name.  The Vec's different members are these ...
NormalIndices(candidates, observed) ==
    LET full == {i \in observed : ~i.partial}
        matches(i) == {c \in candidates : ShapeMatches(c, i)}
        first(i) == CHOOSE c \in matches(i) : TRUE
    IN  {first(i) : i \in {j \in full : matches(j) # {}}}
        \cup {i \in full : matches(i) = {} /\ ~Shadow(i, candidates, observed)}

\* ... and these of them are in it more than once: two observed indices have become the same.
Repeated(candidates, observed) ==
    {c \in candidates \cap NormalIndices(candidates, observed) :
        \E i, j \in observed :
            /\ i # j /\ ~i.partial /\ ~j.partial
            /\ \A k \in {i, j} : ShapeMatches(c, k)}

NormalTable(cols, idx, targets) ==
    [cols |-> [c \in DOMAIN cols |->
                  ReadType(Backend, cols[c],
                           {t.cols[c] : t \in {u \in targets : c \in DOMAIN u.cols}})],
     idx |-> NormalIndices(UNION {t.idx : t \in targets}, idx)]

TargetOf(target, t) == IF t \in DOMAIN target THEN {target[t]} ELSE {}

Normalised(s, target) ==
    [t \in DOMAIN s.cols |-> NormalTable(s.cols[t], s.idx[t], TargetOf(target, t))]

\* By table and name, the indices that a normalised schema has more than once.
AllRepeated(s, target) ==
    UNION {{<<t, c.name>> : c \in Repeated(UNION {u.idx : u \in TargetOf(target, t)}, s.idx[t])} :
              t \in DOMAIN s.cols}

\* Mutant: diagnostics are ignored.
UnsupportedTypeOnly(s, schema) ==
    \E t \in DOMAIN schema : \E c \in DOMAIN schema[t].cols : schema[t].cols[c] = Unreadable

\* A diagnostic, a type the adapter does not know, an index of a column that was
\* not read, or a table without a primary key.
Unsupported(s, schema) ==
    \/ s.odd
    \/ \E t \in DOMAIN schema :
          \/ \E c \in DOMAIN schema[t].cols : schema[t].cols[c] = Unreadable
          \/ \E i \in schema[t].idx : ~(Range(i.cols) \subseteq DOMAIN schema[t].cols)
          \/ \A i \in schema[t].idx : ~i.pk

-----------------------------------------------------------------------------
(* External: Toasty's diff, by name, as a sequence of statements, and what   *)
(* the database does with each.  Of the indices with one name in the schema  *)
(* that it leads to, the diff takes one for that of the other schema and     *)
(* creates the rest, so that the two directions of a comparison differ.      *)
Statement(do, table, name) == [do |-> do, table |-> table, name |-> name]

\* Indices of a that b lacks, or has otherwise under the same name.
Changed(a, b) == {i \in a : {j \in b : j.name = i.name} # {i}}

\* repeated: by table and name, the indices that "to" has more than once.
Diff(from, to, repeated) ==
    LET both == DOMAIN from \cap DOMAIN to
        columns(a, b) == UNION {{<<t, c>> : c \in DOMAIN a[t].cols \ DOMAIN b[t].cols} : t \in both}
        altered == UNION {{<<t, c>> : c \in {d \in DOMAIN from[t].cols \cap DOMAIN to[t].cols :
                                                from[t].cols[d] # to[t].cols[d]}} : t \in both}
        made(t) == IF t \in both THEN Changed(to[t].idx, from[t].idx) ELSE {i \in to[t].idx : ~i.pk}
        list(do, pairs) == SetToSeq({Statement(do, x[1], x[2]) : x \in pairs})
    IN  list("drop_table", (DOMAIN from \ DOMAIN to) \X {""})
        \o list("drop_index", UNION {{<<t, i.name>> : i \in Changed(from[t].idx, to[t].idx)} : t \in both})
        \o list("create_table", (DOMAIN to \ DOMAIN from) \X {""})
        \o list("drop_column", columns(from, to))
        \o list("add_column", columns(to, from))
        \o list("alter_column", altered)
        \o list("create_index", repeated \cup UNION {{<<t, i.name>> : i \in made(t)} : t \in DOMAIN to})

PrimaryName(t) == IF Backend = "postgresql" THEN t \o "_pkey" ELSE "PRIMARY"

\* The names that a new index of a table must not have: SQLite and PostgreSQL have one set of
\* names for all tables and indices.
IndexNames(schema) == UNION {{i.name : i \in schema[u].idx} : u \in DOMAIN schema}
Taken(schema, t) ==
    IF Backend = "mysql" THEN {i.name : i \in schema[t].idx} ELSE DOMAIN schema \cup IndexNames(schema)

\* The pair of the schema after a statement and whether it succeeded.
Execute(schema, target, s) ==
    LET t == s.table
        exists == t \in DOMAIN schema
        table == schema[t]
        put(new) == <<Put(schema, t, new), TRUE>>
        column(c) == Declared(Backend, target[t].cols[c])
        named == {i \in target[t].idx : i.name = s.name}
        fails == <<schema, FALSE>>
    IN  CASE s.do = "create_table" /\ ~exists /\ (Backend # "mysql" => t \notin IndexNames(schema)) ->
               put([cols |-> [c \in DOMAIN target[t].cols |-> column(c)],
                    idx |-> {[i EXCEPT !.name = PrimaryName(t)] : i \in {j \in target[t].idx : j.pk}},
                    odd |-> {}])
          [] s.do = "drop_table" /\ exists ->
               <<[u \in DOMAIN schema \ {t} |-> schema[u]], TRUE>>
          [] s.do = "alter_column" /\ exists /\ s.name \in DOMAIN table.cols
             /\ Casts(Backend, table.cols[s.name], column(s.name)) ->
               put([table EXCEPT !.cols[s.name] = column(s.name)])
          [] s.do = "add_column" /\ exists /\ s.name \notin DOMAIN table.cols ->
               put([table EXCEPT !.cols = Put(@, s.name, column(s.name))])
          [] s.do = "drop_column" /\ exists /\ s.name \in DOMAIN table.cols
             /\ \A i \in table.idx : s.name \notin Range(i.cols) ->
               put([table EXCEPT !.cols = [c \in DOMAIN @ \ {s.name} |-> @[c]]])
          [] s.do = "drop_index" /\ exists
             /\ (\E i \in table.idx : i.name = s.name /\ ~i.pk /\ ~i.constraint) ->
               put([table EXCEPT !.idx = {i \in @ : i.name # s.name}])
          [] s.do = "create_index" /\ exists /\ s.name \notin Taken(schema, t)
             /\ (\A i \in named : Range(i.cols) \subseteq DOMAIN table.cols) ->
               put([table EXCEPT !.idx = @ \cup {[i EXCEPT !.pk = FALSE] : i \in named}])
          [] OTHER -> fails

\* All of them in one transaction, up to the one that fails.
ExecuteAll(schema, target, statements) ==
    LET done[i \in 0..Len(statements)] ==
            IF i = 0 THEN <<schema, TRUE>>
            ELSE IF done[i - 1][2] THEN Execute(done[i - 1][1], target, statements[i]) ELSE done[i - 1]
    IN  done[Len(statements)]

-----------------------------------------------------------------------------
(* The calls.                                                                *)
Goto(p, label) == pc' = [pc EXCEPT ![p] = label]
KeepSchema == UNCHANGED <<live, since, foreign, world>>

\* The schema changes: every other inspection is out of date.
Write(p, schema) ==
    /\ live' = schema
    /\ since' = IF schema = live THEN since
                ELSE [q \in Processes |-> IF q = p THEN since[q] ELSE "others"]

\* The end of sync for one source; sync_all goes on with the next one until one fails.
EndSource(p, outcome) ==
    LET rest == IF outcome \in {"unchanged", "planned", "synced"} THEN Tail(job[p].todo) ELSE <<>>
    IN  /\ result' = [result EXCEPT ![p] = [is |-> outcome, source |-> Source(p)]]
        /\ seen' = [seen EXCEPT ![p] = Nothing]
        /\ plan' = [plan EXCEPT ![p] = <<>>]
        /\ job' = [job EXCEPT ![p] = IF rest = <<>> THEN NoJob
                                     ELSE [@ EXCEPT !.todo = rest, !.verify = FALSE]]
        /\ Goto(p, IF rest = <<>> THEN "idle" ELSE "inspect")

\* sync of one source, dry or not, or sync_all.
Call(p) ==
    /\ pc[p] = "idle" /\ p \in world.callers
    /\ \E op \in world.calls, s \in Range(Sources) :
          job' = [job EXCEPT ![p] = [op |-> op, verify |-> FALSE,
                                     todo |-> IF op = "sync_all" THEN Sources ELSE <<s>>]]
    /\ result' = [result EXCEPT ![p] = NoResult]
    /\ Goto(p, "inspect")
    /\ UNCHANGED <<seen, plan, owner>> /\ KeepSchema

\* An inspection begins: from here on what others write counts.  The second one, after
\* the plan, tells whether they wrote before it.
Fresh(p) ==
    IF job[p].verify
    THEN since' = [since EXCEPT ![p] = IF @ = "others" THEN "before" ELSE @] /\ UNCHANGED result
    ELSE since' = [since EXCEPT ![p] = "nobody"] /\ result' = [result EXCEPT ![p] = NoResult]

\* An expression is a diagnostic on SQLite and MySQL.  PostgreSQL's join drops it,
\* and the index reads like one of its other columns.
AsRead(indices) ==
    LET plain(i) == IF Expression \notin Range(i.cols) THEN i
                    ELSE [i EXCEPT !.cols = SelectSeq(@, LAMBDA c : c # Expression)]
    IN  {i \in {plain(j) : j \in indices} : i.cols # <<>>}
IndicesOf(t) == IF t \in DOMAIN live THEN AsRead(live[t].idx) ELSE {}
HasExpression(t) == t \in DOMAIN live /\ \E i \in live[t].idx : Expression \in Range(i.cols)

\* SQLite inspect: sqlite_schema first ...
ReadNames(p) ==
    /\ pc[p] = "inspect" /\ Backend = "sqlite"
    /\ LET tables == Visible(Source(p)) IN
       seen' = [seen EXCEPT ![p] = [Nothing EXCEPT !.todo = tables,
                                       !.odd = \E t \in tables : HasOdd(t, "strict")]]
    /\ Fresh(p) /\ Goto(p, "table")
    /\ UNCHANGED <<live, foreign, world, job, plan, owner>>

\* ... then the columns of each table, with its primary key (none, if it is gone
\* meanwhile) ...
ReadTable(p) ==
    /\ pc[p] = "table"
    /\ IF seen[p].todo = {} THEN Goto(p, "decide") /\ UNCHANGED seen
       ELSE LET t == CHOOSE u \in seen[p].todo : TRUE
                cols == IF t \in DOMAIN live THEN live[t].cols ELSE <<>>
            IN  /\ seen' = [seen EXCEPT ![p].cols = Put(@, t, cols),
                                        ![p].idx = Put(@, t, {i \in IndicesOf(t) : i.pk}),
                                        ![p].odd = @ \/ HasOdd(t, "generated")]
                /\ Goto(p, "table_indices")
    /\ KeepSchema /\ UNCHANGED <<job, plan, result, owner>>

\* ... and its indices and foreign keys.
ReadTableIndices(p) ==
    LET t == CHOOSE u \in seen[p].todo : TRUE IN
    /\ pc[p] = "table_indices"
    /\ seen' = [seen EXCEPT ![p].idx[t] = @ \cup {i \in IndicesOf(t) : ~i.pk},
                            ![p].odd = @ \/ HasExpression(t) \/ HasOdd(t, "foreign_key"),
                            ![p].todo = @ \ {t}]
    /\ Goto(p, "table")
    /\ KeepSchema /\ UNCHANGED <<job, plan, result, owner>>

\* PostgreSQL and MySQL inspect: the columns of all tables ...
ReadColumns(p) ==
    /\ pc[p] = "inspect" /\ Backend # "sqlite"
    /\ LET tables == Visible(Source(p)) IN
       seen' = [seen EXCEPT ![p] = [Nothing EXCEPT
                   !.cols = [t \in tables |-> live[t].cols],
                   !.odd = (Backend = "mysql" /\ \E t \in tables : HasOdd(t, "generated"))]]
    /\ Fresh(p) /\ Goto(p, "indices")
    /\ UNCHANGED <<live, foreign, world, job, plan, owner>>

\* ... then their indices ...
ReadIndices(p) ==
    LET tables == DOMAIN seen[p].cols IN
    /\ pc[p] = "indices"
    /\ seen' = [seen EXCEPT ![p].idx = [t \in tables |-> IndicesOf(t)],
                            ![p].odd = @ \/ (Backend = "mysql" /\ \E t \in tables : HasExpression(t))]
    /\ Goto(p, IF Backend = "mysql" THEN "constraints" ELSE "decide")
    /\ KeepSchema /\ UNCHANGED <<job, plan, result, owner>>

\* ... and, on MySQL only, their constraints.
ReadConstraints(p) ==
    /\ pc[p] = "constraints"
    /\ seen' = [seen EXCEPT ![p].odd =
                    @ \/ \E t \in DOMAIN seen[p].cols : HasOdd(t, "foreign_key")]
    /\ Goto(p, "decide")
    /\ KeepSchema /\ UNCHANGED <<job, plan, result, owner>>

\* validate_sql searches the text of the plan for REFERENCES, which the name of a
\* table or column may contain.
Refused(statements) == \E s \in Range(statements) : s.table \in world.refused

\* Normalise and compare: the first time to plan, from the schema to the models', the second
\* time to verify, from the models' to the schema.
Decide(p) ==
    LET schema == Normalised(seen[p], Target(p))
        statements == Diff(schema, Target(p), {})
        differences == Diff(Target(p), schema, AllRepeated(seen[p], Target(p)))
    IN
    /\ pc[p] = "decide"
    /\ CASE Unsupported(seen[p], schema) -> EndSource(p, "refused")
         [] ~Unsupported(seen[p], schema) /\ job[p].verify ->
              EndSource(p, IF differences = <<>> THEN "synced" ELSE "incomplete")
         [] OTHER ->
              IF statements = <<>> THEN EndSource(p, "unchanged")
              ELSE IF Refused(statements) THEN EndSource(p, "refused")
              ELSE IF job[p].op = "dry" THEN EndSource(p, "planned")
              ELSE /\ plan' = [plan EXCEPT ![p] = statements]
                   /\ seen' = [seen EXCEPT ![p] = Nothing]
                   /\ Goto(p, IF Backend = "mysql" THEN "lock" ELSE "write")
                   /\ UNCHANGED <<job, result>>
    /\ KeepSchema /\ UNCHANGED owner

Verify(p) ==
    /\ plan' = [plan EXCEPT ![p] = <<>>]
    /\ job' = [job EXCEPT ![p].verify = TRUE]
    /\ Goto(p, "inspect")
    /\ UNCHANGED <<seen, result>>

\* sync_schema of SQLite and PostgreSQL: one transaction, all of it or nothing.
WritePlan(p) ==
    LET done == ExecuteAll(live, Target(p), plan[p]) IN
    /\ pc[p] = "write"
    /\ IF done[2] THEN Write(p, done[1]) /\ Verify(p)
       ELSE EndSource(p, "failed") /\ UNCHANGED <<live, since>>
    /\ UNCHANGED <<foreign, world, owner>>

\* sync_schema of MySQL: the source's lock, which is not waited for forever ...
Lock(p) ==
    /\ pc[p] = "lock"
    /\ \/ /\ owner[Source(p)] = Nobody
          /\ owner' = [owner EXCEPT ![Source(p)] = p]
          /\ Goto(p, "markers") /\ UNCHANGED <<job, seen, plan, result>>
       \/ owner[Source(p)] # Nobody /\ EndSource(p, "error") /\ UNCHANGED owner
    /\ KeepSchema

Unlock(p) == owner' = [owner EXCEPT ![Source(p)] = Nobody]

\* ... no recovery marker, in a table that must be there ...
CheckMarkers(p) ==
    /\ pc[p] = "markers"
    /\ IF world.markers = "none"
       THEN Goto(p, "statement") /\ UNCHANGED <<job, seen, plan, result, owner>>
       ELSE EndSource(p, "refused") /\ Unlock(p)
    /\ KeepSchema

\* ... and the statements, each for good.
ExecuteNext(p) ==
    /\ pc[p] = "statement"
    /\ IF plan[p] = <<>> THEN Verify(p) /\ Unlock(p) /\ UNCHANGED <<live, since>>
       ELSE LET done == Execute(live, Target(p), Head(plan[p])) IN
            IF done[2]
            THEN /\ Write(p, done[1])
                 /\ plan' = [plan EXCEPT ![p] = Tail(@)]
                 /\ UNCHANGED <<pc, job, seen, result, owner>>
            ELSE EndSource(p, "failed") /\ Unlock(p) /\ UNCHANGED <<live, since>>
    /\ UNCHANGED <<foreign, world>>

\* A query fails, or the call is dropped; the lock of a dropped call is released
\* before anything else is done (MySqlBackend models the time until then).
Fail(p) ==
    /\ pc[p] # "idle"
    /\ EndSource(p, "error")
    /\ IF pc[p] \in {"markers", "statement"} THEN Unlock(p) ELSE UNCHANGED owner
    /\ KeepSchema

\* Somebody else changes the schema: an operator, or another program.
Foreign ==
    /\ foreign < MaxForeign
    /\ foreign' = foreign + 1
    /\ \E schema \in world.others : live' = schema
    /\ since' = [q \in Processes |-> "others"]
    /\ UNCHANGED <<world, pc, job, seen, plan, result, owner>>

Init ==
    /\ \E s \in Scenarios : world = s.world /\ live = s.live
    /\ foreign = 0
    /\ pc = [p \in Processes |-> "idle"]
    /\ job = [p \in Processes |-> NoJob]
    /\ seen = [p \in Processes |-> Nothing]
    /\ plan = [p \in Processes |-> <<>>]
    /\ since = [p \in Processes |-> "nobody"]
    /\ result = [p \in Processes |-> NoResult]
    /\ owner = [s \in Range(Sources) |-> Nobody]

Step(p) ==
    \/ Call(p)
    \/ ReadNames(p) \/ ReadTable(p) \/ ReadTableIndices(p)
    \/ ReadColumns(p) \/ ReadIndices(p) \/ ReadConstraints(p)
    \/ Decide(p) \/ WritePlan(p)
    \/ Lock(p) \/ CheckMarkers(p) \/ ExecuteNext(p)
    \/ Fail(p)

Next == (\E p \in Processes : Step(p)) \/ Foreign

Spec == Init /\ [][Next]_vars

-----------------------------------------------------------------------------
(* Properties.                                                               *)

\* The live tables of a source are those of its target: columns that store the same,
\* an index of each shape that is asked for, and no other full index, except one
\* that has the name of a target's.
TableIs(table, target) ==
    LET full == {i \in table.idx : ~i.partial} IN
    /\ DOMAIN table.cols = DOMAIN target.cols
    /\ \A c \in DOMAIN table.cols :
          Stores(Backend, table.cols[c]) = Stores(Backend, Declared(Backend, target.cols[c]))
    /\ \A i \in target.idx : \E j \in full : Alike(i, j)
    /\ \A j \in full : \E i \in target.idx : Alike(i, j) \/ i.name = j.name

IsTarget(s) ==
    /\ DOMAIN world.targets[s] = Visible(s)
    /\ \A t \in Visible(s) : TableIs(live[t], world.targets[s][t])

\* What looks like something else in the catalog: a blurred type, and on PostgreSQL an index
\* on an expression.
Indistinct ==
    \E t \in DOMAIN live :
        \/ Backend = "postgresql" /\ HasExpression(t)
        \/ \E c \in DOMAIN live[t].cols : Blurred(Backend, live[t].cols[c])

\* A sync that ends well leaves, or has found, the schema of the models, unless
\* somebody else changed it since the catalog was read: judged by what the live
\* columns store and index, not by the code's own comparison.
SyncedIsTarget ==
    \A p \in Processes :
        result[p].is \in {"unchanged", "synced"} /\ since[p] # "others" /\ ~Indistinct
            => IsTarget(result[p].source)

\* What sync can bring to the target: a table with the primary key that is asked for, no index
\* twice, nothing to drop that belongs to a constraint, types that can be changed, and without an
\* index that is in the way of another, by its name or by a column that is dropped.
Fits(table, target) ==
    /\ \A i \in table.idx : i.pk => \E j \in target.idx : Alike(i, j)
    /\ \A i, k \in table.idx, j \in target.idx :
          ~i.partial /\ ~k.partial /\ Alike(i, j) /\ Alike(k, j) => i = k
    /\ \A i \in table.idx : i.constraint => \E j \in target.idx : Alike(i, j)
    /\ \A c \in DOMAIN table.cols \cap DOMAIN target.cols :
          Casts(Backend, table.cols[c], Declared(Backend, target.cols[c]))
    /\ \A i \in table.idx, j \in target.idx : i.name = j.name =>
          /\ ~i.partial
          /\ \/ Alike(i, j)
             \/ /\ \A k \in target.idx : ~Alike(i, k)
                /\ \A twin \in table.idx : twin.partial => ~Alike(twin, j)
    /\ \A i \in table.idx :
          i.partial \/ (\E j \in target.idx : i.name = j.name) => Range(i.cols) \subseteq DOMAIN target.cols

\* The names of a target's tables and indices are not those of others in a schema.
OwnNames(schema, target) ==
    \A t \in DOMAIN target : LET own == {j.name : j \in {k \in target[t].idx : ~k.pk}} IN
        /\ own \cap DOMAIN schema = {}
        /\ \A u \in DOMAIN schema : \A i \in schema[u].idx : i.name # t /\ (u # t => i.name \notin own)

\* Models that can be brought about: their tables are in scope, no two indices of one are
\* alike, no two things have one name, and their types read back.
Attainable(s) ==
    LET target == world.targets[s]
        named(t, i) == IF i.pk THEN [i EXCEPT !.name = PrimaryName(t)] ELSE i
    IN
    /\ world.markers = "none"
    /\ \A t \in DOMAIN target :
          /\ IsManaged(s, t) /\ t \notin Internal \cup world.refused
          /\ \A c \in DOMAIN target[t].cols : target[t].cols[c] \in Settling(Backend)
          /\ \A i, j \in target[t].idx : Alike(i, j) => i = j
          /\ \A i \in target[t].idx : i.pk \/ i.name # PrimaryName(t)
    /\ Backend # "mysql" =>
          OwnNames([t \in DOMAIN target |-> [idx |-> {named(t, i) : i \in target[t].idx}]], target)

\* A live schema from which they are: nothing in scope that Toasty cannot express.
Settles(s) ==
    /\ Attainable(s)
    /\ Backend # "mysql" => OwnNames(live, world.targets[s])
    /\ \A t \in Visible(s) :
          /\ t \notin world.refused
          /\ live[t].odd = {} /\ ~HasExpression(t)
          /\ \E i \in live[t].idx : i.pk
          /\ \A c \in DOMAIN live[t].cols : Stores(Backend, live[t].cols[c]) # <<>>
          /\ t \in DOMAIN world.targets[s] => Fits(live[t], world.targets[s][t])

\* sync is no oscillation: with nobody else writing, a call on a schema that can be
\* brought to the models' ends with it, from every such state that an interrupted or
\* a failed sync may have left (mod.rs:206-209).
SyncAloneSettles ==
    \A p \in Processes :
        result[p].is \in {"incomplete", "failed", "refused"} /\ since[p] = "nobody"
            => ~Settles(result[p].source)

\* README, "sync brings the live database to the current model and then confirms it": a sync
\* that nobody disturbs, and whose plan was executed, does not end as incomplete.
SyncConverges ==
    \A p \in Processes : result[p].is = "incomplete" => since[p] # "nobody"

\* The tables a source's scope names.
Owned(s) ==
    LET scope == world.scopes[s] IN
    CASE scope.kind = "exclusive" -> DOMAIN live
      [] scope.kind = "managed" -> DOMAIN world.targets[s]
      [] OTHER -> scope.names

\* The tables that are written are in scope, or they and their indices are added for the
\* models.
WritesInScope(p) ==
    \A t \in DOMAIN live \cup DOMAIN live' :
        LET was == t \in DOMAIN live
            kept == /\ was /\ t \in DOMAIN live'
                    /\ live'[t].cols = live[t].cols /\ live'[t].odd = live[t].odd
        IN
        \/ kept /\ live'[t].idx = live[t].idx
        \/ was /\ t \in Owned(Source(p))
        \/ kept /\ live[t].idx \subseteq live'[t].idx /\ t \in DOMAIN Target(p)
        \/ ~was /\ t \in DOMAIN Target(p)

\* A sync changes only tables in its source's scope, and otherwise adds only the tables
\* and the indices of its models.
ScopeHonoured ==
    [][\A p \in Processes : plan'[p] # plan[p] /\ foreign' = foreign => WritesInScope(p)]_vars

\* What Toasty cannot express is not touched: on SQLite and MySQL a plan is executed
\* only if no table in scope had such a thing when the catalog was read.
NothingLost ==
    \A p \in Processes :
        pc[p] \in {"write", "lock", "markers", "statement"} /\ since[p] # "others"
        /\ Backend # "postgresql" =>
            \A t \in Visible(Source(p)) : ~HasExpression(t) /\ live[t].odd = {}

\* No sync drops the table that holds the migrations' records.
InternalTablesSurvive ==
    [][foreign' = foreign /\ "__toasty_mgr_migrations" \in DOMAIN live
        => "__toasty_mgr_migrations" \in DOMAIN live']_vars
=============================================================================
