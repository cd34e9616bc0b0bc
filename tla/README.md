# A verification project for toasty-mgr

TLA+ models of the parts of `toasty-mgr` (`src/src`, Rust) in which tasks,
processes, crashes and databases meet: the connection registry, the transaction
manager, the migration manager with its artifact directory, its database backends
and its synchronisation of schemas, and the queries that `tc_query_spec!` generates.
The models are checked with TLC on small instances; what matters most
is proved with TLAPS for every value of the constants.

## 1. Inventory

| Component (source) | State | Operations | Hard behaviour | What makes it correct |
|---|---|---|---|---|
| Connection registry (`registry.rs`, facade `ext.rs`) | `CONNECTIONS`, `MODEL_SETS`, `ALIASES`, each behind its own `RwLock`; `LOAD_LOCK` | `get`, `reload`, `add_by_url`, `add_by_ds_model`, `add_db`, `set_models`, `remove`, `clear`, `init_alias`, `unregister` | awaits between reading and writing the maps; double-checked load; failures halfway through a publication; dropped futures | one pool per source, never an older row over a newer one, aliases follow their source, failures keep the old connection |
| Data source catalog (`base_ds.rs`) | rows of `base_ds` | `get_ds`, `get_active_ds`, `toasty_url` | row changes between query and use; URL escaping | the address reaches the row's database |
| Transaction manager (`transaction.rs`) | `tx_map` of a call | `coordinate`, `trans`, `trans_with_retry`, `trans_on_condition_failed`, `use_tx`, `get_txs` | sequential commits, partial failure, ambiguous COMMIT, waiting for one pool while holding another | results tell the truth about effects, connections are returned |
| Migration manager (`migration/manager.rs`) | none of its own; artifact directory, ledger | `generate`, `baseline`, `apply` (execute, adopt), `rollback`, `sync`, `check`, `status` | several processes and releases at once; ids read before the lock | ledger is a segment of a released lineage, schema and ledger agree |
| Artifacts (`migration/artifact.rs`) | `history.toml`, SQL, rollback and snapshot files, temporary files | `inspect_state`, `load` | calls that break off between renames, readers beside a writer | a lineage is whole and replayable |
| SQLite, Turso, PostgreSQL backends (`backend/sqlite.rs`, `turso.rs`, `postgresql.rs`) | ledger table, open transactions | `inspect_applied_ids`, `prepare_ledger`, `apply_migration`, `record_migration`, `rollback_migration`, `sync_schema`, `inspect` | transactions abandoned on pooled connections, races for the lock | DDL and ledger row together |
| MySQL backend (`backend/mysql.rs`) | ledger, marker table, session lock | the same | DDL commits by itself; lock left with a session | doubt is always marked, nothing is retried on a guess |
| Schema normalisation (`backend/mod.rs`, the `inspect` and type functions of the backends) | none; the live catalog | `inspect`, `normalize`, `normalize_observed` | catalog read in several queries while others write; types and indices that read back as something else | a sync that ends well has the models' schema, and does not plan the same again |
| PostgreSQL statement splitter (`split_postgresql_statements`) | position and lexical state | one pass over the text | quotes, escapes and comments next to each other, ends of texts | cut exactly where statements end |
| Generated queries (`query.rs`, `query_spec.rs`) | a request | `fetch_page`, `all`, `count` | count and rows in two statements, ties, page arithmetic at the bounds | every row on one page, no overflow, defaults that work |
| Other macros (`tc_query.rs`) | none | code generation | - | - |

How they interact: `transaction.rs` and `manager.rs` get their `Db` handles from
the registry (`TcMgr::get`), which loads sources through the catalog of the
control connection. The manager validates artifacts and ledger and hands single
migrations to a backend; the backends lock, run and record them. The only shared
state across OS processes is the database (ledger, markers, locks) and the
artifact directory. `PROJECT.json` lists the components with what is left out of
each, and the hazards of this code at their lines with the properties that cover
them.

## 2. Modules

```
ConnRegistry ── MCConnRegistry          registry.rs, ext.rs, base_ds.rs
     └───────── ConnRegistryProofs
TxMgr ───────── MCTxMgr                 transaction.rs
     └───────── TxMgrProofs
ArtifactStore ─ MCArtifactStore         artifact.rs, generate/baseline of manager.rs
     └───────── ArtifactStoreProofs
Migrator ── MigratorProofs              apply/rollback of manager.rs, shared by:
     ├── TxBackend ──── MCTxBackend     sqlite.rs, turso.rs, postgresql.rs
     │       └───────── TxBackendProofs (and MigratorProofs)
     └── MySqlBackend ─ MCMySqlBackend  mysql.rs
             ├───────── MySqlBackendProofs (and MigratorProofs)
             └ both implement MigrationLedger (INSTANCE, refinement)
ColumnTypes ── SchemaSync ── MCSchemaSync
                     │                  inspect, normalize and sync_schema of the
                     │                  backends, backend/mod.rs, sync of manager.rs
                     └────── SyncProofs (of SchemaSync and of PgSplit)
PgLexical ── PgSplit ─────── MCPgSplit  splitter of postgresql.rs
PageQuery ───── MCPageQuery             query_spec.rs, query.rs
     └───────── PageQueryProofs
```

A module keeps its mutants (marked `Mutant:`) next to the definition they stand
in for: each property of a passing run is violated when one of them is put in its
place, so none holds by the shape of the model.

**ConnRegistry.** `connections`, `modelSets`, `aliases` are the three static
maps; `loadLock` and `waiters` are the FIFO mutex `LOAD_LOCK`; `catalog` holds the
version of each `base_ds` row, an operator's update raises it. A task's `pc` and
`frame` are the point and the locals of the call it runs. One step is one access
that writes a shared map, with the reads that lead to it, or one await; locks are
released between accesses as in the code. `Fail` ends a call at any await, by an
error or a dropped future, and drops its lock guard. `frame.listed` is the list of
aliases `publish_source` takes before its awaits. `seen` is a history variable.

**TxMgr.** A call's transactions are `call.open`; a source is a pool of
`PoolSize` connections. The callback is the application's: it asks for sources in
any order and ends with success or an error. `effects` counts, per call and
source, how often its writes were committed. `Commit` covers the three outcomes of
a COMMIT: done, failed, and failed for the client with the effect in place.

**Migrator, TxBackend, MySqlBackend.** `Migrator` has what `manager.rs` decides
for every backend: the validation of ids and names, the lineage, the selection of
a rollback, the order in which migrations are handed over. A backend module adds
the database. A migration is an id and a name with `Statements` statements; `<<m,
i>>` in the schema is the effect of statement `i`, and a statement fails if its
effect is there already (or, undone, is not). In `TxBackend` every ledger step is
one transaction under a writer lock; `Cancel` leaves a SQLite transaction open on
its connection, as dropping a future between two plain statements does, and ends a
PostgreSQL one. In `MySqlBackend` each statement changes the database at once;
the lock belongs to the session and stays with it when a call is dropped.
`MigrationLedger` is what both promise: rows form an initial segment of a released
artifact set, move by one migration at a time, and stay put once in doubt.

**ArtifactStore.** `files`, `history` and `temp` are the directory; a file's
content is the number of the schema change it was generated for and `base` the
schema each change starts from. `inspect_state` reads the directory in the order
of the code, listing by listing; `write_generated` writes and renames file by
file; `Stop` ends a call between any two steps, a failed write leaves a torn
temporary file, `CleanUp` is the operator who removes leftovers.

**ColumnTypes, SchemaSync.** `live` is the schema of the database: per table its
columns with their native types, its indices, and in `odd` what no Toasty schema has
(generated columns, foreign keys, STRICT). `ColumnTypes` has, per backend, the storage
type that a native type is taken for and the targets it counts as equal to; a type is
a name with arguments, as text it is not modelled. An inspection is a step per catalog
query on PostgreSQL and MySQL; on SQLite it is one for the list of tables and two per
table (columns; indices with foreign keys), which stand for the PRAGMA queries. `seen`
is what an inspection has read so far. `Decide` normalises, diffs and validates: before
the plan from the live schema to the models', after it, as the code does, from the models' to
the live one. The plan is executed in one step on SQLite and PostgreSQL
(`WritePlan`: one transaction under a lock) and statement by statement on MySQL
(`ExecuteNext`, under the source's lock, after a look for recovery markers). `NormalIndices` takes, as the
code does, the first of the models' indices that an observed one has the shape of. Two
observed ones may get the same name so, and the code's `Vec` has both: the set has one, and
`Repeated` says which are twice.

Toasty's differ and the databases' DDL are not in `src/`; they are external, modelled from how the
code uses them. `Diff` lists what differs by name. Each index of the schema it starts from finds
its partner by name in the one it leads to, and what has no partner there is created: a name that
comes twice in the former makes no difference, in the latter it does (`repeated`), which is why
the direction matters. `Execute` does a statement, or fails: a new table or index needs a name
that is free (`Taken`: among all tables and indices on SQLite and PostgreSQL, within its table on
MySQL) and its columns; the index of a primary key or of another constraint is not dropped by
DROP INDEX (`constraint`, which `inspect` does not read: `sqlite.rs:423` skips primary keys only,
`postgresql.rs:549-561` does not look at `pg_constraint`; on MySQL, where a UNIQUE constraint is no
more than its index, `constraint` stands for an index that a foreign key needs); a column changes its type where the
database has a cast that needs no USING (`Casts`), and goes only when no index has it any more,
as SQLite demands; the other two are less strict. Two things Execute never refuses: to drop a
table or a column that a view, a trigger or a foreign key of a table out of scope depends on, and
what depends on the rows (values a cast cannot convert, duplicates under a new unique index).
A statement that breaks for such a reason is `Fail`, which ends the call as an error at any point.
`Foreign` is somebody else changing the schema; `since` records
whether anybody did so during an inspection or after it. Nullability and
auto-increment, prefix lengths of MySQL indices and defaults of columns are left out.

**PgSplit.** One action per lexical state, one step per turn of the loop, positions
counted from 1. `Finish` is the `match` behind the loop. A sample is a text with
PostgreSQL's reading of it, which the scanner does not see. `PgLexical` says when a set of
tokens is a reading of a text, as a condition on what stands in each token and next to it
and not as a second scanner: a string ends at the first quote that is neither doubled nor
taken by a backslash, a dollar quote where its own tag comes again, a comment where its depth
is zero. The statements, and whether the text ends inside something, are read off the tokens.
`MCPgSplit` puts texts together from elements whose tokens are known, and cuts the last one
short; that the result is a reading is `ReadingsAssumption`, which TLC evaluates for each
sample. What `SchemaSync` names too is called `SplitInit`, `SplitNext` and
`SplitSpec` here, so that `SyncProofs` can extend both.

**PageQuery.** `Valid` is what the macro accepts; `Init` takes any specification it
accepts. `request.orders` are the orders added by builder methods, `request.sort` the
one that came over the wire. A walk is a client that asks for page after page; rows
that the order does not tell apart may come in another order each time (`Listings`),
and others change rows between the statements (`Write`). `starts_with`, free
expressions and names like `asc_x` that clash with methods are left out.

## 3. Runs

| Run | Shows |
|---|---|
| `registry_safety` | `LoadLockHeld`, `LoadOpensOnePool`, `CachedIsNewestSeen`, `AliasFollowsSource`, `FailureWritesNothing`, `DisabledIsEvicted` |
| `registry_liveness` | `CallsReturn`: nobody waits for `LOAD_LOCK` for ever |
| `tx_backends` | `SchemaMatchesLedger`, `OneWriter`, `NothingAbandonedIsCommitted`; implements `MigrationLedger` |
| `mysql_backend` | `MigrationLock`, `DoubtIsMarked`, `MarkerIsExact`, `NoGuessedRetry`, `CallsEnd`; implements `MigrationLedger` |
| `tx_mgr` | `SuccessIsComplete`, `ErrorLeavesNothing`, `ConnectionsReturned`, `CallsReturn` |
| `artifact_store` | `LineageIsWhole`, `LineageIsReplayable`, `LoadedIsWhole`, `HistoryIsFinal` |
| `schema_sync` | `SyncedIsTarget`: a sync that ends well has, or found, the schema of the models, by what columns store and index; `SyncAloneSettles`: no sync of a schema that can be brought to the models' (`Settles`) ends as incomplete, failed or refused while nobody else writes, whatever an interrupted one left; `NothingLost`; `ScopeHonoured` |
| `page_query` | `WalkIsExact`: a walk over unchanged rows has each match once and in order, if the order has the key; `PageIsAsAnnounced`; `DefaultsWork` |
| `sql_split` | `SplitsWhereStatementsEnd` (texts that end inside something are refused), `TypeOK`, `ScanEnds` |

`registry_safety`, `tx_backends`, `mysql_backend`, `tx_mgr` and `artifact_store` also check
their module's `TypeOK`.
Three runs show where the code disagrees with its documentation; TLC finds the
counterexample:

| Run | Disagreement |
|---|---|
| `mysql_sync_fresh` | `sync` on a fresh MySQL database queries a table nobody created |
| `sync_drops_ledger` | PostgreSQL introspection does not leave out the adapter's ledger, and `sync` drops it when the scope covers it |
| `sync_doubled_index` | two live indices of one target's shape get one name; planning ignores the second and verifying asks for it, so a sync that executes anything ends as `migration_sync_incomplete` (`SyncConverges`) |

Disagreements that the models made visible and no run is kept for, since they lie
outside what the passing runs let overlap (see below) or concern a single answer:

- A load in flight writes an alias of the map that a concurrent `init_alias` has
  replaced (`registry.rs:508`; `docs/guide/src/operations.md:77-78`), and registers again
  the models that a concurrent `unregister` removed (`registry.rs:516`;
  `operations.md:51`).
- `trans_with_retry` starts again after a COMMIT that took effect and whose answer was
  lost (`transaction.rs:227`, against the comment at 203-204).
- Two generates of one name at once overwrite each other's files (`manager.rs:914`,
  against `docs/design/schema-migration-manager.md:606`).
- PostgreSQL introspection reports no diagnostics (`postgresql.rs:624`), and partial
  indices are skipped on every backend that has them (`mod.rs:198`), where
  `schema-migration-manager.md:426-428` says that both fail closed. An index on an
  expression reads like one on its other columns there, and the precision of a number
  or a time is not read; on MySQL the labels of an enum are lower-cased and a MEDIUMINT
  is taken for an INT. `SyncedIsTarget` leaves such schemas out (`Indistinct`).
- Types whose own DDL does not read back as themselves (`Numeric` with a precision,
  times of another precision than 6 and native enums on PostgreSQL; enums with capitals
  on MySQL; temporal types on SQLite) make every sync end as
  `migration_sync_incomplete`. `Settling` names the others.
- `validate_sql` refuses a plan that mentions a table or column whose name contains
  `REFERENCES`, like `preferences` (`manager.rs:994`); the scenarios with `refused` have one.
- Some schemas no sync brings to the models', though none is interrupted or disturbed; `Fits` and
  `OwnNames` leave them out. An index that a constraint has made, UNIQUE in a CREATE TABLE say, is
  read as a plain one: if no target has its shape the plan drops it, which SQLite and PostgreSQL
  refuse. A change of type that PostgreSQL does not cast without USING, text to integer say, fails.
  So does an index whose name another table's index, or a table, has on these two. A partial index that has a target's name makes every CREATE INDEX fail, and one
  on a column that is to go, on SQLite, every DROP COLUMN, since partial indices are skipped and
  never dropped. A partial index of a target's shape hides an index that has that target's name and
  another shape: `any(other)` of `mod.rs:206-222` looks at the partial ones too, so the plan
  creates an index whose name is taken. A primary key on other columns is planned as a drop of the
  index that holds it. With an index of a target's shape there twice, see `sync_doubled_index`.
- `apply_orders` runs after the count: a repeated sort field is reported after a
  statement was executed, where `query.rs:99` says before.
- The splitter takes an identifier with a `$...$` in it for a dollar quote, and a string
  `E'...'` right behind a dollar quote for one without escapes (`is_identifier_continue`
  counts `$`). In a `U&'...'` string a backslash hides a quote from it, where PostgreSQL (with
  a UESCAPE of another character) ends the string. `IsToken` has no reading for these texts,
  nor for one with a `$` in a name or a prefix right behind a digit.

**Bounds.** Two callers or processes are enough for every race between a reader
and a writer of the same state and for a waiter behind a holder; the interactions
modelled are pairwise. The registry has one source with one alias, three row
versions with the middle one disabled (old, disabled, enabled again: the shortest
history in which an older row can come back), and in the liveness run alias chains
and an alias that takes a source's name. The backends have two statements per
migration (so that one can run and one not), three migrations, an older release, a
newer one and a branch that took an id for another name, and two connections, so
that a lock or transaction can be abandoned on one while the other is used. TxMgr
has two sources with one connection each, the smallest system in which callbacks
can wait for each other crosswise, and up to two attempts. ArtifactStore has one
writer, one reader and three schema changes: a baseline, a migration on top, and
one that was broken off. `MaxVersion`, `MaxAttempts`, `MaxChanges`,
`MaxForeign` and `MaxWrites` are the only cut-offs of behaviours; they bound how often the environment acts. `schema_sync` starts from
936 scenarios of the three backends: every pair of a native and a wanted type,
indices missing, renamed, doubled, partial, of constraints, on expressions or in another's place with
every set of odd things, an index of another table under a model's name, columns missing or left over, alone and with an index of each kind, all kinds of scope, and two processes with a third party that
writes once, which is enough to fall between any two steps of an inspection and a plan.
`page_query` has three keys and a column with ties, pages of one and two rows, and
machine words of three bits (`MaxU64` 7, `MaxUsize` 5), so that each overflow of
`(page - 1) * size` happens. `sql_split` has every text of up to three elements (but those that are read
as something else side by side, `Glue`): the
scanner keeps nothing of an element but its state, and looks at two neighbours at most.
Symmetry is used over callers
and connections in safety runs only.

**What the passing runs exclude.** `Apart` names the operations a run never lets
overlap. `registry_safety` keeps registrations apart from loads and `init_alias`
from loads and registrations: `operations.md` gives these to the start of the
application, and next to loads they do disagree with the documentation, as listed
above. `tx_backends` and `mysql_backend` keep rollbacks
apart from applies: the lock is held for one migration, not for the whole apply, so that a
rollback may run between two migrations of an apply and leave a gap in the ledger. The
design (`schema-migration-manager.md:12-15`) makes a lock for the whole group a later stage and
asks that applies be serialised from outside until then, so no run is kept for it. Applies of
different releases, and rollbacks among themselves, do overlap. Adoption on SQLite
is excluded from `tx_backends` (`Excluded`): its drift check reads through any
pooled connection, which may show the tables of an abandoned transaction.
`artifact_store` has one writer. The scope of the whole namespace
on PostgreSQL is left to `sync_drops_ledger`.

**Fairness.** `registry_liveness`: weak fairness of each task's own steps - the
runtime polls every task that can run, queries and connection attempts end, and
tokio's mutex is handed over in order of arrival, which `waiters` models; calling,
failing and updating rows are not assumed. `mysql_backend`: weak fairness of the
steps of a running call; GET_LOCK has a timeout of 30 s, so it always ends.
`tx_mgr`: strong fairness of a call's steps - databases answer, callbacks end, and
a pool serves its waiters in turn, so one that is free again and again is got at
last. `CallsReturn` of `tx_mgr` holds because one source has a wait timeout
(`Timed`); without any, two callbacks that open two sources in opposite orders
wait for each other for ever, and `add_by_url` configures none by default.
`sql_split`: weak fairness of the scanner, a loop in one function that nothing
interrupts. Its runs and those of `page_query` end, so they are not checked for deadlock.

## 4. Proofs

| Theorem (`Spec => [] ...`) | For every value of the constants |
|---|---|
| `ConnRegistryProofs!TypeCorrect` | `TypeOK` of the registry |
| `ConnRegistryProofs!LoadsAreSerialised` | `LoadLockHeld`: whoever is past `LOAD_LOCK` holds it, alone |
| `ConnRegistryProofs!FailuresWriteNothing` | `FailureWritesNothing`: a call that ends before it publishes has changed no map |
| `ConnRegistryProofs!AliasesFollow` (`RegistrationsAlone`) | `AliasFollowsSource`: a cached alias has its source's connection, or a call is about to renew it |
| `ConnRegistryProofs!LoadsOpenOnePool` (`RegistrationsAlone`) | `LoadOpensOnePool`: callers that miss the cache at once open one pool |
| `ConnRegistryProofs!DisabledSourcesAreEvicted` (`RegistrationsAlone`) | `DisabledIsEvicted`: a disabled source and its aliases are gone when the reload returns |
| `ConnRegistryProofs!CachesTheNewestRow` (`RegistrationsAlone`, `NamesApart`) | `CachedIsNewestSeen`: no older row over a newer one |
| `TxBackendProofs!TypeCorrect` | `TypeOK` of the transactional backends |
| `TxBackendProofs!WritersAreSerialised` | `OneWriter`: one open transaction, that of the process that works |
| `TxBackendProofs!ReadsAreCommitted` | `NothingAbandonedIsCommitted`: under the lock a process sees the committed state |
| `TxBackendProofs!ImplementsLedger` (`RollbacksAlone`) | `LedgerSpec`: each commit is a step of `MigrationLedger` |
| `TxBackendProofs!SchemaFollowsLedger` (`AdoptionsUndisturbed`, `AdoptionsSeeCommitted`) | `SchemaMatchesLedger`: schema and ledger agree at every commit |
| `MySqlBackendProofs!OneAtATime` | `MigrationLock`: one process between GET_LOCK and RELEASE_LOCK |
| `MySqlBackendProofs!TypeCorrect` | `TypeOK` of the MySQL backend |
| `MySqlBackendProofs!NoRetryOnAGuess` | `NoGuessedRetry`: nothing runs next to the marker of an interrupted run |
| `MySqlBackendProofs!NothingGoesUnnoticed` (`AdoptionsUndisturbed`) | `DoubtIsMarked`: without a marker a migration is done or absent |
| `MySqlBackendProofs!MarkersAreExact` (`AdoptionsUndisturbed`) | `MarkerIsExact`: the statement index of a marker is right |
| `MySqlBackendProofs!ImplementsLedger` (`RollbacksAlone`) | `LedgerSpec`: each change of the rows is a step of `MigrationLedger`, none while in doubt |
| `ArtifactStoreProofs!TypeCorrect` (`SingleWriter`, as the next four) | `TypeOK` of the artifact directory |
| `ArtifactStoreProofs!HistoryIsWhole` | `LineageIsWhole`: what the history names is there in full |
| `ArtifactStoreProofs!HistoryIsReplayable` | `LineageIsReplayable`: each migration starts where the one before ends |
| `ArtifactStoreProofs!ReadersLoadWhole` | `LoadedIsWhole`: a reader gets a beginning of the lineage, as published |
| `ArtifactStoreProofs!Final` | `HistoryIsFinal`: a published migration stays as it is |
| `TxMgrProofs!TypeCorrect` | `TypeOK` of the transaction manager |
| `TxMgrProofs!SuccessOnlyWhenComplete` | `SuccessIsComplete`: a success is committed everywhere, once |
| `TxMgrProofs!ErrorsCommitNothing` | `ErrorLeavesNothing`: an error other than that of a commit leaves nothing |
| `TxMgrProofs!ConnectionsAreReturned` | `ConnectionsReturned`: pools are not overdrawn, calls that are over hold nothing |
| `SyncProofs!PlansAreSafe` | `NothingLost`: on SQLite and MySQL nothing that Toasty cannot express is in the scope of a plan, unless others write |
| `SyncProofs!ScopesAreHonoured` | `ScopeHonoured`: no sync writes to a table out of its scope, but for adding its models' indices, or makes one its models do not have |
| `SyncProofs!SuccessIsTarget` | `SyncedIsTarget`: a sync that ends well has, or found, the schema of the models, unless others wrote since it began to read |
| `SyncProofs!SyncSettles` | `SyncAloneSettles`: an undisturbed sync of a schema that can be brought to the models' ends with it, on any of the three backends |
| `SyncProofs!SplitterStaysInText` (`SplitSpec => []TypeOK`) | `TypeOK` of the splitter: no access behind the end, statements not empty, in order and disjoint, for any text |
| `SyncProofs!SplitterCutsAtEnds` (`SplitSpec => [] ...`) | `SplitsWhereStatementsEnd`: the statements are those of PostgreSQL's reading, each once, and a text is refused just when it ends inside something, for any text that `PgLexical` reads |
| `PageQueryProofs!DefaultsAlwaysWork` | `DefaultsWork`: only a request that repeats a field itself is refused for that |
| `PageQueryProofs!WalksAreExact` | `WalkIsExact`: a walk over unchanged rows has each match once and in order, if the order has the key |
| `PageQueryProofs!PagesAreAsAnnounced` | `PageIsAsAnnounced`: a page has as many rows as number and total say |
| `PageQueryProofs!EveryRowIsOnOnePage` (a fact of arithmetic) | every row of a result is on one announced page and no other |

They rest on the named assumptions on the constants (`CodesAssumption`,
`ArtifactsAssumption`, `TasksAssumption`, `AttemptsAssumption`, ...), which TLC evaluates in
every run. They say that null values lie outside the sets they complete, that there are
finitely many tasks, at least one attempt and one connection, that artifact sets are finite
sets of migrations with distinct ids (`ArtifactsAssumption`), that a lineage begins with its
baseline (`BaselinesAssumption`, `InitialAssumption`), and that releases which share a
migration share its past, since a history is numbered without gaps and only ever appended to
(`LineagesAssumption`). For queries: a table is finite, sort fields are fields of the model,
a specification has at most one tie breaker, and page and size are machine words
(`RowsAssumption`, `SpecsAssumption`, `RequestsAssumption`). For sync: there is a source, a scope is of one of
its four kinds, and the schemas of the database, of others and of the models are finite
schemas (`SourcesAssumption`, `ScenariosAssumption`): an index has columns, of its table, and a
name of its own within it, a primary key is neither partial nor on an expression, only SQLite has
STRICT tables, and a table of the models has one primary key, no partial index and no constraint's. What the
mapping of types must be good for is `TypesAssumption`: what stores something is read as a type, a
column that reads back as the type it is asked for stores what that type's own DDL stores
(`Blurred` types excepted), and a settling type reads back from its own DDL. `CastsAssumption` says that a column can be given
the type it has. `TypesAssumption` speaks
of single types, and TLC evaluates it with the adapters' mapping (`ColumnTypes`) for each pair of
a native and a wanted type of the run: the theorems say nothing about the mapping of types that
the run does not list, and everything about tables, indices, plans and overlaps of calls. Who else changes
the schema when is left open. For the splitter: a text is a sequence of characters
(`SamplesAssumption`, all that `SplitterStaysInText` needs), and its tokens are a reading of it
(`ReadingsAssumption`, for `SplitterCutsAtEnds`).

Some theorems have a hypothesis on what the callers let overlap. It is named in the table,
holds of the constants of the passing safety runs, and is no stronger than what they keep apart:

- `AdoptionsUndisturbed`: no rollback runs while a baseline is adopted, since the adoption
  compares the live schema with its snapshot before it has the lock. Everything else may
  overlap, rollbacks and applies too.
- `AdoptionsSeeCommitted`: no adoption on SQLite, whose drift check may see the tables of an
  abandoned transaction.
- `RollbacksAlone`: no rollback next to an apply or an adoption, which may leave a gap in the
  ledger (see "What the passing runs exclude"). Applies and adoptions of any releases overlap,
  and so do rollbacks.
- `SingleWriter`: `generate` and `baseline` of one source do not run at once.
- `RegistrationsAlone`: `add_by_url`, `add_by_ds_model` and `init_alias` run next to no load,
  reload or one another, and `add_db` is not used; loads, reloads, removals, `clear`,
  `set_models` and `unregister` overlap as they like, any number of each.
- `NamesApart`: no alias is called like a source.

The other theorems hold of every overlap, also of those the passing runs leave out.

*Registry.* `TypeOK` is not inductive: `InitOneAlias` opens the pool of
`values[a]` for an `a` of the work list, which is a source only because the list
holds keys of the map. `InitTodoMapped` says so and is kept beside it.
`LoadLockHeld` needs `LockUsersAreLoads` (only a get or a reload waits for the lock
or works under it), since the steps of a publication are shared with calls that
take no lock. Every other step of a task then `Stays` inside or outside the
critical section, or `Return`s and releases the lock.

`RegistryInv` has, point by point, what the calls past their start know (`Holds`):
`Targeted` says that a call's source is no alias and stays the source of its code;
`Published` that a load has found nothing cached, that the connection in hand is the
source's, and that the aliases listed before the awaits of a publication are still all there
are; `Initialised` how far the aliases of a new map are. `AliasFollowsSource` alone is not
inductive, for its `Renewing` exempts an alias only while the call that will renew it has it
on its list, and `listed` is a list from before the awaits. `RunApart` carries the discipline
of the application. `LoadLockHeld` and `RunApart` together leave one call at a time past its
start (`Resting`); the others only evict, and what a call holds survives evictions
(`CalmHolds`). `CachedInv` adds `Fresh`: the row a call is about to act on lies between the
newest one acted on and the catalog's. `FailureWritesNothing` needs no discipline: before the
first write of a publication `wrote` is false at every point (`NothingWritten`).

*Transactional backends.* `IInv` is `JobInv` (what the manager has established by
the time a call is at a point: a validated set of ids, a non-empty finite
selection of migrations) and `TxInv`: a process holds a connection exactly while
it is in a transaction (`HeldInTransaction`), no connection is held twice
(`HeldByOne`), the held one has an open transaction (`HeldIsOpen`) and no two are
open (`OneOpen`). `OneOpen` counts abandoned transactions too, which is why a
dropped call does not break it and `Begin` must be refused while one is left.
`JobInv` is what makes `Current(p)` a migration: `Extremes` of `MigratorProofs`
proves that a finite set of migrations has one of least and one of greatest id,
from the well-foundedness of strict inclusion, so `CHOOSE` has a witness. The
manager's steps are brought to one form there (`Moved`), the database's steps to
four (`OutsideTxInv`, `BeginTxInv`, `InsideTxInv`, `EndTxInv`), and an action
combines one of each. `ReadsAreCommitted` follows with `NobodyElseIsOpen`: the
committed state moves only when the one open transaction commits.

*Ledger refinement.* Both backends implement `MigrationLedger` by a step simulation under
the identity mapping of the rows (the committed ones in `TxBackend`). `LedgerInv` says that the
rows are a `Segment` of a released set and what a call has still to do (`Pends`): its selection
ends its set and the ledger has the rest, so that the next migration handed over continues
the rows by one. With several releases this is where `LineagesAssumption` is needed: a call
that lags behind another finds its next migration in the ledger or a ledger that is
exactly the past of it. `View` says that what a process has read under the lock is what its
transaction will commit on. On MySQL the rows move at once, and `Suits` says that the
migration that is run fits them until its row is written or deleted; that nothing moves in
doubt follows from `NoGuessedRetry`. `SchemaInv` adds what adoptions need
(`StillAdoptable`, `BaselineFirst`) and that on PostgreSQL an open transaction belongs to a
process (`OpenIsHeld`).

*MySQL lock.* `LockInv`: a process has a session exactly while it waits for the lock or
works under it, no session belongs to two, and who is in the critical section owns
the lock through its session (`CriticalOwns`). The stale lock that `ReleaseStale`
takes away is one of a session nobody holds, so its owner is not in the critical
section; `Unlock` by one process leaves the others untouched for the same reason.
`TypeOK` and `NoGuessedRetry` need `JobInv`, as above, and `DataInv`: who is about to run a
statement has one left and his marker in place (`Fresh`), and all markers are that of
whoever runs (`OwnMarker`). Only the lock makes this inductive, for a second process
in the critical section could put its marker beside the first.

*Recovery.* `RecoveryInv` adds `Work(p)`, how far the run of `p` is and what its marker
says of it, point by point: at a statement the marker has its index, behind it the index
is one less than the statements done, and what is done is exactly a prefix
(`Done(p, i) <=> i <= step[p]`). The one exception is `Blocked`: an apply on a database
that has had the baseline's tables all along, whose first statement fails. `RunWork` says
that a run touches its own migration only, so `DoubtIsMarked` and `MarkerIsExact` are to be
shown of that one: there is one lemma per step (`MarkWork` to `UnmarkWork`). `ManagerInv` has
what the manager's choices are needed for: on an untouched baseline every selection begins
with it (`BaselineFirst`), and what an adoption has compared is still so when the row is
written (`StillAdoptable`, from `NotBoth`).

*Artifacts.* `IInv` of `ArtifactStoreProofs` is `DiskInv` (the history is numbered from
1, its files are whole, each starts where its predecessor ends) and, for each call, what it holds of
the disk at its point. A writer's history is the recorded one until it publishes
(`WriterHolds`), which is where two writers would break it; the new files are there under
temporary names up to `at`, then under final ones. A reader holds a beginning of what is
recorded (`ReaderHolds`); this is stable since the history only grows and `CleanUp` touches
nothing that it names.

*Transaction manager.* Calls touch each other only through the pools, so `IInv` is a
condition on one call at a time: what it has open and which attempt it is at (`Holds`), how
often the attempts have committed on each source (`Counted`), and that without retries of the
application's own errors no attempt follows one that has committed something (`Once`).
`Pools` counts a source's open transactions, over a finite set of tasks: a
transaction is opened only where a connection is free, and every other step opens none.

*Sync.* `NothingLost` is about a plan and the live schema, and between them lie five catalog
queries of an inspection. `IInv` of `SyncProofs` follows them: `CallOK` says that what has been
read at a point is what that point needs (tables read and still to read, columns before
indices), and `Knows` that, unless somebody who is no sync has written since, whatever is odd
about a table in scope has been noticed in the part that is read (`KnownAt`, point by point).
Then `Decide` plans only with every table of the scope clean. The statements of this and of
other syncs must keep that true while others inspect or have plans to execute, on MySQL one by
one: `DiffIsPlan` shows what `Diff` can list (`Proper`: what is changed is in the observed
schema, what is made is the models'), `ExecuteEvolves` that each such statement, whatever the
schema has become, leaves every table out of scope as it was but for indices of the models and
makes no unclean one (`Evolves`), and `ExecuteAllEvolves` that a whole transaction does. That
is also `ScopeHonoured`, with `OnlyOnePlans`: who changes the plan is who takes the step. The
property allows one thing that no run shows: on MySQL a models' table that lies out of its own
scope may be dropped and made again by somebody else between the CREATE TABLE and the CREATE
INDEX of one plan, and the index is then added to a table that is not the source's (`kept` in
`WritesInScope`).

`SyncedIsTarget` compares an outcome with the live schema, so `SyncedInv` says what an inspection
knows: what it has read by a point is what is there (`Mirrors`, point by point), unless others have
written since it began. It takes two invariants more: a sync under way has no result
yet (`Open`), and one that ended well leaves the target (`EndsWell`), which the writes of others
end at once and the reads of the next sync do not touch. When nothing differs, `Diff` is empty,
and from there back through `NormalIndices`, what is read and what is stored, the live tables are
those of the models.

`SyncAloneSettles` is about the whole plan. `Diff` lists it in an order that `SetToSeq` leaves open,
so a closed form of the schema after some of its statements is out of reach. `SettledInv` says
instead what is left: `Owes(p)`, the statements not yet executed are exactly those that are due
(`Due`), that is, the ones a comparison of the live schema with the models would list now, by
definition of each kind of statement. One that is executed is no longer due
and leaves the others due (`TurnsDue`, `ArisesDue`, `StepDue`); the foremost of them, by the order
in which `Diff` lists its kinds, can be executed whatever came before (`OwedAllowed`,
`DueSucceeds`), if nothing is in its way at the start (`Ready`, kept by each step:
`StepReady`): the columns to change can be cast, the indices to drop belong to no constraint, and
the names to be given are free (`OwnNames`, which what is made leaves true: `PutOwnNames`). `ComparedIsDue` and `DecidedIsDue` say that what the code computes, by
normalisation and comparison by name, is all that is due and no more, and `SettledIsDone` that
with nothing due the comparison finds nothing. So the plan is executed in full, statement by
statement on MySQL and as one transaction elsewhere (`PlanDoes`). The second comparison runs the
other way and knows of doubled names: with nothing due no table differs (`NothingCalled`,
`SameCallsNothing`) and no name is doubled (`NothingRepeated`), so it finds nothing either
(`SettledIsVerified`). Others may call at the same time: what they write ends the claim about
the syncs under way, as `since` says.

*Splitter.* `TypeOK` needs more to be inductive: a statement with code in it has begun
before the present position (`Position`), delimiters are not empty, and the statements
found end before the next one starts (`Apart`). One lemma per lexical state shows that
each turn of the loop moves on, and by no more than there are characters.
`SplitsWhereStatementsEnd` follows from where the scanner is in the reading (`Place`): in its
normal state between tokens or in a word, blanks or a sign (`Between`); otherwise in the token
that its state stands for, past the opening and never between two characters that count as one
(`Inside`), with the tag, the depth and the escapes of that token. `PrefixSeen` shows that the
two or three characters it looks back at tell a prefix as PostgreSQL does, `TagSeen` that it
finds the tag that is there, the `...GoesOn` lemmas that it leaves a token exactly where that
ends. Beside it `Cut` relates what is collected: the statement begins behind the last end passed,
`has_code` is what the reading has since then, and the statements found are those of the
reading that end before (`FindsStatement`). An end of text inside a token is then an error just
when the token is open (`EndsWhere`). Since the scanner does not see the reading, no two
readings of a text differ in their statements. TLC has checked `Place` and `Cut` on the samples too.

*Queries.* `IInv` says that the specification stays a valid one and that a request has
orders of one kind (`RequestOK`): one sort from the wire cannot repeat a field, the
default order does not by `Valid`, so what `Order` refuses is what the request has
itself. `EveryRowIsOnOnePage` comes from the division lemma: row `r` is on page
`(r - 1) \div size + 1`, and two pages that share a row bound each other's products.
The walk needs more than arithmetic, for the database may list rows that the order does not
tell apart differently for each page. `ListingIsUnique` shows that an order with the key
leaves it no choice: a row's place in any listing is the number of rows before it (`Rank`).
`PagesInv` then says that what a walk has is the beginning, up to its offset, of every
listing the database may make (`WalkedSoFar`), `PageGoesOn` that the next page continues it, and
`PageBounds` that the last announced page is the one that ends it.

Only model-checked:

- Liveness (`CallsReturn`, `CallsEnd`, `ScanEnds`): fairness and ENABLED are out of the
  prover's reach.
- `InternalTablesSurvive`, `SyncIsServed` and `SyncConverges`, which the runs refute.

## 5. Not modelled

The texts of SQL, native types and snapshots: types are names with arguments, plans are
lists of statements, and the parsing of both is in the model by what it yields. `check`
and `status`, which only read; `apply_all` and `generate_all`, which take one source after
the other; the projection of indices and the rename hints of `generate`; URL building of
`base_ds.rs`; the derive macro `TcQuery`, which rewrites calls at compile time. Power
loss (`write_generated` does not fsync) and two writers interleaving inside one
`fs::write` are outside ArtifactStore. MySQL's lock is per database and the ledger models
have one source; several sources on one database only add waiting. Owned and embedded
artifact sets are taken to be in id order, as every history on disk is; ids are small
naturals, where the code refuses those above 2^63-1 when they are recorded.

## 6. Plan

1. Extend the model: `BaseDs` (address building and escaping), `check` and `status` over
   several sources on top of `Migrator`; a composition of registry and transaction
   manager (a source reloaded or removed under an open transaction); two writers in
   ArtifactStore with the properties that survive; nullability in `SchemaSync`.
2. Prove more: of `ArtifactStore` what two writers leave true; of `SchemaSync` that the lock of
   MySQL keeps the plans of one source apart, which no property needs so far.
