---------------------------- MODULE MCSchemaSync ----------------------------
(* Instances of SchemaSync for TLC: two sources in one database, two processes. *)
EXTENDS SchemaSync

CONSTANTS p1, p2

MCSources == <<"base", "aux">>

N(base, args) == [base |-> base, args |-> args]
Ledger == "__toasty_mgr_migrations"

-----------------------------------------------------------------------------
(* Types: per backend, what a column of each storage type is declared as.     *)
Integers == {StorageType("Integer", <<"4">>), StorageType("Integer", <<"8">>)}
Words == StorageType("VarChar", <<"20">>)
Status == StorageType("Enum", <<"new", "done">>)
Mixed == StorageType("Enum", <<"New", "done">>)
Money == StorageType("Numeric", <<"10", "2">>)
Millis == StorageType("DateTime", <<"3">>)
Micros == StorageType("DateTime", <<"6">>)
Tags == StorageType("List", <<"Text">>)
Settings == StorageType("Document", <<"binary">>)
Unsigned == StorageType("UnsignedInteger", <<"4">>)

SqliteDeclared ==
    [t \in Integers |-> N("INTEGER", <<>>)] @@ Unsigned :> N("INTEGER", <<>>) @@
    Plain("Boolean") :> N("BOOLEAN", <<>>) @@ Plain("Text") :> N("TEXT", <<>>) @@
    Words :> N("VARCHAR", <<"20">>) @@ Plain("Blob") :> N("BLOB", <<>>) @@
    StorageType("Float", <<"8">>) :> N("REAL", <<>>) @@ Plain("Json") :> N("JSON", <<>>) @@
    Tags :> N("TEXT", <<>>) @@ Money :> N("NUMERIC", <<>>) @@ Micros :> N("DATETIME", <<>>)

PostgresDeclared ==
    StorageType("Integer", <<"4">>) :> N("integer", <<>>) @@
    StorageType("Integer", <<"8">>) :> N("bigint", <<>>) @@ Unsigned :> N("integer", <<>>) @@
    Plain("Boolean") :> N("boolean", <<>>) @@ Plain("Text") :> N("text", <<>>) @@
    Words :> N("character varying", <<"20">>) @@ Plain("Blob") :> N("bytea", <<>>) @@
    StorageType("Float", <<"8">>) :> N("double precision", <<>>) @@ Settings :> N("jsonb", <<>>) @@
    Tags :> N("ARRAY", <<"text">>) @@ Money :> N("numeric", <<"10", "2">>) @@
    Micros :> N("timestamp without time zone", <<"6">>) @@
    Millis :> N("timestamp without time zone", <<"3">>) @@ Status :> N("USER-DEFINED", <<"status">>)

MySqlDeclared ==
    StorageType("Integer", <<"4">>) :> N("int", <<>>) @@
    StorageType("Integer", <<"8">>) :> N("bigint", <<>>) @@ Unsigned :> N("int", <<"unsigned">>) @@
    Plain("Boolean") :> N("tinyint", <<"1">>) @@ Plain("Text") :> N("text", <<>>) @@
    Words :> N("varchar", <<"20">>) @@ Plain("Blob") :> N("blob", <<>>) @@
    StorageType("Float", <<"8">>) :> N("double", <<>>) @@ Settings :> N("json", <<>>) @@
    Money :> N("decimal", <<"10", "2">>) @@ Millis :> N("datetime", <<"3">>) @@
    Status :> N("enum", <<"new", "done">>) @@ Mixed :> N("enum", <<"New", "done">>)

DeclaredBy ==
    "sqlite" :> SqliteDeclared @@ "postgresql" :> PostgresDeclared @@ "mysql" :> MySqlDeclared
MCDeclared(b, t) == DeclaredBy[b][t]

\* Column types found that no target declares.
Found ==
    "sqlite" :> {N("CHARINT", <<>>), N("POINT", <<>>), N("", <<>>), N("VARCHAR", <<"40">>)} @@
    "postgresql" :> {N("character varying", <<>>), N("smallint", <<>>), N("interval", <<>>),
                     N("ARRAY", <<"integer">>)} @@
    "mysql" :> {N("tinyint", <<>>), N("mediumint", <<>>), N("bigint", <<"unsigned">>), N("decimal", <<"10">>), N("year", <<>>)}
MCNativeTypes(b) == Range(DeclaredBy[b]) \cup Found[b]
MCStorageTypes(b) == DOMAIN DeclaredBy[b]

\* SQLite stores by affinity, whatever the size; a PostgreSQL varchar without a size
\* is a text.
SqliteClasses ==
    "INTEGER" :> "integer" @@ "CHARINT" :> "integer" @@ "POINT" :> "integer" @@
    "TEXT" :> "text" @@ "VARCHAR" :> "text" @@ "BLOB" :> "blob" @@ "" :> "blob" @@ "REAL" :> "real" @@
    "BOOLEAN" :> "numeric" @@ "JSON" :> "numeric" @@ "NUMERIC" :> "numeric" @@ "DATETIME" :> "numeric"
MCStores(b, n) ==
    CASE n.base \in {"interval", "year"} -> <<>>
      [] b = "sqlite" -> <<SqliteClasses[n.base]>>
      [] n = N("character varying", <<>>) -> <<"text">>
      [] OTHER -> <<n.base>> \o n.args

MCSettling(b) ==
    DOMAIN DeclaredBy[b] \ (CASE b = "sqlite" -> {Micros}
                              [] b = "postgresql" -> {Money, Millis, Status}
                              [] b = "mysql" -> {Mixed})

\* PostgreSQL casts to text, between numbers, within a type and between arrays; the others
\* convert what they can.
Numbers == {"smallint", "integer", "bigint", "numeric", "double precision"}
MCCasts(b, from, to) ==
    \/ b # "postgresql"
    \/ from.base = to.base
    \/ to.base \in {"text", "character varying"}
    \/ {from.base, to.base} \subseteq Numbers

-----------------------------------------------------------------------------
(* Schemas.                                                                   *)
Idx(name, cols, unique, pk) ==
    [name |-> name, cols |-> cols, unique |-> unique, pk |-> pk, partial |-> FALSE, constraint |-> FALSE]
Constraint(index) == [index EXCEPT !.constraint = TRUE]
ById == Idx("a_by_id", <<"id">>, TRUE, TRUE)
ByV == Idx("a_by_v", <<"v">>, FALSE, FALSE)
ByVId == Idx("a_by_v_id", <<"v", "id">>, TRUE, FALSE)
Primary(b) == [ById EXCEPT !.name = IF b = "postgresql" THEN "a_pkey" ELSE "PRIMARY"]

Key(b) == DeclaredBy[b][StorageType("Integer", <<"8">>)]
KeyTable(b) == [cols |-> "id" :> Key(b), idx |-> {Primary(b)}, odd |-> {}]
TableA(b, v, idx, odd) == [cols |-> "id" :> Key(b) @@ "v" :> v, idx |-> {Primary(b)} \cup idx, odd |-> odd]

TargetA(v) == [cols |-> "id" :> StorageType("Integer", <<"8">>) @@ "v" :> v, idx |-> {ById, ByV, ByVId}]
TargetB == [cols |-> "id" :> StorageType("Integer", <<"8">>), idx |-> {[ById EXCEPT !.name = "b_by_id"]}]
Targets(v) == "base" :> ("a" :> TargetA(v)) @@ "aux" :> ("b" :> TargetB)

Scope(kind, names) == [kind |-> kind, names |-> names]
Managed == "base" :> Scope("managed", {}) @@ "aux" :> Scope("managed", {})

World(b) ==
    [backend |-> b, targets |-> Targets(Plain("Text")), scopes |-> Managed, markers |-> "none", refused |-> {},
     others |-> {}, callers |-> {p1}, calls |-> {"sync"}]

Text(b) == DeclaredBy[b][Plain("Text")]
Good(b) == TableA(b, Text(b), {ByV, ByVId}, {})

-----------------------------------------------------------------------------
(* What the runs start from.                                                  *)

\* Each native type of a column against each type it may be asked to have.
TypeScenarios(b) ==
    {[world |-> [World(b) EXCEPT !.targets = Targets(t)], live |-> "a" :> TableA(b, n, {ByV, ByVId}, {})] :
        t \in DOMAIN DeclaredBy[b], n \in MCNativeTypes(b)}

\* Indices missing, of another shape, under another name, twice, partial, on expressions,
\* in place of another, in the shadow of a primary key's name.
IndexSets ==
    {{}, {ByV, ByVId}, {[ByV EXCEPT !.unique = TRUE], ByVId}, {[ByV EXCEPT !.name = "old"], ByVId},
     {ByV, [ByV EXCEPT !.name = "old"], ByVId}, {[ByV EXCEPT !.name = "old"], [ByVId EXCEPT !.name = "a_by_v"]},
     {ByV, ByVId, Idx("a_by_id", <<"id">>, TRUE, FALSE)}, {ByV, ByVId, Idx("a_by_id", <<"v">>, FALSE, FALSE)},
     {[ByV EXCEPT !.partial = TRUE], ByVId}, {ByV, ByVId, [ByV EXCEPT !.partial = TRUE, !.name = "some"]},
     {ByV, Constraint(ByVId)}, {ByV, ByVId, Constraint(Idx("other", <<"v">>, TRUE, FALSE))},
     {ByV, ByVId, Constraint(Idx("a_by_id", <<"v">>, TRUE, FALSE))}, {Constraint(Idx("a_by_v", <<"v">>, TRUE, FALSE)), ByVId},
     {ByV, ByVId, Idx("other", <<"id", "v">>, TRUE, FALSE)}, {ByV, Idx("a_by_v_id", <<"v", Expression>>, TRUE, FALSE)}}

IndexScenarios(b) ==
    {[world |-> World(b), live |-> "a" :> TableA(b, Text(b), idx, odd)] : 
        idx \in {set \in IndexSets : b = "mysql" => \A i \in set : ~i.partial},
        odd \in SUBSET (IF b = "sqlite" THEN Odd ELSE Odd \ {"strict"})}
    \cup {[world |-> World(b), live |-> "a" :> [Good(b) EXCEPT !.idx = {ByV}]],
          [world |-> [World(b) EXCEPT !.refused = {"a"}], live |-> <<>>],
          [world |-> [World(b) EXCEPT !.markers = "left"], live |-> <<>>]}

Wide(b, idx) == [TableA(b, Text(b), idx, {}) EXCEPT !.cols = @ @@ "w" :> Text(b)]

\* An index twice, and with it something to do or nothing.
Twice == {ByV, [ByV EXCEPT !.name = "old"], ByVId}
DoubledScenarios(b) ==
    {[world |-> World(b), live |-> "a" :> table] : table \in
        {Wide(b, Twice), [Good(b) EXCEPT !.idx = Twice \ {ByVId}]}}

\* An index of another table that has the name of a model's.
ClashScenarios(b) ==
    {[world |-> World(b), live |-> "a" :> TableA(b, Text(b), {ByVId}, {}) @@
                                   "loose" :> [KeyTable(b) EXCEPT !.idx = @ \cup {Idx("a_by_v", <<"id">>, FALSE, FALSE)}]]}

\* Columns missing and left over, alone and with an index of each kind; another primary key; a
\* partial index in the place of a full one.
ByW == Idx("a_by_w", <<"w">>, FALSE, FALSE)
ColumnScenarios(b) ==
    {[world |-> World(b), live |-> "a" :> table] : table \in
        {KeyTable(b), Wide(b, {}), Wide(b, {ByW, ByV}), Wide(b, {ByVId, Idx("a_by_v", <<"w", "v">>, FALSE, FALSE)}),
         [KeyTable(b) EXCEPT !.cols = @ @@ "w" :> Text(b), !.idx = @ \cup {ByW}],
         Wide(b, {ByV, ByVId, Idx("a_by_id", <<"w">>, FALSE, FALSE)}),
         [Good(b) EXCEPT !.idx = {ByV, ByVId, [Primary(b) EXCEPT !.cols = <<"id", "v">>]}]}
        \cup (IF b = "mysql" THEN {}
              ELSE {Wide(b, {ByV, ByVId, [ByW EXCEPT !.partial = TRUE]}),
                    TableA(b, Text(b), {[ByV EXCEPT !.name = "some", !.partial = TRUE],
                                        [ByV EXCEPT !.cols = <<"id">>], ByVId}, {})})}

\* Scopes, with a table of nobody's and the ledger next to those of the models.
Tables(b) == "a" :> Good(b) @@ "loose" :> KeyTable(b) @@ Ledger :> KeyTable(b)
ScopePairs ==
    {"base" :> Scope("tables", {"a", "loose"}) @@ "aux" :> Scope("managed", {}),
     "base" :> Scope("prefixes", {"a"}) @@ "aux" :> Scope("tables", {"loose"}),
     "base" :> Scope("managed", {}) @@ "aux" :> Scope("prefixes", {"b"}), Managed}
ScopeScenarios(b) ==
    {[world |-> [World(b) EXCEPT !.scopes = s, !.calls = Operations], live |-> Tables(b)] : s \in ScopePairs}

\* Two processes, and somebody else who changes the schema.
RaceScenarios(b) ==
    {[world |-> [World(b) EXCEPT !.callers = {p1, p2}, !.calls = {"sync", "sync_all"},
                    !.others = {"a" :> TableA(b, Key(b), {ByV}, {}), "a" :> TableA(b, Text(b), {}, {"foreign_key"}),
                                <<>>}],
      live |-> found] : found \in {<<>>, "a" :> TableA(b, Key(b), {Idx("a_by_v", <<"id", "v">>, FALSE, FALSE)}, {})}}

ExclusiveScenarios(b) ==
    {[world |-> [World(b) EXCEPT !.scopes = "base" :> Scope("exclusive", {}) @@ "aux" :> Scope("managed", {})],
      live |-> Tables(b)]}

Backends == {"sqlite", "postgresql", "mysql"}
MCScenarios ==
    UNION {TypeScenarios(b) \cup ColumnScenarios(b) \cup IndexScenarios(b) \cup DoubledScenarios(b)
               \cup ClashScenarios(b) \cup ScopeScenarios(b) \cup RaceScenarios(b) : b \in Backends}
    \cup UNION {ExclusiveScenarios(b) : b \in {"sqlite", "mysql"}}
MCDoubledScenarios == UNION {DoubledScenarios(b) : b \in Backends}
MCLedgerScenarios == UNION {ExclusiveScenarios(b) : b \in Backends}
=============================================================================
