---------------------------- MODULE ColumnTypes ----------------------------
(***************************************************************************)
(* How the adapters read the type of a live column: the native type the    *)
(* catalog reports, the storage type (db::Type) it is taken for, and the   *)
(* native types that count as a target's storage type.                     *)
(*                                                                         *)
(* A storage type is [type, of], a native type [base, args]: "of" and      *)
(* "args" are the sizes, precisions, labels or element types, as strings.  *)
(* The text of a native type is not modelled, only its parts.              *)
(***************************************************************************)
EXTENDS Naturals, Sequences, TLC

StorageType(t, of) == [type |-> t, of |-> of]
Plain(t) == StorageType(t, <<>>)
\* The answer is an error: unsupported_..._column_type, or a size that does not parse.
Unreadable == Plain("unreadable")

-----------------------------------------------------------------------------
(* SQLite: a declared type is any text, and what counts is the first of     *)
(* these fragments that it contains.                                        *)
Fragments ==
    "INTEGER" :> {"INT"} @@ "BIGINT" :> {"INT"} @@ "POINT" :> {"INT"} @@
    "CHARINT" :> {"CHAR", "INT"} @@ "TEXT" :> {"TEXT"} @@ "VARCHAR" :> {"CHAR"} @@
    "BLOB" :> {"BLOB"} @@ "" :> {"empty"} @@ "REAL" :> {"REAL"} @@ "DOUBLE" :> {"DOUB"} @@
    "BOOLEAN" :> {} @@ "JSON" :> {} @@ "JSONB" :> {} @@ "NUMERIC" :> {} @@ "DATETIME" :> {}

\* The order counts: CHARINT is an integer.
Affinity(native) ==
    LET has == Fragments[native.base] IN
    IF "INT" \in has THEN "integer"
    ELSE IF has \cap {"CHAR", "CLOB", "TEXT"} # {} THEN "text"
    ELSE IF has \cap {"BLOB", "empty"} # {} THEN "blob"
    ELSE IF has \cap {"REAL", "FLOA", "DOUB"} # {} THEN "real"
    ELSE "numeric"

SqliteBooleans == {"BOOL", "BOOLEAN"}

SqliteType(native) ==
    CASE native.base \in SqliteBooleans -> Plain("Boolean")
      [] native.base = "JSON" -> Plain("Json")
      [] native.base = "JSONB" -> Plain("Jsonb")
      [] native.base = "VARCHAR" /\ Len(native.args) = 1 -> StorageType("VarChar", native.args)
      [] OTHER ->
           CASE Affinity(native) = "integer" -> StorageType("Integer", <<"8">>)
             [] Affinity(native) = "real" -> StorageType("Float", <<"8">>)
             [] Affinity(native) = "text" -> Plain("Text")
             [] Affinity(native) = "blob" -> Plain("Blob")
             [] OTHER -> StorageType("Custom", <<native.base>> \o native.args)

\* No native type is equivalent to a temporal, enum or custom type.
SqliteEquivalent(native, target) ==
    \/ target.type = "Boolean" /\ native.base \in SqliteBooleans
    \/ target.type \in {"Integer", "UnsignedInteger"} /\ Affinity(native) = "integer"
    \/ target.type = "Float" /\ Affinity(native) = "real"
    \/ target.type \in {"Text", "Document", "List"} /\ Affinity(native) = "text"
    \/ target.type = "VarChar" /\ native = [base |-> "VARCHAR", args |-> target.of]
    \/ target.type \in {"Blob", "Uuid", "Binary"} /\ Affinity(native) = "blob"
    \/ target.type = "Json" /\ native.base = "JSON"
    \/ target.type = "Jsonb" /\ native.base = "JSONB"
    \/ target.type = "Numeric" /\ Affinity(native) = "numeric"

-----------------------------------------------------------------------------
(* PostgreSQL: information_schema's data_type, with the size of format_type *)
(* where the code reads it.  Numeric and temporal precisions are not read.  *)
PostgresScalars ==
    "boolean" :> Plain("Boolean") @@
    "smallint" :> StorageType("Integer", <<"2">>) @@
    "integer" :> StorageType("Integer", <<"4">>) @@
    "bigint" :> StorageType("Integer", <<"8">>) @@
    "real" :> StorageType("Float", <<"4">>) @@
    "double precision" :> StorageType("Float", <<"8">>) @@
    "uuid" :> Plain("Uuid") @@
    "bytea" :> Plain("Blob") @@
    "numeric" :> Plain("Numeric") @@
    "date" :> Plain("Date") @@
    "time without time zone" :> StorageType("Time", <<"6">>) @@
    "timestamp without time zone" :> StorageType("DateTime", <<"6">>) @@
    "timestamp with time zone" :> StorageType("Timestamp", <<"6">>) @@
    "json" :> Plain("Json") @@
    "jsonb" :> Plain("Jsonb") @@
    "text" :> Plain("Text")

PostgresElements == {"smallint", "integer", "bigint", "boolean", "uuid", "text"}

PostgresArray(elem) ==
    IF elem = "character varying" THEN StorageType("List", <<"Text">>)
    ELSE IF elem \in PostgresElements
    THEN LET scalar == PostgresScalars[elem] IN StorageType("List", <<scalar.type>> \o scalar.of)
    ELSE Unreadable

PostgresType(native) ==
    CASE native.base \in DOMAIN PostgresScalars -> PostgresScalars[native.base]
      [] native.base = "character varying" ->
           IF native.args = <<>> THEN Plain("Text") ELSE StorageType("VarChar", native.args)
      [] native.base = "ARRAY" -> PostgresArray(native.args[1])
      [] native.base = "USER-DEFINED" -> StorageType("Custom", native.args)
      [] OTHER -> Unreadable

PostgresEquivalent(native, target) ==
    LET inferred == PostgresType(native) IN
    \/ inferred = target
    \/ inferred = Plain("Json") /\ target = StorageType("Document", <<"text">>)
    \/ inferred = Plain("Jsonb") /\ target = StorageType("Document", <<"binary">>)
    \/ inferred.type = "Integer" /\ target.type = "UnsignedInteger" /\ inferred.of = target.of

-----------------------------------------------------------------------------
(* MySQL: data_type and the arguments of column_type, which the code lower- *)
(* cases as a whole, the labels of an enum included.                        *)
Lower(s) ==
    CASE s = "New" -> "new" [] s = "Done" -> "done" [] OTHER -> s

MySqlIntegers ==
    "tinyint" :> "1" @@ "smallint" :> "2" @@ "mediumint" :> "4" @@ "int" :> "4" @@ "bigint" :> "8"
MySqlPlain ==
    "float" :> StorageType("Float", <<"4">>) @@ "double" :> StorageType("Float", <<"8">>) @@
    "text" :> Plain("Text") @@ "blob" :> Plain("Blob") @@
    "date" :> Plain("Date") @@ "json" :> Plain("Json")
MySqlTemporals == "time" :> "Time" @@ "datetime" :> "DateTime" @@ "timestamp" :> "Timestamp"
MySqlSized == "varchar" :> "VarChar" @@ "binary" :> "Binary"

Labels(native) == [i \in DOMAIN native.args |-> Lower(native.args[i])]

IntegerType(native) ==
    LET unsigned == Len(native.args) > 0 /\ native.args[Len(native.args)] = "unsigned" IN
    IF native = [base |-> "tinyint", args |-> <<"1">>] THEN Plain("Boolean")
    ELSE StorageType(IF unsigned THEN "UnsignedInteger" ELSE "Integer", <<MySqlIntegers[native.base]>>)

MySqlType(native) ==
    CASE native.base \in DOMAIN MySqlIntegers -> IntegerType(native)
      [] native.base \in DOMAIN MySqlPlain -> MySqlPlain[native.base]
      [] native.base = "decimal" ->
           IF native.args = <<>> THEN Unreadable
           ELSE StorageType("Numeric", IF Len(native.args) = 1 THEN Append(native.args, "0") ELSE native.args)
      [] native.base \in DOMAIN MySqlSized ->
           IF native.args = <<>> THEN Unreadable ELSE StorageType(MySqlSized[native.base], native.args)
      [] native.base \in DOMAIN MySqlTemporals ->
           StorageType(MySqlTemporals[native.base], IF native.args = <<>> THEN <<"0">> ELSE native.args)
      [] native.base = "enum" ->
           IF native.args = <<>> THEN Unreadable ELSE StorageType("Enum", Labels(native))
      [] OTHER -> Unreadable

MySqlEquivalent(native, target) ==
    \/ MySqlType(native) = target
    \/ target.type \in {"Document", "List"} /\ native.base = "json"
    \/ target.type = "VarChar" /\ native = [base |-> "varchar", args |-> target.of]

-----------------------------------------------------------------------------
Inferred(backend, native) ==
    CASE backend = "sqlite" -> SqliteType(native)
      [] backend = "postgresql" -> PostgresType(native)
      [] backend = "mysql" -> MySqlType(native)

Equivalent(backend, native, target) ==
    CASE backend = "sqlite" -> SqliteEquivalent(native, target)
      [] backend = "postgresql" -> PostgresEquivalent(native, target)
      [] backend = "mysql" -> MySqlEquivalent(native, target)

\* normalize: a column the target knows (targets is {its type}, or {} when it
\* does not) gets the target's type if its native type is equivalent.
ReadType(backend, native, targets) ==
    LET inferred == Inferred(backend, native) IN
    IF inferred # Unreadable /\ \E t \in targets : Equivalent(backend, native, t)
    THEN CHOOSE t \in targets : TRUE
    ELSE inferred
=============================================================================
