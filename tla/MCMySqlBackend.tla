--------------------------- MODULE MCMySqlBackend ---------------------------
(* Instances of MySqlBackend for TLC: two processes, two sessions, two or three migrations. *)
EXTENDS MySqlBackend, TLC

CONSTANTS p1, p2, c1, c2

one == [id |-> 1, name |-> "one"]
two == [id |-> 2, name |-> "two"]
other == [id |-> 2, name |-> "other"]

MCMigrations == {one, two, other}
MCArtifacts == {{one}, {one, two}, {one, other}}
MCReversible == {one, two}
MCBaselines == {one}
MCOperations == {"apply", "adopt", "rollback", "sync"}
\* Rollbacks run alone.
MCApart == {{"rollback", op} : op \in {"apply", "adopt"}}

Symmetry == Permutations({p1, p2}) \cup Permutations({c1, c2})
=============================================================================
