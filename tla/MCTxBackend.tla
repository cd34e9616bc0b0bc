----------------------------- MODULE MCTxBackend -----------------------------
(* Instances of TxBackend for TLC: two processes of different releases, three migrations. *)
EXTENDS TxBackend, TLC

CONSTANTS p1, p2, c1, c2

MCProcesses == {p1, p2}
MCConnections == {c1, c2}

one == [id |-> 1, name |-> "one"]
two == [id |-> 2, name |-> "two"]
three == [id |-> 3, name |-> "three"]
other == [id |-> 2, name |-> "other"]

MCMigrations == {one, two, three, other}
\* An older release, the current one, and a branch that took the same id.
MCArtifacts == {{one, two}, {one, two, three}, {one, other}}
MCReversible == {one, two, three}
MCOperations == {"apply", "adopt", "rollback"}
\* Rollbacks run alone.
MCApart == {{"rollback", op} : op \in {"apply", "adopt"}}
MCInitial == {[rows |-> {}, schema |-> Effects(S)] : S \in {{}, {one}}}

\* A pool of SQLite connections may show adoption the tables of a dropped call.
MCExcluded == {<<"sqlite", "adopt">>}

Symmetry == Permutations(MCProcesses) \cup Permutations(MCConnections)
=============================================================================
