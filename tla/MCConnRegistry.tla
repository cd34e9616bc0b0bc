--------------------------- MODULE MCConnRegistry ---------------------------
(* Instances of ConnRegistry for TLC: two callers, one source, an alias. *)
EXTENDS ConnRegistry, TLC

CONSTANTS t1, t2, base, src, alias, m

MCTasks == {t1, t2}
MCCodes == {base, src, alias}
MCAliasMaps == {NoAliases, [NoAliases EXCEPT ![alias] = src]}
\* A chain, and an alias that takes the name of a source.
LiveAliasMaps == MCAliasMaps \cup {[NoAliases EXCEPT ![alias] = src, ![src] = base],
                                  [NoAliases EXCEPT ![src] = base]}
Callers == Permutations(MCTasks)

MCEnabled == {1, 3}
MCOperations == {"get", "reload", "add", "init_alias", "remove", "clear", "set_models", "unregister"}
\* Registrations run next to no load or reload, init_alias next to neither.
MCApart == {{"add", op} : op \in {"get", "reload", "add", "init_alias"}}
           \cup {{"init_alias", op} : op \in {"get", "reload", "init_alias"}}

\* The liveness run: an application that also brings connections of its own.
LiveOperations == {"get", "reload", "add", "add_db", "init_alias", "remove", "set_models"}
LiveApart == {{"add", op} : op \in LiveOperations} \cup {{"init_alias", op} : op \in LiveOperations}

=============================================================================
