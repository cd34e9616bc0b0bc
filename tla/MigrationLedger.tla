-------------------------- MODULE MigrationLedger --------------------------
(***************************************************************************)
(* What the migration ledger of one source promises, whatever the backend: *)
(* it holds an initial segment of a released artifact set, it grows by the *)
(* next migration of one and shrinks by its newest row, and nothing moves  *)
(* it any more once an interrupted run has left the schema in doubt.       *)
(***************************************************************************)
EXTENDS Naturals

CONSTANT Artifacts      \* released artifact sets, sets of [id, name] records

VARIABLES
    rows,               \* the migrations the ledger lists
    inDoubt             \* a run was interrupted half-way

vars == <<rows, inDoubt>>

IsSegment(r, artifact) ==
    r \subseteq artifact /\ \A m \in r, n \in artifact : n.id < m.id => n \in r

Init == rows = {} /\ inDoubt = FALSE

Add ==
    /\ ~inDoubt
    /\ \E artifact \in Artifacts : \E m \in artifact \ rows :
          IsSegment(rows, artifact) /\ IsSegment(rows \cup {m}, artifact) /\ rows' = rows \cup {m}
    /\ UNCHANGED inDoubt

Remove ==
    /\ ~inDoubt
    /\ \E m \in rows : (\A n \in rows : n.id <= m.id) /\ rows' = rows \ {m}
    /\ UNCHANGED inDoubt

Interrupt == inDoubt' = TRUE /\ UNCHANGED rows

Next == Add \/ Remove \/ Interrupt

Spec == Init /\ [][Next]_vars
=============================================================================
