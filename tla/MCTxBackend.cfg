CONSTANTS
    p1 = p1
    p2 = p2
    c1 = c1
    c2 = c2
    NoConnection = NoConnection
    NoTx = NoTx
    Processes = {p1, p2}
    Connections = {c1, c2}
    Statements = 2
    Migrations <- MCMigrations
    Artifacts <- MCArtifacts
    Reversible <- MCReversible
    Operations <- MCOperations
    Apart <- MCApart
    Initial <- MCInitial
    Backends = {"sqlite", "postgresql"}
    Excluded <- MCExcluded
SPECIFICATION Spec
INVARIANTS
    TypeOK
    SchemaMatchesLedger
    OneWriter
    NothingAbandonedIsCommitted
PROPERTIES
    LedgerSpec
SYMMETRY Symmetry
