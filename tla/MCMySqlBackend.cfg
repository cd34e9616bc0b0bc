CONSTANTS
    p1 = p1
    p2 = p2
    c1 = c1
    c2 = c2
    NoConnection = NoConnection
    Processes = {p1, p2}
    Connections = {c1, c2}
    Statements = 2
    Migrations <- MCMigrations
    Artifacts <- MCArtifacts
    Reversible <- MCReversible
    Baselines <- MCBaselines
    Operations <- MCOperations
    Apart <- MCApart
SPECIFICATION FairSpec
INVARIANTS
    TypeOK
    MigrationLock
    DoubtIsMarked
    MarkerIsExact
    NoGuessedRetry
PROPERTIES
    LedgerSpec
    CallsEnd
