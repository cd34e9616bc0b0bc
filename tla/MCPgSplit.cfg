CONSTANTS
    MaxElements = 3
    Samples <- MCSamples
SPECIFICATION SplitSpec
INVARIANTS
    TypeOK
    SplitsWhereStatementsEnd
PROPERTIES
    ScanEnds
CHECK_DEADLOCK FALSE
