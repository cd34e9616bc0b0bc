CONSTANTS
    NoCode = NoCode
    Tasks = {t1, t2}
    Codes = {a, b}
    PoolSize = 1
    Timed = {b}
    MaxAttempts = 2
SPECIFICATION FairSpec
INVARIANTS
    TypeOK
    SuccessIsComplete
    ErrorLeavesNothing
    ConnectionsReturned
PROPERTIES
    CallsReturn
