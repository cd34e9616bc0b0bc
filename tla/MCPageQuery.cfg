CONSTANTS
    Rows <- MCRows
    Specs <- MCSpecs
    Requests <- MCRequests
    MaxU64 = 7
    MaxUsize = 5
    MaxWrites = 1
SPECIFICATION Spec
INVARIANTS
    WalkIsExact
    PageIsAsAnnounced
    DefaultsWork
CHECK_DEADLOCK FALSE
