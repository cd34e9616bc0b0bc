CONSTANTS
    p1 = p1
    p2 = p2
    Processes = {p1, p2}
    Sources <- MCSources
    Scenarios <- MCLedgerScenarios
    MaxForeign = 0
    NativeTypes <- MCNativeTypes
    StorageTypes <- MCStorageTypes
    Declared <- MCDeclared
    Casts <- MCCasts
    Stores <- MCStores
    Settling <- MCSettling
SPECIFICATION Spec
PROPERTIES
    InternalTablesSurvive
