CONSTANTS
    t1 = t1
    t2 = t2
    base = base
    src = src
    alias = alias
    m = m
    NoTask = NoTask
    NoSource = NoSource
    NoModels = NoModels
    Tasks = {t1, t2}
    Codes = {base, src, alias}
    Base = base
    Sources = {src}
    AliasMaps <- MCAliasMaps
    ModelSets = {m}
    MaxVersion = 3
    Enabled = {1, 3}
    Operations <- MCOperations
    Apart <- MCApart
SPECIFICATION Spec
INVARIANTS
    TypeOK
    LoadLockHeld
    LoadOpensOnePool
    CachedIsNewestSeen
    AliasFollowsSource
PROPERTIES
    FailureWritesNothing
    DisabledIsEvicted
SYMMETRY Callers
