CONSTANTS
    t1 = t1
    t2 = t2
    base = base
    src = src
    alias = alias
    m = m
    NoTask = NoTask
    NoSource = NoSource
    NoModels = NoModels
    Tasks = {t1, t2}
    Codes = {base, src, alias}
    Base = base
    Sources = {src}
    AliasMaps <- LiveAliasMaps
    ModelSets = {m}
    MaxVersion = 2
    Enabled = {1}
    Operations <- LiveOperations
    Apart <- LiveApart
SPECIFICATION FairSpec
PROPERTIES
    CallsReturn
