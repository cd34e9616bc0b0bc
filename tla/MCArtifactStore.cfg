\* One writer and a reader, three schema changes, every origin.
CONSTANTS
    Writers = {w1}
    Readers = {r1}
    Slugs = {"first", "second"}
    BaselineSlug = "observed"
    MaxChanges = 3
    NoHistory = NoHistory
    Torn = Torn
SPECIFICATION Spec
INVARIANTS
    TypeOK
    LineageIsWhole
    LineageIsReplayable
    LoadedIsWhole
PROPERTIES
    HistoryIsFinal
