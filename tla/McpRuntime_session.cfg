SPECIFICATION FairSpec
CONSTANTS
    MaxFaults = 2
    MaxFast = 1
    Calls = {c1, c2}
INVARIANTS
    TypeOK
    NoOrphanClient
    CatalogIsCurrent
    StaysScheduled
    CrashLoopSettles
PROPERTIES
    WithdrawnOnlyByItsOwn
    Recovers
    ShutdownCloses
CHECK_DEADLOCK FALSE
