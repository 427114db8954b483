SPECIFICATION Spec
CONSTANTS
    Runs = {r1}
    Messages = {m1}
    Deliveries = {d1, d2}
    None = None
    Processes = {api}
    Api = api
    RetryLimit = 1
    MayStall = TRUE
    MaxErrors = 1
    MaxCrashes = 1
SYMMETRY Symmetry
INVARIANTS
    TypeOK
    RunNeverStranded
PROPERTIES
    KeepsDurableRunContract
    StaleAttemptNeverPublishes
    NativeEffectNeverReplayed
CHECK_DEADLOCK FALSE
