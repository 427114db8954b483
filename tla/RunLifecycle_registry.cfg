SPECIFICATION Spec
CONSTANTS
    Runs = {r1}
    Messages = {m1}
    Deliveries = {d1, d2}
    None = None
    Processes = {api}
    Api = api
    RetryLimit = 1
    MayStall = TRUE
    MaxErrors = 0
    MaxCrashes = 0
SYMMETRY Symmetry
INVARIANTS
    CancelReachesWorker
CHECK_DEADLOCK FALSE
