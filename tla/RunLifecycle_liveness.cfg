SPECIFICATION FairSpec
CONSTANTS
    Runs = {r1}
    Messages = {m1}
    Deliveries = {d1, d2}
    None = None
    Processes = {api, worker}
    Api = api
    RetryLimit = 1
    MayStall = FALSE
    MaxErrors = 0
    MaxCrashes = 2
INVARIANTS
    CancelReachesWorker
PROPERTIES
    DispatchedRunEnds
CHECK_DEADLOCK FALSE
