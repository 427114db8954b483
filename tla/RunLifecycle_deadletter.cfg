SPECIFICATION FairSpec
CONSTANTS
    Runs = {r1}
    Messages = {m1}
    Deliveries = {d1, d2}
    None = None
    Processes = {api}
    Api = api
    RetryLimit = 1
    MayStall = FALSE
    MaxErrors = 3
    MaxCrashes = 0
PROPERTIES
    DispatchedRunEnds
CHECK_DEADLOCK FALSE
