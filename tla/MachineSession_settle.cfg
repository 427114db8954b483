SPECIFICATION FairSpec
CONSTANTS
    a = a
    m = m
    Calls = {a, m}
    Channels = {m}
    MaxSessions = 1
    MaxStreams = 2
    Faults = {"silent", "closed", "version", "abort", "death"}
INVARIANTS
    UnavailableMeansNotExecuted
PROPERTIES
    EveryCallSettles
    AbandonedWorkStops
CHECK_DEADLOCK FALSE
