SPECIFICATION Spec
CONSTANTS
    a = a
    m = m
    Calls = {a, m}
    Channels = {m}
    MaxSessions = 1
    MaxStreams = 2
    Faults = {"closed"}
INVARIANT ServersGoneWhenDone
