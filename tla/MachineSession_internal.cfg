SPECIFICATION Spec
CONSTANTS
    a = a
    b = b
    Calls = {a, b}
    Channels = {}
    MaxSessions = 1
    MaxStreams = 2
    Faults = {"internal"}
INVARIANT UnavailableMeansNotExecuted
