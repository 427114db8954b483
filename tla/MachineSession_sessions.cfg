SPECIFICATION Spec
CONSTANTS
    a = a
    m = m
    Calls = {a, m}
    Channels = {m}
    MaxSessions = 2
    MaxStreams = 1
    Faults = {"closed", "abort", "internal", "oversize"}
INVARIANTS
    TypeOK
    AnswersTheirOwnCall
    UnsentNeverRuns
    DaemonHasRoom
    CommandsGoneWhenDone
    LiveSessionIsCurrent
    IdleSessionIsArmed
