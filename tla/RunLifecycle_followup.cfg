SPECIFICATION Spec
CONSTANTS
    Runs = {r1, r2}
    Messages = {m1}
    Deliveries = {d1, d2}
    None = None
    Processes = {api}
    Api = api
    RetryLimit = 0
    MayStall = TRUE
    MaxErrors = 0
    MaxCrashes = 0
SYMMETRY Symmetry
INVARIANTS
    SingleFlight
    CompletedRunHasAnswer
    TerminalRunHasFinalReply
    ClearedSlotIsFree
PROPERTIES
    AnswerNeverLost
CHECK_DEADLOCK FALSE
