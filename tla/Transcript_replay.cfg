SPECIFICATION Spec
CONSTANTS
    None = None
    MaxAttempts = 1
    Calls = {"c1", "c2"}
    Bash = {}
    CallKinds = {"allow"}
    PartIds = {"p1", "p2"}
    MaxTokens = 2
    MaxSteps = 2
    MayStage = TRUE
    MayOverlap = FALSE
    MaxFailures = 0
INVARIANTS
    ReplayMatchesLive
    ReplyProjectsLog
    ItemsKeepTheirPlace
CHECK_DEADLOCK FALSE
