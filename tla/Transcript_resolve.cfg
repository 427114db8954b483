SPECIFICATION Spec
CONSTANTS
    None = None
    MaxAttempts = 1
    Calls = {"c1", "c2"}
    Bash = {}
    CallKinds = {"resolve"}
    PartIds = {None}
    MaxTokens = 0
    MaxSteps = 1
    MayStage = FALSE
    MayOverlap = FALSE
    MaxFailures = 0
CHECK_DEADLOCK FALSE
INVARIANTS
    ReplayKeepsCallOrder
