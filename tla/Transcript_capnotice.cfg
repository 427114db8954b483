SPECIFICATION Spec
CONSTANTS
    None = None
    MaxAttempts = 1
    Calls = {"c1"}
    Bash = {}
    CallKinds = {"allow"}
    PartIds = {None}
    MaxTokens = 1
    MaxSteps = 1
    MayStage = FALSE
    MayOverlap = FALSE
    MaxFailures = 0
CHECK_DEADLOCK FALSE
INVARIANTS
    CapNoticeMeansAnswered
