SPECIFICATION Spec
CONSTANTS
    None = None
    MaxAttempts = 2
    Calls = {"c1"}
    Bash = {"c1"}
    CallKinds = {"allow", "refuse", "resolve", "unavailable"}
    PartIds = {None}
    MaxTokens = 1
    MaxSteps = 1
    MayStage = FALSE
    MayOverlap = FALSE
    MaxFailures = 1
CHECK_DEADLOCK FALSE
INVARIANTS
    ReplyIsOneAttempt
    EveryCallHasOutcome
