SPECIFICATION Spec
CONSTANTS
    Writers = {w1}
    Settler = settler
    Sse = {sse}
    Ui = {}
    MaxEvents = 3
    MaxBreaks = 0
INVARIANTS
    NothingLost

CHECK_DEADLOCK FALSE
