SPECIFICATION FairSpec
CONSTANTS
    Writers = {w1, w2}
    Settler = settler
    Sse = {sse}
    Ui = {ui}
    MaxEvents = 3
    MaxBreaks = 1
INVARIANTS
    DeliveredInOrder
    OnlyLateLost
    TerminalSurfacesInOrder
    UiSeesTerminal
PROPERTIES
    ReadersEnd
CHECK_DEADLOCK FALSE
