CONSTANTS
    Callers = {c1, c2, c3}
    Recoverers = {}
    CallerOps <- BothCalls
    HasSubscriptions = TRUE
    Reconnect = FALSE
    UnsubscribeOnDisconnect = TRUE
    FiniteTimeouts = TRUE
    LinkFails = FALSE
    Apart = FALSE
    ArrivalErrors = FALSE
    MaxLate = 1
SPECIFICATION Spec
CHECK_DEADLOCK FALSE
SYMMETRY MCSymmetry
INVARIANTS StateIsLock
