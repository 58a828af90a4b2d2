CONSTANTS
    Callers = {c1}
    Recoverers = {r1}
    CallerOps <- BothCalls
    HasSubscriptions = TRUE
    Reconnect = TRUE
    UnsubscribeOnDisconnect = FALSE
    FiniteTimeouts = TRUE
    LinkFails = TRUE
    Apart = FALSE
    ArrivalErrors = TRUE
    MaxLate = 1
SPECIFICATION Spec
CHECK_DEADLOCK FALSE
SYMMETRY MCSymmetry
INVARIANTS ConnectingHasConnector
