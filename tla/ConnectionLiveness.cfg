CONSTANTS
    Callers = {c1, c2, c3}
    Recoverers = {r1, r2}
    CallerOps <- BothCalls
    HasSubscriptions = FALSE
    Reconnect = TRUE
    UnsubscribeOnDisconnect = TRUE
    FiniteTimeouts = FALSE
    LinkFails = TRUE
    Apart = TRUE
    ArrivalErrors = FALSE
    MaxLate = 2
SPECIFICATION FairSpec
CHECK_DEADLOCK FALSE
PROPERTIES SuccessIsOwnAnswer CallsReturn RecoveryCompletes
