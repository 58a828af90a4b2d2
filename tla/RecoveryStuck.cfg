CONSTANTS
    Callers = {c1}
    Recoverers = {r1, r2}
    CallerOps <- ConnectOnly
    HasSubscriptions = TRUE
    Reconnect = TRUE
    UnsubscribeOnDisconnect = TRUE
    FiniteTimeouts = FALSE
    LinkFails = TRUE
    Apart = TRUE
    ArrivalErrors = FALSE
    MaxLate = 2
SPECIFICATION FairSpec
CHECK_DEADLOCK FALSE
PROPERTIES RecoveryCompletes
