CONSTANTS
    Subs <- TwoSubs
    Filter <- OwnFilters
    FiniteTimeouts = TRUE
    CleanSession = TRUE
    Rings = {"s1"}
    MaxUnread = 2
    MaxLate = 1
SPECIFICATION Spec
CHECK_DEADLOCK FALSE
INVARIANTS ResubmissionIsCurrent ActiveIsOnBroker RegisteredIsAlive UnreadIsNotified
