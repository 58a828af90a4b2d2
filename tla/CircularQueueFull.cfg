SPECIFICATION Spec
CONSTANTS
    Capacity = 3
    CounterModulus = 5
    CopySizes <- MCCopySizes
    CopyFailures = 0
    MaxReceived = 9
    NULL = NULL
INVARIANTS
    AvailableMessagesCanBeRead
CHECK_DEADLOCK FALSE
