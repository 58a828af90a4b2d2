SPECIFICATION KafkaReaderFairSpec
CONSTANTS
    KafkaMessages = 2
    KafkaFaults = 1
PROPERTIES
    KafkaErrorsAreInformational
CHECK_DEADLOCK FALSE
