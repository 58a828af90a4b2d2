SPECIFICATION AdaptersSpec
CONSTANTS
    Parts = {"ring", "unbounded", "publication", "kafka reader", "kafka writer", "modbus", "mqtt"}
    Capacity = 3
    CounterModulus = 5
    CopySizes <- MCCopySizes
    CopyFailures = 2
    MaxReceived = 9
    NULL = NULL
    QosLevels = {0, 1, 2}
    FiniteTimeouts = TRUE
    \* Two late answers and the one being waited for stay below the modulus.
    MaxLate = 2
    KafkaMessages = 3
    KafkaFaults = 2
    KafkaSamples = 4
    KafkaQueueMax = 2
    ModbusSetups <- MCModbusSetups
    Constant = 0
    FirstSlave = 255
    MqttConnections = {c1, c2}
    MqttReaders = {r1, r2}
    MqttWriters = {w1}
INVARIANTS
    RingConsistent
    BacklogIsLatest
    CountersBalanced
    UnboundedBacklogIsLatest
    AnswersCounted
    PendingIsUnanswered
    KafkaOneTurn
    KafkaPayloadIsLive
    ModbusOwnDevice
    ModbusSampleIsWhole
    MqttEntitiesAreListed
PROPERTIES
    PartialRingDrains
    ImplementsMessageQueue
    UnboundedImplementsMessageQueue
    WriteReportsItsAnswer
    WritesReturn
    KafkaMessagesAreRead
    KafkaDeletionEnds
    KafkaWritesReturn
    ModbusDeletionEnds
CHECK_DEADLOCK FALSE
