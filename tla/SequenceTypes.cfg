SPECIFICATION DataPathSpec
CONSTANTS
    Parts = {"sequences"}
    FilterLevels <- MCFilterLevels
    TopicLevels <- NamesOrEmpty
    MaxLevels = 3
    TransformKinds = {"json serializer", "json deserializer", "field serializer", "field deserializer"}
    BufferBounds = {0, 3}
    UnboundedMember = 0
    InitialSize = 3
    SampleMembers = {"a", "b"}
    BufferMember = "a"
    SampleInputs <- MCSampleInputs
    MaxBatch = 2
    Transforms = {t1, t2, t3}
    ForwardKeys <- MCForwardKeys
    FnMatch <- MCFnMatch
    ForwardTables <- MCForwardTables
    MemberTables <- MCMemberTables
    RouteInputs <- MCRouteInputs
    RouteOutputs = {"x", "y"}
    InputMembers <- MCInputMembers
    SampleValues = {"a", "", "no key"}
    NoString = ""
    NoKey = "no key"
    MaxTaken = 2
    ByteBase = 2
    Huge = 1000
    FloatExact = 8
    LongDoubleExact = 256
    ModbusUses <- MCModbusUses
    MaxVector = 3
    SequenceUses <- MCSequenceUses
    MaxSamples = 2
    PropertyTexts <- MCPropertyTexts
    PropertyGroups <- MCPropertyGroups
    Numerals = {"0", "7", "10"}
    SslUris = {"ssl:b"}
INVARIANT
    AcceptedTypesAgree
CHECK_DEADLOCK FALSE
