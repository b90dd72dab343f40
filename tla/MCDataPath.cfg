SPECIFICATION PlaneSpec
CONSTANTS
    Nodes = {"a", "b", "c", "d"}
    None = None
    MaxMetric = 3
    MaxCount = 1
    Configs <- TheConfigs
    Clients = {"a", "b"}
    Ports = {1}
    Loads <- TheLoads
    MaxFlight = 2
    MaxFaults = 2
    Buffers <- TheBuffers
    Numbers <- TheNumbers
    Strings <- TheStrings
    MaxWrites = 2
    Conns = {1, 2}
    RouteKeys = {1, 2, 3}
    QueueCap = 2
    ConnectCap = 1
    RebindInterval = 2
    MaxBreaks = 1
INVARIANTS Openable Reaches RoomToSeal AnswersComeBack ReadsBack RecordsFound ChecksumRight
PROPERTIES NotAstray Implements Drains AnsweredInTheEnd StreamReconnects OrphansEnd
CHECK_DEADLOCK FALSE
