SPECIFICATION FairSpec
CONSTANTS
    MaxGen = 2
    Width = 2
    Cap = 2
    MaxRecv = 2
INVARIANTS NoLostSockets
PROPERTIES SocketsFollow StopEnds LaterSocketsRead
CHECK_DEADLOCK FALSE
