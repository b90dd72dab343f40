SPECIFICATION FairSpec
CONSTANTS
    Channels = {1}
    ChannelNums = {1, 2}
    MaxInterval = 1
    MaxIntervalP2p = 2
    MaxRecord = 6
    EarlyRounds = 1
    MaxDrops = 1
    None = None
INVARIANTS TwoWay
PROPERTY Connects
