SPECIFICATION FairSpec
CONSTANTS
    Receivers = {mainUdp, subUdp}
    EpochMod = 3
    MaxChanges = 1
    MaxForgets = 1
    MaxFlight = 2
    None = None
INVARIANT MatchMeansEqual
PROPERTY ListCatchesUp
