SPECIFICATION FairSpec
CONSTANTS
    Ips = {ip1}
    Interval = 2
    Encrypt = FALSE
    ServerV6 = FALSE
    MaxNet = 1
    MaxDup = 0
    MaxForget = 1
    MayStop = FALSE
    None = None
PROPERTIES KeepsReconnecting ServerLearnsAgain
