SPECIFICATION RunningSpec
CONSTANTS
    Ips = {ip1}
    Interval = 2
    Encrypt = FALSE
    ServerV6 = FALSE
    MaxNet = 1
    MaxDup = 1
    MaxForget = 0
    MayStop = TRUE
    None = None
PROPERTIES ServerLossNoticed
