SPECIFICATION Spec
CONSTANTS
    Ips = {ip1, ip2}
    Interval = 1
    Encrypt = TRUE
    ServerV6 = TRUE
    MaxNet = 1
    MaxDup = 1
    MaxForget = 0
    MayStop = TRUE
    None = None
INVARIANTS TunMatches
CONSTRAINT Unmixed
SYMMETRY Addresses
