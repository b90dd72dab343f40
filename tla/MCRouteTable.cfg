SPECIFICATION FairSpec
CONSTANTS
    Ids = {peer}
    Keys = {k1, k2, k3}
    Metrics = {1, 2}
    Rts = {1}
    DEFAULT_RT = 9
    ReadIdle = 1
    Receivers = {r1}
    None = None
INVARIANTS UniqueKeys
PROPERTIES ActsAsTable StaysMeasured DirectLostByExpiryOnly SilentRouteExpires
