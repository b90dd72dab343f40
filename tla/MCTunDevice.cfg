CONSTANTS
    Regs = {"main_udp", "tun1", "tun2", "tun3"}
    NameOf <- Names
    After <- Order
    StopsAll = {"main_udp", "tun1", "tun2", "tun3"}
    Drops = {"tun1", "tun2", "tun3"}
    Base = {"main_udp"}
    Waiters = {"w", "u"}
    Timed = {"u"}
    Receivers = {"main_udp"}
    Tuns = {"tun1", "tun2", "tun3"}
    None = None
CHECK_DEADLOCK FALSE
SPECIFICATION TunFairSpec
INVARIANTS NoLostSignal StopsBeforeStart OneReader WorkerInCell
PROPERTIES KeepsPromise DeadDeviceNoticed StopCompletes
