CONSTANTS
    Regs = {"main_udp", "sub_udp", "tun1", "tun2"}
    NameOf <- Names
    After <- Order
    StopsAll = {"main_udp", "sub_udp", "tun1", "tun2"}
    Drops = {"tun1", "tun2"}
    Base = {"main_udp", "sub_udp"}
    Waiters = {}
    Timed = {}
    Receivers = {"main_udp", "sub_udp"}
    Tuns = {"tun1", "tun2"}
    None = None
CHECK_DEADLOCK FALSE
SPECIFICATION TunSpec
INVARIANTS StopsBeforeStart
