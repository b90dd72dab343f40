SPECIFICATION FairSpec
CONSTANTS
    Periodic = {gateway, nat}
    Delayed = {heartbeat, idle}
    Start = start
    Cap = 6
    None = None
INVARIANTS NeverFull ArmedOnce
PROPERTIES KeepsRunning StopEndsTimer
CHECK_DEADLOCK FALSE
