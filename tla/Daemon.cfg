SPECIFICATION SpecDaemon
CONSTANTS
    daemon1 = daemon1
    daemon2 = daemon2
    userA = userA
    userR = userR
    Nobody = Nobody
    Procs = {daemon1, daemon2}
    Pids = {1, 2}
    User <- TwoUsers
    Root = userR
    Faults = {"crash", "reuse"}
PROPERTIES
    RequestsAreServed
    
    CalendarIsWalked
    LockIsServed
CHECK_DEADLOCK FALSE
