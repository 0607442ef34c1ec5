SPECIFICATION FairSpec
CONSTANTS
    d1 = d1
    d2 = d2
    d3 = d3
    wake = wake
    hib = hib
    rm = rm
    Deployers = {d1, d2}
    EnvGivers = {}
    Wakers = {wake}
    Sleepers = {}
    Destroyers = {}
    Kinds = {"app", "worker"}
    First = First
    None = None
    StartsAs = {"undeployed"}
    Faults = {"docker", "build", "bad", "boot", "daemon"}
    Concurrency = 2
    LastSecond = 2
    SameSecond = FALSE
INVARIANT UndeployedIsBare
INVARIANT BuildsAreSerial
PROPERTY DeploysSettle
CHECK_DEADLOCK FALSE
