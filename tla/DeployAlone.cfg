SPECIFICATION Spec
CONSTANTS
    d1 = d1
    d2 = d2
    d3 = d3
    wake = wake
    hib = hib
    rm = rm
    Deployers = {d1, d2, d3}
    EnvGivers = {d1}
    Wakers = {wake}
    Sleepers = {hib}
    Destroyers = {rm}
    Kinds = {"app", "worker"}
    First = First
    None = None
    StartsAs = {"undeployed", "sleeping", "running"}
    Faults = {"docker", "clean up", "build", "bad", "boot"}
    Concurrency = 1
    LastSecond = 3
    SameSecond = FALSE
SYMMETRY Alike
INVARIANT TypeOK
PROPERTY ProvesItsOwnBuild
INVARIANT DeploysRecover
CHECK_DEADLOCK FALSE
