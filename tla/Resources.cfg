SPECIFICATION SpecResources
SYMMETRY Symmetry
CONSTANTS
    shop = shop
    site = site
    slot1 = slot1
    slot2 = slot2
    Names = {shop, site}
    Ports = {1, 2, 3}
    Slots = {slot1, slot2}
    MaxBegun = 3
    MaxMishaps = 1
    BindWorkers = {"w1", "w2"}
    BindQueues = {"q1", "q2"}
    BindManifests <- Declared
    BindDeploys = {slot1, slot2}
    BindMaxRows = 2
    BindMaxBegun = 3
    CmdUsers = {"u1", "u2"}
    CmdAsks <- Verbs
    CmdMaxBegun = 3
    CmdMaxIds = 5
    CmdMaxLost = 1
INVARIANTS
    ResourcesAreAccountedFor
    CommandsKeepTheirWord
PROPERTIES
    BindingsStand
CHECK_DEADLOCK FALSE
