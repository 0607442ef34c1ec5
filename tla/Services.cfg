SPECIFICATION SpecInstances
CONSTANTS
    Onlines = {"on"}
    Offlines = {"off"}
    Restores = {"r1", "r2", "r3"}
    Branches = {"branch"}
    Deletes = {"rm"}
    Sleeps = {"sleep"}
    Snapshots = {"s1", "s2"}
    Of <- OfSnapshot
    Casts <- Pairs
    Faults <- Befalls
    Wakes = 1
    Absent = Absent
    Nobody = "nobody"
    SignInRequests = {"r1", "r2"}
    SignInAddresses = {"a", "b"}
    SignInIdle = 1
    SignInAbsolute = 2
    SignInMaxDelay = 2
    SignInMaxTracked = 1
    SignInMaxTime = 3
    SignInMaxPasswords = 2
    SignInMaxSessions = 1
    SignInMaxBegun = 2
    SignInMaxRestarts = 1
    TokenHandlers = {"h1", "h2"}
    TokenCommands = {"c1"}
    TokenNames = {"n1", "n2"}
    TokenMaxSecrets = 1
    TokenMaxBegun = 3
    GatePieces = {"", "v1", "studio", "login", "health", "assets", "app", "x"}
    GateLongest = 3
    SendNames = {"p", "q"}
    SendRequests = {"r1", "r2"}
    SendMaxProjects = 3
    SendMaxQueues = 3
    SendMaxBegun = 2
    DoorNetworks = {"n1", "n2"}
    DoorLocal = {"lo"}
    DoorCalls = {"c1", "c2"}
    DoorMaxFaults = 1
    DoorMaxCalls = 2
    DoorMaxStarts = 2
    WireScripts <- ClientsSay
    WireSessions <- BackendsSay
    WireNegotiations = 2
    WireMaxDials = 2
    AddressProjectNames <- MyNames
    AddressDatabaseNames <- TheirDatabases
    AddressComputeNames <- TheirComputes
    AddressComputes <- Kinds
    AddressPorts = {1, 2, 3, 4}
    AddressMaxIds = 4
    CertClients = {"c1", "c2"}
    CertMaxVersion = 3
    CertMaxFaults = 1
    LockProcs = {"d1", "d2"}
    LockPids = {"pid1", "pid2"}
    LockNobody = "nobody"
    LockUser <- TwoUsers
    LockRoot = "root"
    LockFaults = {"crash", "reuse"}
INVARIANTS
    DataIsSafe
    SignInsAreSound
    TokensAreSound
    GateIsSound
    SendsAreSound
    FramingIsExact
    AddressesLead
    TlsIsSound
    LockIsSound
PROPERTIES
    DoorsAreSound
CHECK_DEADLOCK FALSE
