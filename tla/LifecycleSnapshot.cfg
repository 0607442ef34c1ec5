SPECIFICATION FairSpec
CONSTANTS
    db = db
    app = app
    NoDb = NoDb
    Nobody = Nobody
    Reconciler = Reconciler
    Created <- DbThenApp
    Bound <- AppUsesDb
    Postgres = {db}
    Wanted = {app}
    Starters = {}
    Stoppers = {}
    Snaps = {snap1, snap2}
    Sleepers = {}
    Clients = {}
    Faults = {"docker", "boot"}
INVARIANT HoldIsExclusive
INVARIANT QuietCopyIsCold
PROPERTY SnapshotsLetGo
