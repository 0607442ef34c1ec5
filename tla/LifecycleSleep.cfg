SPECIFICATION QuietGuardSpec
CONSTANTS
    db = db
    app = app
    NoDb = NoDb
    Nobody = Nobody
    Reconciler = Reconciler
    Created <- DbThenApp
    Bound <- AppUsesDb
    Postgres = {db}
    Wanted = {app}
    Starters = {}
    Stoppers = {}
    Snaps = {}
    Sleepers = {hibernator}
    Clients = {client1}
    Faults = {"docker", "boot"}
INVARIANT TypeOK
INVARIANT UndisturbedAppKeepsItsDatabase
PROPERTY RefusedIsNotWoken
PROPERTY UnusedSleeps
