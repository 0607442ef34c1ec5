SPECIFICATION Spec
CONSTANTS
    db = db
    app = app
    NoDb = NoDb
    Nobody = Nobody
    Reconciler = Reconciler
    Created <- JustDb
    Bound <- UsesNothing
    Postgres = {db}
    Wanted = {db}
    Starters = {starter1}
    Stoppers = {stopper1}
    Snaps = {snap1}
    Sleepers = {}
    Clients = {client1, client2}
    Faults = {"docker", "boot", "die", "daemon"}
INVARIANT RunningIsWatched
INVARIANT BeliefsAreTrue
