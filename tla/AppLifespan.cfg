SPECIFICATION FairSpec
CONSTANTS
    lifespan = lifespan
    refresher = refresher
    r1 = r1
    r2 = r2
    Lifespan <- lifespan
    Refresh <- refresher
    Requests <- MCRequests
    Tasks <- MCTasks
    MaxVersion = 3
INVARIANTS
    TypeOK
    NeverTwoPools
    CleanStop
    RequestsHaveASchema
PROPERTIES
    NeverOlder
    PicksUpMigrations
    ShutdownEnds
CHECK_DEADLOCK FALSE
