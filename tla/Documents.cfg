\* Uploads, a sync and a delete side by side over two names and two contents.
SPECIFICATION Spec
CONSTANTS
    f1 = f1
    f2 = f2
    c1 = c1
    c2 = c2
    w1 = w1
    h1 = h1
    h2 = h2
    h3 = h3
    Syncer = Syncer
    Manager = Manager
    None = None
    Files <- MCFiles
    Contents <- MCContents
    Workers <- MCWorkers
    Hosts <- OneHost
    ApiHosts <- OneHost
    Home <- AtOneHost
    Foreign <- TakenOut
    MaxUploads = 2
    MaxEvents = 1
SYMMETRY Symmetry
INVARIANTS
    TypeOK
    HistoryIsComplete
    DerivedOrOwed
    IndexFollowsFile
PROPERTIES
    CatalogSpec
CHECK_DEADLOCK FALSE
