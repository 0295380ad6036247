\* The containers of production, with directories of their own: two uploads of a name and a sync.
SPECIFICATION Spec
CONSTANTS
    f1 = f1
    f2 = f2
    c1 = c1
    c2 = c2
    w1 = w1
    h1 = h1
    h2 = h2
    h3 = h3
    Syncer = Syncer
    Manager = Manager
    None = None
    Files <- OneFile
    Contents <- MCContents
    Workers <- MCWorkers
    Hosts <- ThreeHosts
    ApiHosts <- OneHost
    Home <- Apart
    Foreign <- TakenOut
    MaxUploads = 2
    MaxEvents = 0
SYMMETRY ContentSymmetry
INVARIANTS
    LastUploadIsHeld
CHECK_DEADLOCK FALSE
