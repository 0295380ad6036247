\* Two requests at once while the document comes, goes and changes its readers.
SPECIFICATION Spec
CONSTANTS
    u1 = u1
    u2 = u2
    g1 = g1
    d1 = d1
    r1 = r1
    r2 = r2
    None = None
    Users <- MCUsers
    Owners <- MCOwners
    Groups <- MCGroups
    Docs <- MCDocs
    Requests <- MCRequests
    MaxGenerations = 2
SYMMETRY Symmetry
INVARIANTS
    TypeOK
    AnswersAreOpen
    StaleCacheHasCause
PROPERTIES
    AccessGrowsByGrant
