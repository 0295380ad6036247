\* Uploads, syncs and deletes of one API process, with and without a queue.
SPECIFICATION Spec
CONSTANTS
    f1 = f1
    f2 = f2
    c1 = c1
    c2 = c2
    scan = scan
    r1 = r1
    r2 = r2
    r3 = r3
    Truncated = Truncated
    None = None
    Names <- MCNames
    Contents <- MCContents
    Pages <- MCPages
    ChunkSize = 4
    Overlap = 1
    Requests <- MCRequests
SYMMETRY Symmetry
INVARIANTS
    TypeOK
    ChunksCoverText
    UnfinishedIsOwned
    AloneAgrees
PROPERTIES
    EntriesLeaveByRequest
CHECK_DEADLOCK FALSE
