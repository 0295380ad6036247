\* Two runs, an uploader and a reader over two objects, with one fault.
SPECIFICATION FairSpec
CONSTANTS
    o1 = o1
    o2 = o2
    m1 = m1
    m2 = m2
    up1 = up1
    r1 = r1
    None = None
    Keys <- MCKeys
    Movers <- MCMovers
    Uploaders <- MCUploaders
    Readers <- MCReaders
    WarmDays = 1
    ColdDays = 2
    MaxFaults = 1
INVARIANTS
    TypeOK
    ReadsFind
    TierTellsBucket
PROPERTIES
    ObjectsKept
    DueIsMoved
