SPECIFICATION VSpec
CONSTANTS
    p1 = p1
    s1 = s1
    g1 = g1
    g2 = g2
    Page = {p1}
    Slot = {s1}
    Granule = {g1, g2}
    Tags <- MCTags
    NoTags <- MCNoTags
    CHUNK_SIZE = 2
    Misses <- MCMisses
    Entries <- MCEntries
    MaxTrace = 3
    MaxN = 3
    LogIndices = {0, 1}
    Modes <- AllModes
INVARIANTS
    ServesWanted
    LogsAtPoints
    VerdictOnInitialState
PROPERTIES
    InOrder
    Finishes
