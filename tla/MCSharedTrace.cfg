SPECIFICATION SharedSpec
CONSTANTS
    p1 = p1
    p2 = p2
    s1 = s1
    s2 = s2
    g1 = g1
    g2 = g2
    none = none
    some = some
    Page = {p1, p2}
    Slot = {s1, s2}
    Granule = {g1, g2}
    Tags = {none, some}
    NoTags = none
SYMMETRY symm
INVARIANTS
    TypeOK
    NoIdleRootBit
    SameTags
    LiveLinesAgree
PROPERTIES
    LeafTrafficOnlyForTags
    StoreSpec
    TracesSplitBaseline
    BaselineStoreSpec
    LeafTrafficIsTagCache
