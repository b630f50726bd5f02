SPECIFICATION StatsSpec
CONSTANTS
    p1 = p1
    p2 = p2
    s1 = s1
    s2 = s2
    g1 = g1
    none = none
    some = some
    Page = {p1, p2}
    Slot = {s1, s2}
    Granule = {g1}
    Tags = {none, some}
    NoTags = none
    twsSize = 1
    useTrueLRU = TRUE
SYMMETRY symm
PROPERTIES
    ReadTagTouchesPage
