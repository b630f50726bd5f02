SPECIFICATION StatsSpec
CONSTANTS
    p1 = p1
    p2 = p2
    s1 = s1
    s2 = s2
    g1 = g1
    g2 = g2
    none = none
    some = some
    line = line
    Page = {p1, p2}
    Slot = {s1, s2}
    Granule = {g1, g2}
    Tags = {none, some}
    NoTags = none
    twsSize = 1
    useTrueLRU = TRUE
    RootLines = {line}
    rootLineOf <- SharedLine
SYMMETRY symm
INVARIANTS
    TypeOK
    AllocatedCoversTags
PROPERTIES
    OthersChangeOnlyByWipe
    DramDiscipline
    CountsExplainAllocated
    PeakReported
