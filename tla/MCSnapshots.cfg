SPECIFICATION StudySpec
CONSTANTS
    Requests = 4
    Points <- MCPoints
    Blocks = 2
    N = 3
    Costs = {0, 1, 2}
    TableSize = 3
    MaxN = 5
    MaxDivisions = 4
INVARIANTS
    LogsPaired
    TablesPaired
    ImagesComplete
    SingleSnapshot
    PiecesAreTables
    DivisionsReached
CHECK_DEADLOCK FALSE
