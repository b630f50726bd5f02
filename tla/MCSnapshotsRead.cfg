SPECIFICATION StudySpec
CONSTANTS
    Requests = 4
    Points <- AscendingPoints
    Blocks = 2
    N = 3
    Costs = {1, 2}
    TableSize = 3
    MaxN = 5
    MaxDivisions = 4
INVARIANT
    SnapshotsPaired
CHECK_DEADLOCK FALSE
