SPECIFICATION Spec
CONSTANTS
    FANOUT = 2
    WAYS = 3
    Schemes = {"flat", "etm", "phoenix"}
INVARIANTS
    ShownIffCached
    
CHECK_DEADLOCK FALSE
