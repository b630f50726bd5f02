SPECIFICATION Spec
CONSTANTS
    BYTE = 2
    LINE = 4
    EIGHT = 2
    ROOT_LINES = 8
    InitialFiles <- MCInitialFiles
INVARIANTS
    TypeOK
    SetsUp
    DumpLayout
