CONSTANTS
    NULL = NULL
    AddrSpace = 65536
    WordSize = 2
    MinRun = 2
    LineBytes = 3
    DataRegions <- MCDataRegions
SPECIFICATION TextSpec
INVARIANTS
    TextWellFormed
    RelocsWritten
PROPERTIES
    ImplementsDump
    ImplementsPrinter
CHECK_DEADLOCK FALSE
