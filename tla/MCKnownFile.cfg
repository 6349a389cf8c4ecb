CONSTANTS
    NULL = NULL
    AddrSpace = 16
    WordSize = 2
    Executables <- KnownExecutables
SPECIFICATION KnownSpec
INVARIANTS
    RegionsPartition
    RegionsMaximal
    KnownInsertAsserts
    KnownLabelsTraced
    KnownDataSkipped
    CodeStartsStayLabelled
PROPERTIES
    ImplementsByteMap
CHECK_DEADLOCK FALSE
