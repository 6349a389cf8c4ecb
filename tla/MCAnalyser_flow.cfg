CONSTANTS
    NULL = NULL
    AddrSpace = 16
    WordSize = 2
    Executables <- FlowExecutables
SPECIFICATION Spec
INVARIANTS
    RegionsPartition
    RegionsMaximal
    InsertAsserts
    TargetsLabelled
    CodeIsTraced
PROPERTIES
    Termination
CHECK_DEADLOCK FALSE
