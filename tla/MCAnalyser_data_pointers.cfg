CONSTANTS
    NULL = NULL
    AddrSpace = 16
    WordSize = 2
    Executables <- RelocExecutables
SPECIFICATION Spec
INVARIANT DataPointersLabelled
CHECK_DEADLOCK FALSE
