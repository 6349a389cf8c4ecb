CONSTANTS
    NULL = NULL
    AddrSpace = 16
    WordSize = 2
    Executables <- FlowExecutables
SPECIFICATION Spec
INVARIANT CodeEndsAtLabelOrJump
CHECK_DEADLOCK FALSE
