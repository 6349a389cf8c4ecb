CONSTANTS
    NULL = NULL
    AddrSpace = 16
    WordSize = 2
    MinRun = 2
    Executables <- PrinterExecutables
SPECIFICATION PrinterSpec
INVARIANT RefsDefined
CHECK_DEADLOCK FALSE
