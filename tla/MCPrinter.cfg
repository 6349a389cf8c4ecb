CONSTANTS
    NULL = NULL
    AddrSpace = 16
    WordSize = 2
    MinRun = 2
    Executables <- PrinterExecutables
SPECIFICATION PrinterSpec
INVARIANTS
    PrintedOnce
    LabelsPrinted
    VtableLabelsPrinted
    PrintedAsTraced
    PrinterStops
PROPERTIES
    PrinterEnds
CHECK_DEADLOCK FALSE
