CONSTANTS
    NULL = NULL
    AddrSpace = 16
    WordSize = 2
    Executables <- RelocExecutables
SPECIFICATION Spec
INVARIANTS
    TypeOK
    RegionHeld
    WorklistLabelled
    LabelsFollowed
    CodeStartsLabelled
    RelocsClassified
    DataObjectsStayData
    ReadsWithinObject
PROPERTIES
    CodeLabelsKept
    ImplementsByteMap
    Termination
CHECK_DEADLOCK FALSE
