CONSTANTS
    NULL = NULL
    AddrSpace = 64
    WordSize = 2
    Files <- LoaderFiles
SPECIFICATION ImageSpec
INVARIANTS
    FixupsExact
    LoadedIffSound
    ImageExact
    WritesInside
PROPERTIES
    LoadEnds
CHECK_DEADLOCK FALSE
