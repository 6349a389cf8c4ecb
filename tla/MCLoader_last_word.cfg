CONSTANTS
    NULL = NULL
    AddrSpace = 64
    WordSize = 2
    Files <- LoaderFiles
SPECIFICATION ImageSpec
INVARIANT SoundFilesLoad
CHECK_DEADLOCK FALSE
