CONSTANTS
    NULL = NULL
    AddrSpace = 4194304
    Encodings <- MCEncodings
    Addresses = {0, 16, 1000, 70000, 4194300}
SPECIFICATION DecoderSpec
INVARIANT DecodedForAnalyser
CHECK_DEADLOCK FALSE
