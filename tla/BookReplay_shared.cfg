SPECIFICATION Spec
CONSTANTS
    Symbols = {s1, s2}
    Channels = FALSE
    MaxSeq = 6
    MaxConns = 1
CHECK_DEADLOCK FALSE
INVARIANT StaleBookInvalidated
