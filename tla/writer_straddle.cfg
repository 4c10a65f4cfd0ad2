SPECIFICATION Spec
CONSTANTS
    PartSize = 3
    MPartSize = 3
    WriteSizes = {1, 2, 3}
    MaxFileSize = 8
    FaultyOps = {}
    MaxFaults = 0
    MayStraddle = TRUE
INVARIANTS
    PartsWithinBuffer
\* A handle is closed, or its process dead, for good.
CHECK_DEADLOCK FALSE
