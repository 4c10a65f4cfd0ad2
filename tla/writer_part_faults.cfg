SPECIFICATION FairSpec
CONSTANTS
    PartSize = 3
    MPartSize = 3
    WriteSizes = {1, 2, 3}
    MaxFileSize = 8
    FaultyOps = {"minit", "mput", "put_file", "mfinish"}
    MaxFaults = 3
    MayStraddle = FALSE
INVARIANTS
    PartsWithinBuffer
PROPERTIES
    UploadedPartsKept
    HandlerReturns
\* A handle is closed, or its process dead, for good.
CHECK_DEADLOCK FALSE
