SPECIFICATION Spec
CONSTANTS
    PartSize = 3
    MPartSize = 3
    WriteSizes = {1, 2, 3}
    MaxFileSize = 10
    FaultyOps = {"minit", "put_file", "mfinish"}
    MaxFaults = 2
    MayStraddle = FALSE
INVARIANTS
    TypeOK
    AckedBytesHeld
    ReleasedObjectExact
    ObjectOldOrWhole
    OnlyLastPartShort
PROPERTIES
    ImplementsUpload
\* A handle is closed, or its process dead, for good.
CHECK_DEADLOCK FALSE
