CONSTANTS
    MaxLen = 1
    OldLen = 1
    MaxHandles = 1
    MaxIno = 1
    MaxFails = 0
    MaxDirs = 0
    MaxBackground = 2
    EarlyUnlink = TRUE
SPECIFICATION Spec
INVARIANTS RemovedStaysGone
