CONSTANTS
    MaxLen = 2
    OldLen = 1
    MaxHandles = 2
    MaxIno = 2
    MaxFails = 1
    MaxDirs = 1
    MaxBackground = 2
    EarlyUnlink = FALSE
SPECIFICATION FairSpec
INVARIANTS TypeOK  
PROPERTIES SizeCatchesUp  
