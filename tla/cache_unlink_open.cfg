CONSTANTS
    Threads = {t1}
    NameOrder <- FileNames
    Keys <- FileKeys
    PageSize = 1
    MaxIno = 4
    OtherClients = FALSE
    KeepsOpen = TRUE
    RemoteFails = FALSE
    LostReplies = FALSE
SPECIFICATION Spec
INVARIANTS NoUseAfterFree
