CONSTANTS
    Threads = {t1}
    NameOrder <- FileNames
    Keys <- FileKeys
    PageSize = 1
    MaxIno = 3
    OtherClients = TRUE
    KeepsOpen = FALSE
    RemoteFails = FALSE
    LostReplies = FALSE
SPECIFICATION FairSpec
PROPERTIES RefreshExact HandlerReturns
