CONSTANTS
    Threads = {t1}
    NameOrder <- FlatNames
    Keys <- FlatKeys
    PageSize = 1
    MaxIno = 4
    OtherClients = FALSE
    KeepsOpen = FALSE
    RemoteFails = TRUE
    LostReplies = FALSE
SPECIFICATION Spec
INVARIANTS TypeOK CachedFilesExist ListingComplete KnownStaysCached
PROPERTIES RemovedIsGone
