CONSTANTS
    Threads = {t1}
    NameOrder <- TreeNames
    Keys <- TreeKeys
    PageSize = 2
    MaxIno = 4
    OtherClients = FALSE
    KeepsOpen = FALSE
    RemoteFails = FALSE
    LostReplies = FALSE
SPECIFICATION Spec
INVARIANTS TreeSound
PROPERTIES AbsentMeansNoKey
