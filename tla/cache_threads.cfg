CONSTANTS
    Threads = {t1, t2}
    NameOrder <- FlatNames
    Keys <- FlatKeys
    PageSize = 1
    MaxIno = 2
    OtherClients = FALSE
    KeepsOpen = FALSE
    RemoteFails = TRUE
    LostReplies = TRUE
SPECIFICATION Spec
INVARIANTS TreeSound
 
SYMMETRY ThreadSymmetry
