CONSTANTS
    Names = {a, b}
    MaxHandles = 2
    BufBytes = 2
    EntryBytes = 1
    SplitDots = FALSE
    MaxSeeks = 1
    MaxFails = 1
SPECIFICATION FairSpec
INVARIANTS TypeOK EachNameOnce 
PROPERTIES ImplementsListing 
