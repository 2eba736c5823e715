\* One backup after another; reading, storing and flushing may fail.
CONSTANTS
    c1 = c1
    c2 = c2
    c3 = c3
    Chunk <- Chunks
    Backups = {b1}
    Files <- Lengths
    Resembles <- LikeTheFirst
    Capacity = 1
    ReadCanFail = TRUE
    StoreCanFail = TRUE
SPECIFICATION FairSpec
PROPERTIES
    BackupReturns
    WriterEnds
