\* Two calls that may overlap; reading, storing and flushing may fail.
CONSTANTS
    c1 = c1
    c2 = c2
    c3 = c3
    Chunk <- Chunks
    Backups = {b1, b2}
    Files <- TwoFiles
    Resembles <- LikeTheFirst
    Capacity = 2
    ReadCanFail = TRUE
    StoreCanFail = TRUE
SPECIFICATION Spec
SYMMETRY Symmetry
INVARIANTS
    OkIsWritten
    CountsAddUp
    BaseFirst
