\* A machine with a cache that backs up, reads and restarts: writes to bucket
\* and cache fail, and processes are killed while they write.
CONSTANTS
    Machine = {m1}
    Chunk = {c1, c2, c3}
    NoChunk = NoChunk
    Torn = Torn
    MaxPack = 2
    PackTarget = 2
    OneAtATime = TRUE
    Caching = {m1}
    Tears = TRUE
    WriteCanFail = TRUE
    ReadCanFail = FALSE
SPECIFICATION Spec
SYMMETRY Symmetry
INVARIANTS
    PromisedStored
    DeltaBaseStored
    MetaPointsAtPacks
    ReadYourWrites
