\* One backup at a time and a restore beside it; no write fails.
CONSTANTS
    Chunk = {c1, c2, c3}
    NoBase = NoBase
    NoEntry = NoEntry
    Writers = {w1}
    Readers = {r1}
    MaxPack = 2
    PackTarget = 2
    MaxDepth = 2
    Radix = 10
    InitDisk <- EmptyDisk
    WriteCanFail = FALSE
    Evicts = FALSE
SPECIFICATION Spec
SYMMETRY Symmetry
INVARIANTS
    PromiseKept
    StoredOnce
    DeltaBaseStored
    RestoreCorrect
PROPERTIES
    ImplementsContentStore
