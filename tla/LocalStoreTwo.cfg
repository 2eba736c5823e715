\* Two backups on one store; writing a pack may fail.
CONSTANTS
    Chunk = {c1, c2}
    NoBase = NoBase
    NoEntry = NoEntry
    Writers = {w1, w2}
    Readers = {}
    MaxPack = 2
    PackTarget = 2
    MaxDepth = 2
    Radix = 10
    InitDisk <- EmptyDisk
    WriteCanFail = TRUE
    Evicts = FALSE
SPECIFICATION Spec
SYMMETRY Symmetry
INVARIANTS
    PendingOnce
    PacksOnDisk
    IndexedIsStored
    NoDeltaCycle
PROPERTIES
    NoOverwrite
