CONSTANTS
    a = a
    b = b
    c = c
    Chunk = {a, b, c}
    RawLen <- FourBytes
    RandomLooking = {c}
    ZipLens = {2, 3}
    DeltaLens = {2, 4}
    FrameLens = {1, 2, 4}
    MaxEntries = 3
    FooterSize = 2
    None = None
    Corrupt = Corrupt
SPECIFICATION FormatSpec
INVARIANTS
    EveryChunkReadable
    PlaceReadable
    DamageDetected
CHECK_DEADLOCK FALSE
