CONSTANTS
    a = a
    b = b
    n1 = n1
    p1 = p1
    Thread = {t1, t2}
    Path = {p1}
    Name = {n1}
    NameOf <- OwnName
    Chunk = {a, b}
    Contents <- UserWrites
    First <- AtFirst
    Damage <- DamagedB
    None = None
    Torn = Torn
    MaxSecond = 1
    MaxEdits = 1
    StoreCanFail = TRUE
SPECIFICATION Spec
SYMMETRY Symmetry
INVARIANTS
    ManifestsWritten
    EntryIsSnapshot
    AckedHasManifest
    
    VerifyCovers
PROPERTY SkipIsSound
