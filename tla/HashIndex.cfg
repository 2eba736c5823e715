\* Three threads that insert and look up, hashes that share bits.
CONSTANTS
    h1 = h1
    h2 = h2
    h3 = h3
    Hash <- Hashes
    Location = {a, b}
    NoLocation = NoLocation
    Thread = {t1, t2, t3}
    Bits <- Overlapping
SPECIFICATION Spec
SYMMETRY Symmetry
INVARIANTS
    CountIsKeys
PROPERTIES
    ImplementsDedupIndex
