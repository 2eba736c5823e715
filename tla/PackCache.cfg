\* Two threads, and one pack more than the cache has entries for, and another.
CONSTANTS
    Thread = {t1, t2}
    Pack = {p1, p2, p3, p4}
    NoPack = NoPack
    Capacity = 2
SPECIFICATION Spec
SYMMETRY Symmetry
INVARIANTS
    FilesBounded
    PartIsBeingWritten
    EntriesHaveFiles
