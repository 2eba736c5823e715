\* A backup into a bucket that was opened through _meta.index leaves an index
\* without the chunks of the backups before it.
CONSTANTS
    Machine = {m1}
    Chunk = {c1, c2, c3}
    NoChunk = NoChunk
    Torn = Torn
    MaxPack = 3
    PackTarget = 2
    OneAtATime = TRUE
    Caching = {}
    Tears = FALSE
    WriteCanFail = FALSE
    ReadCanFail = FALSE
SPECIFICATION Spec
SYMMETRY Symmetry
INVARIANTS
    PromisedReadable
