CONSTANTS
    Thread = {t1, t2}
    None = None
    MaxDepth = 2
    MaxEntries = 1
    MaxCalls = 3
SPECIFICATION FairSpec
INVARIANTS
    NoWaitCycle
PROPERTY CallsReturn
CHECK_DEADLOCK FALSE
