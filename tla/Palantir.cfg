\* Two shards with room for two entries each; only matches of the first tier
\* are accepted (a threshold above 0.85).
CONSTANTS
    Hash = {1, 2, 3, 4, 5, 6}
    Shard = {0, 1}
    ShardOf <- TwoShards
    Slot <- Slots
    TierOf <- Tiers
    Feature <- Signatures
    Budget = 4
    PerFeature = 2
    Accepted = {3}
    Rebuilds <- TwoEntries
SPECIFICATION Spec
CONSTRAINT ShortQueues
INVARIANTS
    TypeOK
    StructuresAgree
    WithinBudget
PROPERTIES
    EvictsWhenFull
