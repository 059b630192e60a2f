SPECIFICATION FairSpec
CONSTANTS
    w1 = w1
    w2 = w2
    k1 = k1
    k2 = k2
    p1 = p1
    p2 = p2
    NoPart = NoPart
    Workers = {w1, w2}
    Partitions = {p1}
    Keys = {k1}
    PartitionOf <- OneKey
    Ops = {"upsert", "delete"}
    AutoOffsetReset = "earliest"
    MaxPollRecords = 2
    MaxChanges = 2
    MaxReplays = 1
    MaxFaults = 3
CHECK_DEADLOCK FALSE
INVARIANTS TypeOK CommittedApplied DrainedInSync
PROPERTIES CommitsMoveForward ImplementsReplicatedTable Convergence CommitsCatchUp
