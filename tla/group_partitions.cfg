SPECIFICATION Spec
CONSTANTS
    w1 = w1
    w2 = w2
    k1 = k1
    k2 = k2
    p1 = p1
    p2 = p2
    NoPart = NoPart
    Workers = {w1, w2}
    Partitions = {p1, p2}
    Keys = {k1, k2}
    PartitionOf <- TwoPartitions
    Ops = {"upsert", "delete", "bad"}
    AutoOffsetReset = "latest"
    MaxPollRecords = 2
    MaxChanges = 3
    MaxReplays = 0
    MaxFaults = 2
CHECK_DEADLOCK FALSE
SYMMETRY WorkerSymmetry
INVARIANTS CommittedApplied LagMeansOvertaken
PROPERTIES CommitsMoveForward CommitsOwnPartition ImplementsReplicatedTable
