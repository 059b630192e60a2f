SPECIFICATION Spec
CONSTANTS
    Partitions = {p1, p2}
    MaxOffset = 3
SYMMETRY PartitionSymmetry
INVARIANTS TypeOK CommitCoversMarked PendingAreUncommittedMarks
PROPERTIES CommitsMoveForward
