------------------------ MODULE MCOffsetCommitTracker ------------------------
(* A small instance of OffsetCommitTracker for TLC. *)
EXTENDS OffsetCommitTracker, TLC

PartitionSymmetry == Permutations(Partitions)
=============================================================================
