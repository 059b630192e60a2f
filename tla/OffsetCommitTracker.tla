------------------------ MODULE OffsetCommitTracker ------------------------
(***************************************************************************)
(* The OffsetCommitTracker of one worker process, used the way             *)
(* worker/src/consumer.py uses it: a record is marked once it has been     *)
(* persisted or skipped, then the offsets that can be committed are built, *)
(* handed to Kafka and, if Kafka accepted them, marked as committed.  The  *)
(* order in which offsets are marked is left open: offsets may be missing  *)
(* (holes in a topic) and records may be delivered again.                  *)
(***************************************************************************)
EXTENDS PartitionOffsets

CONSTANTS
    Partitions,  \* the topic partitions the process is given records of
    MaxOffset    \* bound: the largest offset that is ever delivered

ASSUME MaxOffsetAssumption == MaxOffset \in Nat

VARIABLES
    partition_states,  \* Partitions -> PartitionOffsetState or Untracked
    marked,            \* history: the offsets marked since the process started
    first,             \* history: the first offset marked, -1 before
    committed          \* the last offset Kafka accepted from this process, or -1

vars == <<partition_states, marked, first, committed>>

TypeOK ==
    /\ partition_states \in [Partitions -> PartitionOffsetState \cup {Untracked}]
    /\ marked \in [Partitions -> SUBSET (0 .. MaxOffset)]
    /\ first \in [Partitions -> Nat \cup {-1}]
    /\ committed \in [Partitions -> Nat \cup {-1}]

Init ==
    /\ partition_states = [p \in Partitions |-> Untracked]
    /\ marked = [p \in Partitions |-> {}]
    /\ first = [p \in Partitions |-> -1]
    /\ committed = [p \in Partitions |-> -1]

mark_processed(p, offset) ==
    /\ partition_states' = [partition_states EXCEPT ![p] = MarkProcessed(@, offset)]
    /\ marked' = [marked EXCEPT ![p] = @ \cup {offset}]
    /\ first' = [first EXCEPT ![p] = IF @ = -1 THEN offset ELSE @]
    /\ UNCHANGED committed

\* The partitions build_commit_offsets returns an entry for.
commit_offsets == {p \in Partitions : HasCommit(partition_states[p])}

\* build_commit_offsets, an accepted consumer.commit and mark_committed.  A commit
\* that raises ends the process and its tracker with it, so it is no step here.
commit_and_mark_committed ==
    /\ commit_offsets # {}
    /\ committed' = [p \in Partitions |->
                        IF p \in commit_offsets THEN CommitOffset(partition_states[p])
                                                ELSE committed[p]]
    /\ partition_states' = [p \in Partitions |->
                        IF p \in commit_offsets
                          THEN MarkCommitted(partition_states[p], CommitOffset(partition_states[p]))
                          ELSE partition_states[p]]
    /\ UNCHANGED <<marked, first>>

Next ==
    \/ \E p \in Partitions, offset \in 0 .. MaxOffset : mark_processed(p, offset)
    \/ commit_and_mark_committed

Spec == Init /\ [][Next]_vars

-----------------------------------------------------------------------------
\* Every offset from the first record delivered up to a committed offset was
\* marked as processed, whatever the order of the marks: a hole holds the
\* commit back (the while loop of build_commit_offsets).
CommitCoversMarked ==
    \A p \in Partitions :
        committed[p] # -1 => /\ committed[p] > first[p]
                             /\ first[p] .. (committed[p] - 1) \subseteq marked[p]

\* The tracker forgets nothing: from the next commit offset on it holds exactly the
\* marked offsets, and everything from the first mark up to there was marked, so
\* filling a hole releases all that was processed behind it.
PendingAreUncommittedMarks ==
    \A p \in Partitions :
        partition_states[p] # Untracked =>
            /\ first[p] .. (partition_states[p].next - 1) \subseteq marked[p]
            /\ partition_states[p].processed \cap (partition_states[p].next .. MaxOffset)
                 = marked[p] \cap (partition_states[p].next .. MaxOffset)

\* Commits of a partition never move backwards within a process.
CommitsMoveForward ==
    [][\A p \in Partitions : committed'[p] >= committed[p]]_vars
=============================================================================
