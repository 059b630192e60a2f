-------------------------- MODULE PartitionOffsets --------------------------
(***************************************************************************)
(* The value operations of worker/src/offset_commit_tracker.py on the      *)
(* state of one topic partition.  A partition the tracker has not seen has *)
(* no entry in partition_states (Untracked); a tracked one is a            *)
(* PartitionOffsetState: the next offset to commit and the processed       *)
(* offsets that are not committed yet.                                     *)
(***************************************************************************)
EXTENDS Integers

\* partition_states.get(topic_partition) is None.
Untracked == [next |-> -1, processed |-> {}]

PartitionOffsetState == [next : Nat, processed : SUBSET Nat]

\* Mutants: commits start one record early; a mark below next moves next back.
MarkProcessedEarly(state, offset) ==
    IF state = Untracked
      THEN [next |-> offset - 1, processed |-> {offset}]
      ELSE [state EXCEPT !.processed = @ \cup {offset}]

MarkProcessedRewinds(state, offset) ==
    IF state = Untracked
      THEN [next |-> offset, processed |-> {offset}]
      ELSE [next |-> IF offset < state.next THEN offset ELSE state.next,
            processed |-> state.processed \cup {offset}]

\* mark_processed: the first mark of a partition fixes where its commits start.
MarkProcessed(state, offset) ==
    IF state = Untracked
      THEN [next |-> offset, processed |-> {offset}]
      ELSE [state EXCEPT !.processed = @ \cup {offset}]

\* Mutant: commit up to the last processed offset, holes or not.
CommitOffsetPastHoles(state) ==
    CHOOSE n \in {state.next} \cup {o + 1 : o \in state.processed} :
        \A o \in state.processed : n > o

\* The loop of build_commit_offsets: the first offset from next on that is not
\* processed.  It is next itself or the successor of a processed offset.
CommitOffset(state) ==
    CHOOSE n \in {state.next} \cup {o + 1 : o \in state.processed} :
        /\ n >= state.next
        /\ n \notin state.processed
        /\ \A o \in state.next .. (n - 1) : o \in state.processed

\* build_commit_offsets leaves out a partition with nothing new to commit.
HasCommit(state) == state # Untracked /\ CommitOffset(state) # state.next

\* Mutant: the committed range is removed but next stays where it was.
MarkCommittedKeepsNext(state, offset) ==
    [next      |-> state.next,
     processed |-> state.processed \ (state.next .. (offset - 1))]

\* mark_committed removes the committed range and moves next to its end.
MarkCommitted(state, offset) ==
    [next      |-> offset,
     processed |-> state.processed \ (state.next .. (offset - 1))]
=============================================================================
