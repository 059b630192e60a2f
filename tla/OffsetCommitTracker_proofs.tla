--------------------- MODULE OffsetCommitTracker_proofs ---------------------
(***************************************************************************)
(* The commit tracker commits no offset behind an unprocessed one, for any *)
(* number of partitions and any order of marks.                            *)
(***************************************************************************)
EXTENDS OffsetCommitTracker, WellFoundedInduction, TLAPS

Bounded(state) == \E b \in Nat : \A o \in state.processed : o < b

\* Every nonempty set of natural numbers has a least element.
LEMMA LeastElement ==
    ASSUME NEW S \in SUBSET Nat, S # {}
    PROVE  \E n \in S : \A m \in S : n <= m
<1>1. \E n \in S : \A m \in S : ~(<<m, n>> \in OpToRel(<, Nat))
  BY NatLessThanWellFounded, WFMin
<1>2. PICK n \in S : \A m \in S : ~(<<m, n>> \in OpToRel(<, Nat))
  BY <1>1
<1>3. \A m \in S : m < n => <<m, n>> \in OpToRel(<, Nat)
  BY Zenon DEF OpToRel
<1>4. \A m \in S : ~(m < n)
  BY <1>2, <1>3, Zenon
<1>5. \A m \in S : n <= m
  BY <1>4
<1> QED
  BY <1>5

\* CommitOffset is the first offset from next on that is not processed: everything
\* between next and it is, and the loop of build_commit_offsets stops there.
LEMMA CommitOffsetIsFirstHole ==
    ASSUME NEW state \in PartitionOffsetState, Bounded(state)
    PROVE  /\ CommitOffset(state) \in Nat
           /\ CommitOffset(state) >= state.next
           /\ CommitOffset(state) \notin state.processed
           /\ \A o \in state.next .. (CommitOffset(state) - 1) : o \in state.processed
<1> DEFINE Holes == {n \in Nat : n >= state.next /\ n \notin state.processed}
           IsEnd(n) == /\ n >= state.next
                       /\ n \notin state.processed
                       /\ \A o \in state.next .. (n - 1) : o \in state.processed
<1>1. state.next \in Nat /\ state.processed \in SUBSET Nat
  BY DEF PartitionOffsetState
<1>2. Holes # {}
  <2>1. PICK b \in Nat : \A o \in state.processed : o < b
    BY DEF Bounded
  <2>2. b + state.next \in Holes
    BY <1>1, <2>1
  <2> QED
    BY <2>2
<1>3. PICK n \in Holes : \A m \in Holes : n <= m
  <2>1. Holes \in SUBSET Nat
    OBVIOUS
  <2> HIDE DEF Holes
  <2> QED
    BY <1>2, <2>1, LeastElement
<1>4. IsEnd(n)
  BY <1>1, <1>3
<1>5. n = state.next \/ (n - 1) \in state.processed
  BY <1>1, <1>3, <1>4
<1>6. n \in {state.next} \cup {o + 1 : o \in state.processed}
  <2>1. CASE n = state.next
    BY <2>1
  <2>2. CASE (n - 1) \in state.processed
    <3>1. n = (n - 1) + 1
      BY <1>3
    <3> QED
      BY <2>2, <3>1
  <2> QED
    BY <1>5, <2>1, <2>2
<1>7. CommitOffset(state) = CHOOSE m \in {state.next} \cup {o + 1 : o \in state.processed} : IsEnd(m)
  BY DEF CommitOffset
<1>8. /\ CommitOffset(state) \in {state.next} \cup {o + 1 : o \in state.processed}
      /\ IsEnd(CommitOffset(state))
  <2> HIDE DEF IsEnd
  <2> QED
    BY <1>4, <1>6, <1>7
<1> QED
  BY <1>1, <1>8

-----------------------------------------------------------------------------
(* The inductive invariant. *)

\* The history variables describe the state of a tracked partition exactly: from
\* next on it holds the marked offsets, and everything before it down to the first
\* mark was marked.
TrackedOK(p) ==
    LET state == partition_states[p]
    IN  /\ first[p] \in marked[p]
        /\ first[p] <= state.next
        /\ state.processed \subseteq marked[p]
        /\ \A o \in first[p] .. (state.next - 1) : o \in marked[p]
        /\ \A o \in marked[p] : o >= state.next => o \in state.processed
        /\ committed[p] # -1 => committed[p] = state.next /\ first[p] < state.next

UntrackedOK(p) == first[p] = -1 /\ marked[p] = {} /\ committed[p] = -1

Inv ==
    /\ TypeOK
    /\ \A p \in Partitions : IF partition_states[p] = Untracked
                               THEN UntrackedOK(p) ELSE TrackedOK(p)

\* The states of the tracker meet the hypotheses of the lemmas on CommitOffset.
LEMMA StatesAreBounded ==
    ASSUME Inv, NEW p \in Partitions
    PROVE  Bounded(partition_states[p])
<1>1. \A o \in partition_states[p].processed : o \in 0 .. MaxOffset
  <2>1. CASE partition_states[p] = Untracked
    BY <2>1 DEF Untracked
  <2>2. CASE partition_states[p] # Untracked
    BY <2>2 DEF Inv, TypeOK, TrackedOK
  <2> QED
    BY <2>1, <2>2
<1>2. \A o \in partition_states[p].processed : o < MaxOffset + 1
  BY <1>1, MaxOffsetAssumption
<1>3. MaxOffset + 1 \in Nat
  BY MaxOffsetAssumption
<1> QED
  BY <1>2, <1>3 DEF Bounded

LEMMA InitInv == Init => Inv
BY DEF Init, Inv, TypeOK, UntrackedOK

\* A mark changes the state of its partition only.
LEMMA MarkPreservesInv ==
    ASSUME Inv, NEW p \in Partitions, NEW offset \in 0 .. MaxOffset,
           mark_processed(p, offset)
    PROVE  Inv'
<1> DEFINE before == partition_states[p]
           after == MarkProcessed(before, offset)
<1>0. offset \in Nat /\ before \in PartitionOffsetState \cup {Untracked} /\ Bounded(before)
  BY StatesAreBounded, MaxOffsetAssumption DEF Inv, TypeOK
<1>1. /\ after \in PartitionOffsetState
      /\ after # Untracked
      /\ after.next = IF before = Untracked THEN offset ELSE before.next
      /\ after.processed = before.processed \cup {offset}
  BY <1>0 DEF MarkProcessed, PartitionOffsetState, Untracked
<1>2. /\ partition_states' = [partition_states EXCEPT ![p] = after]
      /\ marked' = [marked EXCEPT ![p] = marked[p] \cup {offset}]
      /\ first' = [first EXCEPT ![p] = IF first[p] = -1 THEN offset ELSE first[p]]
      /\ committed' = committed
  BY DEF mark_processed
<1> HIDE DEF after
<1>3. TypeOK'
  BY <1>0, <1>1, <1>2 DEF Inv, TypeOK
<1>4. ASSUME NEW q \in Partitions
      PROVE  IF partition_states'[q] = Untracked THEN UntrackedOK(q)' ELSE TrackedOK(q)'
  <2>1. CASE q # p
    <3>1. /\ partition_states'[q] = partition_states[q] /\ marked'[q] = marked[q]
          /\ first'[q] = first[q] /\ committed'[q] = committed[q]
      BY <1>2, <2>1 DEF Inv, TypeOK
    <3> QED
      BY <3>1 DEF Inv, TrackedOK, UntrackedOK
  <2>2. CASE q = p
    <3>1. /\ partition_states'[q] = after /\ marked'[q] = marked[p] \cup {offset}
          /\ first'[q] = (IF first[p] = -1 THEN offset ELSE first[p])
          /\ committed'[q] = committed[p]
      BY <1>2, <2>2 DEF Inv, TypeOK
    <3>2. CASE before = Untracked
      <4>1. first[p] = -1 /\ marked[p] = {} /\ committed[p] = -1 /\ before.processed = {}
        BY <3>2 DEF Inv, UntrackedOK, Untracked
      <4>2. TrackedOK(q)'
        BY <1>0, <1>1, <3>1, <3>2, <4>1 DEF TrackedOK
      <4> QED
        BY <1>1, <3>1, <4>2
    <3>3. CASE before # Untracked
      <4>1. TrackedOK(p) /\ first[p] # -1 /\ before \in PartitionOffsetState
        BY <1>0, <3>3, MaxOffsetAssumption DEF Inv, TypeOK, TrackedOK
      <4>2. TrackedOK(q)'
        BY <1>0, <1>1, <3>1, <3>3, <4>1 DEF TrackedOK, PartitionOffsetState
      <4> QED
        BY <1>1, <3>1, <4>2
    <3> QED
      BY <3>2, <3>3
  <2> QED
    BY <2>1, <2>2
<1> QED
  BY <1>3, <1>4 DEF Inv

\* Marked offsets up to the end of the contiguous run are what is committed.
LEMMA CommitPreservesInv ==
    ASSUME Inv, commit_and_mark_committed
    PROVE  Inv'
<1> DEFINE C(p) == CommitOffset(partition_states[p])
           after(p) == MarkCommitted(partition_states[p], C(p))
<1>1. ASSUME NEW p \in commit_offsets
      PROVE  /\ partition_states[p] \in PartitionOffsetState
             /\ TrackedOK(p)
             /\ C(p) \in Nat /\ C(p) > partition_states[p].next
             /\ \A o \in partition_states[p].next .. (C(p) - 1) :
                   o \in partition_states[p].processed
             /\ after(p) \in PartitionOffsetState /\ after(p) # Untracked
             /\ after(p).next = C(p)
             /\ after(p).processed = partition_states[p].processed
                                       \ (partition_states[p].next .. (C(p) - 1))
  <2>1. p \in Partitions /\ partition_states[p] # Untracked /\ C(p) # partition_states[p].next
    BY DEF commit_offsets, HasCommit
  <2>2. partition_states[p] \in PartitionOffsetState /\ Bounded(partition_states[p])
    BY <2>1, StatesAreBounded DEF Inv, TypeOK
  <2>3. /\ C(p) \in Nat /\ C(p) >= partition_states[p].next
        /\ \A o \in partition_states[p].next .. (C(p) - 1) : o \in partition_states[p].processed
    BY <2>2, CommitOffsetIsFirstHole
  <2>4. /\ after(p) \in PartitionOffsetState /\ after(p) # Untracked
        /\ after(p).next = C(p)
        /\ after(p).processed = partition_states[p].processed
                                  \ (partition_states[p].next .. (C(p) - 1))
    BY <2>2, <2>3 DEF MarkCommitted, PartitionOffsetState, Untracked
  <2>5. partition_states[p].next \in Nat
    BY <2>2 DEF PartitionOffsetState
  <2> HIDE DEF C, after
  <2> QED
    BY <2>1, <2>2, <2>3, <2>4, <2>5 DEF Inv
<1>2. /\ committed' = [p \in Partitions |-> IF p \in commit_offsets THEN C(p) ELSE committed[p]]
      /\ partition_states' = [p \in Partitions |->
                IF p \in commit_offsets THEN after(p) ELSE partition_states[p]]
      /\ marked' = marked /\ first' = first
  BY DEF commit_and_mark_committed
<1> HIDE DEF C, after
<1>3. TypeOK'
  BY <1>1, <1>2 DEF Inv, TypeOK
<1>4. ASSUME NEW p \in Partitions
      PROVE  IF partition_states'[p] = Untracked THEN UntrackedOK(p)' ELSE TrackedOK(p)'
  <2>1. CASE p \in commit_offsets
    <3>1. /\ partition_states'[p] = after(p) /\ committed'[p] = C(p)
          /\ marked'[p] = marked[p] /\ first'[p] = first[p]
      BY <1>2, <2>1
    <3>2. first[p] \in 0 .. MaxOffset /\ marked[p] \subseteq 0 .. MaxOffset
      BY <1>1, <2>1 DEF Inv, TypeOK, TrackedOK
    <3>3. TrackedOK(p)'
      BY <1>1, <2>1, <3>1, <3>2, MaxOffsetAssumption DEF TrackedOK, PartitionOffsetState
    <3> QED
      BY <1>1, <2>1, <3>1, <3>3
  <2>2. CASE p \notin commit_offsets
    <3>1. /\ partition_states'[p] = partition_states[p] /\ committed'[p] = committed[p]
          /\ marked'[p] = marked[p] /\ first'[p] = first[p]
      BY <1>2, <2>2
    <3> QED
      BY <3>1 DEF Inv, TrackedOK, UntrackedOK
  <2> QED
    BY <2>1, <2>2
<1> QED
  BY <1>3, <1>4 DEF Inv

LEMMA NextPreservesInv == Inv /\ [Next]_vars => Inv'
<1> SUFFICES ASSUME Inv, [Next]_vars PROVE Inv'
  OBVIOUS
<1>1. CASE \E p \in Partitions, offset \in 0 .. MaxOffset : mark_processed(p, offset)
  BY <1>1, MarkPreservesInv
<1>2. CASE commit_and_mark_committed
  BY <1>2, CommitPreservesInv
<1>3. CASE UNCHANGED vars
  BY <1>3 DEF Inv, TypeOK, TrackedOK, UntrackedOK, vars
<1> QED
  BY <1>1, <1>2, <1>3 DEF Next

\* The invariant of the tracker holds in every reachable state.
THEOREM TrackerInvariant == Spec => []Inv
BY InitInv, NextPreservesInv, PTL DEF Spec

\* The state of the tracker keeps its type: build_commit_offsets and mark_committed
\* never produce a malformed PartitionOffsetState.
THEOREM TrackerTypeOK == Spec => []TypeOK
<1>1. Inv => TypeOK
  BY DEF Inv
<1> QED
  BY <1>1, TrackerInvariant, PTL

\* No committed offset has an unprocessed offset before it (back to the first record
\* delivered), for any number of partitions, holes and redeliveries.
THEOREM TrackerCommitsOnlyMarked == Spec => []CommitCoversMarked
<1>1. Inv => CommitCoversMarked
  <2> SUFFICES ASSUME Inv, NEW p \in Partitions, committed[p] # -1
               PROVE  committed[p] > first[p] /\ first[p] .. (committed[p] - 1) \subseteq marked[p]
    BY DEF CommitCoversMarked
  <2>1. TrackedOK(p) /\ partition_states[p] \in PartitionOffsetState
    BY DEF Inv, TypeOK, UntrackedOK
  <2>2. first[p] \in 0 .. MaxOffset
    BY <2>1 DEF TrackedOK, Inv, TypeOK
  <2> QED
    BY <2>1, <2>2, MaxOffsetAssumption DEF TrackedOK, PartitionOffsetState
<1> QED
  BY <1>1, TrackerInvariant, PTL

\* Nothing marked is forgotten: the pending offsets are the marked ones from next on.
THEOREM TrackerKeepsPending == Spec => []PendingAreUncommittedMarks
<1>1. Inv => PendingAreUncommittedMarks
  <2> SUFFICES ASSUME Inv, NEW p \in Partitions, partition_states[p] # Untracked
               PROVE  /\ first[p] .. (partition_states[p].next - 1) \subseteq marked[p]
                      /\ partition_states[p].processed \cap (partition_states[p].next .. MaxOffset)
                           = marked[p] \cap (partition_states[p].next .. MaxOffset)
    BY DEF PendingAreUncommittedMarks
  <2>1. TrackedOK(p) /\ partition_states[p] \in PartitionOffsetState
    BY DEF Inv, TypeOK
  <2>2. \A o \in partition_states[p].next .. MaxOffset : o >= partition_states[p].next
    BY <2>1, MaxOffsetAssumption DEF PartitionOffsetState
  <2> QED
    BY <2>1, <2>2 DEF TrackedOK
<1> QED
  BY <1>1, TrackerInvariant, PTL

\* A process never commits an offset of a partition twice or backwards.
THEOREM TrackerCommitsForward == Spec => CommitsMoveForward
<1>1. Inv /\ [Next]_vars => [\A p \in Partitions : committed'[p] >= committed[p]]_vars
  <2> SUFFICES ASSUME Inv, Next, NEW p \in Partitions
               PROVE  committed'[p] >= committed[p]
    OBVIOUS
  <2>0. committed[p] \in Nat \cup {-1}
    BY DEF Inv, TypeOK
  <2>1. CASE committed' = committed
    BY <2>0, <2>1
  <2>2. CASE commit_and_mark_committed /\ p \in commit_offsets
    <3>1. /\ partition_states[p] \in PartitionOffsetState /\ Bounded(partition_states[p])
          /\ partition_states[p].next \in Nat
      BY <2>2, StatesAreBounded DEF Inv, TypeOK, commit_offsets, HasCommit, PartitionOffsetState
    <3>2. /\ CommitOffset(partition_states[p]) \in Nat
          /\ CommitOffset(partition_states[p]) >= partition_states[p].next
      BY <3>1, CommitOffsetIsFirstHole
    <3>3. committed'[p] = CommitOffset(partition_states[p])
      BY <2>2 DEF commit_and_mark_committed
    <3>4. committed[p] = -1 \/ committed[p] = partition_states[p].next
      BY <2>2 DEF Inv, TrackedOK, commit_offsets, HasCommit
    <3> QED
      BY <3>1, <3>2, <3>3, <3>4
  <2>3. CASE commit_and_mark_committed /\ p \notin commit_offsets
    BY <2>0, <2>3 DEF commit_and_mark_committed
  <2> QED
    BY <2>1, <2>2, <2>3 DEF Next, mark_processed
<1> QED
  BY <1>1, TrackerInvariant, PTL DEF Spec, CommitsMoveForward
=============================================================================
