------------------------- MODULE CdcPipeline_proofs -------------------------
(***************************************************************************)
(* For every number of processes, partitions, keys, changes, replays and   *)
(* faults: the group's committed offsets leave no unapplied record behind, *)
(* never move backwards, and are moved by the owner of a partition only;   *)
(* the data path implements ReplicatedTable, and once everything has been  *)
(* committed the destination is the source.                                *)
(***************************************************************************)
EXTENDS CdcPipeline, SequenceTheorems, WellFoundedInduction, TLAPS

-----------------------------------------------------------------------------
(* What the operations of the commit tracker compute, for every state of a *)
(* partition whose processed offsets are bounded.                          *)

Bounded(state) == \E b \in Nat : \A o \in state.processed : o < b

\* Every nonempty set of natural numbers has a least element.
LEMMA LeastElement ==
    ASSUME NEW S \in SUBSET Nat, S # {}
    PROVE  \E n \in S : \A m \in S : n <= m
<1>1. \E n \in S : \A m \in S : ~(<<m, n>> \in OpToRel(<, Nat))
  BY NatLessThanWellFounded, WFMin
<1>2. PICK n \in S : \A m \in S : ~(<<m, n>> \in OpToRel(<, Nat))
  BY <1>1
<1>3. \A m \in S : m < n => <<m, n>> \in OpToRel(<, Nat)
  BY Zenon DEF OpToRel
<1>4. \A m \in S : ~(m < n)
  BY <1>2, <1>3, Zenon
<1>5. \A m \in S : n <= m
  BY <1>4
<1> QED
  BY <1>5

\* CommitOffset is the first offset from next on that is not processed: everything
\* between next and it is, and the loop of build_commit_offsets stops there.
LEMMA CommitOffsetIsFirstHole ==
    ASSUME NEW state \in PartitionOffsetState, Bounded(state)
    PROVE  /\ CommitOffset(state) \in Nat
           /\ CommitOffset(state) >= state.next
           /\ CommitOffset(state) \notin state.processed
           /\ \A o \in state.next .. (CommitOffset(state) - 1) : o \in state.processed
<1> DEFINE Holes == {n \in Nat : n >= state.next /\ n \notin state.processed}
           IsEnd(n) == /\ n >= state.next
                       /\ n \notin state.processed
                       /\ \A o \in state.next .. (n - 1) : o \in state.processed
<1>1. state.next \in Nat /\ state.processed \in SUBSET Nat
  BY DEF PartitionOffsetState
<1>2. Holes # {}
  <2>1. PICK b \in Nat : \A o \in state.processed : o < b
    BY DEF Bounded
  <2>2. b + state.next \in Holes
    BY <1>1, <2>1
  <2> QED
    BY <2>2
<1>3. PICK n \in Holes : \A m \in Holes : n <= m
  <2>1. Holes \in SUBSET Nat
    OBVIOUS
  <2> HIDE DEF Holes
  <2> QED
    BY <1>2, <2>1, LeastElement
<1>4. IsEnd(n)
  BY <1>1, <1>3
<1>5. n = state.next \/ (n - 1) \in state.processed
  BY <1>1, <1>3, <1>4
<1>6. n \in {state.next} \cup {o + 1 : o \in state.processed}
  <2>1. CASE n = state.next
    BY <2>1
  <2>2. CASE (n - 1) \in state.processed
    <3>1. n = (n - 1) + 1
      BY <1>3
    <3> QED
      BY <2>2, <3>1
  <2> QED
    BY <1>5, <2>1, <2>2
<1>7. CommitOffset(state) = CHOOSE m \in {state.next} \cup {o + 1 : o \in state.processed} : IsEnd(m)
  BY DEF CommitOffset
<1>8. /\ CommitOffset(state) \in {state.next} \cup {o + 1 : o \in state.processed}
      /\ IsEnd(CommitOffset(state))
  <2> HIDE DEF IsEnd
  <2> QED
    BY <1>4, <1>6, <1>7
<1> QED
  BY <1>1, <1>8

\* What a mark leaves behind: a tracked state that holds the offset.
LEMMA MarkProcessedResult ==
    ASSUME NEW state \in PartitionOffsetState \cup {Untracked}, NEW offset \in Nat,
           Bounded(state)
    PROVE  LET after == MarkProcessed(state, offset) IN
           /\ after \in PartitionOffsetState
           /\ after # Untracked
           /\ Bounded(after)
           /\ after.next = IF state = Untracked THEN offset ELSE state.next
           /\ after.processed = state.processed \cup {offset}
<1>1. CASE state = Untracked
  <2>1. MarkProcessed(state, offset) = [next |-> offset, processed |-> {offset}]
    BY <1>1 DEF MarkProcessed
  <2>2. \A o \in {offset} : o < offset + 1
    OBVIOUS
  <2>3. offset + 1 \in Nat
    OBVIOUS
  <2> DEFINE after == MarkProcessed(state, offset)
  <2>4. /\ after \in PartitionOffsetState
        /\ after.next = offset /\ after.processed = {offset}
    BY <2>1 DEF PartitionOffsetState
  <2>5. after # Untracked /\ state.processed = {}
    BY <1>1, <2>1 DEF Untracked
  <2>6. Bounded(after)
    BY <2>2, <2>3, <2>4 DEF Bounded
  <2> HIDE DEF after
  <2>7. {offset} = state.processed \cup {offset}
    BY <2>5
  <2> QED
    BY <1>1, <2>4, <2>5, <2>6, <2>7 DEF after
<1>2. CASE state # Untracked
  <2>1. MarkProcessed(state, offset)
          = [next |-> state.next, processed |-> state.processed \cup {offset}]
    BY <1>2 DEF MarkProcessed, PartitionOffsetState
  <2>2. state.next \in Nat /\ state.processed \in SUBSET Nat
    BY <1>2 DEF PartitionOffsetState
  <2>3. PICK b \in Nat : \A o \in state.processed : o < b
    BY DEF Bounded
  <2>4. \A o \in state.processed \cup {offset} : o < b + offset + 1
    BY <2>2, <2>3
  <2>5. b + offset + 1 \in Nat
    OBVIOUS
  <2> QED
    BY <1>2, <2>1, <2>2, <2>4, <2>5 DEF Bounded, Untracked, PartitionOffsetState
<1> QED
  BY <1>1, <1>2

\* mark_committed keeps the state well formed, and no committed offset in it.
LEMMA MarkCommittedResult ==
    ASSUME NEW state \in PartitionOffsetState, NEW offset \in Nat, Bounded(state)
    PROVE  LET after == MarkCommitted(state, offset) IN
           /\ after \in PartitionOffsetState
           /\ after # Untracked
           /\ Bounded(after)
           /\ after.next = offset
           /\ after.processed = state.processed \ (state.next .. (offset - 1))
BY DEF MarkCommitted, PartitionOffsetState, Bounded, Untracked

-----------------------------------------------------------------------------
(* The inductive invariant. *)

\* Where a process stands in the partitions: its positions delimit the records of the
\* last poll, which exist, and while it handles one the current partition is one it
\* was assigned.
PositionsOK(w) ==
    /\ \A p \in Partitions : /\ cursor[w][p] <= batchEnd[w][p]
                             /\ batchEnd[w][p] <= Len(log[p])
    /\ \A p \in Partitions \ assigned[w] : cursor[w][p] = batchEnd[w][p]
    /\ pc[w] \in {"down", "poll"} => \A p \in Partitions : cursor[w][p] = batchEnd[w][p]
    /\ pc[w] \in {"record", "persisted"} =>
          /\ part[w] \in assigned[w]
          /\ cursor[w][part[w]] < batchEnd[w][part[w]]

\* What a tracker state of partition p promises about the destination.
StateApplied(state, p) ==
    /\ \A o \in state.processed : o < Len(log[p]) /\ Applied(p, o)
    /\ state # Untracked => /\ state.next <= Len(log[p])
                            /\ \A o \in base[p] .. (state.next - 1) : Applied(p, o)

\* Everything before a process's position has been applied, by whichever process,
\* and so has everything its tracker holds.
WorkApplied(w) ==
    /\ \A p \in assigned[w] : \A o \in base[p] .. (cursor[w][p] - 1) : Applied(p, o)
    /\ pc[w] = "persisted" => Applied(part[w], cursor[w][part[w]])
    /\ \A p \in Partitions : StateApplied(tracker[w][p], p)

WorkerOK(w) == PositionsOK(w) /\ WorkApplied(w)

\* The group never starts reading before the offset a new reset would give it.
BaseOK == \A p \in Partitions : base[p] <= ResetOffset(p)

Inv == TypeOK /\ BaseOK /\ CommittedApplied /\ \A w \in Workers : WorkerOK(w)

-----------------------------------------------------------------------------
(* Lemmas on the operators. *)

LEMMA RecordsOfType ==
    ASSUME NEW change \in Changes, NEW lsn \in Nat
    PROVE  RecordsOf(change, lsn) \in Seq(Records)
<1>1. change.key \in Keys /\ change.op \in {"upsert", "delete", "bad"}
  BY OpsAssumption DEF Changes
<1>2. CASE change.op = "delete"
  <2>1. RecordsOf(change, lsn) =
          <<[kind |-> "delete", key |-> change.key, lsn |-> lsn, data |-> 0],
            [kind |-> "tombstone", key |-> change.key, lsn |-> lsn, data |-> 0]>>
    BY <1>2 DEF RecordsOf
  <2> QED
    BY <1>1, <2>1 DEF Records
<1>3. CASE change.op # "delete"
  <2>1. RecordsOf(change, lsn) =
          <<[kind |-> change.op, key |-> change.key, lsn |-> lsn, data |-> lsn]>>
    BY <1>3 DEF RecordsOf
  <2> QED
    BY <1>1, <1>3, <2>1 DEF Records
<1> QED
  BY <1>2, <1>3

\* An insert keeps the type of the table, never lowers a version, and leaves the
\* key's row at least as new as the record.
LEMMA InsertedResult ==
    ASSUME table \in [Keys -> Row], NEW record \in Records
    PROVE  /\ Inserted(record) \in [Keys -> Row]
           /\ \A k \in Keys : Inserted(record)[k].version >= table[k].version
           /\ Inserted(record)[record.key].version >= record.lsn
<1> DEFINE new == ReplaceRow(table[record.key], InsertRowOf(EventOf(record)))
<1>1. record.key \in Keys /\ record.lsn \in Nat /\ record.data \in Nat
  BY DEF Records
<1>2. /\ InsertRowOf(EventOf(record)) \in Row
      /\ InsertRowOf(EventOf(record)).version = record.lsn
  BY <1>1 DEF InsertRowOf, EventOf, Row
<1>3. new \in Row /\ new.version >= record.lsn /\ new.version >= table[record.key].version
  BY <1>1, <1>2 DEF ReplaceRow, Row
<1>4. Inserted(record) = [table EXCEPT ![record.key] = new]
  BY DEF Inserted
<1> HIDE DEF new
<1>5. \A k \in Keys : Inserted(record)[k] = IF k = record.key THEN new ELSE table[k]
  BY <1>1, <1>4
<1>6. \A k \in Keys : table[k].version \in Nat
  BY DEF Row
<1> QED
  BY <1>1, <1>3, <1>4, <1>5, <1>6

\* The record a process handles exists.
LEMMA CurrentRecordExists ==
    ASSUME Inv, NEW w \in Workers, pc[w] \in {"record", "persisted"}
    PROVE  /\ part[w] \in Partitions
           /\ part[w] \in assigned[w]
           /\ CurrentOffset(w) \in Nat
           /\ CurrentOffset(w) < batchEnd[w][part[w]]
           /\ batchEnd[w][part[w]] \in Nat
           /\ CurrentOffset(w) < Len(log[part[w]])
           /\ CurrentRecord(w) \in Records
<1>1. part[w] \in assigned[w] /\ assigned[w] \subseteq Partitions
  BY DEF Inv, TypeOK, WorkerOK, PositionsOK
<1>2. /\ cursor[w][part[w]] \in Nat /\ batchEnd[w][part[w]] \in Nat
      /\ log[part[w]] \in Seq(Records) /\ Len(log[part[w]]) \in Nat
  BY <1>1 DEF Inv, TypeOK
<1>3. cursor[w][part[w]] < batchEnd[w][part[w]] /\ batchEnd[w][part[w]] <= Len(log[part[w]])
  BY <1>1 DEF Inv, WorkerOK, PositionsOK
<1>4. cursor[w][part[w]] + 1 \in 1 .. Len(log[part[w]])
  BY <1>2, <1>3
<1>5. log[part[w]][cursor[w][part[w]] + 1] \in Records
  BY <1>2, <1>4, ElementOfSeq
<1> QED
  BY <1>1, <1>2, <1>3, <1>5 DEF CurrentOffset, CurrentRecord

-----------------------------------------------------------------------------
(* What never goes backwards. *)

\* The logs only grow and the destination only moves forward, so what has been
\* applied stays applied.
Forward ==
    /\ \A p \in Partitions :
         /\ Len(log'[p]) \in Nat /\ Len(log[p]) \in Nat
         /\ Len(log'[p]) >= Len(log[p])
         /\ \A i \in 1 .. Len(log[p]) : log'[p][i] = log[p][i]
    /\ \A k \in Keys : /\ table[k].version \in Nat /\ table'[k].version \in Nat
                       /\ table'[k].version >= table[k].version

LEMMA AppliedStable ==
    ASSUME TypeOK, Forward, NEW p \in Partitions, NEW o \in Nat, o < Len(log[p]),
           Applied(p, o)
    PROVE  Applied(p, o)'
<1>1. o + 1 \in 1 .. Len(log[p])
  BY DEF Forward
<1>2. log'[p][o + 1] = log[p][o + 1]
  BY <1>1 DEF Forward
<1>3. log[p][o + 1] \in Records
  BY <1>1, ElementOfSeq DEF TypeOK
<1>4. log[p][o + 1].key \in Keys /\ log[p][o + 1].lsn \in Nat
  BY <1>3 DEF Records
<1> QED
  BY <1>2, <1>4 DEF Applied, IsEvent, Forward

\* Steps that leave the logs alone, and the destination too.
LEMMA ForwardIfUnchanged ==
    ASSUME TypeOK, log' = log, table' = table
    PROVE  Forward
BY DEF TypeOK, Forward, Row

\* An insert is such a step.
LEMMA ForwardIfInserted ==
    ASSUME TypeOK, log' = log, NEW record \in Records, table' = Inserted(record)
    PROVE  Forward
<1>1. table \in [Keys -> Row]
  BY DEF TypeOK
<1>2. /\ table' \in [Keys -> Row]
      /\ \A k \in Keys : table'[k].version >= table[k].version
  BY <1>1, InsertedResult
<1> QED
  BY <1>1, <1>2 DEF TypeOK, Forward, Row

-----------------------------------------------------------------------------
(* What a step leaves of the invariant for the processes it does not move. *)

SameWorker(w) ==
    /\ pc'[w] = pc[w] /\ assigned'[w] = assigned[w] /\ part'[w] = part[w]
    /\ cursor'[w] = cursor[w] /\ batchEnd'[w] = batchEnd[w] /\ tracker'[w] = tracker[w]

BaseForward == \A p \in Partitions : base'[p] \in Nat /\ base'[p] >= base[p]

LEMMA BaseStable ==
    ASSUME TypeOK, BaseOK, Forward, base' = base
    PROVE  BaseForward /\ BaseOK'
<1>1. \A p \in Partitions : base[p] \in Nat
  BY DEF TypeOK
<1> QED
  BY <1>1 DEF BaseOK, BaseForward, ResetOffset, Forward

\* A stretch of applied records that exists stays applied.
LEMMA PrefixStable ==
    ASSUME TypeOK, Forward, BaseForward, NEW p \in Partitions, NEW n \in Int,
           n <= Len(log[p]), \A o \in base[p] .. (n - 1) : Applied(p, o)
    PROVE  \A o \in base'[p] .. (n - 1) : Applied(p, o)'
<1> SUFFICES ASSUME NEW o \in base'[p] .. (n - 1)
             PROVE  Applied(p, o)'
  OBVIOUS
<1>1. base[p] \in Nat /\ base'[p] \in Nat /\ base'[p] >= base[p] /\ Len(log[p]) \in Nat
  BY DEF TypeOK, BaseForward, Forward
<1>2. o \in Nat /\ o < Len(log[p]) /\ o \in base[p] .. (n - 1)
  BY <1>1
<1>3. Applied(p, o)
  BY <1>2
<1> QED
  BY <1>2, <1>3, AppliedStable

LEMMA CommittedAppliedStable ==
    ASSUME TypeOK, CommittedApplied, Forward, BaseForward, committed' = committed
    PROVE  CommittedApplied'
<1> SUFFICES ASSUME NEW p \in Partitions, committed[p] # NoOffset
             PROVE  /\ committed[p] <= Len(log'[p])
                    /\ \A o \in base'[p] .. (committed[p] - 1) : Applied(p, o)'
  BY DEF CommittedApplied
<1>1. committed[p] \in Nat
  BY DEF TypeOK
<1>2. /\ committed[p] <= Len(log[p])
      /\ \A o \in base[p] .. (committed[p] - 1) : Applied(p, o)
  BY DEF CommittedApplied
<1>3. \A o \in base'[p] .. (committed[p] - 1) : Applied(p, o)'
  BY <1>1, <1>2, PrefixStable
<1> QED
  BY <1>1, <1>2, <1>3 DEF Forward

\* Tracker state t of partition p keeps its promise.
LEMMA StateAppliedStable ==
    ASSUME TypeOK, Forward, BaseForward, NEW p \in Partitions,
           NEW t \in PartitionOffsetState \cup {Untracked}, StateApplied(t, p)
    PROVE  /\ \A o \in t.processed : o < Len(log'[p]) /\ Applied(p, o)'
           /\ t # Untracked => /\ t.next <= Len(log'[p])
                              /\ \A o \in base'[p] .. (t.next - 1) : Applied(p, o)'
<1>1. t.processed \in SUBSET Nat /\ (t # Untracked => t.next \in Nat)
  BY DEF PartitionOffsetState, Untracked
<1>2. \A o \in t.processed : o < Len(log'[p]) /\ Applied(p, o)'
  <2> SUFFICES ASSUME NEW o \in t.processed
               PROVE  o < Len(log'[p]) /\ Applied(p, o)'
    OBVIOUS
  <2>1. o \in Nat /\ o < Len(log[p]) /\ Applied(p, o)
    BY <1>1 DEF StateApplied
  <2>2. Applied(p, o)'
    BY <2>1, AppliedStable
  <2> QED
    BY <2>1, <2>2 DEF Forward
<1>3. ASSUME t # Untracked
      PROVE  /\ t.next <= Len(log'[p])
             /\ \A o \in base'[p] .. (t.next - 1) : Applied(p, o)'
  <2>1. /\ t.next \in Nat /\ t.next <= Len(log[p])
        /\ \A o \in base[p] .. (t.next - 1) : Applied(p, o)
    BY <1>1, <1>3 DEF StateApplied
  <2>2. \A o \in base'[p] .. (t.next - 1) : Applied(p, o)'
    BY <2>1, PrefixStable
  <2> QED
    BY <2>1, <2>2 DEF Forward
<1> QED
  BY <1>2, <1>3

LEMMA PositionsStable ==
    ASSUME TypeOK, Forward, NEW w \in Workers, PositionsOK(w), SameWorker(w)
    PROVE  PositionsOK(w)'
<1>1. \A p \in Partitions : batchEnd[w][p] \in Nat
  BY DEF TypeOK
<1> QED
  BY <1>1 DEF PositionsOK, SameWorker, Forward

LEMMA TrackerStable ==
    ASSUME TypeOK, Forward, BaseForward, NEW w \in Workers, WorkerOK(w),
           tracker'[w] = tracker[w]
    PROVE  \A p \in Partitions : StateApplied(tracker[w][p], p)'
<1> SUFFICES ASSUME NEW p \in Partitions
             PROVE  StateApplied(tracker[w][p], p)'
  OBVIOUS
<1>1. /\ tracker[w][p] \in PartitionOffsetState \cup {Untracked}
      /\ StateApplied(tracker[w][p], p)
  BY DEF TypeOK, WorkerOK, WorkApplied
<1> DEFINE t == tracker[w][p]
<1>2. /\ \A o \in t.processed : o < Len(log'[p]) /\ Applied(p, o)'
      /\ t # Untracked => /\ t.next <= Len(log'[p])
                         /\ \A o \in base'[p] .. (t.next - 1) : Applied(p, o)'
  <2> HIDE DEF t
  <2> QED
    BY <1>1, StateAppliedStable DEF t
<1> QED
  BY <1>2 DEF StateApplied

\* The positions and the tracker of a process that the step does not touch.
LEMMA WorkerStable ==
    ASSUME TypeOK, Forward, BaseForward, NEW w \in Workers, WorkerOK(w), SameWorker(w)
    PROVE  WorkerOK(w)'
<1>1. PositionsOK(w)'
  BY PositionsStable DEF WorkerOK
<1>2. \A p \in Partitions : cursor[w][p] \in Nat /\ cursor[w][p] <= Len(log[p])
  BY DEF TypeOK, WorkerOK, PositionsOK, Forward
<1>3. assigned[w] \subseteq Partitions
  BY DEF TypeOK
<1>4. ASSUME NEW p \in assigned[w]
      PROVE  \A o \in base'[p] .. (cursor[w][p] - 1) : Applied(p, o)'
  <2>1. \A o \in base[p] .. (cursor[w][p] - 1) : Applied(p, o)
    BY DEF WorkerOK, WorkApplied
  <2> QED
    BY <1>2, <1>3, <2>1, PrefixStable
<1>5. ASSUME pc[w] = "persisted"
      PROVE  Applied(part[w], cursor[w][part[w]])'
  <2>1. /\ part[w] \in Partitions /\ cursor[w][part[w]] \in Nat
        /\ cursor[w][part[w]] < Len(log[part[w]])
    BY <1>2, <1>3, <1>5 DEF WorkerOK, PositionsOK, TypeOK, Forward
  <2>2. Applied(part[w], cursor[w][part[w]])
    BY <1>5 DEF WorkerOK, WorkApplied
  <2> DEFINE q == part[w]
             c == cursor[w][part[w]]
  <2>3. \A r \in Partitions, o \in Nat :
          o < Len(log[r]) /\ Applied(r, o) => Applied(r, o)'
    BY AppliedStable
  <2> QED
    BY <2>1, <2>2, <2>3 DEF SameWorker, Applied
<1>6. \A p \in Partitions : StateApplied(tracker[w][p], p)'
  BY TrackerStable DEF SameWorker
<1> QED
  BY <1>1, <1>4, <1>5, <1>6 DEF WorkerOK, WorkApplied, SameWorker

-----------------------------------------------------------------------------
(* Every step preserves the invariant. *)

LEMMA InitInv == Init => Inv
<1> SUFFICES ASSUME Init PROVE Inv
  OBVIOUS
<1>1. TypeOK
  BY DEF Init, TypeOK, PartitionOffsetState, Row, NoRow
<1>2. CommittedApplied /\ BaseOK
  BY DEF Init, CommittedApplied, BaseOK, ResetOffset
<1>3. ASSUME NEW w \in Workers PROVE WorkerOK(w)
  <2>1. PositionsOK(w)
    BY DEF Init, PositionsOK
  <2>2. WorkApplied(w)
    BY DEF Init, WorkApplied, StateApplied, Untracked
  <2> QED
    BY <2>1, <2>2 DEF WorkerOK
<1> QED
  BY <1>1, <1>2, <1>3 DEF Inv

\* A step of the environment moves no process and no committed offset.
LEMMA EnvironmentInv ==
    ASSUME Inv, TypeOK', Forward, base' = base, committed' = committed,
           \A w \in Workers : SameWorker(w)
    PROVE  Inv'
<1>1. BaseForward /\ BaseOK'
  BY BaseStable DEF Inv
<1>2. CommittedApplied'
  BY <1>1, CommittedAppliedStable DEF Inv
<1>3. \A w \in Workers : WorkerOK(w)'
  BY <1>1, WorkerStable DEF Inv
<1> QED
  BY <1>1, <1>2, <1>3 DEF Inv

\* A step of process w.
LEMMA WorkerInv ==
    ASSUME Inv, TypeOK', Forward, base' = base, CommittedApplied', NEW w \in Workers,
           WorkerOK(w)', \A v \in Workers \ {w} : SameWorker(v)
    PROVE  Inv'
<1>1. BaseForward /\ BaseOK'
  BY BaseStable DEF Inv
<1>2. \A v \in Workers \ {w} : WorkerOK(v)'
  BY <1>1, WorkerStable DEF Inv
<1> QED
  BY <1>1, <1>2 DEF Inv

LEMMA SourceChangeInv ==
    ASSUME Inv, NEW k \in Keys, NEW op \in Ops, SourceChange(k, op)
    PROVE  Inv'
<1>1. wal' \in Seq(Changes) /\ Len(wal') = Len(wal) + 1 /\ Len(wal) \in Nat
  <2>1. [key |-> k, op |-> op] \in Changes /\ wal \in Seq(Changes)
    BY DEF Changes, Inv, TypeOK
  <2> QED
    BY <2>1 DEF SourceChange
<1>2. TypeOK'
  BY <1>1 DEF Inv, TypeOK, SourceChange
<1>3. Forward /\ base' = base
  BY ForwardIfUnchanged DEF Inv, SourceChange
<1>4. committed' = committed /\ \A w \in Workers : SameWorker(w)
  BY DEF SourceChange, SameWorker
<1> QED
  BY <1>2, <1>3, <1>4, EnvironmentInv

LEMMA EmitInv ==
    ASSUME Inv, ConnectorEmit
    PROVE  Inv'
<1> DEFINE change == wal[emitted + 1]
           new == RecordsOf(change, emitted + 1)
           q == PartitionOf[change.key]
<1>1. change \in Changes /\ emitted \in Nat /\ emitted + 1 \in 0 .. Len(wal)
  <2>1. wal \in Seq(Changes) /\ emitted \in 0 .. Len(wal) /\ emitted < Len(wal)
    BY DEF Inv, TypeOK, ConnectorEmit
  <2>2. emitted + 1 \in 1 .. Len(wal)
    BY <2>1
  <2> QED
    BY <2>1, <2>2, ElementOfSeq
<1>2. new \in Seq(Records) /\ q \in Partitions
  BY <1>1, RecordsOfType, PartitionOfAssumption DEF Changes
<1>3. /\ log' = [log EXCEPT ![q] = log[q] \o new]
      /\ emitted' = emitted + 1
      /\ UNCHANGED <<wal, replays, committed, member, base,
                     pc, assigned, cursor, batchEnd, part, tracker, confirmed, table, faults>>
  BY DEF ConnectorEmit
<1> HIDE DEF change, new, q
<1>4. \A p \in Partitions : log[p] \in Seq(Records)
  BY DEF Inv, TypeOK
<1>5. /\ log[q] \o new \in Seq(Records)
      /\ Len(log[q] \o new) = Len(log[q]) + Len(new)
      /\ \A i \in 1 .. Len(log[q]) : (log[q] \o new)[i] = log[q][i]
  <2>1. /\ log[q] \in Seq(Records) /\ Len(log[q]) \in Nat /\ Len(new) \in Nat
    BY <1>2, <1>4
  <2> QED
    BY <1>2, <2>1, ConcatProperties
<1>6. TypeOK'
  <2>1. log' \in [Partitions -> Seq(Records)]
    BY <1>2, <1>3, <1>5 DEF Inv, TypeOK
  <2> QED
    BY <1>1, <1>3, <2>1 DEF Inv, TypeOK
<1>7. Forward
  <2>1. \A p \in Partitions : log'[p] = IF p = q THEN log[q] \o new ELSE log[p]
    BY <1>2, <1>3 DEF Inv, TypeOK
  <2>2. Len(new) \in Nat /\ \A p \in Partitions : Len(log[p]) \in Nat
    BY <1>2, <1>4
  <2>3. \A k \in Keys : table[k].version \in Nat
    BY DEF Inv, TypeOK, Row
  <2> QED
    BY <1>2, <1>3, <1>5, <2>1, <2>2, <2>3 DEF Forward
<1>8. base' = base /\ committed' = committed /\ \A w \in Workers : SameWorker(w)
  BY <1>3 DEF SameWorker
<1> QED
  BY <1>6, <1>7, <1>8, EnvironmentInv

LEMMA ReplayInv ==
    ASSUME Inv, NEW lsn \in 0 .. (emitted - 1), ConnectorReplay(lsn)
    PROVE  Inv'
<1>1. TypeOK'
  BY DEF Inv, TypeOK, ConnectorReplay
<1>2. Forward /\ base' = base
  BY ForwardIfUnchanged DEF Inv, ConnectorReplay
<1>3. committed' = committed /\ \A w \in Workers : SameWorker(w)
  BY DEF ConnectorReplay, SameWorker
<1> QED
  BY <1>1, <1>2, <1>3, EnvironmentInv

LEMMA EvictInv ==
    ASSUME Inv, NEW w \in Workers, Evict(w)
    PROVE  Inv'
<1>1. TypeOK'
  BY DEF Inv, TypeOK, Evict
<1>2. Forward /\ base' = base
  BY ForwardIfUnchanged DEF Inv, Evict
<1>3. committed' = committed /\ \A v \in Workers : SameWorker(v)
  BY DEF Evict, SameWorker
<1> QED
  BY <1>1, <1>2, <1>3, EnvironmentInv

\* A rebalance puts the processes that join at the committed offsets of what they get.
LEMMA RebalanceInv ==
    ASSUME Inv, NEW joiners \in SUBSET Workers, NEW owner \in [Partitions -> joiners],
           Rebalance(joiners, owner)
    PROVE  Inv'
<1>1. \A p \in Partitions : /\ ResumeOffset(p) \in Nat /\ ResumeOffset(p) <= Len(log[p])
                            /\ ResetOffset(p) \in Nat /\ ResetOffset(p) <= Len(log[p])
                            /\ Len(log[p]) \in Nat
  BY DEF Inv, TypeOK, CommittedApplied, ResumeOffset, ResetOffset
<1>2. TypeOK'
  <2>1. base' \in [Partitions -> Nat]
    BY <1>1 DEF Inv, TypeOK, Rebalance
  <2>2. cursor' \in [Workers -> [Partitions -> Nat]] /\ batchEnd' \in [Workers -> [Partitions -> Nat]]
    BY <1>1 DEF Inv, TypeOK, Rebalance
  <2>3. assigned' \in [Workers -> SUBSET Partitions] /\ member' \in [Workers -> BOOLEAN]
    BY DEF Inv, TypeOK, Rebalance
  <2> QED
    BY <2>1, <2>2, <2>3 DEF Inv, TypeOK, Rebalance
<1>3. Forward
  BY ForwardIfUnchanged DEF Inv, Rebalance
<1>4. \A p \in Partitions : base'[p] = IF committed[p] = NoOffset THEN ResetOffset(p) ELSE base[p]
  BY DEF Rebalance
<1>5. CommittedApplied'
  BY <1>4 DEF Inv, CommittedApplied, Rebalance, Applied

<1>6. BaseForward /\ BaseOK'
  <2>1. \A p \in Partitions : base[p] \in Nat /\ base[p] <= ResetOffset(p)
    BY DEF Inv, TypeOK, BaseOK
  <2>2. \A p \in Partitions : ResetOffset(p)' = ResetOffset(p)
    BY DEF ResetOffset, Rebalance
  <2> QED
    BY <1>1, <1>4, <2>1, <2>2 DEF BaseForward, BaseOK
<1>7. ASSUME NEW w \in Workers \ joiners PROVE WorkerOK(w)'
  <2>1. w \in Workers /\ SameWorker(w)
    BY DEF Inv, TypeOK, Rebalance, SameWorker
  <2> QED
    BY <1>3, <1>6, <2>1, WorkerStable DEF Inv
<1>8. ASSUME NEW w \in joiners PROVE WorkerOK(w)'
  <2>1. /\ pc'[w] = "poll" /\ assigned'[w] = {p \in Partitions : owner[p] = w}
        /\ cursor'[w] = [p \in Partitions |-> IF owner[p] = w THEN ResumeOffset(p) ELSE 0]
        /\ batchEnd'[w] = cursor'[w]
        /\ tracker'[w] = tracker[w] /\ log' = log
    BY DEF Rebalance, Polling
  <2>2. PositionsOK(w)'
    BY <1>1, <2>1 DEF PositionsOK
  <2>3. ASSUME NEW p \in assigned'[w]
        PROVE  \A o \in base'[p] .. (cursor'[w][p] - 1) : Applied(p, o)'
    <3>1. p \in Partitions /\ cursor'[w][p] = ResumeOffset(p)
      BY <2>1
    <3>2. CASE committed[p] = NoOffset
      BY <1>1, <1>4, <3>1, <3>2 DEF ResumeOffset
    <3>3. CASE committed[p] # NoOffset
      <4>1. committed'[p] = committed[p] /\ cursor'[w][p] = committed[p]
        BY <3>1, <3>3 DEF ResumeOffset, Rebalance
      <4> QED
        BY <1>5, <3>1, <3>3, <4>1 DEF CommittedApplied
    <3> QED
      BY <3>2, <3>3
  <2>4. \A p \in Partitions : StateApplied(tracker[w][p], p)'
    BY <1>3, <1>6, <2>1, TrackerStable DEF Inv
  <2> QED
    BY <2>1, <2>2, <2>3, <2>4 DEF WorkerOK, WorkApplied
<1> QED
  BY <1>2, <1>5, <1>6, <1>7, <1>8 DEF Inv

LEMMA StartInv ==
    ASSUME Inv, NEW w \in Workers, Start(w)
    PROVE  Inv'
<1>1. TypeOK'
  BY DEF Inv, TypeOK, Start
<1>2. Forward /\ base' = base
  BY ForwardIfUnchanged DEF Inv, Start
<1>3. BaseForward
  BY <1>2, BaseStable DEF Inv
<1>4. CommittedApplied'
  BY <1>2, <1>3, CommittedAppliedStable DEF Inv, Start
<1>5. WorkerOK(w)'
  <2>1. pc'[w] = "poll"
    BY DEF Start, Inv, TypeOK
  <2>2. PositionsOK(w)'
    BY <2>1 DEF PositionsOK, WorkerOK, Inv, Start
  <2>3. WorkApplied(w)'
    BY <2>1 DEF WorkApplied, StateApplied, WorkerOK, Inv, Start, Applied
  <2> QED
    BY <2>2, <2>3 DEF WorkerOK
<1>6. \A v \in Workers \ {w} : SameWorker(v)
  BY DEF Inv, TypeOK, Start, SameWorker
<1> QED
  BY <1>1, <1>2, <1>4, <1>5, <1>6, WorkerInv

\* A poll moves only the end of the process's batch.
LEMMA PollInv ==
    ASSUME Inv, NEW w \in Workers, Poll(w)
    PROVE  Inv'
<1>1. PICK count \in [assigned[w] -> 0 .. MaxPollRecords], first \in assigned[w] :
         /\ \A p \in assigned[w] : cursor[w][p] + count[p] <= Len(log[p])
         /\ count[first] > 0
         /\ batchEnd' = [batchEnd EXCEPT ![w] =
                           [p \in Partitions |->
                              IF p \in assigned[w] THEN cursor[w][p] + count[p]
                                                  ELSE batchEnd[w][p]]]
         /\ part' = [part EXCEPT ![w] = first]
  BY DEF Poll
<1>2. /\ pc' = [pc EXCEPT ![w] = "record"] /\ pc[w] = "poll"
      /\ UNCHANGED <<wal, emitted, replays, log, committed, member, base,
                     assigned, cursor, tracker, confirmed, table, faults>>
  BY DEF Poll
<1>3. /\ assigned[w] \subseteq Partitions
      /\ \A p \in Partitions : cursor[w][p] \in Nat /\ batchEnd[w][p] \in Nat
      /\ \A p \in assigned[w] : count[p] \in Nat
  BY DEF Inv, TypeOK
<1>4. TypeOK'
  <2>1. batchEnd' \in [Workers -> [Partitions -> Nat]]
    BY <1>1, <1>3 DEF Inv, TypeOK
  <2>2. part' \in [Workers -> Partitions \cup {NoPart}]
    BY <1>1, <1>3 DEF Inv, TypeOK
  <2> QED
    BY <1>2, <2>1, <2>2 DEF Inv, TypeOK
<1>5. Forward
  BY <1>2, ForwardIfUnchanged DEF Inv
<1>6. BaseForward /\ CommittedApplied'
  BY <1>2, <1>5, BaseStable, CommittedAppliedStable DEF Inv
<1>7. PositionsOK(w)'
  <2>1. /\ pc'[w] = "record" /\ part'[w] = first
        /\ \A p \in Partitions :
             batchEnd'[w][p] = IF p \in assigned[w] THEN cursor[w][p] + count[p]
                                                    ELSE batchEnd[w][p]
    BY <1>1, <1>2 DEF Inv, TypeOK
  <2>2. PositionsOK(w)
    BY DEF Inv, WorkerOK
  <2> QED
    BY <1>1, <1>2, <1>3, <2>1, <2>2 DEF PositionsOK
<1>8. WorkApplied(w)'
  <2>1. pc'[w] = "record" /\ WorkApplied(w)
    BY <1>2 DEF Inv, WorkerOK, TypeOK
  <2> QED
    BY <1>2, <2>1 DEF WorkApplied, StateApplied, Applied
<1>9. \A v \in Workers \ {w} : SameWorker(v)
  BY <1>1, <1>2 DEF Inv, TypeOK, SameWorker
<1> QED
  BY <1>2, <1>4, <1>5, <1>6, <1>7, <1>8, <1>9, WorkerInv DEF WorkerOK

\* A step of process w from "record" to "persisted" that applies its record.
LEMMA PersistedInv ==
    ASSUME Inv, NEW w \in Workers, pc[w] = "record", table' \in [Keys -> Row], Forward,
           pc' = [pc EXCEPT ![w] = "persisted"],
           UNCHANGED <<wal, emitted, replays, log, committed, member, base,
                       assigned, cursor, batchEnd, part, tracker, confirmed, faults>>,
           Applied(part[w], cursor[w][part[w]])'
    PROVE  Inv'
<1>1. TypeOK'
  BY DEF Inv, TypeOK
<1>2. BaseForward /\ CommittedApplied'
  BY BaseStable, CommittedAppliedStable DEF Inv
<1>3. pc'[w] = "persisted"
  BY DEF Inv, TypeOK
<1>4. PositionsOK(w)'
  BY <1>3 DEF PositionsOK, WorkerOK, Inv
<1>5. WorkApplied(w)'
  <2>1. \A p \in Partitions : StateApplied(tracker[w][p], p)'
    BY <1>2, TrackerStable DEF Inv
  <2>2. ASSUME NEW p \in assigned[w]
        PROVE  \A o \in base'[p] .. (cursor[w][p] - 1) : Applied(p, o)'
    <3>1. p \in Partitions /\ cursor[w][p] \in Nat /\ cursor[w][p] <= Len(log[p])
      BY DEF Inv, TypeOK, WorkerOK, PositionsOK, Forward
    <3>2. \A o \in base[p] .. (cursor[w][p] - 1) : Applied(p, o)
      BY DEF Inv, WorkerOK, WorkApplied
    <3> QED
      BY <1>2, <3>1, <3>2, PrefixStable DEF Inv
  <2> QED
    BY <2>1, <2>2 DEF WorkApplied
<1>6. \A v \in Workers \ {w} : SameWorker(v)
  BY DEF Inv, TypeOK, SameWorker
<1> QED
  BY <1>1, <1>2, <1>4, <1>5, <1>6, WorkerInv DEF WorkerOK

LEMMA SkipTombstoneInv ==
    ASSUME Inv, NEW w \in Workers, SkipTombstone(w)
    PROVE  Inv'
<1>1. /\ pc[w] = "record" /\ pc' = [pc EXCEPT ![w] = "persisted"]
      /\ CurrentRecord(w).kind = "tombstone"
      /\ UNCHANGED <<wal, emitted, replays, log, committed, member, base,
                     assigned, cursor, batchEnd, part, tracker, confirmed, table, faults>>
  BY DEF SkipTombstone
<1>2. Forward
  BY <1>1, ForwardIfUnchanged DEF Inv
<1>3. Applied(part[w], cursor[w][part[w]])'
  BY <1>1 DEF Applied, CurrentRecord, CurrentOffset
<1>4. table' \in [Keys -> Row]
  BY <1>1 DEF Inv, TypeOK
<1> QED
  BY <1>1, <1>2, <1>3, <1>4, PersistedInv

LEMMA PersistEventInv ==
    ASSUME Inv, NEW w \in Workers, PersistEvent(w)
    PROVE  Inv'
<1> DEFINE record == CurrentRecord(w)
<1>1. /\ pc[w] = "record" /\ pc' = [pc EXCEPT ![w] = "persisted"]
      /\ IsEvent(record) /\ table' = Inserted(record)
      /\ UNCHANGED <<wal, emitted, replays, log, committed, member, base,
                     assigned, cursor, batchEnd, part, tracker, confirmed, faults>>
  BY DEF PersistEvent
<1>2. record \in Records
  BY <1>1, CurrentRecordExists
<1>3. record = log[part[w]][cursor[w][part[w]] + 1]
  BY DEF CurrentRecord, CurrentOffset
<1> HIDE DEF record
<1>4. Forward
  BY <1>1, <1>2, ForwardIfInserted DEF Inv
<1>5. /\ table' \in [Keys -> Row]
      /\ table'[record.key].version >= record.lsn
  BY <1>1, <1>2, InsertedResult DEF Inv, TypeOK
<1>6. Applied(part[w], cursor[w][part[w]])'
  BY <1>1, <1>3, <1>5 DEF Applied, IsEvent
<1> QED
  BY <1>1, <1>4, <1>5, <1>6, PersistedInv

\* Ending a process: nothing of what it held survives, so nothing is promised.
LEMMA ExitInv ==
    ASSUME Inv, NEW w \in Workers, Exit(w), Forward, table' \in [Keys -> Row],
           committed' \in [Partitions -> Nat \cup {NoOffset}], CommittedApplied',
           faults' \in Nat, UNCHANGED <<wal, emitted, replays, log, base>>
    PROVE  Inv'
<1>1. TypeOK'
  <2>1. cursor' \in [Workers -> [Partitions -> Nat]] /\ batchEnd' \in [Workers -> [Partitions -> Nat]]
    BY DEF Inv, TypeOK, Exit
  <2>2. tracker' \in [Workers -> [Partitions -> PartitionOffsetState \cup {Untracked}]]
    BY DEF Inv, TypeOK, Exit
  <2>3. /\ pc' \in [Workers -> {"down", "poll", "record", "persisted"}]
        /\ member' \in [Workers -> BOOLEAN] /\ assigned' \in [Workers -> SUBSET Partitions]
        /\ part' \in [Workers -> Partitions \cup {NoPart}]
        /\ confirmed' \in [Workers -> [Partitions -> Nat \cup {NoOffset}]]
    BY DEF Inv, TypeOK, Exit
  <2> QED
    BY <2>1, <2>2, <2>3 DEF Inv, TypeOK
<1>2. /\ pc'[w] = "down" /\ assigned'[w] = {}
      /\ \A p \in Partitions : /\ cursor'[w][p] = 0 /\ batchEnd'[w][p] = 0
                              /\ tracker'[w][p] = Untracked
  BY DEF Inv, TypeOK, Exit
<1>3. PositionsOK(w)'
  BY <1>2 DEF PositionsOK, Forward
<1>4. WorkApplied(w)'
  BY <1>2 DEF WorkApplied, StateApplied, Untracked
<1>5. \A v \in Workers \ {w} : SameWorker(v)
  BY DEF Inv, TypeOK, Exit, SameWorker
<1> QED
  BY <1>1, <1>3, <1>4, <1>5, WorkerInv DEF WorkerOK

\* What the tracker of a process holds once the current record is marked.
LEMMA MarkedResult ==
    ASSUME Inv, NEW w \in Workers, pc[w] = "persisted", NEW p \in Partitions
    PROVE  /\ Marked(w)[p] \in PartitionOffsetState \cup {Untracked}
           /\ Bounded(Marked(w)[p])
           /\ StateApplied(Marked(w)[p], p)
           /\ p = part[w] => Marked(w)[p] = MarkProcessed(tracker[w][p], CurrentOffset(w))
           /\ p # part[w] => Marked(w)[p] = tracker[w][p]
<1> DEFINE t == tracker[w][p]
           c == CurrentOffset(w)
<1>1. /\ part[w] \in Partitions /\ part[w] \in assigned[w] /\ c \in Nat
      /\ c < Len(log[part[w]])
  BY CurrentRecordExists
<1>2. t \in PartitionOffsetState \cup {Untracked} /\ StateApplied(t, p)
  BY DEF Inv, TypeOK, WorkerOK, WorkApplied
<1>3. Bounded(t)
  <2>1. \A o \in t.processed : o < Len(log[p])
    BY <1>2 DEF StateApplied
  <2>2. Len(log[p]) \in Nat
    BY DEF Inv, TypeOK
  <2> QED
    BY <2>1, <2>2 DEF Bounded
<1>4. Marked(w)[p] = IF p = part[w] THEN MarkProcessed(t, c) ELSE t
  BY <1>1 DEF Marked, Inv, TypeOK
<1>5. CASE p = part[w]
  <2>1. LET after == MarkProcessed(t, c) IN
           /\ after \in PartitionOffsetState
           /\ after # Untracked
           /\ Bounded(after)
           /\ after.next = IF t = Untracked THEN c ELSE t.next
           /\ after.processed = t.processed \cup {c}
    <3> HIDE DEF t, c
    <3> QED
      BY <1>1, <1>2, <1>3, MarkProcessedResult
  <2>2. Applied(p, c) /\ \A o \in base[p] .. (c - 1) : Applied(p, o)
    BY <1>1, <1>5 DEF Inv, WorkerOK, WorkApplied, CurrentOffset
  <2>3. StateApplied(MarkProcessed(t, c), p)
    <3> DEFINE after == MarkProcessed(t, c)
    <3>1. Len(log[p]) \in Nat
      BY DEF Inv, TypeOK
    <3> HIDE DEF after, t, c
    <3>2. StateApplied(after, p)
      BY <1>1, <1>2, <1>5, <2>1, <2>2, <3>1 DEF StateApplied, after
    <3> QED
      BY <3>2 DEF after
  <2> QED
    BY <1>4, <1>5, <2>1, <2>3
<1>6. CASE p # part[w]
  BY <1>2, <1>3, <1>4, <1>6
<1> QED
  BY <1>5, <1>6

\* What a process would commit has been applied, and exists.
LEMMA CommitResult ==
    ASSUME Inv, NEW w \in Workers, pc[w] = "persisted", NEW p \in CommitParts(w)
    PROVE  LET n == CommitOffset(Marked(w)[p])
               after == MarkCommitted(Marked(w)[p], n)
           IN  /\ n \in Nat /\ n > Marked(w)[p].next /\ n <= Len(log[p])
               /\ \A o \in base[p] .. (n - 1) : Applied(p, o)
               /\ after \in PartitionOffsetState
               /\ StateApplied(after, p)
               /\ after.next = n
<1> DEFINE t == Marked(w)[p]
           n == CommitOffset(t)
           after == MarkCommitted(t, n)
<1>1. p \in Partitions /\ t # Untracked /\ n # t.next
  BY DEF CommitParts, HasCommit
<1>2. t \in PartitionOffsetState /\ Bounded(t) /\ StateApplied(t, p)
  BY <1>1, MarkedResult
<1>3. base[p] \in Nat /\ Len(log[p]) \in Nat
  BY <1>1 DEF Inv, TypeOK
<1> HIDE DEF t
<1>4. /\ n \in Nat /\ n >= t.next
      /\ \A o \in t.next .. (n - 1) : o \in t.processed
  BY <1>2, CommitOffsetIsFirstHole
<1>5. /\ after \in PartitionOffsetState /\ after # Untracked
      /\ after.next = n
      /\ after.processed = t.processed \ (t.next .. (n - 1))
  BY <1>2, <1>4, MarkCommittedResult
<1> HIDE DEF n, after
<1>6. t.next \in Nat /\ n > t.next
  BY <1>1, <1>2, <1>4 DEF PartitionOffsetState
<1>7. n - 1 \in t.processed /\ n <= Len(log[p])
  <2>1. n - 1 \in t.next .. (n - 1)
    BY <1>4, <1>6
  <2>2. n - 1 \in t.processed
    BY <1>4, <2>1
  <2> QED
    BY <1>2, <1>3, <1>4, <2>2 DEF StateApplied
<1>8. \A o \in base[p] .. (n - 1) : Applied(p, o)
  <2> SUFFICES ASSUME NEW o \in base[p] .. (n - 1) PROVE Applied(p, o)
    OBVIOUS
  <2>1. CASE o < t.next
    BY <1>1, <1>2, <1>3, <1>4, <1>6, <2>1 DEF StateApplied
  <2>2. CASE o >= t.next
    <3>1. o \in t.processed
      BY <1>3, <1>4, <1>6, <2>2
    <3> QED
      BY <1>2, <3>1 DEF StateApplied
  <2> QED
    BY <1>3, <1>4, <1>6, <2>1, <2>2
<1>9. StateApplied(after, p)
  BY <1>2, <1>5, <1>7, <1>8 DEF StateApplied
<1> QED
  BY <1>4, <1>5, <1>6, <1>7, <1>8, <1>9 DEF t, n, after

\* Committing what the tracker offers keeps the committed offsets sound.
LEMMA CommittedByResult ==
    ASSUME Inv, NEW w \in Workers, pc[w] = "persisted",
           committed' = CommittedBy(w), log' = log, table' = table, base' = base
    PROVE  /\ committed' \in [Partitions -> Nat \cup {NoOffset}]
           /\ CommittedApplied'
<1>1. \A p \in Partitions :
         committed'[p] = IF p \in CommitParts(w) THEN CommitOffset(Marked(w)[p]) ELSE committed[p]
  BY DEF CommittedBy
<1>2. \A p \in CommitParts(w) :
         LET n == CommitOffset(Marked(w)[p]) IN
         /\ n \in Nat /\ n <= Len(log[p])
         /\ \A o \in base[p] .. (n - 1) : Applied(p, o)
  BY CommitResult
<1>3. committed' \in [Partitions -> Nat \cup {NoOffset}]
  BY <1>2 DEF Inv, TypeOK, CommittedBy
<1>4. CommittedApplied'
  <2> SUFFICES ASSUME NEW p \in Partitions, committed'[p] # NoOffset
               PROVE  /\ committed'[p] <= Len(log'[p])
                      /\ \A o \in base'[p] .. (committed'[p] - 1) : Applied(p, o)'
    BY DEF CommittedApplied
  <2>1. \A o : Applied(p, o)' <=> Applied(p, o)
    BY DEF Applied
  <2>2. CASE p \in CommitParts(w)
    BY <1>1, <1>2, <2>1, <2>2
  <2>3. CASE p \notin CommitParts(w)
    BY <1>1, <2>1, <2>3 DEF Inv, CommittedApplied
  <2> QED
    BY <2>2, <2>3
<1> QED
  BY <1>3, <1>4

\* Moving on to the next record, partition or poll, with a sound tracker.
LEMMA NextRecordInv ==
    ASSUME Inv, NEW w \in Workers, pc[w] = "persisted", NextRecord(w),
           committed' \in [Partitions -> Nat \cup {NoOffset}], CommittedApplied',
           NEW t \in [Partitions -> PartitionOffsetState \cup {Untracked}],
           \A p \in Partitions : StateApplied(t[p], p),
           tracker' = [tracker EXCEPT ![w] = t],
           confirmed' \in [Workers -> [Partitions -> Nat \cup {NoOffset}]],
           UNCHANGED <<wal, emitted, replays, log, member, base,
                       assigned, batchEnd, table, faults>>
    PROVE  Inv'
<1> DEFINE q == part[w]
           next == [cursor[w] EXCEPT ![q] = cursor[w][q] + 1]
           Pending == {p \in Partitions : next[p] < batchEnd[w][p]}
<1>1. /\ q \in Partitions /\ q \in assigned[w]
      /\ cursor[w][q] \in Nat /\ cursor[w][q] < batchEnd[w][q]
  BY CurrentRecordExists DEF CurrentOffset
<1>2. next \in [Partitions -> Nat]
  BY <1>1 DEF Inv, TypeOK
<1>3. \A p \in Partitions : next[p] = IF p = q THEN cursor[w][q] + 1 ELSE cursor[w][p]
  BY <1>1 DEF Inv, TypeOK
<1>4. /\ cursor' = [cursor EXCEPT ![w] = next]
      /\ IF Pending = {}
           THEN /\ pc' = [pc EXCEPT ![w] = "poll"]
                /\ part' = [part EXCEPT ![w] = NoPart]
           ELSE /\ pc' = [pc EXCEPT ![w] = "record"]
                /\ \E p \in Pending : part' = [part EXCEPT ![w] = p]
  BY DEF NextRecord
<1>5. \A p \in Pending : p \in Partitions /\ next[p] < batchEnd[w][p]
  OBVIOUS
<1>6. Pending = {} => \A p \in Partitions : ~(next[p] < batchEnd[w][p])
  OBVIOUS
<1> HIDE DEF q, next, Pending
<1>7. TypeOK'
  <2>1. cursor' \in [Workers -> [Partitions -> Nat]]
    BY <1>2, <1>4 DEF Inv, TypeOK
  <2>2. tracker' \in [Workers -> [Partitions -> PartitionOffsetState \cup {Untracked}]]
    BY DEF Inv, TypeOK
  <2>3. /\ pc' \in [Workers -> {"down", "poll", "record", "persisted"}]
        /\ part' \in [Workers -> Partitions \cup {NoPart}]
    <3>1. CASE Pending = {}
      BY <1>4, <3>1 DEF Inv, TypeOK
    <3>2. CASE Pending # {}
      <4>1. PICK p \in Pending : part' = [part EXCEPT ![w] = p]
        BY <1>4, <3>2
      <4>2. p \in Partitions
        BY <1>5
      <4> QED
        BY <1>4, <3>2, <4>1, <4>2 DEF Inv, TypeOK
    <3> QED
      BY <3>1, <3>2
  <2> QED
    BY <2>1, <2>2, <2>3 DEF Inv, TypeOK
<1>8. Forward
  BY ForwardIfUnchanged DEF Inv
<1>9. /\ cursor'[w] = next /\ tracker'[w] = t
      /\ \/ Pending = {} /\ pc'[w] = "poll"
         \/ pc'[w] = "record" /\ part'[w] \in Pending
  BY <1>4 DEF Inv, TypeOK
<1>10. PositionsOK(w)'
  <2>1. \A p \in Partitions : /\ cursor[w][p] \in Nat /\ batchEnd[w][p] \in Nat
                              /\ cursor[w][p] <= batchEnd[w][p]
                              /\ batchEnd[w][p] <= Len(log[p])
    BY DEF Inv, TypeOK, WorkerOK, PositionsOK
  <2>2. \A p \in Partitions \ assigned[w] : cursor[w][p] = batchEnd[w][p]
    BY DEF Inv, WorkerOK, PositionsOK
  <2>3. \A p \in Partitions : next[p] <= batchEnd[w][p]
    BY <1>1, <1>3, <2>1
  <2>4. \A p \in Partitions \ assigned[w] : next[p] = batchEnd[w][p]
    BY <1>1, <1>3, <2>2
  <2>5. ASSUME NEW p \in Pending, p \notin assigned[w] PROVE FALSE
    <3>1. p \in Partitions \ assigned[w] /\ next[p] < batchEnd[w][p]
      BY <1>5, <2>5
    <3>2. next[p] = batchEnd[w][p] /\ batchEnd[w][p] \in Nat
      BY <2>1, <2>4, <3>1
    <3> QED
      BY <3>1, <3>2
  <2>6. CASE Pending = {} /\ pc'[w] = "poll"
    BY <1>2, <1>6, <1>9, <2>1, <2>3, <2>6 DEF PositionsOK
  <2>7. CASE pc'[w] = "record" /\ part'[w] \in Pending
    BY <1>5, <1>9, <2>1, <2>3, <2>4, <2>5, <2>7 DEF PositionsOK
  <2> QED
    BY <1>9, <2>6, <2>7
<1>11. WorkApplied(w)'
  <2>1. \A p, o : Applied(p, o)' <=> Applied(p, o)
    BY DEF Applied
  <2>2. ASSUME NEW p \in assigned[w], NEW o \in base[p] .. (next[p] - 1)
        PROVE  Applied(p, o)
    <3>1. p \in Partitions /\ base[p] \in Nat /\ cursor[w][p] \in Nat
      BY DEF Inv, TypeOK
    <3>2. \A i \in base[p] .. (cursor[w][p] - 1) : Applied(p, i)
      BY DEF Inv, WorkerOK, WorkApplied
    <3>3. Applied(q, cursor[w][q])
      BY DEF Inv, WorkerOK, WorkApplied, q
    <3>4. CASE o = cursor[w][q] /\ p = q
      BY <3>3, <3>4
    <3>5. CASE ~(o = cursor[w][q] /\ p = q)
      <4> SUFFICES o \in base[p] .. (cursor[w][p] - 1)
        BY <3>2
      <4>1. CASE p = q
        <5>1. next[p] = cursor[w][p] + 1 /\ o # cursor[w][p]
          BY <1>3, <3>1, <3>5, <4>1
        <5>2. next[p] - 1 = cursor[w][p]
          BY <3>1, <5>1
        <5>3. o \in base[p] .. cursor[w][p]
          BY <5>2
        <5>4. \A a \in Nat, b \in Nat : o \in a .. b /\ o # b => o \in a .. (b - 1)
          OBVIOUS
        <5> QED
          BY <3>1, <5>1, <5>3, <5>4, Zenon
      <4>2. CASE p # q
        <5>1. next[p] = cursor[w][p]
          BY <1>3, <3>1, <4>2
        <5> QED
          BY <5>1
      <4> QED
        BY <4>1, <4>2
    <3> QED
      BY <3>4, <3>5
  <2>3. \A p \in Partitions : StateApplied(t[p], p)'
    BY <2>1 DEF StateApplied
  <2> QED
    BY <1>9, <2>1, <2>2, <2>3 DEF WorkApplied
<1>12. \A v \in Workers \ {w} : SameWorker(v)
  BY <1>4 DEF Inv, TypeOK, SameWorker
<1> QED
  BY <1>7, <1>8, <1>10, <1>11, <1>12, WorkerInv DEF WorkerOK

LEMMA CommitNothingInv ==
    ASSUME Inv, NEW w \in Workers, CommitNothing(w)
    PROVE  Inv'
<1>1. /\ pc[w] = "persisted" /\ NextRecord(w)
      /\ tracker' = [tracker EXCEPT ![w] = Marked(w)]
      /\ UNCHANGED <<wal, emitted, replays, log, committed, member, base,
                     assigned, batchEnd, confirmed, table, faults>>
  BY DEF CommitNothing
<1>2. Marked(w) \in [Partitions -> PartitionOffsetState \cup {Untracked}]
  <2>1. \A p \in Partitions : Marked(w)[p] \in PartitionOffsetState \cup {Untracked}
    BY <1>1, MarkedResult
  <2>2. Marked(w) = [p \in Partitions |-> Marked(w)[p]]
    BY DEF Marked, Inv, TypeOK
  <2> QED
    BY <2>1, <2>2
<1>3. \A p \in Partitions : StateApplied(Marked(w)[p], p)
  BY <1>1, MarkedResult
<1>4. committed' \in [Partitions -> Nat \cup {NoOffset}] /\ CommittedApplied'
  <2>1. Forward /\ BaseForward
    BY <1>1, ForwardIfUnchanged, BaseStable DEF Inv
  <2> QED
    BY <1>1, <2>1, CommittedAppliedStable DEF Inv, TypeOK
<1>5. confirmed' \in [Workers -> [Partitions -> Nat \cup {NoOffset}]]
  BY <1>1 DEF Inv, TypeOK
<1> QED
  BY <1>1, <1>2, <1>3, <1>4, <1>5, NextRecordInv

LEMMA CommitAcceptedInv ==
    ASSUME Inv, NEW w \in Workers, CommitAccepted(w)
    PROVE  Inv'
<1> DEFINE after(p) == MarkCommitted(Marked(w)[p], CommitOffset(Marked(w)[p]))
           t == [p \in Partitions |-> IF p \in CommitParts(w) THEN after(p) ELSE Marked(w)[p]]
<1>1. /\ pc[w] = "persisted" /\ NextRecord(w)
      /\ committed' = CommittedBy(w)
      /\ tracker' = [tracker EXCEPT ![w] = t]
      /\ UNCHANGED <<wal, emitted, replays, log, member, base,
                     assigned, batchEnd, table, faults>>
  BY DEF CommitAccepted
<1>2. \A p \in CommitParts(w) : after(p) \in PartitionOffsetState /\ StateApplied(after(p), p)
  BY <1>1, CommitResult
<1>3. \A p \in Partitions : /\ Marked(w)[p] \in PartitionOffsetState \cup {Untracked}
                            /\ StateApplied(Marked(w)[p], p)
  BY <1>1, MarkedResult
<1>4. t \in [Partitions -> PartitionOffsetState \cup {Untracked}]
  BY <1>2, <1>3
<1>5. \A p \in Partitions : t[p] = IF p \in CommitParts(w) THEN after(p) ELSE Marked(w)[p]
  OBVIOUS
<1> HIDE DEF after, t
<1>6. \A p \in Partitions : StateApplied(t[p], p)
  BY <1>2, <1>3, <1>5
<1>7. committed' \in [Partitions -> Nat \cup {NoOffset}] /\ CommittedApplied'
  BY <1>1, CommittedByResult
<1>8. confirmed' \in [Workers -> [Partitions -> Nat \cup {NoOffset}]]
  <2> DEFINE c == [p \in Partitions |->
                     IF p \in CommitParts(w) THEN CommittedBy(w)[p] ELSE confirmed[w][p]]
  <2>1. confirmed' = [confirmed EXCEPT ![w] = c]
    BY DEF CommitAccepted
  <2>2. c \in [Partitions -> Nat \cup {NoOffset}]
    BY <1>1, <1>7 DEF Inv, TypeOK
  <2> HIDE DEF c
  <2> QED
    BY <2>1, <2>2 DEF Inv, TypeOK
<1> QED
  BY <1>1, <1>4, <1>6, <1>7, <1>8, NextRecordInv

\* The ways a process ends, with what it may have done just before.
LEMMA FailureInv ==
    ASSUME Inv, NEW w \in Workers,
           PersistFails(w) \/ RejectRecord(w) \/ CommitRejected(w) \/ CommitFails(w) \/ Crash(w)
    PROVE  Inv'
<1>1. /\ Exit(w) /\ UNCHANGED <<wal, emitted, replays, log, base>>
      /\ faults' \in Nat
  <2>1. faults \in Nat
    BY DEF Inv, TypeOK
  <2> QED
    BY <2>1 DEF PersistFails, RejectRecord, CommitRejected, CommitFails, Crash
<1>2. Forward /\ table' \in [Keys -> Row]
  <2>1. CASE table' = table
    BY <1>1, <2>1, ForwardIfUnchanged DEF Inv, TypeOK
  <2>2. CASE PersistFails(w) /\ table' = Inserted(CurrentRecord(w))
    <3>1. CurrentRecord(w) \in Records
      BY <2>2, CurrentRecordExists DEF PersistFails
    <3> QED
      BY <1>1, <2>2, <3>1, ForwardIfInserted, InsertedResult DEF Inv, TypeOK
  <2> QED
    BY <2>1, <2>2 DEF PersistFails, RejectRecord, CommitRejected, CommitFails, Crash
<1>3. BaseForward
  BY <1>1, <1>2, BaseStable DEF Inv
<1>4. committed' \in [Partitions -> Nat \cup {NoOffset}] /\ CommittedApplied'
  <2>1. CASE committed' = committed
    BY <1>2, <1>3, <2>1, CommittedAppliedStable DEF Inv, TypeOK
  <2>2. CASE CommitFails(w) /\ committed' = CommittedBy(w)
    BY <1>1, <2>2, CommittedByResult DEF CommitFails
  <2> QED
    BY <2>1, <2>2 DEF PersistFails, RejectRecord, CommitRejected, CommitFails, Crash
<1> QED
  BY <1>1, <1>2, <1>4, ExitInv

LEMMA NextInv == Inv /\ [Next]_vars => Inv'
<1> SUFFICES ASSUME Inv, [Next]_vars PROVE Inv'
  OBVIOUS
<1>1. ASSUME NEW k \in Keys, NEW op \in Ops, SourceChange(k, op) PROVE Inv'
  BY <1>1, SourceChangeInv
<1>2. CASE ConnectorEmit
  BY <1>2, EmitInv
<1>3. ASSUME NEW lsn \in 0 .. (emitted - 1), ConnectorReplay(lsn) PROVE Inv'
  BY <1>3, ReplayInv
<1>4. ASSUME NEW joiners \in SUBSET Workers, NEW owner \in [Partitions -> joiners],
             Rebalance(joiners, owner)
      PROVE  Inv'
  BY <1>4, RebalanceInv
<1>5. ASSUME NEW w \in Workers, WorkerStep(w) PROVE Inv'
  <2>1. CASE Start(w)
    BY <2>1, StartInv
  <2>2. CASE Poll(w)
    BY <2>2, PollInv
  <2>3. CASE SkipTombstone(w)
    BY <2>3, SkipTombstoneInv
  <2>4. CASE PersistEvent(w)
    BY <2>4, PersistEventInv
  <2>5. CASE CommitNothing(w)
    BY <2>5, CommitNothingInv
  <2>6. CASE CommitAccepted(w)
    BY <2>6, CommitAcceptedInv
  <2>7. CASE PersistFails(w) \/ RejectRecord(w) \/ CommitRejected(w) \/ CommitFails(w) \/ Crash(w)
    BY <2>7, FailureInv
  <2>8. CASE Evict(w)
    BY <2>8, EvictInv
  <2> QED
    BY <1>5, <2>1, <2>2, <2>3, <2>4, <2>5, <2>6, <2>7, <2>8
       DEF WorkerStep, Persist, CommitProcessed
<1>6. CASE UNCHANGED vars
  <2>1. TypeOK'
    BY <1>6 DEF Inv, TypeOK, vars
  <2>2. Forward
    BY <1>6, ForwardIfUnchanged DEF Inv, vars
  <2>3. base' = base /\ committed' = committed /\ \A w \in Workers : SameWorker(w)
    BY <1>6 DEF vars, SameWorker
  <2> QED
    BY <2>1, <2>2, <2>3, EnvironmentInv
<1> QED
  BY <1>1, <1>2, <1>3, <1>4, <1>5, <1>6 DEF Next

-----------------------------------------------------------------------------
\* The invariant holds in every reachable state.
THEOREM PipelineInvariant == Spec => []Inv
BY InitInv, NextInv, PTL DEF Spec

\* Every variable keeps its type: in particular a process never handles a record that
\* is not in the log and never commits an offset beyond its end.
THEOREM PipelineTypeOK == Spec => []TypeOK
<1>1. Inv => TypeOK
  BY DEF Inv
<1> QED
  BY <1>1, PipelineInvariant, PTL

\* No loss: whatever crashes, rebalances, failed inserts and ambiguous commits happen,
\* every record before a committed offset is reflected in the destination, and a
\* record that cannot be applied is never passed over.
THEOREM PipelineNoLoss == Spec => []CommittedApplied
<1>1. Inv => CommittedApplied
  BY DEF Inv
<1> QED
  BY <1>1, PipelineInvariant, PTL

-----------------------------------------------------------------------------
(* Who commits what: a tracker that outlives the loss of a partition commits nothing  *)
(* of it again once another process has, and only the owner moves its offset.        *)

\* Kafka counts at most one process as the owner of a partition.
OneOwner == \A v, w \in Workers :
    v # w /\ member[v] /\ member[w] => assigned[v] \cap assigned[w] = {}

\* A tracker starts where the process's last accepted commit ended, with nothing
\* contiguous to commit, and holds offsets back only once it has been overtaken.
TrackerSettled(w, p) ==
    LET state == tracker[w][p]
    IN  /\ state.next = confirmed[w][p]
        /\ state.next \notin state.processed
        /\ confirmed[w][p] <= committed[p]
        /\ confirmed[w][p] = committed[p] => state.processed = {}

\* A process that made the group's last commit of p stands there; an owner is never
\* behind the group, and stands at its offset until its own first commit.
OwnerSettled(w, p) ==
    /\ confirmed[w][p] = committed[p] /\ committed[p] # NoOffset
          => cursor[w][p] = committed[p]
    /\ member[w] => /\ committed[p] <= cursor[w][p]
                    /\ confirmed[w][p] = NoOffset
                          => committed[p] \in {NoOffset, cursor[w][p]}

Settled(w) == /\ \A p \in Partitions : TrackerSettled(w, p)
              /\ \A p \in assigned[w] : OwnerSettled(w, p)

OwnershipInv == OneOwner /\ \A w \in Workers : Settled(w)

LEMMA InitOwnership == Init => OwnershipInv
BY DEF Init, OwnershipInv, OneOwner, Settled, TrackerSettled, Untracked, NoOffset

\* Steps that touch no position, no tracker and no commit.
LEMMA QuietOwnership ==
    ASSUME OwnershipInv,
           UNCHANGED <<committed, member, assigned, cursor, tracker, confirmed>>
    PROVE  OwnershipInv'
BY DEF OwnershipInv, OneOwner, Settled, TrackerSettled, OwnerSettled

LEMMA EvictOwnership ==
    ASSUME Inv, OwnershipInv, NEW w \in Workers, Evict(w)
    PROVE  OwnershipInv'
<1>1. /\ UNCHANGED <<committed, assigned, cursor, tracker, confirmed>>
      /\ \A v \in Workers : member'[v] => member[v]
  BY DEF Evict, Inv, TypeOK
<1> QED
  BY <1>1 DEF OwnershipInv, OneOwner, Settled, TrackerSettled, OwnerSettled

\* A rebalance puts every owner at the group's offset.
LEMMA RebalanceOwnership ==
    ASSUME Inv, OwnershipInv, NEW joiners \in SUBSET Workers,
           NEW owner \in [Partitions -> joiners], Rebalance(joiners, owner)
    PROVE  OwnershipInv'
<1>1. /\ UNCHANGED <<committed, tracker, confirmed>>
      /\ \A w \in Workers : member'[w] <=> w \in joiners
      /\ \A w \in joiners : /\ assigned'[w] = {p \in Partitions : owner[p] = w}
                            /\ \A p \in assigned'[w] : cursor'[w][p] = ResumeOffset(p)
      /\ \A w \in Workers \ joiners : assigned'[w] = assigned[w] /\ cursor'[w] = cursor[w]
  BY DEF Rebalance
<1>2. OneOwner'
  BY <1>1 DEF OneOwner
<1>3. ASSUME NEW w \in Workers PROVE Settled(w)'
  <2>1. \A p \in Partitions : TrackerSettled(w, p)'
    BY <1>1 DEF OwnershipInv, Settled, TrackerSettled
  <2>2. ASSUME NEW p \in assigned'[w], w \in joiners PROVE OwnerSettled(w, p)'
    <3>1. cursor'[w][p] = ResumeOffset(p) /\ p \in Partitions
      BY <1>1, <2>2
    <3>2. committed[p] \in Nat \cup {NoOffset} /\ Len(log[p]) \in Nat
      BY <3>1 DEF Inv, TypeOK
    <3> QED
      BY <1>1, <3>1, <3>2 DEF OwnerSettled, ResumeOffset, ResetOffset, NoOffset
  <2>3. ASSUME NEW p \in assigned'[w], w \notin joiners PROVE OwnerSettled(w, p)'
    BY <1>1, <2>3 DEF OwnershipInv, Settled, OwnerSettled
  <2> QED
    BY <2>1, <2>2, <2>3 DEF Settled
<1> QED
  BY <1>2, <1>3 DEF OwnershipInv

\* The tracker of a process has nothing to commit but the partition at hand, and that
\* one only if no other process committed it in between: then the commit moves the
\* group's offset from the process's position to the next record.
LEMMA OnlyThePartAtHand ==
    ASSUME Inv, OwnershipInv, NEW w \in Workers, pc[w] = "persisted", member[w],
           NEW p \in CommitParts(w)
    PROVE  LET n == CommitOffset(Marked(w)[p]) IN
           /\ p = part[w] /\ p \in Partitions /\ p \in assigned[w]
           /\ n = cursor[w][p] + 1
           /\ Marked(w)[p].processed \ (Marked(w)[p].next .. (n - 1)) = {}
<1> DEFINE s == tracker[w][p]
           t == Marked(w)[p]
           n == CommitOffset(t)
           c == cursor[w][p]
<1>1. p \in Partitions /\ t # Untracked /\ n # t.next
  BY DEF CommitParts, HasCommit
<1>2. /\ t \in PartitionOffsetState /\ Bounded(t)
      /\ p = part[w] => t = MarkProcessed(s, CurrentOffset(w))
      /\ p # part[w] => t = s
  BY <1>1, MarkedResult
<1>3. /\ TrackerSettled(w, p)
      /\ s \in PartitionOffsetState \cup {Untracked}
      /\ committed[p] \in Nat \cup {NoOffset} /\ confirmed[w][p] \in Nat \cup {NoOffset}
  BY <1>1 DEF OwnershipInv, Settled, Inv, TypeOK
<1>4. /\ part[w] \in assigned[w] /\ CurrentOffset(w) \in Nat
      /\ p = part[w] => CurrentOffset(w) = c
  BY CurrentRecordExists DEF CurrentOffset
<1>5. /\ n \in Nat /\ n >= t.next /\ n \notin t.processed
      /\ \A o \in t.next .. (n - 1) : o \in t.processed
  <2> HIDE DEF t
  <2> QED
    BY <1>2, CommitOffsetIsFirstHole
<1>6. t.next \in Nat /\ t.next \in t.processed
  <2> HIDE DEF t, n
  <2>1. t.next \in Nat
    BY <1>2 DEF PartitionOffsetState
  <2>2. t.next \in t.next .. (n - 1)
    BY <1>1, <1>5, <2>1
  <2> QED
    BY <1>5, <2>1, <2>2
<1>7. p = part[w]
  BY <1>2, <1>3, <1>6 DEF TrackerSettled
<1>8. /\ t.next = IF s = Untracked THEN c ELSE s.next
      /\ t.processed = s.processed \cup {c}
      /\ c \in Nat
  <2>1. c \in Nat /\ t = MarkProcessed(s, c)
    BY <1>2, <1>4, <1>7
  <2> HIDE DEF s, c, t
  <2>2. CASE s = Untracked
    BY <2>1, <2>2 DEF MarkProcessed, Untracked
  <2>3. CASE s # Untracked
    BY <1>3, <2>1, <2>3 DEF MarkProcessed, PartitionOffsetState
  <2> QED
    BY <2>1, <2>2, <2>3
<1>9. t.next = c /\ t.processed = {c}
  <2>1. CASE s = Untracked
    BY <1>8, <2>1 DEF Untracked
  <2>2. CASE s # Untracked
    <3>1. s.next \in Nat /\ s.next = confirmed[w][p] /\ s.next \notin s.processed
      BY <1>3, <2>2 DEF TrackerSettled, PartitionOffsetState
    <3>2. c = s.next
      BY <1>6, <1>8, <2>2, <3>1
    <3>3. committed[p] <= c
      BY <1>4, <1>7 DEF OwnershipInv, Settled, OwnerSettled
    <3>4. confirmed[w][p] = committed[p]
      BY <1>3, <3>1, <3>2, <3>3 DEF TrackerSettled, NoOffset
    <3>5. s.processed = {}
      BY <1>3, <3>4 DEF TrackerSettled
    <3> QED
      BY <1>8, <2>2, <3>2, <3>5
  <2> QED
    BY <2>1, <2>2
<1>10. n = c + 1
  <2> HIDE DEF t, n, c
  <2>1. n \in Nat /\ n > c /\ \A o \in c .. (n - 1) : o = c
    BY <1>1, <1>5, <1>6, <1>8, <1>9
  <2>2. n - 1 \in c .. (n - 1)
    BY <1>8, <2>1
  <2> QED
    BY <1>8, <2>1, <2>2
<1> QED
  BY <1>1, <1>4, <1>7, <1>8, <1>9, <1>10 DEF s, t, n, c

\* What an accepted commit of w leaves for another process: its tracker, and that
\* its own last commit is older than the group's new offset.
LEMMA CommitLeavesOthers ==
    ASSUME Inv, OwnershipInv, NEW w \in Workers, pc[w] = "persisted", member[w],
           committed' = CommittedBy(w),
           NEW v \in Workers, v # w,
           member'[v] = member[v], assigned'[v] = assigned[v], cursor'[v] = cursor[v],
           tracker'[v] = tracker[v], confirmed'[v] = confirmed[v]
    PROVE  Settled(v)'
<1>1. \A p \in Partitions :
         /\ committed[p] \in Nat \cup {NoOffset} /\ confirmed[v][p] \in Nat \cup {NoOffset}
         /\ cursor[w][p] \in Nat /\ TrackerSettled(v, p)
  BY DEF Inv, TypeOK, OwnershipInv, Settled
<1>2. ASSUME NEW p \in Partitions
      PROVE  \/ committed'[p] = committed[p]
             \/ /\ p \in assigned[w]
                /\ committed'[p] = cursor[w][p] + 1
                /\ committed[p] <= cursor[w][p]
  <2>1. CASE p \in CommitParts(w)
    BY <2>1, OnlyThePartAtHand DEF CommittedBy, OwnershipInv, Settled, OwnerSettled
  <2>2. CASE p \notin CommitParts(w)
    BY <2>2 DEF CommittedBy
  <2> QED
    BY <2>1, <2>2
<1>3. ASSUME NEW p \in Partitions PROVE TrackerSettled(v, p)'
  <2>1. \/ committed'[p] = committed[p]
        \/ confirmed[v][p] <= committed'[p] /\ confirmed[v][p] # committed'[p]
    BY <1>1, <1>2 DEF TrackerSettled, NoOffset
  <2> QED
    BY <1>1, <2>1 DEF TrackerSettled
<1>4. ASSUME NEW p \in assigned[v] PROVE OwnerSettled(v, p)'
  <2>1. p \in Partitions /\ OwnerSettled(v, p)
    BY DEF Inv, TypeOK, OwnershipInv, Settled
  <2>2. CASE committed'[p] = committed[p]
    BY <2>1, <2>2 DEF OwnerSettled
  <2>3. CASE committed'[p] # committed[p]
    <3>1. /\ p \in assigned[w] /\ committed'[p] = cursor[w][p] + 1
          /\ committed[p] <= cursor[w][p]
      BY <1>2, <2>1, <2>3
    <3>2. ~member[v]
      BY <3>1 DEF OwnershipInv, OneOwner
    <3>3. confirmed[v][p] # committed'[p]
      BY <1>1, <2>1, <3>1 DEF TrackerSettled, NoOffset
    <3> QED
      BY <3>2, <3>3 DEF OwnerSettled
  <2> QED
    BY <2>2, <2>3
<1> QED
  BY <1>3, <1>4 DEF Settled

\* Nothing to commit of the partition at hand: the owner has been overtaken, and
\* stays so.
LEMMA CommitNothingOwnership ==
    ASSUME Inv, OwnershipInv, NEW w \in Workers, CommitNothing(w)
    PROVE  OwnershipInv'
<1>0. PICK q \in Partitions : q = part[w]
  BY CurrentRecordExists DEF CommitNothing
<1>1. /\ pc[w] = "persisted" /\ CommitParts(w) = {}
      /\ UNCHANGED <<committed, member, assigned, confirmed>>
      /\ tracker' = [tracker EXCEPT ![w] = Marked(w)]
      /\ cursor' = [cursor EXCEPT ![w] = [cursor[w] EXCEPT ![q] = cursor[w][q] + 1]]
  BY <1>0 DEF CommitNothing, NextRecord
<1>2. /\ q \in assigned[w] /\ cursor[w][q] \in Nat
      /\ CurrentOffset(w) = cursor[w][q]
  BY <1>0, <1>1, CurrentRecordExists DEF CurrentOffset
<1>3. ASSUME NEW v \in Workers \ {w} PROVE Settled(v)'
  <2>1. /\ v \in Workers /\ Settled(v)
        /\ member'[v] = member[v] /\ assigned'[v] = assigned[v] /\ cursor'[v] = cursor[v]
        /\ tracker'[v] = tracker[v] /\ confirmed'[v] = confirmed[v]
    BY <1>1 DEF Inv, TypeOK, OwnershipInv
  <2> QED
    BY <1>1, <2>1 DEF Settled, TrackerSettled, OwnerSettled
<1>4. /\ tracker'[w] = Marked(w)
      /\ \A p \in Partitions :
           cursor'[w][p] = IF p = q THEN cursor[w][q] + 1 ELSE cursor[w][p]
  BY <1>1, <1>2 DEF Inv, TypeOK
<1>5. ASSUME NEW p \in Partitions, p # q PROVE TrackerSettled(w, p)'
  <2>1. tracker'[w][p] = tracker[w][p]
    BY <1>0, <1>1, <1>4, <1>5, MarkedResult
  <2> QED
    BY <1>1, <2>1 DEF OwnershipInv, Settled, TrackerSettled
<1>6. ASSUME NEW p \in assigned[w], p # q PROVE OwnerSettled(w, p)'
  <2>1. cursor'[w][p] = cursor[w][p]
    BY <1>4, <1>6 DEF Inv, TypeOK
  <2> QED
    BY <1>1, <2>1 DEF OwnershipInv, Settled, OwnerSettled
<1>7. /\ TrackerSettled(w, q)' /\ confirmed[w][q] # NoOffset
      /\ confirmed[w][q] # committed[q]
  <2> DEFINE s == tracker[w][q]
             t == Marked(w)[q]
             c == cursor[w][q]
  <2>1. /\ s \in PartitionOffsetState \cup {Untracked} /\ Bounded(t)
        /\ t \in PartitionOffsetState \cup {Untracked}
        /\ t = MarkProcessed(s, c)
        /\ committed[q] \in Nat \cup {NoOffset} /\ confirmed[w][q] \in Nat \cup {NoOffset}
        /\ TrackerSettled(w, q) /\ OwnerSettled(w, q)
    BY <1>0, <1>1, <1>2, MarkedResult DEF OwnershipInv, Settled, Inv, TypeOK
  <2>2. /\ t # Untracked /\ t.processed = s.processed \cup {c}
        /\ t.next = IF s = Untracked THEN c ELSE s.next
    <3> HIDE DEF s, c, t
    <3>1. CASE s = Untracked
      BY <1>2, <2>1, <3>1 DEF MarkProcessed, Untracked, c
    <3>2. CASE s # Untracked
      BY <1>2, <2>1, <3>2 DEF MarkProcessed, PartitionOffsetState, Untracked
    <3> QED
      BY <3>1, <3>2
  <2>3. ~HasCommit(t)
    BY <1>1, <1>2 DEF CommitParts
  <2>4. t \in PartitionOffsetState /\ CommitOffset(t) = t.next
    BY <2>1, <2>2, <2>3 DEF HasCommit
  <2>5. t.next \notin t.processed
    <3> HIDE DEF t
    <3> QED
      BY <2>1, <2>4, CommitOffsetIsFirstHole
  <2>6. s # Untracked /\ s \in PartitionOffsetState /\ s.next # c
    BY <2>1, <2>2, <2>5
  <2>7. /\ confirmed[w][q] = s.next /\ s.next \in Nat /\ confirmed[w][q] # committed[q]
        /\ confirmed[w][q] <= committed[q]
    BY <2>1, <2>6 DEF TrackerSettled, OwnerSettled, PartitionOffsetState, NoOffset
  <2>8. confirmed[w][q] # NoOffset
    BY <2>7 DEF NoOffset
  <2>9. tracker'[w][q] = t /\ t.next = s.next
    BY <1>2, <1>4, <2>2, <2>6
  <2>10. committed' = committed /\ confirmed' = confirmed
    BY <1>1
  <2> HIDE DEF s, t
  <2> QED
    BY <2>5, <2>7, <2>8, <2>9, <2>10 DEF TrackerSettled
<1>8. OwnerSettled(w, q)'
  <2>1. committed[q] \in Nat \cup {NoOffset} /\ OwnerSettled(w, q)
    BY <1>2 DEF OwnershipInv, Settled, Inv, TypeOK
  <2>2. committed' = committed /\ confirmed' = confirmed /\ member' = member
    BY <1>1
  <2>3. cursor'[w][q] = cursor[w][q] + 1
    BY <1>2, <1>4
  <2> QED
    BY <1>2, <1>7, <2>1, <2>2, <2>3 DEF OwnerSettled, NoOffset
<1>9. Settled(w)'
  BY <1>1, <1>5, <1>6, <1>7, <1>8 DEF Settled
<1> QED
  BY <1>1, <1>3, <1>9 DEF OwnershipInv, OneOwner

\* An accepted commit makes its process the one that stands at the group's offset.
LEMMA CommitAcceptedOwnership ==
    ASSUME Inv, OwnershipInv, NEW w \in Workers, CommitAccepted(w)
    PROVE  OwnershipInv'
<1> DEFINE after(p) == MarkCommitted(Marked(w)[p], CommitOffset(Marked(w)[p]))
           n(p) == CommitOffset(Marked(w)[p])
           q == part[w]
<1>1. /\ pc[w] = "persisted" /\ member[w] /\ CommitParts(w) # {}
      /\ UNCHANGED <<member, assigned>>
      /\ committed' = CommittedBy(w)
      /\ tracker' = [tracker EXCEPT ![w] =
                       [p \in Partitions |->
                          IF p \in CommitParts(w) THEN after(p) ELSE Marked(w)[p]]]
      /\ confirmed' = [confirmed EXCEPT ![w] =
                         [p \in Partitions |->
                            IF p \in CommitParts(w) THEN CommittedBy(w)[p] ELSE confirmed[w][p]]]
      /\ cursor' = [cursor EXCEPT ![w] = [cursor[w] EXCEPT ![q] = cursor[w][q] + 1]]
  BY DEF CommitAccepted, NextRecord
<1>2. /\ CommitParts(w) = {q} /\ q \in assigned[w] /\ q \in Partitions
      /\ n(q) = cursor[w][q] + 1
      /\ Marked(w)[q].processed \ (Marked(w)[q].next .. (n(q) - 1)) = {}
  BY <1>1, OnlyThePartAtHand
<1>3. /\ after(q) = [next |-> n(q), processed |-> {}]
  BY <1>2 DEF MarkCommitted
<1>4. /\ \A p \in Partitions : /\ cursor[w][p] \in Nat
                              /\ committed[p] \in Nat \cup {NoOffset}
                              /\ confirmed[w][p] \in Nat \cup {NoOffset}
      /\ assigned[w] \subseteq Partitions
  BY DEF Inv, TypeOK
<1> HIDE DEF after, n, q
<1>5. /\ \A p \in Partitions : committed'[p] = IF p = q THEN n(q) ELSE committed[p]
      /\ \A p \in Partitions : confirmed'[w][p] = IF p = q THEN n(q) ELSE confirmed[w][p]
      /\ \A p \in Partitions : tracker'[w][p] = IF p = q THEN after(q) ELSE Marked(w)[p]
      /\ \A p \in Partitions : cursor'[w][p] = IF p = q THEN n(q) ELSE cursor[w][p]
  BY <1>1, <1>2 DEF CommittedBy, n, Inv, TypeOK
<1>6. ASSUME NEW v \in Workers \ {w} PROVE Settled(v)'
  <2>1. /\ v \in Workers /\ v # w
        /\ member'[v] = member[v] /\ assigned'[v] = assigned[v] /\ cursor'[v] = cursor[v]
        /\ tracker'[v] = tracker[v] /\ confirmed'[v] = confirmed[v]
    BY <1>1 DEF Inv, TypeOK
  <2> QED
    BY <1>1, <2>1, CommitLeavesOthers
<1>7. ASSUME NEW p \in Partitions PROVE TrackerSettled(w, p)'
  <2>1. CASE p = q
    BY <1>2, <1>3, <1>4, <1>5, <2>1 DEF TrackerSettled
  <2>2. CASE p # q
    <3>1. tracker'[w][p] = tracker[w][p]
      BY <1>1, <1>5, <2>2, MarkedResult DEF q
    <3> QED
      BY <1>5, <2>2, <3>1 DEF OwnershipInv, Settled, TrackerSettled
  <2> QED
    BY <2>1, <2>2
<1>8. ASSUME NEW p \in assigned[w] PROVE OwnerSettled(w, p)'
  <2>1. CASE p = q
    BY <1>2, <1>4, <1>5, <2>1 DEF OwnerSettled, NoOffset
  <2>2. CASE p # q
    BY <1>1, <1>4, <1>5, <2>2 DEF OwnershipInv, Settled, OwnerSettled
  <2> QED
    BY <2>1, <2>2
<1>9. Settled(w)'
  BY <1>1, <1>7, <1>8 DEF Settled
<1> QED
  BY <1>1, <1>6, <1>9 DEF OwnershipInv, OneOwner

\* A process that ends holds nothing; its last commit may have arrived.
LEMMA FailureOwnership ==
    ASSUME Inv, OwnershipInv, NEW w \in Workers,
           PersistFails(w) \/ RejectRecord(w) \/ CommitRejected(w) \/ CommitFails(w) \/ Crash(w)
    PROVE  OwnershipInv'
<1>1. Exit(w)
  BY DEF PersistFails, RejectRecord, CommitRejected, CommitFails, Crash
<1>2. /\ \A v \in Workers \ {w} :
           /\ member'[v] = member[v] /\ assigned'[v] = assigned[v] /\ cursor'[v] = cursor[v]
           /\ tracker'[v] = tracker[v] /\ confirmed'[v] = confirmed[v]
      /\ ~member'[w] /\ assigned'[w] = {}
      /\ \A p \in Partitions : tracker'[w][p] = Untracked /\ confirmed'[w][p] = NoOffset
  BY <1>1 DEF Exit, Inv, TypeOK
<1>3. \/ committed' = committed
      \/ pc[w] = "persisted" /\ member[w] /\ committed' = CommittedBy(w)
  BY DEF PersistFails, RejectRecord, CommitRejected, CommitFails, Crash
<1>4. ASSUME NEW v \in Workers \ {w} PROVE Settled(v)'
  <2>1. CASE committed' = committed
    BY <1>2, <2>1 DEF OwnershipInv, Settled, TrackerSettled, OwnerSettled
  <2>2. CASE pc[w] = "persisted" /\ member[w] /\ committed' = CommittedBy(w)
    BY <1>2, <2>2, CommitLeavesOthers
  <2> QED
    BY <1>3, <2>1, <2>2
<1>5. Settled(w)'
  <2>1. committed' \in [Partitions -> Nat \cup {NoOffset}]
    BY FailureInv DEF Inv, TypeOK
  <2>2. \A p \in Partitions : NoOffset <= committed'[p]
    BY <2>1 DEF NoOffset
  <2> QED
    BY <1>2, <2>2 DEF Settled, TrackerSettled, Untracked, NoOffset
<1> QED
  BY <1>2, <1>4, <1>5 DEF OwnershipInv, OneOwner

LEMMA NextOwnership == Inv /\ OwnershipInv /\ [Next]_vars => OwnershipInv'
<1> SUFFICES ASSUME Inv, OwnershipInv, [Next]_vars PROVE OwnershipInv'
  OBVIOUS
<1>1. ASSUME NEW k \in Keys, NEW op \in Ops, SourceChange(k, op) PROVE OwnershipInv'
  BY <1>1, QuietOwnership DEF SourceChange
<1>2. CASE ConnectorEmit
  BY <1>2, QuietOwnership DEF ConnectorEmit
<1>3. ASSUME NEW lsn \in 0 .. (emitted - 1), ConnectorReplay(lsn) PROVE OwnershipInv'
  BY <1>3, QuietOwnership DEF ConnectorReplay
<1>4. ASSUME NEW joiners \in SUBSET Workers, NEW owner \in [Partitions -> joiners],
             Rebalance(joiners, owner)
      PROVE  OwnershipInv'
  BY <1>4, RebalanceOwnership
<1>5. ASSUME NEW w \in Workers, WorkerStep(w) PROVE OwnershipInv'
  <2>1. CASE Start(w) \/ Poll(w) \/ SkipTombstone(w) \/ PersistEvent(w)
    BY <2>1, QuietOwnership DEF Start, Poll, SkipTombstone, PersistEvent
  <2>2. CASE CommitNothing(w)
    BY <2>2, CommitNothingOwnership
  <2>3. CASE CommitAccepted(w)
    BY <2>3, CommitAcceptedOwnership
  <2>4. CASE PersistFails(w) \/ RejectRecord(w) \/ CommitRejected(w) \/ CommitFails(w) \/ Crash(w)
    BY <2>4, FailureOwnership
  <2>5. CASE Evict(w)
    BY <2>5, EvictOwnership
  <2> QED
    BY <1>5, <2>1, <2>2, <2>3, <2>4, <2>5 DEF WorkerStep, Persist, CommitProcessed
<1>6. CASE UNCHANGED vars
  BY <1>6, QuietOwnership DEF vars
<1> QED
  BY <1>1, <1>2, <1>3, <1>4, <1>5, <1>6 DEF Next

\* Whoever commits: a step that moves the group's offset of p is a commit of a member
\* that handles a record of p, which it owns, and moves it from at most that record's
\* offset to the next.
LEMMA CommitStep ==
    ASSUME Inv, OwnershipInv, [Next]_vars, NEW p \in Partitions, committed'[p] # committed[p]
    PROVE  \E w \in Members : /\ pc[w] = "persisted" /\ part[w] = p /\ p \in assigned[w]
                            /\ committed[p] <= cursor[w][p] /\ cursor[w][p] \in Nat
                            /\ committed'[p] = cursor[w][p] + 1
<1>1. PICK w \in Workers : (CommitAccepted(w) \/ CommitFails(w)) /\ committed' # committed
  BY DEF Next, vars, SourceChange, ConnectorEmit, ConnectorReplay, Rebalance, WorkerStep,
         Start, Poll, Persist, SkipTombstone, PersistEvent, RejectRecord, PersistFails,
         CommitProcessed, CommitNothing, CommitRejected, Crash, Evict
<1>2. pc[w] = "persisted" /\ member[w] /\ committed' = CommittedBy(w)
  BY <1>1 DEF CommitAccepted, CommitFails
<1>3. p \in CommitParts(w) /\ committed'[p] = CommitOffset(Marked(w)[p])
  BY <1>2 DEF CommittedBy
<1>4. /\ p = part[w] /\ p \in assigned[w]
      /\ committed'[p] = cursor[w][p] + 1
  BY <1>2, <1>3, OnlyThePartAtHand
<1>5. committed[p] <= cursor[w][p] /\ cursor[w][p] \in Nat
  BY <1>2, <1>4 DEF OwnershipInv, Settled, OwnerSettled, Inv, TypeOK
<1> QED
  BY <1>2, <1>4, <1>5 DEF Members

\* Both invariants hold in every reachable state.
THEOREM PipelineOwnership == Spec => [](Inv /\ OwnershipInv)
<1>1. Init => Inv /\ OwnershipInv
  BY InitInv, InitOwnership
<1>2. Inv /\ OwnershipInv /\ [Next]_vars => (Inv /\ OwnershipInv)'
  BY NextInv, NextOwnership
<1> QED
  BY <1>1, <1>2, PTL DEF Spec

\* Between two polls the tracker of a member starts at its own last commit, and unless
\* another process has overtaken it there, it holds nothing back and the group's offset
\* of what it owns is its position.
THEOREM PipelineLagMeansOvertaken == Spec => []LagMeansOvertaken
<1>1. Inv /\ OwnershipInv => LagMeansOvertaken
  <2> SUFFICES ASSUME Inv, OwnershipInv, NEW w \in Members, NEW p \in assigned[w]
               PROVE  /\ tracker[w][p].next = confirmed[w][p]
                      /\ confirmed[w][p] <= committed[p]
                      /\ confirmed[w][p] \in {NoOffset, committed[p]} =>
                            /\ tracker[w][p].processed = {}
                            /\ committed[p] \in {NoOffset, cursor[w][p]}
    BY DEF LagMeansOvertaken
  <2>1. w \in Workers /\ member[w] /\ p \in Partitions
    BY DEF Members, Inv, TypeOK
  <2>2. TrackerSettled(w, p) /\ OwnerSettled(w, p)
    BY <2>1 DEF OwnershipInv, Settled
  <2>3. tracker[w][p] \in PartitionOffsetState \cup {Untracked}
    BY <2>1 DEF Inv, TypeOK
  <2>4. confirmed[w][p] = NoOffset => tracker[w][p].processed = {}
    BY <2>2, <2>3 DEF TrackerSettled, PartitionOffsetState, Untracked, NoOffset
  <2> QED
    BY <2>1, <2>2, <2>4 DEF TrackerSettled, OwnerSettled
<1> QED
  BY <1>1, PipelineOwnership, PTL

\* The group's offsets never move back, although a tracker survives losing and
\* regaining a partition and build_commit_offsets goes over every partition it ever saw.
THEOREM PipelineCommitsMoveForward == Spec => CommitsMoveForward
<1>1. Inv /\ OwnershipInv /\ [Next]_vars => [\A p \in Partitions : committed'[p] >= committed[p]]_vars
  <2> SUFFICES ASSUME Inv, OwnershipInv, [Next]_vars, NEW p \in Partitions
               PROVE  committed'[p] >= committed[p]
    OBVIOUS
  <2>1. committed[p] \in Nat \cup {NoOffset}
    BY DEF Inv, TypeOK
  <2>2. CASE committed'[p] = committed[p]
    BY <2>1, <2>2 DEF NoOffset
  <2>3. CASE committed'[p] # committed[p]
    BY <2>1, <2>3, CommitStep DEF NoOffset
  <2> QED
    BY <2>2, <2>3
<1> QED
  BY <1>1, PipelineOwnership, PTL DEF Spec, CommitsMoveForward

\* Only a process Kafka counts as the owner of a partition moves its offset, and only
\* that of the partition whose record it has just handled.
THEOREM PipelineCommitsOwnPartition == Spec => CommitsOwnPartition
<1>1. Inv /\ OwnershipInv /\ [Next]_vars =>
        [\A p \in Partitions :
           committed'[p] # committed[p] =>
              \E w \in Members : pc[w] = "persisted" /\ part[w] = p /\ p \in assigned[w]]_vars
  BY CommitStep
<1> QED
  BY <1>1, PipelineOwnership, PTL DEF Spec, CommitsOwnPartition

-----------------------------------------------------------------------------
(* Where records and rows come from. *)

\* The record was made of a change of its key, and inserts the row the change left.
Traced(record) ==
    /\ record.lsn \in 1 .. Len(wal)
    /\ record.key = wal[record.lsn].key
    /\ IsEvent(record) => /\ wal[record.lsn].op # "bad"
                          /\ InsertRowOf(EventOf(record)) = RowOf(wal[record.lsn], record.lsn)

LogTraced == \A p \in Partitions : \A i \in 1 .. Len(log[p]) : Traced(log[p][i])

RowTraced(row, k) ==
    \/ row = NoRow
    \/ \E n \in 1 .. Len(wal) : wal[n].key = k /\ row = RowOf(wal[n], n)

TableTraced == \A k \in Keys : RowTraced(table[k], k)

\* The record that carries the change, not a tombstone after it.
Carries(record, n) == record.lsn = n /\ record.key = wal[n].key /\ record.kind # "tombstone"

EmittedLogged ==
    \A n \in 1 .. emitted :
        \E i \in 1 .. Len(log[PartitionOf[wal[n].key]]) :
            Carries(log[PartitionOf[wal[n].key]][i], n)

TraceInv == LogTraced /\ TableTraced /\ EmittedLogged

LEMMA InitTrace == Init => TraceInv
  BY PartitionOfAssumption
     DEF Init, TraceInv, LogTraced, TableTraced, RowTraced, EmittedLogged

\* The records of a change are traced to it, and one of them carries it.
Tell(records, n) ==
    /\ Len(records) \in Nat
    /\ \A i \in 1 .. Len(records) : Traced(records[i])
    /\ \E i \in 1 .. Len(records) : Carries(records[i], n)

LEMMA RecordsOfTraced ==
    ASSUME Inv, NEW n \in 1 .. Len(wal) PROVE Tell(RecordsOf(wal[n], n), n)
<1> DEFINE change == wal[n]
           new == RecordsOf(change, n)
           record(kind, data) == [kind |-> kind, key |-> change.key, lsn |-> n, data |-> data]
<1>1. change \in Changes /\ change.op \in {"upsert", "delete", "bad"}
  <2>1. wal \in Seq(Changes)
    BY DEF Inv, TypeOK
  <2>2. change \in Changes
    BY <2>1, ElementOfSeq
  <2> QED
    BY <2>2, OpsAssumption DEF Changes
<1>2. CASE change.op = "delete"
  <2>1. new = <<record("delete", 0), record("tombstone", 0)>>
    BY <1>2 DEF RecordsOf
  <2>2. Len(new) = 2 /\ new[1] = record("delete", 0) /\ new[2] = record("tombstone", 0)
    BY <2>1
  <2> HIDE DEF new
  <2>3. Traced(record("delete", 0)) /\ Carries(record("delete", 0), n)
    BY <1>2 DEF Traced, Carries, IsEvent, InsertRowOf, EventOf, RowOf
  <2>4. Traced(record("tombstone", 0))
    BY DEF Traced, IsEvent
  <2> HIDE DEF record
  <2>5. \A i \in 1 .. Len(new) : i = 1 \/ i = 2
    BY <2>2
  <2> QED
    BY <2>2, <2>3, <2>4, <2>5 DEF new, Tell
<1>3. CASE change.op # "delete"
  <2>1. new = <<record(change.op, n)>>
    BY <1>3 DEF RecordsOf
  <2>2. Len(new) = 1 /\ new[1] = record(change.op, n)
    BY <2>1
  <2> HIDE DEF new
  <2>3. Traced(record(change.op, n)) /\ Carries(record(change.op, n), n)
    BY <1>1, <1>3 DEF Traced, Carries, IsEvent, InsertRowOf, EventOf, RowOf
  <2> HIDE DEF record
  <2>4. \A i \in 1 .. Len(new) : i = 1
    BY <2>2
  <2> QED
    BY <2>2, <2>3, <2>4 DEF new, Tell
<1> QED
  BY <1>2, <1>3

\* A step that only appends to the source's changes, if it touches them at all.
LEMMA TraceStable ==
    ASSUME Inv, TraceInv, UNCHANGED log,
           emitted' \in 0 .. emitted,
           Len(wal') \in Nat, Len(wal') >= Len(wal),
           \A n \in 1 .. Len(wal) : wal'[n] = wal[n],
           TableTraced'
    PROVE  TraceInv'
<1>1. Len(wal) \in Nat /\ emitted \in 0 .. Len(wal)
  BY DEF Inv, TypeOK
<1>2. ASSUME NEW record, Traced(record) PROVE Traced(record)'
  BY <1>1, <1>2 DEF Traced, RowOf
<1>3. LogTraced'
  BY <1>2 DEF TraceInv, LogTraced
<1>4. EmittedLogged'
  <2>1. ASSUME NEW n \in 1 .. emitted'
        PROVE  n \in 1 .. emitted /\ wal'[n] = wal[n]
    BY <1>1, <2>1
  <2>2. ASSUME NEW n \in 1 .. emitted'
        PROVE  \E i \in 1 .. Len(log'[PartitionOf[wal'[n].key]]) :
                  Carries(log[PartitionOf[wal[n].key]][i], n)'
    <3>1. PICK i \in 1 .. Len(log[PartitionOf[wal[n].key]]) :
                Carries(log[PartitionOf[wal[n].key]][i], n)
      BY <2>1 DEF TraceInv, EmittedLogged
    <3>2. Carries(log[PartitionOf[wal[n].key]][i], n)'
      BY <2>1, <3>1 DEF Carries
    <3> QED
      BY <2>1, <3>1, <3>2
  <2> QED
    BY <2>2 DEF EmittedLogged
<1> QED
  BY <1>3, <1>4 DEF TraceInv

\* What an insert does to the destination: nothing, or a step of ReplicatedTable.
LEMMA InsertedStep ==
    ASSUME Inv, TraceInv, NEW record \in Records, Traced(record), IsEvent(record),
           table' = Inserted(record), UNCHANGED wal
    PROVE  /\ TableTraced'
           /\ table' = table \/ \E n \in 1 .. Len(wal) : Abstract!Apply(n)
<1> DEFINE n == record.lsn
           k == record.key
           new == RowOf(wal[n], n)
<1>1. /\ n \in 1 .. Len(wal) /\ k = wal[n].key /\ k \in Keys
      /\ wal[n].op # "bad" /\ InsertRowOf(EventOf(record)) = new
  BY DEF Traced, Records
<1>2. table' = [table EXCEPT ![k] = ReplaceRow(table[k], new)]
  BY <1>1 DEF Inserted
<1>3. table \in [Keys -> Row] /\ table[k] \in Row /\ table[k].version \in Nat
  BY <1>1 DEF Inv, TypeOK, Row
<1>4. new.version = n /\ n \in Nat /\ n >= 1
  BY <1>1 DEF RowOf, Inv, TypeOK
<1>5. CASE table[k].version < n
  <2>1. ReplaceRow(table[k], new) = new
    BY <1>3, <1>4, <1>5 DEF ReplaceRow
  <2>2. table' = [table EXCEPT ![k] = new]
    BY <1>2, <2>1
  <2>3. Abstract!Apply(n)
    BY <1>1, <1>5, <2>2 DEF Abstract!Apply, Abstract!RowOf, RowOf
  <2>4. TableTraced'
    <3>1. RowTraced(new, k)'
      BY <1>1, <2>2 DEF RowTraced
    <3>2. \A key \in Keys : table'[key] = IF key = k THEN new ELSE table[key]
      BY <1>3, <2>2
    <3>3. \A key \in Keys \ {k} : RowTraced(table[key], key)'
      BY <3>2 DEF TraceInv, TableTraced, RowTraced
    <3> QED
      BY <3>1, <3>2, <3>3 DEF TableTraced, RowTraced
  <2> QED
    BY <1>1, <2>3, <2>4
<1>6. CASE table[k].version >= n
  <2>1. ReplaceRow(table[k], new) = table[k]
    <3>1. CASE table[k].version > n
      BY <1>3, <1>4, <3>1 DEF ReplaceRow
    <3>2. CASE table[k].version = n
      <4>1. table[k] # NoRow
        BY <1>4, <3>2 DEF NoRow
      <4>2. PICK m \in 1 .. Len(wal) : table[k] = RowOf(wal[m], m)
        BY <1>1, <4>1 DEF TraceInv, TableTraced, RowTraced
      <4>3. m = n
        BY <3>2, <4>2 DEF RowOf
      <4> QED
        BY <4>2, <4>3 DEF ReplaceRow
    <3> QED
      BY <1>3, <1>4, <1>6, <3>1, <3>2
  <2>2. table' = table
    BY <1>2, <1>3, <2>1
  <2> QED
    BY <2>2 DEF TraceInv, TableTraced, RowTraced
<1> QED
  BY <1>3, <1>4, <1>5, <1>6

LEMMA CurrentRecordTraced ==
    ASSUME Inv, TraceInv, NEW w \in Workers, pc[w] = "record"
    PROVE  CurrentRecord(w) \in Records /\ Traced(CurrentRecord(w))
<1>1. /\ part[w] \in Partitions /\ CurrentRecord(w) \in Records
      /\ CurrentOffset(w) \in Nat /\ CurrentOffset(w) < Len(log[part[w]])
  BY CurrentRecordExists
<1>2. Len(log[part[w]]) \in Nat
  BY <1>1 DEF Inv, TypeOK
<1>3. CurrentOffset(w) + 1 \in 1 .. Len(log[part[w]])
  BY <1>1, <1>2
<1> QED
  BY <1>1, <1>3 DEF TraceInv, LogTraced, CurrentRecord

LEMMA EmitTrace == ASSUME Inv, TraceInv, ConnectorEmit PROVE TraceInv'
<1> DEFINE n == emitted + 1
           new == RecordsOf(wal[n], n)
           q == PartitionOf[wal[n].key]
<1>1. /\ wal \in Seq(Changes) /\ Len(wal) \in Nat /\ emitted \in 0 .. Len(wal)
      /\ emitted < Len(wal) /\ n \in 1 .. Len(wal)
  BY DEF Inv, TypeOK, ConnectorEmit
<1>2. wal[n] \in Changes /\ q \in Partitions
  <2>1. wal[n] \in Changes
    BY <1>1, ElementOfSeq
  <2> QED
    BY <2>1, PartitionOfAssumption DEF Changes
<1>3. /\ new \in Seq(Records) /\ Len(new) \in Nat
      /\ \A i \in 1 .. Len(new) : Traced(new[i])
      /\ \E i \in 1 .. Len(new) : Carries(new[i], n)
  <2> HIDE DEF n
  <2>1. new \in Seq(Records)
    <3>1. n \in Nat
      BY <1>1
    <3> QED
      BY <1>2, <3>1, RecordsOfType
  <2>2. Tell(new, n)
    BY <1>1, RecordsOfTraced
  <2> HIDE DEF new
  <2> QED
    BY <2>1, <2>2 DEF Tell
<1>4. log' = [log EXCEPT ![q] = log[q] \o new] /\ emitted' = n /\ UNCHANGED <<wal, table>>
  BY DEF ConnectorEmit
<1>5. log \in [Partitions -> Seq(Records)] /\ \A p \in Partitions : Len(log[p]) \in Nat
  BY DEF Inv, TypeOK
<1>6. /\ Len(log[q] \o new) = Len(log[q]) + Len(new)
      /\ \A i \in 1 .. Len(log[q]) + Len(new) :
           (log[q] \o new)[i] = IF i <= Len(log[q]) THEN log[q][i] ELSE new[i - Len(log[q])]
  BY <1>2, <1>3, <1>5, ConcatProperties
<1>7. /\ log'[q] = log[q] \o new
      /\ \A p \in Partitions \ {q} : log'[p] = log[p]
  BY <1>2, <1>4, <1>5
<1> HIDE DEF new, q
<1>8. ASSUME NEW p \in Partitions, NEW i \in 1 .. Len(log'[p]) PROVE Traced(log'[p][i])
  <2>1. CASE p # q
    BY <1>7, <1>8, <2>1 DEF TraceInv, LogTraced
  <2>2. CASE p = q
    <3>1. i \in 1 .. Len(log[q]) + Len(new) /\ log'[p][i] = (log[q] \o new)[i]
      BY <1>6, <1>7, <1>8, <2>2
    <3>2. CASE i <= Len(log[q])
      <4>1. i \in 1 .. Len(log[q]) /\ log'[p][i] = log[q][i]
        BY <1>2, <1>5, <1>6, <3>1, <3>2
      <4> QED
        BY <1>2, <4>1 DEF TraceInv, LogTraced
    <3>3. CASE i > Len(log[q])
      <4>1. i - Len(log[q]) \in 1 .. Len(new) /\ log'[p][i] = new[i - Len(log[q])]
        BY <1>2, <1>3, <1>5, <1>6, <3>1, <3>3
      <4> QED
        BY <1>3, <4>1
    <3> QED
      BY <1>2, <1>5, <3>1, <3>2, <3>3
  <2> QED
    BY <2>1, <2>2
<1>9. \A record : Traced(record) => Traced(record)'
  BY <1>4 DEF Traced
<1>10. LogTraced'
  BY <1>8, <1>9 DEF LogTraced
<1>11. TableTraced'
  BY <1>4 DEF TraceInv, TableTraced, RowTraced
<1>12. EmittedLogged'
  <2>1. ASSUME NEW m \in 1 .. n
        PROVE  \E i \in 1 .. Len(log'[PartitionOf[wal[m].key]]) :
                 Carries(log'[PartitionOf[wal[m].key]][i], m)
    <3> DEFINE p == PartitionOf[wal[m].key]
    <3>1. CASE m = n
      <4>1. PICK i \in 1 .. Len(new) : Carries(new[i], n)
        BY <1>3
      <4>2. Len(log[q]) + i \in 1 .. Len(log[q]) + Len(new)
            /\ ~(Len(log[q]) + i <= Len(log[q])) /\ (Len(log[q]) + i) - Len(log[q]) = i
        BY <1>2, <1>3, <1>5
      <4>3. log'[q][Len(log[q]) + i] = new[i]
        BY <1>6, <1>7, <4>2
      <4> QED
        BY <1>6, <1>7, <3>1, <4>1, <4>2, <4>3 DEF q
    <3>2. CASE m # n
      <4>1. m \in 1 .. emitted
        BY <1>1, <2>1, <3>2
      <4>2. PICK i \in 1 .. Len(log[p]) : Carries(log[p][i], m)
        BY <4>1 DEF TraceInv, EmittedLogged
      <4>3. p \in Partitions
        <5>1. m \in 1 .. Len(wal)
          BY <1>1, <4>1
        <5>2. wal[m] \in Changes
          BY <1>1, <5>1, ElementOfSeq
        <5> QED
          BY <5>2, PartitionOfAssumption DEF Changes
      <4>4. i \in 1 .. Len(log'[p]) /\ log'[p][i] = log[p][i]
        <5>1. CASE p # q
          BY <1>7, <4>3, <5>1
        <5>2. CASE p = q
          <6>1. i \in 1 .. Len(log[q]) + Len(new) /\ i <= Len(log[q])
            BY <1>2, <1>3, <1>5, <4>2, <5>2
          <6> QED
            BY <1>6, <1>7, <5>2, <6>1
        <5> QED
          BY <5>1, <5>2
      <4> QED
        BY <4>2, <4>4
    <3> QED
      BY <3>1, <3>2
  <2>2. \A record, m : Carries(record, m) => Carries(record, m)'
    BY <1>4 DEF Carries
  <2> QED
    BY <1>4, <2>1, <2>2 DEF EmittedLogged
<1> QED
  BY <1>10, <1>11, <1>12 DEF TraceInv

-----------------------------------------------------------------------------
(* The refinement. *)

AbstractStep == [Abstract!Next]_<<wal, table>>

\* Steps that touch neither the source nor the destination nor the log.
LEMMA OtherStep ==
    ASSUME Inv, TraceInv, UNCHANGED <<wal, table, log>>, emitted' \in 0 .. emitted
    PROVE  TraceInv' /\ AbstractStep
<1>1. Len(wal) \in Nat
  BY DEF Inv, TypeOK
<1>2. TableTraced'
  BY DEF TraceInv, TableTraced, RowTraced
<1>3. TraceInv'
  BY <1>1, <1>2, TraceStable
<1> QED
  BY <1>3 DEF AbstractStep

\* Every insert, whether its answer arrives or not.
LEMMA InsertStep ==
    ASSUME Inv, TraceInv, NEW w \in Workers, pc[w] = "record", IsEvent(CurrentRecord(w)),
           table' = Inserted(CurrentRecord(w)), UNCHANGED <<wal, log, emitted>>
    PROVE  TraceInv' /\ AbstractStep
<1>1. Len(wal) \in Nat /\ emitted \in 0 .. emitted
  BY DEF Inv, TypeOK
<1>2. TableTraced' /\ (table' = table \/ \E n \in 1 .. Len(wal) : Abstract!Apply(n))
  BY CurrentRecordTraced, InsertedStep
<1>3. TraceInv'
  BY <1>1, <1>2, TraceStable
<1>4. AbstractStep
  BY <1>2 DEF AbstractStep, Abstract!Next
<1> QED
  BY <1>3, <1>4

LEMMA NextStep ==
    ASSUME Inv, TraceInv, [Next]_vars PROVE TraceInv' /\ AbstractStep
<1>1. emitted \in 0 .. emitted /\ Len(wal) \in Nat /\ wal \in Seq(Changes)
  BY DEF Inv, TypeOK
<1>2. ASSUME NEW k \in Keys, NEW op \in Ops, SourceChange(k, op)
      PROVE  TraceInv' /\ AbstractStep
  <2> DEFINE change == [key |-> k, op |-> op]
  <2>1. change \in Changes /\ wal' = Append(wal, change)
    BY <1>2 DEF SourceChange, Changes
  <2>2. Len(wal') = Len(wal) + 1 /\ \A n \in 1 .. Len(wal) : wal'[n] = wal[n]
    BY <1>1, <2>1, AppendProperties
  <2>3. UNCHANGED <<log, table, emitted>>
    BY <1>2 DEF SourceChange
  <2>4. TableTraced'
    <3>1. \A n \in 1 .. Len(wal) : n \in 1 .. Len(wal')
      BY <1>1, <2>2
    <3>2. ASSUME NEW row, NEW key, RowTraced(row, key) PROVE RowTraced(row, key)'
      BY <2>2, <3>1, <3>2 DEF RowTraced
    <3> QED
      BY <2>3, <3>2 DEF TraceInv, TableTraced
  <2>5. TraceInv'
    BY <1>1, <2>2, <2>3, <2>4, TraceStable
  <2>6. Abstract!Commit(k, op)
    BY <2>1, <2>3 DEF Abstract!Commit
  <2> QED
    BY <2>5, <2>6 DEF AbstractStep, Abstract!Next
<1>3. CASE ConnectorEmit
  <2>1. AbstractStep
    BY <1>3 DEF ConnectorEmit, AbstractStep
  <2> QED
    BY <1>3, <2>1, EmitTrace
<1>4. ASSUME NEW lsn \in 0 .. (emitted - 1), ConnectorReplay(lsn)
      PROVE  TraceInv' /\ AbstractStep
  <2>1. emitted' \in 0 .. emitted
    BY <1>1, <1>4 DEF ConnectorReplay, Inv, TypeOK
  <2> QED
    BY <1>4, <2>1, OtherStep DEF ConnectorReplay
<1>5. ASSUME NEW joiners \in SUBSET Workers, NEW owner \in [Partitions -> joiners],
             Rebalance(joiners, owner)
      PROVE  TraceInv' /\ AbstractStep
  BY <1>1, <1>5, OtherStep DEF Rebalance
<1>6. ASSUME NEW w \in Workers, WorkerStep(w) PROVE TraceInv' /\ AbstractStep
  <2>1. UNCHANGED <<wal, log, emitted>>
    BY <1>6 DEF WorkerStep, Start, Poll, Persist, SkipTombstone, PersistEvent, RejectRecord,
         PersistFails, CommitProcessed, CommitNothing, CommitAccepted, CommitRejected,
         CommitFails, Crash, Evict
  <2>2. CASE UNCHANGED table
    BY <1>1, <2>1, <2>2, OtherStep
  <2>3. CASE PersistEvent(w) \/ (PersistFails(w) /\ table' = Inserted(CurrentRecord(w)))
    BY <2>1, <2>3, InsertStep DEF PersistEvent, PersistFails
  <2>4. (PersistEvent(w) \/ (PersistFails(w) /\ table' = Inserted(CurrentRecord(w))))
          \/ UNCHANGED table
    BY <1>6 DEF WorkerStep, Start, Poll, Persist, SkipTombstone, RejectRecord,
         PersistFails, CommitProcessed, CommitNothing, CommitAccepted, CommitRejected,
         CommitFails, Crash, Evict
  <2> QED
    BY <2>2, <2>3, <2>4
<1>7. CASE UNCHANGED vars
  BY <1>1, <1>7, OtherStep DEF vars
<1> QED
  BY <1>2, <1>3, <1>4, <1>5, <1>6, <1>7 DEF Next

\* Records and rows can always be traced to the changes of the source.
THEOREM PipelineTraced == Spec => [](Inv /\ TraceInv)
<1>1. Inv /\ TraceInv /\ [Next]_vars => (Inv /\ TraceInv)'
  BY NextInv, NextStep
<1> QED
  BY <1>1, InitInv, InitTrace, PTL DEF Spec

\* Whatever crashes, evictions, replays and late inserts there are, a reader of the
\* destination sees for each key a row the source had, and rows only move forward.
THEOREM PipelineImplementsReplicatedTable == Spec => ImplementsReplicatedTable
<1>1. Init => Abstract!Init
  BY DEF Init, Abstract!Init, Abstract!NoRow, NoRow
<1>2. Inv /\ TraceInv /\ [Next]_vars => [Abstract!Next]_<<wal, table>>
  BY NextStep DEF AbstractStep
<1> QED
  BY <1>1, <1>2, PipelineTraced, PTL DEF Spec, ImplementsReplicatedTable, Abstract!Spec

-----------------------------------------------------------------------------
(* Everything committed. *)

LEMMA DrainedStateInSync == ASSUME Inv, TraceInv PROVE DrainedInSync
<1> SUFFICES ASSUME AutoOffsetReset = "earliest", Drained, NEW k \in Keys
             PROVE  table[k] = SourceRow(k)
  BY DEF DrainedInSync, InSync
<1> DEFINE p == PartitionOf[k]
<1>1. /\ p \in Partitions /\ Len(wal) \in Nat /\ emitted = Len(wal)
      /\ base[p] = 0 /\ Len(log[p]) \in Nat
  <2>1. p \in Partitions
    BY PartitionOfAssumption
  <2> QED
    BY <2>1 DEF Inv, TypeOK, BaseOK, ResetOffset, Drained
<1>2. ASSUME NEW n \in ChangesOf(k) PROVE table[k].version >= n
  <2>1. n \in 1 .. emitted /\ wal[n].key = k
    BY <1>1, <1>2 DEF ChangesOf
  <2>2. PICK i \in 1 .. Len(log[p]) : Carries(log[p][i], n)
    BY <2>1 DEF TraceInv, EmittedLogged
  <2>3. committed[p] = Len(log[p]) /\ committed[p] # NoOffset
    <3>1. log[p] # <<>>
      BY <1>1, <2>2
    <3> QED
      BY <1>1, <3>1 DEF Drained, NoOffset
  <2>4. i - 1 \in base[p] .. (committed[p] - 1) /\ (i - 1) + 1 = i
    BY <1>1, <2>2, <2>3
  <2>5. Applied(p, i - 1)
    BY <1>1, <2>3, <2>4 DEF Inv, CommittedApplied
  <2> QED
    BY <2>1, <2>2, <2>4, <2>5 DEF Applied, Carries
<1>3. RowTraced(table[k], k)
  BY DEF TraceInv, TableTraced
<1>4. CASE ChangesOf(k) = {}
  <2>1. table[k] = NoRow
    BY <1>3, <1>4 DEF RowTraced, ChangesOf
  <2> QED
    BY <1>4, <2>1 DEF SourceRow
<1>5. CASE ChangesOf(k) # {}
  <2>1. \A n \in ChangesOf(k) : n \in Nat /\ n >= 1
    BY <1>1 DEF ChangesOf
  <2>2. table[k] # NoRow
    BY <1>2, <1>5, <2>1 DEF NoRow
  <2>3. PICK v \in ChangesOf(k) : table[k] = RowOf(wal[v], v)
    BY <1>3, <2>2 DEF RowTraced, ChangesOf
  <2>4. \A n \in ChangesOf(k) : n <= v
    BY <1>2, <2>1, <2>3 DEF RowOf
  <2>5. LastChange(k) = v
    <3>1. LastChange(k) \in ChangesOf(k) /\ \A n \in ChangesOf(k) : n <= LastChange(k)
      BY <2>4 DEF LastChange
    <3> QED
      BY <2>1, <2>4, <3>1
  <2> QED
    BY <1>5, <2>3, <2>5 DEF SourceRow
<1> QED
  BY <1>4, <1>5

\* Once the connector has sent everything and the group has committed everything, the
\* destination is the source, whatever happened on the way.
THEOREM PipelineDrainedInSync == Spec => []DrainedInSync
<1>1. Inv /\ TraceInv => DrainedInSync
  BY DrainedStateInSync
<1> QED
  BY <1>1, PipelineTraced, PTL
=============================================================================
