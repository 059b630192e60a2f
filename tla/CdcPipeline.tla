---------------------------- MODULE CdcPipeline ----------------------------
(***************************************************************************)
(* The data path: changes of a PostgreSQL table, the Debezium connector    *)
(* that turns them into Kafka records, the worker processes that share one *)
(* consumer group (worker/src/consumer.py) and the ClickHouse table they   *)
(* write.  PostgreSQL, Debezium, Kafka and ClickHouse are external and     *)
(* modelled by what the worker relies on; a worker process is modelled     *)
(* step by step, with every exception ending the process as in main.py.    *)
(*                                                                         *)
(* A worker step is what happens between two points at which the rest of   *)
(* the system can be observed or can fail: consumer.poll, the insert into  *)
(* ClickHouse, the commit request to Kafka.                                *)
(***************************************************************************)
EXTENDS PartitionOffsets, TableRows, Sequences

CONSTANTS
    Workers,          \* process slots started with the same Kafka group_id
    Partitions,       \* topic partitions of the subscribed topics
    Keys,             \* primary keys of the replicated tables
    PartitionOf,      \* Keys -> Partitions: Kafka partitions by record key
    Ops,              \* kinds of change: "upsert", "delete", and "bad" for one
                      \* whose event the parser or the sink rejects every time
    NoPart,           \* "no partition", for part below
    AutoOffsetReset,  \* the contract's kafka.auto_offset_reset
    MaxPollRecords,   \* bound: records of a partition one poll returns
    MaxChanges,       \* bound: changes of the source
    MaxReplays,       \* bound: connector restarts that emit changes again
    MaxFaults         \* bound: crashes, lost sessions, failed inserts and commits

ASSUME PartitionOfAssumption == PartitionOf \in [Keys -> Partitions]
ASSUME NoPartAssumption == NoPart \notin Partitions
ASSUME OpsAssumption == Ops \subseteq {"upsert", "delete", "bad"}
ASSUME AutoOffsetResetAssumption == AutoOffsetReset \in {"earliest", "latest"}

NoOffset == -1  \* the group has never committed an offset of the partition

VARIABLES
    \* PostgreSQL and Debezium
    wal,        \* sequence of [key, op]: the committed changes, LSN = index
    emitted,    \* the connector has sent the changes 1..emitted of its present run
    replays,    \* how often the connector went back to an older change
    \* Kafka
    log,        \* Partitions -> sequence of records; offset o is element o + 1
    committed,  \* Partitions -> committed offset of the group, or NoOffset
    member,     \* Workers -> BOOLEAN: Kafka accepts commits of this process
    base,       \* Partitions -> where the group starts reading (history)
    \* worker processes
    pc,         \* Workers -> "down", "poll", "record" or "persisted"
    assigned,   \* Workers -> the partitions the process believes it owns
    cursor,     \* Workers -> Partitions -> offset of the next record to process
    batchEnd,   \* Workers -> Partitions -> end of the records the last poll returned
    part,       \* Workers -> the partition whose records are being processed
    tracker,    \* Workers -> Partitions -> the process's commit tracker
    confirmed,  \* Workers -> Partitions -> last commit this process saw accepted (history)
    \* ClickHouse
    table,      \* Keys -> the row a FINAL query shows
    \* bound
    faults      \* faults so far

vars == <<wal, emitted, replays, log, committed, member, base,
          pc, assigned, cursor, batchEnd, part, tracker, confirmed, table, faults>>

Changes == [key : Keys, op : Ops]
Records == [kind : {"upsert", "delete", "tombstone", "bad"}, key : Keys, lsn : Nat, data : Nat]

TypeOK ==
    /\ wal \in Seq(Changes)
    /\ emitted \in 0 .. Len(wal)
    /\ replays \in Nat
    /\ log \in [Partitions -> Seq(Records)]
    /\ committed \in [Partitions -> Nat \cup {NoOffset}]
    /\ member \in [Workers -> BOOLEAN]
    /\ base \in [Partitions -> Nat]
    /\ pc \in [Workers -> {"down", "poll", "record", "persisted"}]
    /\ assigned \in [Workers -> SUBSET Partitions]
    /\ cursor \in [Workers -> [Partitions -> Nat]]
    /\ batchEnd \in [Workers -> [Partitions -> Nat]]
    /\ part \in [Workers -> Partitions \cup {NoPart}]
    /\ tracker \in [Workers -> [Partitions -> PartitionOffsetState \cup {Untracked}]]
    /\ confirmed \in [Workers -> [Partitions -> Nat \cup {NoOffset}]]
    /\ table \in [Keys -> Row]
    /\ faults \in Nat

Init ==
    /\ wal = <<>>
    /\ emitted = 0
    /\ replays = 0
    /\ log = [p \in Partitions |-> <<>>]
    /\ committed = [p \in Partitions |-> NoOffset]
    /\ member = [w \in Workers |-> FALSE]
    /\ base = [p \in Partitions |-> 0]
    /\ pc = [w \in Workers |-> "down"]
    /\ assigned = [w \in Workers |-> {}]
    /\ cursor = [w \in Workers |-> [p \in Partitions |-> 0]]
    /\ batchEnd = [w \in Workers |-> [p \in Partitions |-> 0]]
    /\ part = [w \in Workers |-> NoPart]
    /\ tracker = [w \in Workers |-> [p \in Partitions |-> Untracked]]
    /\ confirmed = [w \in Workers |-> [p \in Partitions |-> NoOffset]]
    /\ table = [k \in Keys |-> NoRow]
    /\ faults = 0

-----------------------------------------------------------------------------
(* PostgreSQL and the Debezium connector. *)

ChangesOf(k) == {lsn \in 1 .. Len(wal) : wal[lsn].key = k}

LastChange(k) == CHOOSE lsn \in ChangesOf(k) : \A n \in ChangesOf(k) : n <= lsn

\* The row of the source table, as the destination would show it.
SourceRow(k) ==
    IF ChangesOf(k) = {} THEN NoRow ELSE RowOf(wal[LastChange(k)], LastChange(k))

Live(k) == ChangesOf(k) # {} /\ wal[LastChange(k)].op # "delete"

\* A transaction commits an insert or update (op "upsert" or "bad") or a delete.
SourceChange(k, op) ==
    /\ Len(wal) < MaxChanges
    /\ op = "delete" => Live(k)
    /\ wal' = Append(wal, [key |-> k, op |-> op])
    /\ UNCHANGED <<emitted, replays, log, committed, member, base,
                   pc, assigned, cursor, batchEnd, part, tracker, confirmed, table, faults>>

\* The records of one change: a delete is followed by a tombstone for its key.
RecordsOf(change, lsn) ==
    LET record(kind, data) ==
            [kind |-> kind, key |-> change.key, lsn |-> lsn, data |-> data]
    IN  IF change.op = "delete"
          THEN <<record("delete", 0), record("tombstone", 0)>>
          ELSE <<record(change.op, lsn)>>

\* The connector sends the records of the next change.
ConnectorEmit ==
    /\ emitted < Len(wal)
    /\ emitted' = emitted + 1
    /\ LET change == wal[emitted + 1] IN
         log' = [log EXCEPT ![PartitionOf[change.key]] =
                              @ \o RecordsOf(change, emitted + 1)]
    /\ UNCHANGED <<wal, replays, committed, member, base,
                   pc, assigned, cursor, batchEnd, part, tracker, confirmed, table, faults>>

\* The connector restarts from an offset it stored earlier: Debezium delivers at
\* least once, so older changes are sent again behind newer ones.
ConnectorReplay(lsn) ==
    /\ replays < MaxReplays
    /\ lsn < emitted
    /\ replays' = replays + 1
    /\ emitted' = lsn
    /\ UNCHANGED <<wal, log, committed, member, base,
                   pc, assigned, cursor, batchEnd, part, tracker, confirmed, table, faults>>

-----------------------------------------------------------------------------
(* The consumer group. *)

Members == {w \in Workers : member[w]}
Polling == {w \in Workers : pc[w] = "poll"}

\* Where a consumer without a committed offset starts (auto_offset_reset).
ResetOffset(p) == IF AutoOffsetReset = "earliest" THEN 0 ELSE Len(log[p])

ResumeOffset(p) == IF committed[p] = NoOffset THEN ResetOffset(p) ELSE committed[p]

\* The processes in joiners form the next generation of the group.  Kafka waits for
\* the present members, which join inside poll(); other processes that poll may or
\* may not have noticed the rebalance.  build_consumer subscribes without a rebalance
\* listener, so nothing but the consumer's own positions is reset: the commit tracker
\* of a process survives losing and regaining a partition.
Rebalance(joiners, owner) ==
    /\ joiners # {}
    /\ Members \subseteq joiners
    /\ joiners \subseteq Polling
    /\ \/ joiners # Members
       \/ \E p \in Partitions : \A w \in joiners : p \notin assigned[w]
    /\ member' = [w \in Workers |-> w \in joiners]
    /\ assigned' = [w \in Workers |->
                      IF w \in joiners THEN {p \in Partitions : owner[p] = w}
                                       ELSE assigned[w]]
    /\ LET positions(old) ==
             [w \in Workers |->
                IF w \in joiners
                  THEN [p \in Partitions |-> IF owner[p] = w THEN ResumeOffset(p) ELSE 0]
                  ELSE old[w]]
       IN  /\ cursor' = positions(cursor)
           /\ batchEnd' = positions(batchEnd)
    /\ base' = [p \in Partitions |->
                  IF committed[p] = NoOffset THEN ResetOffset(p) ELSE base[p]]
    /\ UNCHANGED <<wal, emitted, replays, log, committed, pc, part, tracker, confirmed, table, faults>>

\* Kafka gives up on a live process: its session expired, or it took longer than
\* max.poll.interval between two polls.  The process goes on without knowing.
Evict(w) ==
    /\ faults < MaxFaults
    /\ member[w]
    /\ member' = [member EXCEPT ![w] = FALSE]
    /\ faults' = faults + 1
    /\ UNCHANGED <<wal, emitted, replays, log, committed, base,
                   pc, assigned, cursor, batchEnd, part, tracker, confirmed, table>>

-----------------------------------------------------------------------------
(* A worker process. *)

\* An exception leaves consume_forever, main and the process: positions and tracker
\* are gone.  Kafka notices sooner or later, see Rebalance.
Exit(w) ==
    /\ pc' = [pc EXCEPT ![w] = "down"]
    /\ member' = [member EXCEPT ![w] = FALSE]
    /\ assigned' = [assigned EXCEPT ![w] = {}]
    /\ cursor' = [cursor EXCEPT ![w] = [p \in Partitions |-> 0]]
    /\ batchEnd' = [batchEnd EXCEPT ![w] = [p \in Partitions |-> 0]]
    /\ part' = [part EXCEPT ![w] = NoPart]
    /\ tracker' = [tracker EXCEPT ![w] = [p \in Partitions |-> Untracked]]
    /\ confirmed' = [confirmed EXCEPT ![w] = [p \in Partitions |-> NoOffset]]

\* main: the contract is loaded, the tables exist, the consumer has subscribed.
Start(w) ==
    /\ pc[w] = "down"
    /\ pc' = [pc EXCEPT ![w] = "poll"]
    /\ UNCHANGED <<wal, emitted, replays, log, committed, member, base,
                   assigned, cursor, batchEnd, part, tracker, confirmed, table, faults>>

\* consumer.poll returns count[p] records of each assigned partition.
Poll(w) ==
    /\ pc[w] = "poll"
    /\ \E count \in [assigned[w] -> 0 .. MaxPollRecords], first \in assigned[w] :
         /\ \A p \in assigned[w] : cursor[w][p] + count[p] <= Len(log[p])
         /\ count[first] > 0
         /\ batchEnd' = [batchEnd EXCEPT ![w] =
                           [p \in Partitions |->
                              IF p \in assigned[w] THEN cursor[w][p] + count[p] ELSE @[p]]]
         /\ part' = [part EXCEPT ![w] = first]
    /\ pc' = [pc EXCEPT ![w] = "record"]
    /\ UNCHANGED <<wal, emitted, replays, log, committed, member, base,
                   assigned, cursor, tracker, confirmed, table, faults>>

\* The record _persist_records is at.
CurrentOffset(w) == cursor[w][part[w]]
CurrentRecord(w) == log[part[w]][CurrentOffset(w) + 1]

\* NormalizedEventParser.parse of a Debezium record that is not a tombstone.
EventOf(record) ==
    [version |-> record.lsn, deleted |-> record.kind = "delete", data |-> record.data]

Inserted(record) ==
    [table EXCEPT ![record.key] = ReplaceRow(@, InsertRowOf(EventOf(record)))]

IsEvent(record) == record.kind \in {"upsert", "delete"}

\* parse returns None for a tombstone, which is neither persisted nor an error.
SkipTombstone(w) ==
    /\ pc[w] = "record"
    /\ CurrentRecord(w).kind = "tombstone"
    /\ pc' = [pc EXCEPT ![w] = "persisted"]
    /\ UNCHANGED <<wal, emitted, replays, log, committed, member, base,
                   assigned, cursor, batchEnd, part, tracker, confirmed, table, faults>>

PersistEvent(w) ==
    /\ pc[w] = "record"
    /\ IsEvent(CurrentRecord(w))
    /\ table' = Inserted(CurrentRecord(w))
    /\ pc' = [pc EXCEPT ![w] = "persisted"]
    /\ UNCHANGED <<wal, emitted, replays, log, committed, member, base,
                   assigned, cursor, batchEnd, part, tracker, confirmed, faults>>

\* Mutant: the exception of a failed insert is swallowed.
PersistFailsSwallowed(w) ==
    /\ faults < MaxFaults
    /\ pc[w] = "record"
    /\ IsEvent(CurrentRecord(w))
    /\ pc' = [pc EXCEPT ![w] = "persisted"]
    /\ faults' = faults + 1
    /\ UNCHANGED <<wal, emitted, replays, log, committed, member, base,
                   assigned, cursor, batchEnd, part, tracker, confirmed, table>>

\* The insert raises: ClickHouse did not get the row, or it did and the answer was
\* lost.  EventPersistenceError ends the process.
PersistFails(w) ==
    /\ faults < MaxFaults
    /\ pc[w] = "record"
    /\ IsEvent(CurrentRecord(w))
    /\ table' \in {table, Inserted(CurrentRecord(w))}
    /\ faults' = faults + 1
    /\ Exit(w)
    /\ UNCHANGED <<wal, emitted, replays, log, committed, base>>

\* Mutant: a record that cannot be parsed is skipped like a tombstone.
RejectRecordAndSkip(w) ==
    /\ pc[w] = "record"
    /\ CurrentRecord(w).kind = "bad"
    /\ pc' = [pc EXCEPT ![w] = "persisted"]
    /\ UNCHANGED <<wal, emitted, replays, log, committed, member, base,
                   assigned, cursor, batchEnd, part, tracker, confirmed, table, faults>>

\* parse or the row builder raises, and will again: the process ends.
RejectRecord(w) ==
    /\ pc[w] = "record"
    /\ CurrentRecord(w).kind = "bad"
    /\ Exit(w)
    /\ UNCHANGED <<wal, emitted, replays, log, committed, base, table, faults>>

\* _mark_record_processed of the current record.
Marked(w) == [tracker[w] EXCEPT ![part[w]] = MarkProcessed(@, CurrentOffset(w))]

\* build_commit_offsets: it goes over every partition the process ever tracked.
CommitParts(w) == {p \in Partitions : HasCommit(Marked(w)[p])}

\* Mutant: consumer.commit() without offsets commits the positions after the poll.
CommittedByPosition(w) ==
    [p \in Partitions |-> IF p \in assigned[w] THEN batchEnd[w][p] ELSE committed[p]]

\* The group's offsets once Kafka has accepted the commit.
CommittedBy(w) ==
    [p \in Partitions |->
       IF p \in CommitParts(w) THEN CommitOffset(Marked(w)[p]) ELSE committed[p]]

\* The loops of _persist_records move on to the next record of the partition, to
\* the next partition of the batch, or back to poll.
NextRecord(w) ==
    LET next == [cursor[w] EXCEPT ![part[w]] = @ + 1]
        Pending == {p \in Partitions : next[p] < batchEnd[w][p]}
    IN  /\ cursor' = [cursor EXCEPT ![w] = next]
        /\ IF Pending = {}
             THEN /\ pc' = [pc EXCEPT ![w] = "poll"]
                  /\ part' = [part EXCEPT ![w] = NoPart]
             ELSE /\ pc' = [pc EXCEPT ![w] = "record"]
                  /\ part' \in {[part EXCEPT ![w] = p] : p \in
                                  IF part[w] \in Pending THEN {part[w]} ELSE Pending}

\* Nothing contiguous to commit: _commit_processed_offsets returns early.
CommitNothing(w) ==
    /\ pc[w] = "persisted"
    /\ CommitParts(w) = {}
    /\ tracker' = [tracker EXCEPT ![w] = Marked(w)]
    /\ NextRecord(w)
    /\ UNCHANGED <<wal, emitted, replays, log, committed, member, base,
                   assigned, batchEnd, confirmed, table, faults>>

\* Mutant: the commit of a process of an older generation is accepted too.
CommitAcceptedUnfenced(w) ==
    /\ pc[w] = "persisted"
    /\ CommitParts(w) # {}
    /\ committed' = CommittedBy(w)
    /\ tracker' = [tracker EXCEPT ![w] =
                     [p \in Partitions |->
                        IF p \in CommitParts(w)
                          THEN MarkCommitted(Marked(w)[p], CommitOffset(Marked(w)[p]))
                          ELSE Marked(w)[p]]]
    /\ NextRecord(w)
    /\ UNCHANGED <<wal, emitted, replays, log, member, base,
                   assigned, batchEnd, confirmed, table, faults>>

\* Kafka accepts the commit of a process it counts as a member, for any partition
\* the request names; mark_committed follows.
CommitAccepted(w) ==
    /\ pc[w] = "persisted"
    /\ CommitParts(w) # {}
    /\ member[w]
    /\ committed' = CommittedBy(w)
    /\ tracker' = [tracker EXCEPT ![w] =
                     [p \in Partitions |->
                        IF p \in CommitParts(w)
                          THEN MarkCommitted(Marked(w)[p], CommitOffset(Marked(w)[p]))
                          ELSE Marked(w)[p]]]
    /\ confirmed' = [confirmed EXCEPT ![w] =
                       [p \in Partitions |->
                          IF p \in CommitParts(w) THEN CommittedBy(w)[p] ELSE @[p]]]
    /\ NextRecord(w)
    /\ UNCHANGED <<wal, emitted, replays, log, member, base,
                   assigned, batchEnd, table, faults>>

\* Kafka refuses the commit of a process of an older generation: OffsetCommitError.
CommitRejected(w) ==
    /\ pc[w] = "persisted"
    /\ CommitParts(w) # {}
    /\ ~member[w]
    /\ Exit(w)
    /\ UNCHANGED <<wal, emitted, replays, log, committed, base, table, faults>>

\* Mutant: the exception of a failed commit is swallowed, to be retried with the next.
CommitFailsSwallowed(w) ==
    /\ faults < MaxFaults
    /\ pc[w] = "persisted"
    /\ CommitParts(w) # {}
    /\ member[w]
    /\ tracker' = [tracker EXCEPT ![w] = Marked(w)]
    /\ NextRecord(w)
    /\ faults' = faults + 1
    /\ UNCHANGED <<wal, emitted, replays, log, committed, member, base,
                   assigned, batchEnd, confirmed, table>>

\* The commit request or its answer is lost: OffsetCommitError either way.
CommitFails(w) ==
    /\ faults < MaxFaults
    /\ pc[w] = "persisted"
    /\ CommitParts(w) # {}
    /\ member[w]
    /\ committed' \in {committed, CommittedBy(w)}
    /\ faults' = faults + 1
    /\ Exit(w)
    /\ UNCHANGED <<wal, emitted, replays, log, base, table>>

\* The process is killed between two steps.
Crash(w) ==
    /\ faults < MaxFaults
    /\ pc[w] # "down"
    /\ faults' = faults + 1
    /\ Exit(w)
    /\ UNCHANGED <<wal, emitted, replays, log, committed, base, table>>

-----------------------------------------------------------------------------
Persist(w) == SkipTombstone(w) \/ PersistEvent(w) \/ RejectRecord(w)

CommitProcessed(w) == CommitNothing(w) \/ CommitAccepted(w) \/ CommitRejected(w)

WorkerStep(w) ==
    \/ Start(w)
    \/ Poll(w)
    \/ Persist(w)
    \/ PersistFails(w)
    \/ CommitProcessed(w)
    \/ CommitFails(w)
    \/ Crash(w)
    \/ Evict(w)

Next ==
    \/ \E k \in Keys, op \in Ops : SourceChange(k, op)
    \/ ConnectorEmit
    \/ \E lsn \in 0 .. (emitted - 1) : ConnectorReplay(lsn)
    \/ \E joiners \in SUBSET Workers : \E owner \in [Partitions -> joiners] :
         Rebalance(joiners, owner)
    \/ \E w \in Workers : WorkerStep(w)

Spec == Init /\ [][Next]_vars

\* What goes on as long as nothing fails: the connector sends, Kafka lets every
\* process that polls into the group, and consume_forever loops.  Nothing restarts
\* a worker that has ended (docs/worker.md: no restart policy), so Start is not fair.
\* A process joins a pending rebalance before it fetches, hence SF.
Rejoin == \E owner \in [Partitions -> Polling] : Rebalance(Polling, owner)

Fairness ==
    /\ WF_vars(ConnectorEmit)
    /\ SF_vars(Rejoin)
    /\ \A w \in Workers : /\ WF_vars(Poll(w))
                          /\ WF_vars(Persist(w))
                          /\ WF_vars(CommitProcessed(w))

FairSpec == Spec /\ Fairness

-----------------------------------------------------------------------------
(* Properties. *)

\* The destination reflects the record at offset o of p: it carries nothing to
\* write, or its key's row is at least as new as the record.
Applied(p, o) ==
    LET record == log[p][o + 1]
    IN  \/ record.kind = "tombstone"
        \/ IsEvent(record) /\ table[record.key].version >= record.lsn

\* No loss: whatever processes crash, are evicted, or fail between insert and
\* commit, an offset the group has committed leaves no unapplied record behind it
\* (from where the group started reading), and no record that cannot be applied is
\* ever passed over.  (_persist_records: persist, then mark, then commit.)
CommittedApplied ==
    \A p \in Partitions :
        committed[p] # NoOffset =>
            /\ committed[p] <= Len(log[p])
            /\ \A o \in base[p] .. (committed[p] - 1) : Applied(p, o)

\* The group's committed offsets never move backwards, although a tracker outlives
\* the loss of a partition and commits every partition it ever saw.
CommitsMoveForward ==
    [][\A p \in Partitions : committed'[p] >= committed[p]]_vars

\* A commit moves only the partition whose record the process has just handled, and
\* one it owns in the present generation: what its tracker still holds for
\* partitions that have gone to another process is never committed.
CommitsOwnPartition ==
    [][\A p \in Partitions :
         committed'[p] # committed[p] =>
            \E w \in Members : pc[w] = "persisted" /\ part[w] = p /\ p \in assigned[w]]_vars

\* Between two polls a tracker starts where the process's last accepted commit ended.
\* It holds nothing back, and the group's offset of an owned partition is the
\* process's position, unless another process has moved that offset beyond it while
\* the partition was away.  (The tracker is not reset on rebalance: once overtaken it
\* holds offsets it cannot commit.)
LagMeansOvertaken ==
    \A w \in Members : pc[w] = "poll" =>
        \A p \in assigned[w] :
            /\ tracker[w][p].next = confirmed[w][p]
            /\ confirmed[w][p] <= committed[p]
            /\ confirmed[w][p] \in {NoOffset, committed[p]} =>
                  /\ tracker[w][p].processed = {}
                  /\ committed[p] \in {NoOffset, cursor[w][p]}

\* End to end: once the connector has sent every change and the group has committed
\* every record, the table is the source, for every key, whatever was replayed,
\* redelivered or written late by an evicted process.  (The version column decides.)
Drained ==
    /\ emitted = Len(wal)
    /\ \A p \in Partitions : log[p] = <<>> \/ committed[p] = Len(log[p])

InSync == \A k \in Keys : table[k] = SourceRow(k)

DrainedInSync == AutoOffsetReset = "earliest" /\ Drained => InSync

\* The destination as a reader sees it implements ReplicatedTable: no row a source
\* change did not leave behind, and no step back to an older row of a key.
Abstract == INSTANCE ReplicatedTable WITH source <- wal, view <- table

ImplementsReplicatedTable == Abstract!Spec

\* If some process of the group stays up, the table ends up equal to the source.
Convergence == <>[](\E w \in Workers : pc[w] # "down") => <>[]InSync

\* The owner of p has committed less of it than another process did while p was away.
Overtaken(w, p) == p \in assigned[w] /\ confirmed[w][p] \notin {NoOffset, committed[p]}

\* Processes that stay up commit everything they read, except where the partition's
\* owner has been overtaken (see LagMeansOvertaken): that one applies the records but
\* its tracker has nothing contiguous to commit until the process restarts.
CommitsCatchUp ==
    <>[](\A w \in Workers : pc[w] # "down")
        => <>[](\A p \in Partitions :
                  \/ log[p] = <<>> \/ committed[p] = Len(log[p])
                  \/ \E w \in Members : Overtaken(w, p))
=============================================================================
