----------------------------- MODULE TableRows -----------------------------
(***************************************************************************)
(* Rows: what a committed change of the source table leaves behind, what   *)
(* worker/src/clickhouse_event_sink.py inserts for a change event, and     *)
(* which of the rows inserted for a primary key the destination shows.     *)
(* A change is identified by its LSN, its index in the source's log of     *)
(* changes; the LSN also stands for the column values the change wrote.    *)
(***************************************************************************)
EXTENDS Naturals

\* Nothing was ever inserted for the key.
NoRow == [version |-> 0, deleted |-> FALSE, data |-> 0]

Row == [version : Nat, deleted : BOOLEAN, data : Nat]

\* The row of a primary key once change number lsn, on that key, has been applied.
RowOf(change, lsn) ==
    [version |-> lsn,
     deleted |-> change.op = "delete",
     data    |-> IF change.op = "delete" THEN 0 ELSE lsn]

\* Mutant: the delete row is inserted without its version.
InsertRowOfUnversioned(event) ==
    IF event.deleted
      THEN [version |-> 0, deleted |-> TRUE, data |-> 0]
      ELSE [version |-> event.version, deleted |-> FALSE, data |-> event.data]

\* _build_upsert_insert_row and _build_delete_insert_row: an upsert carries the
\* event's columns, a delete only the primary key and the technical columns.
InsertRowOf(event) ==
    IF event.deleted
      THEN [version |-> event.version, deleted |-> TRUE, data |-> 0]
      ELSE [version |-> event.version, deleted |-> FALSE, data |-> event.data]

\* Mutant: an engine without a version column keeps the last row inserted.
ReplaceRowLast(current, inserted) == inserted

\* ReplacingMergeTree(version) read with FINAL: of the rows with the same ORDER BY
\* key the one with the greatest version is kept, the last inserted among equals.
ReplaceRow(current, inserted) ==
    IF inserted.version >= current.version THEN inserted ELSE current
=============================================================================
