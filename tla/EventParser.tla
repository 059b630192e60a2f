---------------------------- MODULE EventParser ----------------------------
(***************************************************************************)
(* One Kafka record on its way through the worker: Debezium adapter,       *)
(* NormalizedEventParser, ClickHouse row builder.  A row is a function     *)
(* from column names to values; Null is JSON's null.  What is raised on the *)
(* way is Rejected: the process ends (see CdcPipeline).                    *)
(*                                                                         *)
(* tables is the sequence [name, table] of WorkerConfig; a change event has *)
(* op, table, lsn, before and after (a row, or NoRow), its schema left out. *)
(***************************************************************************)
EXTENDS Texts

Null == "null"
NoRow == << >>
Tombstone == [tombstone |-> TRUE]
Rejected == [outcome |-> "rejected"]
Skipped == [outcome |-> "skipped"]

-----------------------------------------------------------------------------
(* The adapter. *)

\* The last part of the topic that is not empty.
TableNameFromTopic(topic) == Last(SelectSeq(Parts(topic), NonEmpty))

\* source.table of the event, the topic's last part when it has none.
ExtractTableName(topic, event) ==
    IF event.table # None THEN event.table ELSE TableNameFromTopic(topic)

\* Mutant: the row of a delete is read from after, as that of any other change.
DataFieldAfter(event) == event.after

\* extract_operation and extract_data: c, u and r carry after, d carries before.
DataField(event) == IF event.op = "d" THEN event.before ELSE event.after

\* source.lsn must be an integer.
ExtractVersion(event) == event.lsn
ValidVersion(event) == event.lsn \in Nat

-----------------------------------------------------------------------------
(* The parser. *)

TopicRoutes(tables, topic) ==
    {i \in DOMAIN tables : tables[i].table.source.topic = topic}

\* The logical name of the route, which is also the parser's name for the event.
ExpectedTableName(route) == route.name

\* _validate_required_destination_fields.
HasDestinationFields(route, row) ==
    \A c \in ToSet(route.table.destination.columns) : c.name \in DOMAIN row

PrimaryKeyOf(route, row) ==
    [field \in ToSet(route.table.primary_key_fields) |-> row[field]]

HasPrimaryKey(route, row) == ToSet(route.table.primary_key_fields) \subseteq DOMAIN row

\* The NormalizedEvent of a record, or what happens instead.
Parse(tables, topic, event) ==
    IF TopicRoutes(tables, topic) = {} THEN Rejected
    ELSE IF event = Tombstone THEN Skipped
    ELSE LET route == tables[CHOOSE i \in TopicRoutes(tables, topic) : TRUE]
             row == DataField(event)
         IN  IF /\ ExtractTableName(topic, event) = ExpectedTableName(route)
                /\ event.op \in {"c", "u", "d", "r"}
                /\ row # NoRow
                /\ HasPrimaryKey(route, row)
                /\ event.op # "d" => HasDestinationFields(route, row)
                /\ ValidVersion(event)
               THEN [outcome |-> "event",
                     table |-> route.name,
                     primary_key |-> PrimaryKeyOf(route, row),
                     data |-> IF event.op = "d" THEN NoRow ELSE row,
                     version |-> ExtractVersion(event),
                     deleted |-> event.op = "d"]
               ELSE Rejected

-----------------------------------------------------------------------------
(* ClickHouse: table definitions and the rows that are inserted. *)

\* _build_table_definition.
TableDefinition(entry, database) ==
    [database |-> database,
     table_name |-> entry.table.destination.table,
     business_columns |-> entry.table.destination.columns,
     order_by_columns |-> entry.table.primary_key_fields]

ColumnNames(definition) == {c.name : c \in ToSet(definition.business_columns)}

\* The definition of a logical table, from the registry.
DefinitionOf(tables, database, name) ==
    TableDefinition(tables[CHOOSE i \in DOMAIN tables : tables[i].name = name], database)

\* _validate_column_value.
NullsAllowed(definition, data) ==
    \A c \in ToSet(definition.business_columns) : data[c.name] = Null => c.nullable

\* row["version"] and row["deleted"] are set last.
WithTechnicalValues(row, event) ==
    [column \in DOMAIN row \cup {"version", "deleted"} |->
        IF column = "version" THEN event.version
        ELSE IF column = "deleted" THEN IF event.deleted THEN 1 ELSE 0
        ELSE row[column]]

UpsertRow(definition, event) ==
    WithTechnicalValues([column \in ColumnNames(definition) |-> event.data[column]], event)

\* The other columns of the row take their defaults.
DeleteRow(definition, event) ==
    WithTechnicalValues([column \in ToSet(definition.order_by_columns) |->
                            event.primary_key[column]], event)

\* persist: the row to insert, or Rejected.
InsertRow(definition, event) ==
    IF event.deleted
      THEN [outcome |-> "row", row |-> DeleteRow(definition, event)]
      ELSE IF NullsAllowed(definition, event.data)
             THEN [outcome |-> "row", row |-> UpsertRow(definition, event)]
             ELSE Rejected

\* ClickHouse stores a row of a table whose columns it all has; null where the column
\* allows it.  Rows with equal order_by_columns are versions of one row.
Insertable(definition, row) ==
    \A column \in DOMAIN row \ {"version", "deleted"} :
        \E c \in ToSet(definition.business_columns) :
            c.name = column /\ (row[column] = Null => c.nullable)

SortingKey(definition, row) ==
    [column \in ToSet(definition.order_by_columns) |-> row[column]]
=============================================================================
