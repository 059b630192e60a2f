---------------------------- MODULE WorkerConfig ----------------------------
(***************************************************************************)
(* How a worker process reads the runtime contract (worker/src/config.py   *)
(* and table_config.py): what it requires, what it refuses, and what it    *)
(* makes of it.  The contract is JSON: a missing key or a value of another *)
(* type raises before the process does anything, as every refusal does.    *)
(***************************************************************************)
EXTENDS Texts

\* _required_value of several keys, and _expect_non_empty_str of their values.
Has(object, keys) == keys \subseteq DOMAIN object
HasTexts(object, keys) == Has(object, keys) /\ \A key \in keys : NotBlank(object[key])

-----------------------------------------------------------------------------
(* table_config.py *)

ColumnAccepted(column) ==
    HasTexts(column, {"name", "type"}) /\ Has(column, {"nullable"})

BuildColumn(column) ==
    [name |-> Strip(column.name), type |-> Strip(column.type), nullable |-> column.nullable]

BuildDestinationConfig(d) ==
    [table |-> Strip(d.table), columns |-> Map(d.columns, BuildColumn)]

\* _validate_table_destination.
TableDestinationValid(pk, d) ==
    /\ pk # <<>> /\ d.columns # <<>>
    /\ ForAll(d.columns, LAMBDA c : c.name \notin {"version", "deleted"})
    /\ Distinct(Map(d.columns, LAMBDA c : c.name))
    /\ \A field \in ToSet(pk) :
         \E c \in ToSet(d.columns) : c.name = field /\ ~c.nullable

TableAccepted(t) ==
    /\ Has(t, {"enabled", "source", "pk", "sync", "destination"})
    /\ HasTexts(t.source, {"adapter", "schema", "table", "topic"})
    /\ HasTexts(t.sync, {"mode"})
    /\ ForAll(t.pk, NotBlank)
    /\ HasTexts(t.destination, {"table"}) /\ Has(t.destination, {"columns"})
    /\ ForAll(t.destination.columns, ColumnAccepted)
    /\ TableDestinationValid(Map(t.pk, Strip), BuildDestinationConfig(t.destination))

BuildTableConfig(t) ==
    [enabled |-> t.enabled,
     source |-> [adapter |-> Strip(t.source.adapter), schema |-> Strip(t.source.schema),
                 table |-> Strip(t.source.table), topic |-> Strip(t.source.topic)],
     primary_key_fields |-> Map(t.pk, Strip),
     sync |-> [mode |-> Strip(t.sync.mode)],
     destination |-> BuildDestinationConfig(t.destination)]

\* build_table_configs_from_runtime builds a dict: a name that comes again keeps its
\* place and takes the later table.
BuildTableConfigs(tables) ==
    LET new(entry) == [name |-> Strip(entry.name), table |-> BuildTableConfig(entry.table)]
        Put(built, entry) ==
            IF \E i \in DOMAIN built : built[i].name = entry.name
              THEN Map(built, LAMBDA b : IF b.name = entry.name THEN entry ELSE b)
              ELSE Append(built, entry)
        dict[n \in 0 .. Len(tables)] ==
            IF n = 0 THEN <<>> ELSE Put(dict[n - 1], new(tables[n]))
    IN  dict[Len(tables)]

\* _validate_destination_tables.
DestinationTablesDiffer(built) ==
    Distinct(Map(built, LAMBDA b : b.table.destination.table))

-----------------------------------------------------------------------------
(* config.py *)

ContractVersionSupported(contract) == contract.contract_version = 1

IdentityAccepted(contract, worker_id) ==
    HasTexts(contract.worker, {"worker_id"}) /\ Strip(contract.worker.worker_id) = worker_id

\* _validate_runtime_tables.
RuntimeTablesValid(built) ==
    /\ built # <<>>
    /\ ForAll(built, LAMBDA b : /\ b.table.enabled
                             /\ b.table.source.adapter = "debezium_postgres"
                             /\ b.table.sync.mode = "realtime")

DestinationAccepted(d) ==
    /\ HasTexts(d, {"adapter", "host", "database"}) /\ Has(d, {"port", "secure", "credentials"})
    /\ Strip(d.adapter) = "clickhouse"
    /\ d.port > 0
    /\ HasTexts(d.credentials, {"user", "password"})

BuildClickHouseConfig(d) ==
    [host |-> Strip(d.host), port |-> d.port, secure |-> d.secure,
     database |-> Strip(d.database),
     user |-> Strip(d.credentials.user), password |-> Strip(d.credentials.password)]

TableTopics(built) == Map(built, LAMBDA b : b.table.source.topic)

\* _build_kafka_topics: exactly the topics of the tables, in their order, none twice.
TopicsAccepted(kafka, built) ==
    /\ ForAll(kafka.topics, NotBlank)
    /\ kafka.topics # <<>>
    /\ Distinct(TableTopics(built))
    /\ Map(kafka.topics, Strip) = TableTopics(built)

KafkaAccepted(kafka) ==
    /\ HasTexts(kafka, {"bootstrap_servers", "client_id", "group_id", "auto_offset_reset"})
    /\ Has(kafka, {"poll_timeout_ms", "topics"})
    /\ Strip(kafka.auto_offset_reset) \in {"earliest", "latest"}
    /\ kafka.poll_timeout_ms > 0

\* build_config_from_runtime does not raise.
Accepts(contract, worker_id) ==
    /\ Has(contract, {"contract_version", "worker", "tables", "kafka", "destination"})
    /\ ContractVersionSupported(contract)
    /\ IdentityAccepted(contract, worker_id)
    /\ ForAll(contract.tables, LAMBDA entry : NotBlank(entry.name) /\ TableAccepted(entry.table))
    /\ LET built == BuildTableConfigs(contract.tables)
       IN  /\ DestinationTablesDiffer(built)
           /\ RuntimeTablesValid(built)
           /\ DestinationAccepted(contract.destination)
           /\ KafkaAccepted(contract.kafka)
           /\ TopicsAccepted(contract.kafka, built)

\* ... and what it returns then.
BuildConfig(contract, worker_id) ==
    [worker_id |-> worker_id,
     topics |-> Map(contract.kafka.topics, Strip),
     client_id |-> Strip(contract.kafka.client_id),
     group_id |-> Strip(contract.kafka.group_id),
     auto_offset_reset |-> Strip(contract.kafka.auto_offset_reset),
     tables |-> BuildTableConfigs(contract.tables),
     clickhouse |-> BuildClickHouseConfig(contract.destination)]
=============================================================================
