-------------------------- MODULE RuntimeContract --------------------------
(***************************************************************************)
(* What the API publishes to a worker (get_worker_runtime_config.py) and   *)
(* the JSON it becomes (schemas/worker_runtime_config.py).  JSON objects   *)
(* are records; the object "tables", whose order matters, is a sequence of *)
(* [name, table].                                                          *)
(***************************************************************************)
EXTENDS SyncConfigs

ContractVersion == 1

\* The text of a setting: stripped, not empty (Settings, and again the use case).
ValidKafkaSettings(s) ==
    /\ NotBlank(s.bootstrap_servers)
    /\ NotBlank(s.client_id_prefix)
    /\ s.auto_offset_reset \in {"earliest", "latest"}
    /\ s.poll_timeout_ms > 0

\* effective_worker_kafka_group_id: the worker's own group, or a derived one.
EffectiveGroup(worker) ==
    IF worker.kafka_group_id # None THEN worker.kafka_group_id
                                    ELSE "cdc-sync-worker-" \o worker.worker_id

EnabledTables(c) == Keep(c.tables, {t \in ToSet(c.tables) : t.enabled})

\* The topics in the order of the tables, each one once.
UniqueTopics(tables) ==
    LET topics[n \in 0 .. Len(tables)] ==
            IF n = 0 THEN <<>>
            ELSE IF Contains(topics[n - 1], tables[n].cdc_topic) THEN topics[n - 1]
            ELSE Append(topics[n - 1], tables[n].cdc_topic)
    IN  topics[Len(tables)]

BuildKafka(settings, worker, tables) ==
    [bootstrap_servers |-> Strip(settings.bootstrap_servers),
     client_id |-> Strip(settings.client_id_prefix) \o "-" \o worker.worker_id,
     group_id |-> EffectiveGroup(worker),
     auto_offset_reset |-> settings.auto_offset_reset,
     poll_timeout_ms |-> settings.poll_timeout_ms,
     topics |-> UniqueTopics(tables)]

\* _destination_credentials, of a secret that the domain has validated.
DestinationCredentials(secret) == [user |-> secret.user, password |-> secret.password]

BuildDestination(d) ==
    [adapter |-> "clickhouse", host |-> d.host, port |-> d.port, secure |-> d.secure,
     database |-> d.database_name,
     credentials |-> DestinationCredentials(d.credentials)]

SourceRuntimeAdapter(source) ==
    IF source.source_type = "postgresql" THEN "debezium_postgres" ELSE None

BuildTable(adapter, c, t) ==
    [enabled |-> TRUE,
     source |-> [adapter |-> adapter, schema |-> t.source_schema,
                 table |-> t.source_table, topic |-> t.cdc_topic],
     pk |-> t.primary_key_fields,
     sync |-> [mode |-> c.sync_mode],
     destination |->
       [table |-> t.destination_table,
        columns |-> Map(t.destination_columns, LAMBDA column :
                          [name |-> column.name, type |-> column.destination_type,
                           nullable |-> column.nullable])]]

BuildTables(source, c, tables) ==
    Map(tables, LAMBDA t : [name |-> t.logical_name,
                            table |-> BuildTable(SourceRuntimeAdapter(source), c, t)])

-----------------------------------------------------------------------------
(* The response models: what goes over the wire. *)

\* Mutant: the field is sent under the name it has in the response model.
RuntimeTableSourceResponseByName(source) ==
    [adapter |-> source.adapter, source_schema |-> source.schema,
     table |-> source.table, topic |-> source.topic]

\* source_schema has the serialization alias "schema".
RuntimeTableSourceResponse(source) ==
    [adapter |-> source.adapter, schema |-> source.schema,
     table |-> source.table, topic |-> source.topic]

RuntimeTableDestinationResponse(d) ==
    [table |-> d.table,
     columns |-> Map(d.columns, LAMBDA c :
                       [name |-> c.name, type |-> c.type, nullable |-> c.nullable])]

RuntimeTableResponse(t) ==
    [enabled |-> t.enabled,
     source |-> RuntimeTableSourceResponse(t.source),
     pk |-> t.pk,
     sync |-> [mode |-> t.sync.mode],
     destination |-> RuntimeTableDestinationResponse(t.destination)]

RuntimeKafkaResponse(k) ==
    [bootstrap_servers |-> k.bootstrap_servers, client_id |-> k.client_id,
     group_id |-> k.group_id, auto_offset_reset |-> k.auto_offset_reset,
     poll_timeout_ms |-> k.poll_timeout_ms, topics |-> k.topics]

RuntimeDestinationResponse(d) ==
    [adapter |-> d.adapter, host |-> d.host, port |-> d.port, secure |-> d.secure,
     database |-> d.database, credentials |-> d.credentials]

WorkerRuntimeConfigResponse(dto) ==
    [contract_version |-> dto.contract_version,
     worker |-> [worker_id |-> dto.worker.worker_id],
     kafka |-> RuntimeKafkaResponse(dto.kafka),
     destination |-> RuntimeDestinationResponse(dto.destination),
     tables |-> Map(dto.tables, LAMBDA entry :
                      [name |-> entry.name, table |-> RuntimeTableResponse(entry.table)])]

\* get_config for a worker, once its configuration and connections have been read: a
\* disabled worker or configuration and one without enabled tables are a 422.
GetConfig(settings, worker, c, source, destination) ==
    IF ~worker.enabled \/ ~c.enabled \/ EnabledTables(c) = <<>>
      THEN Invalid
      ELSE [status |-> 200, contract |->
              WorkerRuntimeConfigResponse(
                [contract_version |-> ContractVersion,
                 worker |-> [worker_id |-> worker.worker_id],
                 kafka |-> BuildKafka(settings, worker, EnabledTables(c)),
                 destination |-> BuildDestination(destination),
                 tables |-> BuildTables(source, c, EnabledTables(c))])]
=============================================================================
