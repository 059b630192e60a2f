----------------------------- MODULE Deployment -----------------------------
(***************************************************************************)
(* From the administration API to the destination: each worker's assigned  *)
(* configuration, the connector materialised for the source they share, the *)
(* worker processes that run what was published when they started, and the  *)
(* ClickHouse tables that the processes create.  Nothing here tells the     *)
(* others of a change: a configuration is replaced at any time, the         *)
(* connector follows when somebody materialises it, a process when it is    *)
(* restarted, and a ClickHouse table never.                                *)
(***************************************************************************)
EXTENDS RuntimeContract, WorkerConfig, ConnectorCompiler, EventParser, SyncConfigForm

CONSTANTS
    Workers,       \* registered, enabled workers, by worker_id
    Requests,      \* Workers -> the requests for its configuration
    NewTables,     \* <<name, namespace>> of tables that are added in the console
    Connections,   \* set of [source, destination, settings] requests
    SourceTables,  \* the tables of the source: [schema, table, key, columns],
                   \* columns a function from names to "may be null"
    MaxWrites      \* bound: configurations stored

ASSUME MaxWritesAssumption == MaxWrites \in Nat

\* The request models parse JSON lists.
ASSUME RequestsAssumption ==
    \A w \in Workers : \A r \in Requests[w] :
        IsList(r.tables) /\ \A t \in ToSet(r.tables) : IsList(t.primary_key_fields)

\* Worker.__post_init__: worker_id is stripped and not empty.  Texts with a dash in them
\* are not blank.
ASSUME WorkersAssumption ==
    \A w \in Workers :
        /\ NonEmpty(w) /\ Strip(w) = w
        /\ NotBlank("cdc-sync-worker-" \o w)
        /\ \A c \in Connections : NotBlank(Strip(c.settings.client_id_prefix) \o "-" \o w)

\* What is typed in is text.
ASSUME NewTablesAssumption == NewTables \subseteq STRING \X STRING

\* The texts that the code compares with, or makes up, have no blanks around them.
ASSUME KeywordsAssumption ==
    /\ \A text \in {"clickhouse", "debezium_postgres", "realtime", "earliest", "latest",
                    "id", "String"} : Strip(text) = text
    /\ ~Comma("id")

\* None and Null stand for what is not a text.
ASSUME SourceTablesAssumption ==
    \A t \in SourceTables : t.table # None /\ Null \notin DOMAIN t.columns

VARIABLES
    connections,  \* the source, the destination and the API's settings
    configs,      \* Workers -> its configuration, or NoConfig
    connector,    \* the connector Kafka Connect runs and the configs it comes from
    process,      \* Workers -> [step, from, config, pending], see Load
    schema,       \* tables ClickHouse has: destination table -> definition
    writes        \* configurations stored

vars == <<connections, configs, connector, process, schema, writes>>

NoConfig == [tables |-> << >>]
NoConnector == [status |-> 404]
Down == [step |-> "down"]

TypeOK ==
    /\ ValidSourceConnection(connections.source)
    /\ ValidDestination(connections.destination)
    /\ ValidKafkaSettings(connections.settings)
    /\ \A w \in Workers :
         /\ configs[w] # NoConfig =>
              ValidSyncConfig(configs[w]) /\ ConstraintsHold(configs[w])
         /\ process[w].step \in {"down", "bootstrap", "running"}
    /\ connector.status \in {200, 404}
    /\ writes \in 0 .. MaxWrites

\* create_source_connection and create_destination have accepted the requests.
Init ==
    /\ \E c \in Connections :
         /\ SourceConnectionCreateRequest(c.source)
         /\ DestinationCreateRequest(c.destination)
         /\ ValidSourceConnection(SourceConnection(c.source))
         /\ ValidDestination(Destination(c.destination))
         /\ ValidKafkaSettings(c.settings)
         /\ connections = [source |-> SourceConnection(c.source),
                           destination |-> Destination(c.destination),
                           settings |-> c.settings]
    /\ configs = [w \in Workers |-> NoConfig]
    /\ connector = NoConnector
    /\ process = [w \in Workers |-> Down]
    /\ schema = << >>
    /\ writes = 0

-----------------------------------------------------------------------------
(* The API. *)

\* POST or PUT of a configuration; a refused request changes nothing.
PutConfig(w, request) ==
    /\ writes < MaxWrites
    /\ LET stored == Stored(request)
       IN  IF stored.status = 200
             THEN /\ configs' = [configs EXCEPT ![w] = stored.config]
                  /\ writes' = writes + 1
             ELSE UNCHANGED <<configs, writes>>
    /\ UNCHANGED <<connections, connector, process, schema>>

\* The console's form of the configuration: what the API shows of it, or an empty form.
Form(w) ==
    IF configs[w] = NoConfig THEN NewFormValues ELSE FormValues(SyncConfigResponse(configs[w]))

\* A table is added in the form, and the form is saved.
SaveForm(w, new) ==
    LET values == WithTable(Form(w), new[1], new[2], "String")
    IN  ValidForm(values) /\ PutConfig(w, Payload(values))

StoredConfigs == {configs[w] : w \in Workers} \ {NoConfig}

\* Materialise the source's connector; 422 leaves the one that runs as it is.
Materialise ==
    LET compiled == Compile(connections.source, StoredConfigs)
    IN  /\ IF compiled.status = 200
             THEN connector' = [status |-> 200, connector |-> compiled.connector,
                                from |-> configs]
             ELSE UNCHANGED connector
        /\ UNCHANGED <<connections, configs, process, schema, writes>>

Worker(w) == [worker_id |-> w, kafka_group_id |-> None, enabled |-> TRUE]

\* GET /workers/{worker_id}/config.
Published(w) ==
    IF configs[w] = NoConfig
      THEN [status |-> 404]
      ELSE GetConfig(connections.settings, Worker(w), configs[w],
                     connections.source, connections.destination)

-----------------------------------------------------------------------------
(* A worker process: main.py up to the consumer loop. *)

\* fetch_worker_runtime_config: any other answer ends the process.
Fetched(answer) == answer.status = 200

\* load_config, and the parser's and the sink's tables.
Load(w) ==
    /\ process[w] = Down
    /\ LET answer == Published(w)
       IN  /\ Fetched(answer)
           /\ Accepts(answer.contract, w)
           /\ LET config == BuildConfig(answer.contract, w)
              IN  process' = [process EXCEPT ![w] =
                                [step |-> "bootstrap", from |-> configs[w],
                                 config |-> config, pending |-> config.tables]]
    /\ UNCHANGED <<connections, configs, connector, schema, writes>>

\* Mutant: bootstrap stops when a table is already there.
BootstrapStops(w) ==
    /\ process[w].step = "bootstrap"
    /\ process[w].pending # <<>>
    /\ LET entry == Head(process[w].pending)
           name == entry.table.destination.table
           definition == TableDefinition(entry, process[w].config.clickhouse.database)
       IN  IF name \in DOMAIN schema
             THEN /\ process' = [process EXCEPT ![w].pending = << >>]
                  /\ UNCHANGED schema
             ELSE /\ process' = [process EXCEPT ![w].pending = Tail(@)]
                  /\ schema' = schema @@ (name :> definition)
    /\ UNCHANGED <<connections, configs, connector, writes>>

\* bootstrap: CREATE TABLE IF NOT EXISTS of one table after the other; what is there
\* already wins.
Bootstrap(w) ==
    /\ process[w].step = "bootstrap"
    /\ process[w].pending # <<>>
    /\ LET entry == Head(process[w].pending)
           name == entry.table.destination.table
           definition == TableDefinition(entry, process[w].config.clickhouse.database)
       IN  schema' = [n \in DOMAIN schema \cup {name} |->
                        IF n \in DOMAIN schema THEN schema[n] ELSE definition]
    /\ process' = [process EXCEPT ![w].pending = Tail(@)]
    /\ UNCHANGED <<connections, configs, connector, writes>>

\* build_consumer subscribes to the topics; the loop of CdcPipeline begins.
Subscribe(w) ==
    /\ process[w].step = "bootstrap"
    /\ process[w].pending = <<>>
    /\ process' = [process EXCEPT ![w].step = "running"]
    /\ UNCHANGED <<connections, configs, connector, schema, writes>>

\* The process ends: stopped, crashed, or a statement of bootstrap failed.
Stop(w) ==
    /\ process[w] # Down
    /\ process' = [process EXCEPT ![w] = Down]
    /\ UNCHANGED <<connections, configs, connector, schema, writes>>

Next ==
    \/ Materialise
    \/ \E w \in Workers :
         \/ \E request \in Requests[w] : PutConfig(w, request)
         \/ \E new \in NewTables : SaveForm(w, new)
         \/ Load(w)
         \/ Bootstrap(w)
         \/ Subscribe(w)
         \/ Stop(w)

Spec == Init /\ [][Next]_vars

-----------------------------------------------------------------------------
(* The events Debezium writes for a source table: every column of the row  *)
(* in after; of a deleted row the key alone (REPLICA IDENTITY DEFAULT).     *)
(* The value of a column that is not null is its name.                     *)

RowsOf(t) ==
    {[c \in DOMAIN t.columns |-> IF c \in nulls THEN Null ELSE c] :
        nulls \in SUBSET {c \in DOMAIN t.columns : t.columns[c]}}

KeyRow(t) == [c \in DOMAIN t.columns |-> IF c \in ToSet(t.key) THEN c ELSE Null]

EventsOf(t) ==
    LET event(op, before, after) ==
            [op |-> op, table |-> t.table, lsn |-> 1, before |-> before, after |-> after]
    IN  {event(op, NoRow, row) : op \in {"c", "u", "r"}, row \in RowsOf(t)}
          \cup {event("d", KeyRow(t), NoRow)}

\* A configured table says what the source has: the parser wants the logical name to
\* be the table's, the sink a row that has a key and nulls only where they may be.
Describes(entry, t) ==
    /\ entry.name = t.table
    /\ <<entry.table.source.schema, entry.table.source.table>> = <<t.schema, t.table>>
    /\ entry.table.primary_key_fields = t.key
    /\ \A c \in ToSet(entry.table.destination.columns) :
         c.name \in DOMAIN t.columns /\ (t.columns[c.name] => c.nullable)

(* Properties. *)

\* Whatever configuration the API has accepted and would publish, the worker accepts,
\* and it comes out as exactly the enabled tables: 422 is the API's answer to what is
\* incompatible with the runtime (docs/api.md).  Two code bases validate and normalise
\* the same data, and only the first can tell the administrator.
PublishedContractsAccepted ==
    \A w \in Workers : Published(w).status = 200 =>
        LET contract == Published(w).contract
        IN  /\ Accepts(contract, w)
            /\ Map(BuildConfig(contract, w).tables,
                   LAMBDA b : <<b.name, b.table.source.schema, b.table.source.table,
                                b.table.source.topic, b.table.primary_key_fields,
                                b.table.destination>>)
                 = Map(EnabledTables(configs[w]),
                       LAMBDA t : <<t.logical_name, t.source_schema, t.source_table,
                                    t.cdc_topic, t.primary_key_fields,
                                    [table |-> t.destination_table,
                                     columns |-> Map(t.destination_columns, LAMBDA c :
                                       [name |-> c.name, type |-> c.destination_type,
                                        nullable |-> c.nullable])]>>)

\* The configurations the connector was compiled from.
ConnectorConfigs == {connector.from[w] : w \in Workers} \ {NoConfig}

\* A process is fed whatever versions it and the connector come from: the connector
\* captures each table of the process, and writes it to the topic that the process has
\* subscribed for it, if both come from the same configuration, or if any configuration
\* the connector comes from still has the table and the topic; what else the versions
\* between them have changed does not matter.  (The topics are typed in by hand; the
\* worker takes them as they are, the compiler derives the connector's prefix from them.)
WorkersAreFed ==
    connector.status = 200 =>
        \A w \in Workers : process[w].step = "running" =>
            \A entry \in ToSet(process[w].config.tables) :
                LET topic == entry.table.source.topic
                    identifier == <<entry.table.source.schema, entry.table.source.table>>
                IN  \/ process[w].from = connector.from[w]
                    \/ \E t \in TablesToCapture(ConnectorConfigs) :
                         TableIdentifier(t) = identifier /\ t.cdc_topic = topic
                    => WritesTopic(connector.connector, topic, identifier)

\* Every event of a source table that a running process's configuration describes, and
\* whose destination table no other definition has created, is parsed and stored under
\* the key it has in the source, deletes included; its tombstone is skipped.
RecordsArrive ==
    \A w \in Workers : process[w].step = "running" =>
      LET tables == process[w].config.tables
          database == process[w].config.clickhouse.database
      IN  \A entry \in ToSet(tables), t \in SourceTables :
            LET topic == entry.table.source.topic
                definition == TableDefinition(entry, database)
                others == {n \in DOMAIN schema : n = definition.table_name
                                                  /\ schema[n] # definition}
            IN  Describes(entry, t) /\ others = {} =>
                  /\ definition.table_name \in DOMAIN schema
                  /\ Parse(tables, topic, Tombstone) = Skipped
                  /\ \A change \in EventsOf(t) :
                       LET event == Parse(tables, topic, change)
                           insert == InsertRow(DefinitionOf(tables, database, event.table),
                                               event)
                       IN  /\ event.outcome = "event"
                           /\ insert.outcome = "row"
                           /\ Insertable(definition, insert.row)
                           /\ SortingKey(definition, insert.row)
                                = [c \in ToSet(t.key) |-> c]
                           /\ insert.row.deleted = IF change.op = "d" THEN 1 ELSE 0

KeysWithoutCommas(config) ==
    \A t \in ToSet(config.tables) : ForAll(t.primary_key_fields, LAMBDA k : ~Comma(k))

\* An administrator edits what the API shows: opened in the console's form and saved
\* without a change, a configuration is accepted and stored as it was, whatever the
\* original request looked like.  (The form splits the keys of a table at commas.)
ShownConfigsSaveUnchanged ==
    \A w \in Workers :
        configs[w] # NoConfig /\ KeysWithoutCommas(configs[w]) =>
           /\ ValidForm(Form(w))
           /\ Stored(Payload(Form(w))) = [status |-> 200, config |-> configs[w]]

\* A table that the console adds from its name fits the configuration: if that compiles
\* to a connector, it still does with the table, which is captured to the topic the
\* form has made up.  (The topic's prefix is taken from the tables in the form, whether
\* enabled or not; the compiler wants one prefix for all the enabled ones, and no dots or
\* commas in a name.)
AddedTablesFit ==
    \A w \in Workers, new \in NewTables :
        LET source == connections.source
            name == Strip(new[1])
            namespace == Strip(new[2])
            saved == Stored(Payload(WithTable(Form(w), new[1], new[2], "String")))
            compiled == Compile(source, {IF v = w THEN saved.config ELSE configs[v] :
                                            v \in {v \in Workers : configs[v] # NoConfig}})
            table == Last(saved.config.tables)
        IN  /\ configs[w] # NoConfig /\ KeysWithoutCommas(configs[w]) /\ configs[w].enabled
            /\ \A t \in ToSet(configs[w].tables) :
                 t.enabled /\ name \notin {t.logical_name, t.source_table, t.destination_table}
            /\ Compile(source, StoredConfigs).status = 200
            /\ NonEmpty(name) /\ SimpleIdentifier(name)
            /\ NonEmpty(namespace) /\ SimpleIdentifier(namespace)
            => /\ saved.status = 200
               /\ compiled.status = 200
               /\ WritesTopic(compiled.connector, table.cdc_topic, TableIdentifier(table))
=============================================================================
