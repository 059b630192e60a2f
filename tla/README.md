# cdc-sync in TLA+

cdc-sync copies tables of a PostgreSQL database into ClickHouse. Debezium turns the
changes of the source into Kafka records; worker processes (Python, `worker/src`) consume
them and insert one versioned row per record; a control plane (FastAPI over PostgreSQL,
`api/src`) holds workers, connections, destinations and configurations, publishes to each
worker the contract it runs by, and configures the Debezium connector; a React console
(`frontend/src`) edits all of that.

This directory models that system, checks the models with TLC on small instances, and
proves the most important properties for every instance with TLAPS. `PROJECT.json` names,
for every definition, the lines of code it stands for, and for every property a mutation of
the code that breaks it.

## Inventory

| Part | State it keeps | Operations | Hard behaviour |
| --- | --- | --- | --- |
| Consumer loop (`worker/src/consumer.py`, `main.py`) | consumer positions, batch being processed, tracker | poll; parse, persist, mark, commit each record; end on any exception | crash between insert and commit, rebalance while a batch is being processed, commits of an evicted process |
| Offset commit tracker (`offset_commit_tracker.py`) | per partition: next offset to commit, processed offsets | mark_processed, build_commit_offsets, mark_committed | holes and repetitions, a tracker that outlives an assignment |
| Event parser and Debezium adapters (`normalized_event_parser.py`, `adapters/`) | none; topic routes fixed at start | parse | tombstones, deletes that carry the key only, records that are rejected every time, text that reads as another value |
| ClickHouse sink, registry, client | none; table definitions fixed at start | insert of one row | the answer of an insert is lost; older rows inserted behind newer ones |
| Schema bootstrap (`clickhouse_schema_manager.py`) | tables of ClickHouse | CREATE ... IF NOT EXISTS at start, one after the other | interrupted between two tables; the table of an older configuration stays |
| Worker configuration (`config.py`, `table_config.py`, `control_plane_client.py`) | the contract, fixed for the life of the process | one GET at start, strict validation | validates in its own way what another code base has published; stale until a restart |
| Control plane use cases and repositories (`api/src/.../use_cases`, `persistence`) | workers, secrets, sources, destinations, configurations, assignments | create, read, update, delete, assign | requests run concurrently in a thread pool; each repository call is its own transaction |
| Control plane domain model (`domain/control_plane.py`) | none | normalisation and validation | what is stored has to survive being shown and saved again |
| Runtime contract (`get_worker_runtime_config.py`) | none | read worker, assignment, configuration, source, destination, secret | six transactions, anything may change in between |
| Connector materialisation (`materialize_cdc_connector.py`, compiler, Kafka Connect client) | the connector's configuration, in Kafka Connect | compile from all enabled configurations of a source, PUT | concurrent PUTs, lost answers |
| HTTP layer, settings | none | request and response models, status codes | none of their own |
| Administration frontend (`frontend/src/views`) | the list it has read, the open form, requests in flight | read, create, edit, delete; a form's fields from a row and back | answers that arrive when the user has moved on; a list that is behind; what the form cannot express |
| Demo runner, compose files, migrations | none | test driver, deployment, constraints of the tables | none of their own |

How they interact: frontend -> HTTP API -> PostgreSQL (control plane); API -> Kafka Connect
(PUT of a connector); worker -> API (GET of its contract, once); Debezium -> Kafka -> worker
-> ClickHouse. The data path from the source to ClickHouse has no other feedback than Kafka's
committed offsets. The control plane notifies nobody: a connector follows a configuration when
somebody materialises it, a process when it is restarted, a ClickHouse table never. What makes
each part correct:

* data path: nothing committed is lost; a reader of the destination never sees a row the
  source did not have nor a step back; once everything is consumed, the destination is the
  source; and it gets there if a process stays up;
* tracker: never commits past a hole, forgets nothing, never goes back;
* control plane: the uniqueness of effective consumer groups, references and secrets that stay
  whole, aggregates that are read as some request wrote them, answers that come from one
  state, a connector that ends up as the tables say;
* configuration: what the API accepts and publishes the worker accepts and understands in the
  same way, the connector writes what the worker subscribes, what arrives is stored under its
  key.

## Modules

| Module | What it is |
| --- | --- |
| `PartitionOffsets` | the value operations of the commit tracker on one partition |
| `OffsetCommitTracker` | the tracker as a state machine, fed any offsets in any order |
| `TableRows` | rows of the source and the destination; what an event inserts; which row ReplacingMergeTree shows |
| `ReplicatedTable` | abstract: what a reader of the destination is promised |
| `CdcPipeline` | source, connector, Kafka group, worker processes and destination together |
| `WorkerRegistry` | the workers of the control plane under concurrent requests |
| `ConfigAggregate` | one configuration, stored in four tables, under concurrent requests |
| `ControlPlane` | all tables of the control plane and the requests of several transactions on them |
| `Texts` | what Python's string operations make of a text |
| `SyncConfigs` | a configuration and its connections: request, normalisation, validation, response |
| `RuntimeContract` | the contract published to a worker |
| `WorkerConfig` | what a worker requires of a contract and makes of it |
| `ConnectorCompiler` | the connector of a source and the topics it writes |
| `EventParser` | one record from Kafka to the row that is inserted |
| `SyncConfigForm` | the console's form of a configuration: fields, payload, a table added by name |
| `Deployment` | these seven together: API, console, connector, processes, bootstrap |
| `AdminScreen` | one list of the console with its form and its mutations |
| `DebeziumDecimal` | a NUMERIC column from its bytes through base64 text to the value written |
| `MC*` | instances for TLC |
| `*_proofs` | the theorems about the module of that name; each of the eight modules that are model-checked on their own has one |

`CdcPipeline` composes `PartitionOffsets` (one tracker per process and partition) with
`TableRows` (the destination) and implements `ReplicatedTable`. `Deployment` composes
`RuntimeContract`, `WorkerConfig`, `ConnectorCompiler`, `EventParser` and `SyncConfigForm`, all over `Texts`;
where its processes are `running`, `CdcPipeline` takes over. Definitions whose comment starts
with `Mutant:` are not part of a model: each is a plausible bug in the definition below it,
and the property it breaks is named in `PROJECT.json`.

## How the models correspond to the code

### PartitionOffsets and OffsetCommitTracker (`worker/src/offset_commit_tracker.py`)

`PartitionOffsetState` is the dataclass of that name, `Untracked` a missing entry of
`partition_states`. The methods become functions from the state before to the state after
(`MarkProcessed`, `CommitOffset`, `HasCommit`, `MarkCommitted`), so that the pipeline can use
them inside its own steps. `OffsetCommitTracker` drives them with any offsets in any order,
repetitions and holes included, and keeps two history variables: what was marked since a
partition was first tracked and what was committed. As in `mark_processed`, the first offset
marked in a partition is where its commits begin.

### CdcPipeline (`worker/src/consumer.py`, `main.py`, the sink, and what they rely on)

| Variable | In the system |
| --- | --- |
| `wal` | committed changes of the source; the LSN of a change is its index |
| `emitted`, `replays` | how far the Debezium connector has sent; how often it went back |
| `log`, `committed` | the partitions of the topics; the group's committed offsets |
| `member` | whether Kafka accepts commits of a process (it is in the present generation) |
| `pc` | `down`; `poll` (about to call `consumer.poll`); `record` (at a record of the batch); `persisted` (insert done, about to mark and commit) |
| `assigned`, `cursor`, `batchEnd`, `part` | what the consumer believes it owns; the record `_persist_records` is at; the end of the batch; the partition of the batch being processed |
| `tracker` | the process's `OffsetCommitTracker` |
| `table` | per key, the row a `FINAL` query shows |
| `base`, `confirmed` | history: where the group started reading; last commit a process saw accepted |
| `faults` | bound only |

A step of a process is what happens between two points where another process or a failure
can interfere: `consumer.poll`, the insert, the commit request. So `PersistEvent` is the
insert of one record, and `CommitAccepted`, `CommitNothing`, `CommitRejected` and
`CommitFails` are marking, building the offsets, committing, `mark_committed` and moving on
to the next record, in the outcomes the call to Kafka can have. Every exception is `Exit`:
`EventParsingError`, `EventPersistenceError` and `OffsetCommitError` leave
`consume_forever`, nothing in `main` catches them, and positions and tracker are lost with
the process. An insert or a commit that raises may have taken effect or not.
`build_consumer` subscribes without a rebalance listener, so `Rebalance` replaces the
consumer's positions and leaves the tracker alone.

External parts are modelled by what the worker relies on: PostgreSQL commits changes in LSN
order; Debezium emits one record per change, a delete followed by a tombstone, in LSN order,
at least once (it may go back and send again); Kafka keeps the order of a partition, assigns a
partition to one member of a generation, and refuses commits from outside it; ClickHouse
shows, per key, a row of the highest version, the last inserted among equals
(`ReplacingMergeTree(version)`).

### ReplicatedTable (abstract)

What the destination promises a reader: a row of a key only changes to a row some change of
the source left behind, and only forwards. `CdcPipeline` implements it
(`INSTANCE ReplicatedTable WITH source <- wal, view <- table`): everything else in the
pipeline, the log, the group, the processes, is invisible to a reader.

### WorkerRegistry (`manage_control_plane.py`, the worker repository)

`workers` is the table of that name. `request` holds what each overlapping request is about
to do: FastAPI runs the synchronous handlers in a thread pool and every repository call is a
transaction of its own, so `create_worker` is three steps (fresh uuid, check of the effective
group, INSERT) and `update_worker` four. `ViolatesUnique` is what PostgreSQL checks at the
write. `delete_worker` is one transaction. `overtaken` is history: the requests past their
check since which another request has written.

### ConfigAggregate (`control_plane_config_repository.py`)

`configs`, `config_tables`, `primary_keys` and `destination_columns` are the four tables,
restricted to one configuration; the content of a row is the number of the aggregate that
wrote it, because the properties only ask which rows belong together. A read is one SELECT
per step; each sees what is committed at that moment (`create_engine` sets no isolation
level, so PostgreSQL's READ COMMITTED applies). An update locks the row of `configs` with its
UPDATE (`UpdateConfigRow`), deletes the old tables (`DeleteTables`) and inserts the new ones one
after the other, each with its keys and then its columns (`InsertTable`, `InsertPrimaryKeys`,
`InsertDestinationColumns`); a creation (`InsertConfigRow`) does the same without the deletion.
Each of these is a step, `Rollback` may take the place of any of them, and what they do stays
with the request (`Saving`) until `Commit` merges it into the tables: the deleted tables leave,
with their keys and columns (`Without`, ON DELETE CASCADE), the inserted rows come. That the
result is one aggregate is nothing the model assumes; that nobody sees a transaction before it
commits and that a second UPDATE waits for the first is what PostgreSQL does. Every table of a
request gets a fresh uuid (`_build_configured_table`). `update_config` reads the configuration
before it writes, like a client.

### ControlPlane (the use cases and all repositories)

| Variable | In the system |
| --- | --- |
| `secrets` | the table of that name, by the id of the connection a secret was made for |
| `connections` | `source_connections` and `destinations`; a row refers to its secret |
| `configs`, `workers`, `assignments` | the tables; a configuration of `ConfigAggregate` is one row here |
| `connectors`, `delayed` | what Kafka Connect runs; PUTs that may arrive after the API gave up |
| `request`, `answer` | per overlapping request, the next step with what it has read; its last answer |
| `overtaken`, `settled` | history: requests since whose start another one has written; sources whose last materialisation stands |
| `writes` | bound only |

A row is `None` before it is inserted and `Gone` after it is deleted, since ids are uuids.
Every step of a request is one repository call, that is one transaction: `update_connection`
has two, `create_config` three, `update_config` four, `assign_config_to_worker` three and the
read of what it answers, `get_worker_runtime_config` six, `materialize_source_connector` three
and the PUT. What PostgreSQL enforces at a write (foreign keys, RESTRICT, CASCADE, the unique
`worker_id`) is a guard or a case of the writing step. Requests of one transaction are one
action (`delete_connection`, `delete_config`, `save_worker`, `delete_worker`, the creation of a
connection with its secret), of which only the outcome that writes is an action: one that is
refused changes nothing. `Answer` gives the HTTP status that
`execute_control_plane_operation` makes of what was raised, an unhandled `IntegrityError`
included. A PUT is accepted, refused, or its answer is lost and it arrives later or never.

### Texts, SyncConfigs, RuntimeContract, WorkerConfig, ConnectorCompiler, EventParser, SyncConfigForm

Operators without state, one module per group of source files. Texts are TLA+ strings, and
`Strip`, `Parts` and `CommaParts` are constants that say what `str.strip`, `split(".")` and
`split(",")` make of them, so that blanks and dots are covered without a character. `Strip` is also
the `trim()` of the console: JavaScript and Python differ on U+FEFF, U+001C to U+001F and U+0085
only, and texts that begin or end with one of these are outside the model. Python's tuples
and lists are sequences, JSON objects records.

* `SyncConfigs` (`domain/control_plane.py`, `schemas/control_plane_admin.py`): `Stored` is what
  a POST or PUT of a configuration ends in: the request model (Pydantic constraints), the domain
  object with its normalisation, its validation, the constraints of the migration; a status
  otherwise. `SyncConfigResponse` is what a GET shows of it. The same for connections.
* `RuntimeContract` (`get_worker_runtime_config.py`, `schemas/worker_runtime_config.py`): the checks
  that answer 404 or 422, and the JSON that is published.
* `WorkerConfig` (`config.py`, `table_config.py`): `Accepts` is the conjunction of everything that
  may raise, `BuildConfig` what the process runs by.
* `ConnectorCompiler` (`debezium_postgres_connector_compiler.py`): `Compile`; `WritesTopic` is
  where Debezium then writes a table.
* `EventParser` (`normalized_event_parser.py`, `base_debezium_adapter.py`, `clickhouse_*`): `Parse` of
  a record, `TableDefinition`, `InsertRow`.
* `SyncConfigForm` (`payloadMappers.ts`, `syncConfigFormDefaults.ts`, `SyncConfigForm.tsx`): the
  fields of the form for a configuration the API shows, the request the form sends, what it
  refuses to send, and the table it makes up from a name, with a topic inferred from the others.

### Deployment

`connections`, `configs` and `connector` are the control plane as the administrator leaves it;
`process` is `main.py` of each worker (fetch and load the contract, bootstrap table after table,
subscribe) and remembers, as history, which configuration it loaded; `schema` is what ClickHouse
has. `PutConfig`, `SaveForm`, `Materialise`, `Load`, `Bootstrap`, `Subscribe` and `Stop` interleave freely.
Requests here do not overlap (that is `ControlPlane`'s question), and the records of the
source are not state: `RecordsArrive` asks of every event a source table can produce
(`EventsOf`) what the processes running now would make of it.

### AdminScreen (`useSyncConfigsAdmin.ts`, `ConfigurationsView.tsx`)

`list` and `fetch` are the query of the list and its request in flight; `beingEdited` and
`isModalOpen` the hook's two states; `form` what React has mounted: with its key, the row it
was mounted for, the values typed and the fields touched. `save` and `deletion` are the
mutations (creating and updating share `isSaving`), `rows` the table behind the API, which
other administrators write too. An id is a row, not created yet, or deleted for good. External:
TanStack Query runs one request per query, replaces it when the query is invalidated except
while the list loads for the first time, and calls the hook's `onSuccess` whatever is on the
screen by then; Mantine keeps the children of a closed modal for the length of a transition, in
which the form is mounted again because its key becomes that of a new row. `hidden` is history:
the rows changed by others, by a request whose answer was lost, or announced while the list was
loading for the first time; `unread` those of them that changed since the list was last read. The views of workers, sources and destinations have the same hook.

### DebeziumDecimal (`debezium_data_normalizer.py`)

Debezium's default encoding of NUMERIC (the compiled connector does not choose another) is
the shortest two's complement bytes of the unscaled value; the JSON converter writes them as
base64. `Base64` gives that text as base64 indices, for up to three bytes; `normalize_decimal`
reads it as the code does, as a numeral if Python's `Decimal` accepts it (digits with or
without a plus sign and an exponent, the spellings of infinity and NaN), as bytes otherwise.
`Update` changes the row, so that one behaviour covers several values.

## Runs

| Run | Question | Bounds | Result |
| --- | --- | --- | --- |
| `tracker` | Does the tracker ever commit past a hole, forget an offset or go back? | 2 partitions, offsets 0..3 | passes |
| `group` | Two processes, one partition, crashes, evictions, failing inserts and commits, replays: loss, step back, wrong final table? Does the table converge, is everything committed? | 2 changes of one key, deletes included, 3 faults, 1 replay, batches of 2 | passes |
| `group_partitions` | Two partitions that change hands, one tracker per process; a group that starts at the end of the log; records that can never be applied | 3 changes of two keys, deletes included, 2 faults | passes |
| `workers` | Overlapping requests: which collisions are possible, and what does one take? | 3 workers, 2 worker ids, 3 groups, 2 requests | passes |
| `workers_race` | Overlapping requests: are effective groups unique? | the same | **violated** |
| `config_aggregate` | Is what is stored, and what a read returns, one aggregate's tables? | 3 aggregates of up to 2 tables, 3 requests | passes |
| `config_torn` | Does a read return an aggregate that was stored, or find that there is none? | the same, 2 requests | **violated** |
| `control_plane` | Requests of several transactions: are references, secrets, answers and connectors right whatever overlaps? | 2 sources, 1 destination, 2 configurations, 2 workers, 2 requests, 2 writes, 1 PUT under way | passes |
| `deployment` | From a configuration request, or the console's form, to the stored row: do the parts agree on what a configuration means? | 2 workers, 20 requests for configurations, one table and one blank name added in the form, 3 configurations stored | passes |
| `admin_screen` | Answers that arrive late, other administrators, forms that open and close: does the list catch up, and what does a save overwrite? | 2 rows of 2 fields, 2 writes | passes |
| `decimals` | Which decimals always arrive? | all one-byte values, limits of two and three bytes, neighbours of values whose text is a numeral, infinity or NaN; scales 0 and 2 | passes |
| `decimals_misread` | Does every decimal arrive? | the same | **violated** |

Why the bounds suffice. The hard histories of the data path need two processes (an owner and
one that was overtaken or evicted), three records in a partition (one committed, one applied
but not committed, one newer), and two faults (one to separate the processes, one to fail
after the partition has moved); a delete gives two records for one change, so that two changes are enough
for `group`, whose third fault hits the process that took over. `group_partitions` adds the third change. A replay puts old
records behind new ones. Two partitions are what a stale tracker entry needs. An overtaken
tracker, the case `CommitsCatchUp` excepts, takes two rebalances and no fault. In the control plane a race
needs two requests; collisions need one explicit and one derived group equal, and an update of
a third worker that gives up a group; a torn read needs one update between two SELECTs, and
the third aggregate lets a second update fall into the same read. Three requests are a read and two
updates, of which one waits for the other's lock. `control_plane` starts from
nothing or from a chain of source, destination, configuration, worker and assignment that
earlier requests have built, so that its two writes are left for the race: one write overtakes
a request in progress, and the second is that request's own. The second source, configuration
and worker give a write something else to point to; one delayed PUT and a second request make
two materialisations arrive in the wrong order. Its SYMMETRY permutes only sets the model never
orders or names (`CHOOSE` picks the one row that fits), and its VIEW hides `answer`, which no
action reads; the action property sees it in the steps. Every request of `deployment` differs
from a valid one in one thing (blanks, a doubled or nullable key, a missing or reserved column, a
topic of another schema, prefix or depth, a table disabled or named twice, a comma in a key, ...); three
configurations are two versions for one worker besides the other's. Three bytes fill one
base64 group; with fewer the text ends in `=`, which no numeral contains.
In `admin_screen` an overwritten field takes one write behind the form's copy and one from it; the
second row lets a late answer meet the form of another row, and the second field is the one that
was not touched.
`CHECK_DEADLOCK FALSE` stands where a run may end: all processes have stopped, or the bounds
are used up.

What the passing runs show beyond the tests in `worker/tests` and `api/tests`:

* `CommittedApplied`: a committed offset never has an unapplied record behind it, whatever
  combination of crashes, evictions and lost answers came before, and a record that cannot
  be applied is never passed over.
* `ImplementsReplicatedTable`: evicted processes and replays write old rows late, and no
  reader ever sees one replace a newer one.
* `DrainedInSync`: when everything sent has been committed, the table is the source. It says
  nothing for `latest`, where the group starts in the middle.
* `CommitsMoveForward`, `CommitsOwnPartition`: the tracker outlives an assignment and
  `build_commit_offsets` goes over everything it holds, but what it commits is always of the
  partition just processed, owned in the present generation, and forward.
* `LagMeansOvertaken`: the one way a tracker falls behind is another process having
  committed past it. After process A lost a partition, B committed past A's next offset,
  and A got the partition back, A's tracker waits for an offset it will never see. A then
  commits nothing of that partition and `processed_offsets` grows until A ends; nothing is
  lost, and the next owner reads again from the last commit. `CommitsCatchUp` is claimed
  except for such an owner; `Convergence` of the table needs no exception.
* `ChainResolves`, `SecretsOwned`: lookups happen transactions before the write that relies on
  them, and it is the foreign keys, and the update that touches only a secret that is still
  there, that keep the tables whole.
* `PersistedIsWhole`: an update or a creation that fails after any of its statements leaves nothing
  behind, and an update that had to wait for another one deletes that one's tables and not
  those of before, so that the two never merge.
* `UndisturbedAnswers`: a request during which nobody writes answers what docs/api.md says of
  the tables, from one state. (An update that finds its row gone is no write.) One that is overtaken may publish the group of one worker with
  the configuration of another, a destination with a newer secret, or answer 500 for an
  assignment whose configuration has just been deleted (`assign_config_to_worker` does not
  translate the `IntegrityError`); nothing in the documentation excludes that.
* `ConnectorsSettle`: a materialisation that answered 200, was overtaken by no write and by no
  PUT prepared before one, leaves the connector the tables ask for, until the next write.
  A PUT answered 502 may still arrive and put an older connector back; the property names it.
* `PublishedContractsAccepted`: the API normalises and validates, the worker does so again in
  other words; whatever the first publishes the second accepts and reads as the same tables.
* `WorkersAreFed`: topics are typed in by hand and compared by their last two parts, and a
  process and the connector may come from different versions of the configurations. Still each
  table of the process is captured and written to the topic the process has subscribed, if
  the two come from the same version or the connector's versions still have the table under
  that topic; what else was replaced, by whichever worker's configuration, cuts nothing off.
* `RecordsArrive`: deletes carry only the key, nullable columns are null, bootstrap was
  interrupted and repeated, and still every event is stored under its source key. The premise
  (`Describes`) is what nothing in the code checks: the logical name is the source table's, the
  key is the source's, nullable columns are declared so.
* `ShownConfigsSaveUnchanged`: what the API shows, opened in the console's form and saved without
  a change, is the same configuration. Keys with a comma in a name are excepted: the form joins
  the keys and splits them at commas.
* `AddedTablesFit`: the topic the form infers for a new table carries the prefix the connector
  needs, if every table in the form is enabled and the new name and namespace are ones the
  compiler accepts (no dots, no commas). With a disabled table first the form may take over a prefix
  that the compiler then refuses.
* `ListShowsAnnounced`: whatever order saves, deletions and reads of the list are answered in, a
  list at rest shows the table, but for what changed unannounced since it was read (`unread`).
* `SavesComeFromOwnForm`, `SavesKeepTheRest`: a late answer closes the form that is open by then,
  whichever it is, and drops what was typed; but it sends nothing to the wrong row, and a save
  never reverts a field of the administrator's own earlier save. It does revert what somebody else has
  saved since the list was read: `PUT` replaces the row and nothing carries a version. The
  documentation promises nothing about that; the property excepts such rows (`hidden`) and forms
  opened while the list is being read.

### Fairness

`FairSpec` of `CdcPipeline` assumes: the connector keeps sending what was committed
(`WF ConnectorEmit`); a process goes on with what it is doing (`WF` of `Poll`, `Persist`,
`CommitProcessed`: `consume_forever` is a loop without a wait of its own); and processes that
poll are admitted to the group (`SF Rejoin`: a consumer joins a pending rebalance inside
`poll()` before it fetches, and the group coordinator completes it; strong, because a process
leaves and reenters the state in which it can join with every batch). Not fair: `Start` (the
compose file has no restart policy, docs/worker.md:100-101), source changes, and every fault.
The liveness properties are conditional on some (`Convergence`) or all (`CommitsCatchUp`)
processes staying up. The control plane has no liveness to check: nothing in it retries,
schedules or waits, and a request ends as soon as its steps do.

## Findings

Three runs expect a violation. Each checks a statement of the documentation or of a test:

* `workers_race`: docs/api.md:128-129 promises that colliding effective groups are refused,
  "tanto si el grupo viene persistido como si se deriva". The check
  (`manage_control_plane.py:59`) and the INSERT are two transactions. Two overlapping requests,
  one naming `cdc-sync-worker-x`, the other creating worker `x`, both succeed. The two
  workers then share a consumer group without sharing a configuration. The theorems say how
  far it goes: never two explicit or two derived groups, and never unless another request has
  written between the check and the write.
* `config_torn`: docs/api.md:95-96 describes a configuration as a complete aggregate, and
  docs/api.md:196-197 reserves 422 for one that is broken or incompatible. A read that overlaps
  an update may find no keys for a table it has selected and answers 422 for a configuration
  that is valid before and after; a worker that fetches its contract at that moment stops. Or it
  returns the connections of one aggregate and the tables of the next. The tables among
  themselves are always of one aggregate (`ReadTablesBelongTogether`), because replaced tables
  have new ids.
* `decimals_misread`: `_normalize_decimal` tries `Decimal(str(value))` before it decodes base64.
  A value of three bytes may have a numeral as its text: NUMERIC(10,2) -26588.24 is `1234` and is
  written as 1234, where tests/test_base_debezium_adapter.py:85-108 expects such text decoded
  by the column's scale. `decimals` shows how far it goes: shorter values are safe, and a value
  that is not negative can turn into NaN but never into another number.

## Proofs

Everything below holds for every number of processes, partitions, keys, requests, sources,
configurations and workers and every value of the bounds. Besides the named assumptions on
the constants, which TLC evaluates in the runs, only the theorems about `Deployment` have
hypotheses (`TextOperations` and `TopicOperations`, below). Each proof module starts with its inductive invariant
or the lemmas on the operators it needs.

* `OffsetCommitTracker_proofs`: `TypeOK`, `CommitCoversMarked`, `PendingAreUncommittedMarks`
  and `CommitsMoveForward`. `CommitOffsetIsFirstHole` says what the loop of
  `build_commit_offsets` returns: the end of a contiguous run. The invariant relates each
  partition's state to the history: the
  offsets below `next` and from the first mark on were all marked, and `processed` holds
  exactly the marks at or above `next`.
* `CdcPipeline_proofs`, no loss: `TypeOK` and `CommittedApplied`. `CommittedApplied` alone is not
  inductive: a commit names offsets that come from a tracker, and a tracker may be stale.
  The invariant adds that positions stay within the log (`PositionsOK`), that `base` is at
  or below everything the group reads, and that whatever a process still holds is
  applied: every offset in its tracker, committed or not, and everything before the cursor in its
  present batch (`StateApplied`, `WorkApplied`). These survive rebalances since
  `Applied` is stable: logs only grow and the version of a key's row never decreases
  (`AppliedStable`). That is why a tracker surviving a rebalance is harmless for safety.
* `CdcPipeline_proofs`, who commits what: `LagMeansOvertaken`, `CommitsMoveForward` and
  `CommitsOwnPartition`. Here a stale tracker is what could go wrong: a process that gets a
  partition back still has the tracker it had when it lost it. `OwnershipInv` says that a
  partition has one owner (`OneOwner`); that every tracker starts where the last accepted
  commit of its process ended, has nothing contiguous to commit between two polls, and
  holds offsets back only if another process has committed since (`TrackerSettled`); and
  that an owner is never behind the group's offset, and stands at it if the last
  commit was its own or it has made none (`OwnerSettled`). A stale tracker therefore never meets the
  offset that it waits for, and what it could commit again has been passed by the group.
* `CdcPipeline_proofs`, refinement: `ImplementsReplicatedTable` and `DrainedInSync`. The invariant
  `TraceInv` says where things come from: every record of the log carries a change of the WAL
  (`LogTraced`), every row of the table is the row of one (`TableTraced`), and every change
  that was emitted is in the log of its key's partition (`EmittedLogged`). An insert is then a
  step of the abstract table or none at all, and an all-committed log has, by `CommittedApplied`,
  applied the last change of every key, behind which there is no other row.
* `DebeziumDecimal_proofs`: `TypeOK`, `ShortDecimalsArrive` and `NonNegativeNeverMisread`, for
  every value of up to three bytes and every scale. The work is in two facts about texts:
  decoding what base64 has encoded gives back the value, sign included (`RoundTrip`, by the
  number of bytes and the arithmetic of the four sextets); and which texts are no numerals, because they
  end in padding (`PaddedIsNoNumeral`) or, for values that are not negative, start with a
  letter (`NonNegativeText`, `LetterIsNoNumber`).
* `WorkerRegistry_proofs`: `TypeOK`; `CollisionsMixExplicitAndDerived`, from the invariant
  that the table satisfies its UNIQUE constraints; `CollisionsNeedOverlap`, from the invariant
  that the row of a request past its check still fits the table unless it has been overtaken
  (`CheckedRowsFit`: deletions only help); and, as a consequence, `EffectiveGroupsUnique` under
  the hypothesis that there is at most one request.
* `ConfigAggregate_proofs`: `TypeOK`, `PersistedIsWhole` and `ReadTablesBelongTogether`. For
  `PersistedIsWhole` the invariant says what a transaction has done at each of its steps
  (`WriteOK`): it has inserted tables of its own aggregate, all but the one at hand with their
  keys and columns; and once it has deleted, what it has deleted is what is stored, and stays
  so while it holds the lock (`LockOK`, `WritesAlone`). The merge at the commit then leaves its
  aggregate and nothing else (`CommitOK`). Of a read in progress the invariant says that one
  aggregate exists such that every table is still pending, at hand with keys of that aggregate,
  or built complete (`ReadsFrom`). It holds across concurrent updates because ids of different
  aggregates differ and what was written never changes.
* `ControlPlane_proofs`, references: `TypeOK`, `SecretsOwned` and `ChainResolves`. `SecretsOwned` is
  strengthened to every connection keeping the secret made for it (`OwnSecrets`), which makes
  the secret id that an update has read harmless, and `TypeOK` to what each request holds at
  each step (`RequestsOK`), with the ids of configurations being created still unused
  (`CreationsFresh`).
* `ControlPlane_proofs`, answers: `UndisturbedAnswers` and `ConnectorsSettle`. For the first, what a
  request that is not overtaken has read still holds in the tables (`Fresh`), since only a
  write could change it and a write overtakes. For the second, whatever is on its way to a
  settled source asks for what its connector already is, and no overtaken materialisation of
  it is left (`SettledOK`).
* `Deployment_proofs`: `TypeOK`, `PublishedContractsAccepted`, `WorkersAreFed`, `RecordsArrive`,
  `ShownConfigsSaveUnchanged` and `AddedTablesFit`. The invariant: every stored configuration is valid and a
  fixed point of the API's normalisation (`GoodConfig`); the connector is what the compiler
  makes of the configurations it comes from (`ConnectorOK`); a process holds the enabled
  tables of a good configuration, and each of them is in the destination's schema or still
  pending (`RunsPublished`). From it: a contract of a good configuration is accepted and read
  back as the same tables (`ContractFits`), the topics that the connector writes are those the
  worker has subscribed (`CompiledWritesTopics`), and the form of a good configuration gives that configuration
  (`ShownConfig`). For a table added by name: the form's first reusable prefix is the prefix the
  compiler reads off the same table (`ReusedPrefix`, `InferredTopic`), the request is the
  configuration with one more table (`PayloadWithTable`), which is good (`GoodWithAnother`)
  and leaves the source with one prefix (`CompilesWithAnother`).
  The hypothesis `TextOperations` is what is needed of Python's texts: `strip` leaves nothing to strip,
  `split` gives a list, and gives the text itself where there is nothing to split at. It is stated for
  every value, since what these operators make of a value that is no text does not matter; the
  operators of the TLC instance satisfy it. `AddedTablesFit` also assumes `TopicOperations`: splitting
  a topic at its dots and removing its suffix both undo joining a prefix, a schema and a table by
  dots, and `strip` looks only at the two ends of a text. These are laws of texts, of which the prover
  knows nothing (`Len`, `SubSeq` and `\o` on strings). The model's loops are recursive functions
  (`Keep`, `UniqueTopics`, `BuildTableConfigs`). Since induction is not available, each is
  shown to be what its equation says by looking at the least number where it is not (`UpTo`,
  `RecursiveFunction`).
* `AdminScreen_proofs`: `TypeOK`, `ListShowsAnnounced`, `SavesComeFromOwnForm` and
  `SavesKeepTheRest`. The invariant: a mounted form has the key and the origin of the row being
  edited (`FormsMatch`), so that a late answer that changes the latter mounts it anew; a read that was answered agrees with
  the table wherever nothing announced or unannounced is outstanding (`ReadsAgree`); and the
  untouched fields of a form opened on a list at rest, or of a save on its way, are those of the
  row (`FormFresh`, `SaveFresh`).

Model-checked only: liveness (`Convergence`, `CommitsCatchUp`), which is outside the prover's
reach. The three runs that expect a violation
refute what they check.

## Not modelled

* Data path: Debezium's snapshot records are upserts in `CdcPipeline`; log offsets have no holes (no compaction
  or transaction markers); a record whose key or value is not JSON is one of kind `bad`,
  although kafka-python raises it inside `poll`, for the records fetched with it.
* Fields other than decimals (dates, timestamps, UUIDs, JSON, booleans): conversions of single
  values without control; decimals of more than three bytes; unchanged TOAST values, for which the
  code has no handling; the text of DDL statements.
* Control plane: request fields that no property tells apart, lengths of texts, the fixed
  settings of a connector, CORS, health and the root page, environment variables.
  `ControlPlane` reads a configuration in one step; what its four SELECTs may see is
  `ConfigAggregate`.
* `Deployment` has one source; two configurations that write the same destination table from
  different sources are outside `RecordsArrive`'s premise.
* Administration frontend: the forms of workers, sources and destinations, whose payloads are
  trimmed texts; the publication panels, which show the answer of one request at a time with
  their button disabled meanwhile; editing single columns of a table; tables and layout.
* Demo runner and compose files: a test driver and deployment, without behaviour of their own;
  of the migration, the constraints are modelled where they decide something.

## What is left

1. The remaining field conversions as operators against a reference definition, as
   `DebeziumDecimal` does for decimals.
2. Several sources in `Deployment`, with connectors that share a topic prefix and
   configurations that share a destination table.
