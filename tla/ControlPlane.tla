---------------------------- MODULE ControlPlane ----------------------------
(***************************************************************************)
(* The tables of the control plane and the requests that read and write    *)
(* them at the same time.  Every repository call is a transaction of its   *)
(* own; a use case (manage_control_plane.py, get_worker_runtime_config.py, *)
(* materialize_cdc_connector.py) makes several of them and holds on to what *)
(* it has read in between.  PostgreSQL enforces the foreign keys.           *)
(*                                                                         *)
(* One of two values stands for the contents of a row that a write changes: *)
(* the connection's columns, the secret's payload, the tables of a          *)
(* configuration (of which ConfigAggregate tells more).  Worker groups are  *)
(* left to WorkerRegistry.                                                  *)
(***************************************************************************)
EXTENDS Naturals, FiniteSets

CONSTANTS
    Sources, Destinations,  \* ids of source_connections and of destinations
    Configs,                \* ids of configs
    WorkerIds,              \* internal ids of workers
    Names,                  \* their worker_id
    Requests,               \* requests that may be in progress at the same time
    None,                   \* no row, nothing read
    Gone,                   \* the row has been deleted; uuid4 does not repeat an id
    MaxWrites,              \* bound: transactions that write
    MaxDelayed              \* bound: PUTs to Kafka Connect on their way

ASSUME DisjointAssumption == Sources \cap Destinations = {}
ASSUME NoneAssumption ==
    \A v \in {None, Gone} :
        /\ v \notin {0, 1} \cup Sources \cup Destinations \cup Configs
        /\ v \notin [secret : Sources \cup Destinations, data : {0, 1}]
        /\ v \notin [source : Sources, destination : Destinations,
                     enabled : BOOLEAN, data : {0, 1}]
        /\ v \notin [worker_id : Names, enabled : BOOLEAN]

VARIABLES
    secrets,      \* connection id -> payload of the secret made for it, or None
    connections,  \* source_connections and destinations: id -> row, None or Gone
    configs,      \* id -> row, None or Gone
    workers,      \* internal id -> row, None or Gone
    assignments,  \* internal worker id -> config id or None
    connectors,   \* source -> what Kafka Connect runs, or None
    delayed,      \* PUTs whose answer was lost and that may still arrive
    request,      \* Requests -> what the request is doing and has read
    answer,       \* Requests -> its last answer
    overtaken,    \* requests since whose start another one has written (history)
    settled,      \* sources materialised since the last write, see Settle (history)
    writes        \* transactions that wrote

stored == <<secrets, connections, configs, workers, assignments>>
external == <<connectors, delayed>>
vars == <<secrets, connections, configs, workers, assignments,
          connectors, delayed, request, answer, overtaken, settled, writes>>

Connections == Sources \cup Destinations
Contents == {0, 1}
Other(data) == 1 - data

ConnectionRow == [secret : Connections, data : Contents]
ConfigRow == [source : Sources, destination : Destinations, enabled : BOOLEAN, data : Contents]
ConfigRequest == [source : Sources, destination : Destinations, enabled : BOOLEAN]
WorkerRow == [worker_id : Names, enabled : BOOLEAN]

ConfigOps == {"create_config", "update_config"}

RequestOK(req) ==
    /\ req.op = "update_connection" =>
         req.id \in Connections /\ (req.step = "update" => req.secret \in Connections)
    /\ req.op \in ConfigOps => req.id \in Configs /\ req.row \in ConfigRequest
    /\ req.op = "assign" => req.id \in WorkerIds /\ req.config \in Configs
    /\ req.op = "contract" /\ req.step = "secret" => req.destination \in ConnectionRow
    /\ req.op = "materialize" =>
         req.id \in Sources /\ (req.step = "secret" => req.source \in ConnectionRow)

\* Every table keeps rows of its type, and a request in progress holds a row where it
\* has gone on from a lookup: a row that was missing has ended it.
TypeOK ==
    /\ secrets \in [Connections -> Contents \cup {None}]
    /\ connections \in [Connections -> ConnectionRow \cup {None, Gone}]
    /\ configs \in [Configs -> ConfigRow \cup {None, Gone}]
    /\ workers \in [WorkerIds -> WorkerRow \cup {None, Gone}]
    /\ assignments \in [WorkerIds -> Configs \cup {None}]
    /\ DOMAIN request = Requests
    /\ \A r \in Requests : RequestOK(request[r])
    /\ overtaken \subseteq Requests
    /\ settled \subseteq Sources
    /\ writes \in Nat

LiveConnections == {id \in Connections : connections[id] \notin {None, Gone}}
LiveConfigs == {c \in Configs : configs[c] \notin {None, Gone}}
LiveWorkers == {w \in WorkerIds : workers[w] \notin {None, Gone}}

Idle == [op |-> "idle"]
Busy == {r \in Requests : request[r] # Idle}

\* Nothing is stored yet; or requests in order have left a source, a destination, a
\* worker and perhaps a configuration that is assigned to it.
Empty(S) == [id \in S |-> None]

Init ==
    /\ \/ /\ secrets = Empty(Connections)
          /\ connections = Empty(Connections)
          /\ configs = Empty(Configs)
          /\ workers = Empty(WorkerIds)
          /\ assignments = Empty(WorkerIds)
       \/ \E s \in Sources, d \in Destinations, c \in Configs, w \in WorkerIds, name \in Names,
             configured, assigned \in BOOLEAN :
          /\ assigned => configured
          /\ secrets = [Empty(Connections) EXCEPT ![s] = 0, ![d] = 0]
          /\ connections = [Empty(Connections) EXCEPT ![s] = [secret |-> s, data |-> 0],
                                                     ![d] = [secret |-> d, data |-> 0]]
          /\ configs = [Empty(Configs) EXCEPT ![c] =
                          IF configured THEN [source |-> s, destination |-> d,
                                              enabled |-> TRUE, data |-> 0] ELSE None]
          /\ workers = [Empty(WorkerIds) EXCEPT ![w] = [worker_id |-> name, enabled |-> TRUE]]
          /\ assignments = [Empty(WorkerIds) EXCEPT ![w] = IF assigned THEN c ELSE None]
    /\ connectors = [s \in Sources |-> None]
    /\ delayed = {}
    /\ request = [r \in Requests |-> Idle]
    /\ answer = [r \in Requests |-> None]
    /\ overtaken = {}
    /\ settled = {}
    /\ writes = 0

-----------------------------------------------------------------------------
(* Requests and their answers. *)

OK(body) == [status |-> 200, body |-> body]
NotFound == [status |-> 404]
Conflict == [status |-> 409]
Invalid == [status |-> 422]
ServerError == [status |-> 500]
BadGateway == [status |-> 502]

WritingOps == {"update_connection", "create_config", "update_config", "assign"}
MayWrite ==
    writes + Cardinality({r \in Requests : request[r].op \in WritingOps}) < MaxWrites

Begin(r, op) ==
    /\ request[r] = Idle
    /\ op \in WritingOps => MayWrite
    /\ UNCHANGED <<stored, external, answer, overtaken, settled, writes>>

At(r, op, step) == request[r].op = op /\ request[r].step = step

\* execute_control_plane_operation: the status of what the use case raised.
Answer(r, a) ==
    /\ request' = [request EXCEPT ![r] = Idle]
    /\ answer' = [answer EXCEPT ![r] = a]

Continue(r, step) ==
    /\ request' = [request EXCEPT ![r] = step]
    /\ UNCHANGED answer

\* A read leaves the tables alone; a request that has ended is nobody's concern.
Read(r) ==
    /\ overtaken' = IF request'[r] = Idle THEN overtaken \ {r} ELSE overtaken
    /\ UNCHANGED <<stored, settled, writes>>

\* A transaction that writes overtakes the requests in progress.
Write(writers) ==
    /\ writes' = writes + 1
    /\ overtaken' = Busy \ writers
    /\ settled' = {}

-----------------------------------------------------------------------------
(* Requests of a single transaction. *)

save_connection_with_credentials(id) ==
    /\ connections[id] = None
    /\ MayWrite /\ Write({})
    /\ secrets' = [secrets EXCEPT ![id] = 0]
    /\ connections' = [connections EXCEPT ![id] = [secret |-> id, data |-> 0]]
    /\ UNCHANGED <<configs, workers, assignments, external, request, answer>>

create_source_connection(id) == id \in Sources /\ save_connection_with_credentials(id)
create_destination(id) == id \in Destinations /\ save_connection_with_credentials(id)

Referenced(id) == \E c \in LiveConfigs : id \in {configs[c].source, configs[c].destination}

\* Mutant: the secret stays behind.
secrets_after_delete_kept(id) == secrets

\* _delete_secret_if_unreferenced.
secrets_after_delete(id) ==
    LET secret == connections[id].secret
    IN  IF \E other \in LiveConnections \ {id} : connections[other].secret = secret
          THEN secrets
          ELSE [secrets EXCEPT ![secret] = None]

\* Mutant: the foreign keys of configs do not restrict.
delete_connection_unrestricted(id) ==
    /\ id \in LiveConnections
    /\ MayWrite /\ Write({})
    /\ secrets' = secrets_after_delete(id)
    /\ connections' = [connections EXCEPT ![id] = Gone]
    /\ UNCHANGED <<configs, workers, assignments, external, request, answer>>

\* 409 while a configuration refers to the connection (ON DELETE RESTRICT).
delete_connection(id) ==
    /\ id \in LiveConnections
    /\ ~Referenced(id)
    /\ MayWrite /\ Write({})
    /\ secrets' = secrets_after_delete(id)
    /\ connections' = [connections EXCEPT ![id] = Gone]
    /\ UNCHANGED <<configs, workers, assignments, external, request, answer>>

delete_source_connection(id) == id \in Sources /\ delete_connection(id)
delete_destination(id) == id \in Destinations /\ delete_connection(id)

\* 409 while a worker is assigned the configuration.
delete_config(c) ==
    /\ c \in LiveConfigs
    /\ \A w \in WorkerIds : assignments[w] # c
    /\ MayWrite /\ Write({})
    /\ configs' = [configs EXCEPT ![c] = Gone]
    /\ UNCHANGED <<secrets, connections, workers, assignments, external, request, answer>>

\* create_worker and update_worker; 409 when the worker_id is taken.
save_worker(w, name, enabled) ==
    /\ workers[w] # Gone
    /\ \A other \in LiveWorkers \ {w} : workers[other].worker_id # name
    /\ MayWrite /\ Write({})
    /\ workers' = [workers EXCEPT ![w] = [worker_id |-> name, enabled |-> enabled]]
    /\ UNCHANGED <<secrets, connections, configs, assignments, external, request, answer>>

\* The assignment goes with the worker (ON DELETE CASCADE).
delete_worker(w) ==
    /\ w \in LiveWorkers
    /\ MayWrite /\ Write({})
    /\ workers' = [workers EXCEPT ![w] = Gone]
    /\ assignments' = [assignments EXCEPT ![w] = None]
    /\ UNCHANGED <<secrets, connections, configs, external, request, answer>>

-----------------------------------------------------------------------------
(* update_source_connection and update_destination. *)

update_connection(r, id) ==
    /\ Begin(r, "update_connection")
    /\ request' = [request EXCEPT ![r] = [op |-> "update_connection", step |-> "get", id |-> id]]

GetConnectionToUpdate(r) ==
    /\ At(r, "update_connection", "get")
    /\ LET id == request[r].id
       IN  IF id \in LiveConnections
             THEN Continue(r, [op |-> "update_connection", step |-> "update", id |-> id,
                               secret |-> connections[id].secret])
             ELSE Answer(r, NotFound)
    /\ Read(r)
    /\ UNCHANGED external

\* Mutant: the payload is saved for the secret that was read, whether there is one or not.
SecretsUpsert(secret) == [secrets EXCEPT ![secret] = IF @ = None THEN 0 ELSE Other(@)]

\* _update_secret_reference.
SecretsUpdated(secret) ==
    [secrets EXCEPT ![secret] = IF @ = None THEN None ELSE Other(@)]

\* The row and, when the request has credentials, the secret it had when it was read.
UpdateConnection(r) ==
    /\ At(r, "update_connection", "update")
    /\ LET id == request[r].id
       IN  /\ secrets' \in {secrets, SecretsUpdated(request[r].secret)}
           /\ IF id \in LiveConnections
                THEN /\ connections' = [connections EXCEPT ![id].data = Other(@)]
                     /\ Answer(r, OK(id))
                ELSE /\ Answer(r, NotFound)
                     /\ UNCHANGED connections
    /\ UNCHANGED <<configs, workers, assignments, external>>
    /\ IF UNCHANGED stored THEN Read(r) ELSE Write({r})

-----------------------------------------------------------------------------
(* create_config and update_config: the references are looked up, then the *)
(* configuration is written, and the foreign keys are what counts.          *)

save_config(r, op, c, row) ==
    /\ op = "create_config" =>
         configs[c] = None /\ \A q \in Requests : request[q].op = op => request[q].id # c
    /\ Begin(r, op)
    /\ request' = [request EXCEPT ![r] =
          [op |-> op, step |-> IF op = "create_config" THEN "source" ELSE "config",
           id |-> c, row |-> row]]

ConfigStep(r, step) ==
    [op |-> request[r].op, step |-> step, id |-> request[r].id, row |-> request[r].row]

GetConfigToUpdate(r) ==
    /\ At(r, "update_config", "config")
    /\ IF request[r].id \in LiveConfigs
         THEN Continue(r, ConfigStep(r, "source"))
         ELSE Answer(r, NotFound)
    /\ Read(r)
    /\ UNCHANGED external

\* _ensure_config_references_exist.
GetConfigReference(r, step, next) ==
    /\ request[r].op \in ConfigOps /\ request[r].step = step
    /\ IF request[r].row[step] \in LiveConnections
         THEN Continue(r, ConfigStep(r, next))
         ELSE Answer(r, NotFound)
    /\ Read(r)
    /\ UNCHANGED external

\* Mutant: the references were checked a moment ago.
ReferencesHoldUnchecked(row) == TRUE

ReferencesHold(row) == {row.source, row.destination} \subseteq LiveConnections

SaveConfig(r) ==
    /\ request[r].op \in ConfigOps /\ request[r].step = "save"
    /\ LET c == request[r].id
           row == request[r].row
       IN  IF request[r].op = "update_config" /\ c \notin LiveConfigs
             THEN Answer(r, NotFound) /\ Read(r)
             ELSE IF ~ReferencesHold(row)
               THEN Answer(r, Conflict) /\ Read(r)
               ELSE /\ configs' = [configs EXCEPT ![c] =
                          [source |-> row.source, destination |-> row.destination,
                           enabled |-> row.enabled,
                           data |-> IF configs[c] = None THEN 0 ELSE Other(configs[c].data)]]
                    /\ Answer(r, OK(c))
                    /\ Write({r})
                    /\ UNCHANGED <<secrets, connections, workers, assignments>>
    /\ UNCHANGED external

-----------------------------------------------------------------------------
(* assign_config_to_worker. *)

assign_config_to_worker(r, w, c) ==
    /\ Begin(r, "assign")
    /\ request' = [request EXCEPT ![r] =
          [op |-> "assign", step |-> "worker", id |-> w, config |-> c]]

AssignStep(r, step, name) ==
    [op |-> "assign", step |-> step, id |-> request[r].id, config |-> request[r].config,
     name |-> name]

GetWorkerToAssign(r) ==
    /\ At(r, "assign", "worker")
    /\ LET w == request[r].id
       IN  IF w \in LiveWorkers
             THEN Continue(r, AssignStep(r, "config", workers[w].worker_id))
             ELSE Answer(r, NotFound)
    /\ Read(r)
    /\ UNCHANGED external

GetConfigToAssign(r) ==
    /\ At(r, "assign", "config")
    /\ IF request[r].config \in LiveConfigs
         THEN Continue(r, AssignStep(r, "save", request[r].name))
         ELSE Answer(r, NotFound)
    /\ Read(r)
    /\ UNCHANGED external

\* INSERT ... ON CONFLICT DO UPDATE.  A foreign key that does not hold any more raises
\* an IntegrityError that nobody handles.
SaveAssignment(r) ==
    /\ At(r, "assign", "save")
    /\ IF request[r].id \in LiveWorkers /\ request[r].config \in LiveConfigs
         THEN /\ assignments' = [assignments EXCEPT ![request[r].id] = request[r].config]
              /\ Continue(r, AssignStep(r, "read", request[r].name))
              /\ Write({r} \ overtaken)
              /\ UNCHANGED <<secrets, connections, configs, workers>>
         ELSE Answer(r, ServerError) /\ Read(r)
    /\ UNCHANGED external

\* get_assignment_for_worker: by the worker's worker_id, which is looked up again.
AssignmentOf(name) ==
    {w \in LiveWorkers : workers[w].worker_id = name /\ assignments[w] # None}

ReadAssignment(r) ==
    /\ At(r, "assign", "read")
    /\ IF AssignmentOf(request[r].name) = {}
         THEN Answer(r, NotFound)
         ELSE \E w \in AssignmentOf(request[r].name) :
                Answer(r, OK([worker |-> w, config |-> assignments[w]]))
    /\ Read(r)
    /\ UNCHANGED external

-----------------------------------------------------------------------------
(* GetWorkerRuntimeConfigUseCase.get_config. *)

get_worker_runtime_config(r, name) ==
    /\ Begin(r, "contract")
    /\ request' = [request EXCEPT ![r] = [op |-> "contract", step |-> "worker", name |-> name]]

\* _get_worker and _ensure_worker_enabled.
GetWorker(r) ==
    /\ At(r, "contract", "worker")
    /\ LET named == {w \in LiveWorkers : workers[w].worker_id = request[r].name}
       IN  IF named = {}
             THEN Answer(r, NotFound)
             ELSE \E w \in named :
                    IF workers[w].enabled
                      THEN Continue(r, [op |-> "contract", step |-> "assignment",
                                        name |-> request[r].name, worker |-> w])
                      ELSE Answer(r, Invalid)
    /\ Read(r)
    /\ UNCHANGED external

GetAssignment(r) ==
    /\ At(r, "contract", "assignment")
    /\ IF AssignmentOf(request[r].name) = {}
         THEN Answer(r, NotFound)
         ELSE \E w \in AssignmentOf(request[r].name) :
                Continue(r, [op |-> "contract", step |-> "config",
                             name |-> request[r].name, worker |-> request[r].worker,
                             config |-> assignments[w]])
    /\ Read(r)
    /\ UNCHANGED external

\* Mutant: a disabled configuration is published as well.
GetConfigAnyway(r) ==
    /\ At(r, "contract", "config")
    /\ LET c == request[r].config
       IN  IF c \in LiveConfigs
             THEN Continue(r, [op |-> "contract", step |-> "source",
                               name |-> request[r].name, worker |-> request[r].worker,
                               config |-> c, row |-> configs[c]])
             ELSE Answer(r, Invalid)
    /\ Read(r)
    /\ UNCHANGED external

\* _get_config and _ensure_config_enabled; a configuration without enabled tables,
\* which is refused further on, counts as disabled here.
GetConfig(r) ==
    /\ At(r, "contract", "config")
    /\ LET c == request[r].config
       IN  IF c \in LiveConfigs /\ configs[c].enabled
             THEN Continue(r, [op |-> "contract", step |-> "source",
                               name |-> request[r].name, worker |-> request[r].worker,
                               config |-> c, row |-> configs[c]])
             ELSE Answer(r, Invalid)
    /\ Read(r)
    /\ UNCHANGED external

GetSource(r) ==
    /\ At(r, "contract", "source")
    /\ IF request[r].row.source \in LiveConnections
         THEN Continue(r, [op |-> "contract", step |-> "destination",
                           name |-> request[r].name, worker |-> request[r].worker,
                           config |-> request[r].config, row |-> request[r].row])
         ELSE Answer(r, Invalid)
    /\ Read(r)
    /\ UNCHANGED external

GetDestination(r) ==
    /\ At(r, "contract", "destination")
    /\ LET d == request[r].row.destination
       IN  IF d \in LiveConnections
             THEN Continue(r, [op |-> "contract", step |-> "secret",
                               name |-> request[r].name, worker |-> request[r].worker,
                               config |-> request[r].config, row |-> request[r].row,
                               destination |-> connections[d]])
             ELSE Answer(r, Invalid)
    /\ Read(r)
    /\ UNCHANGED external

\* The parts of a contract that depend on what is stored.
Contract(w, c, row, destination, payload) ==
    OK([worker |-> w, config |-> c, tables |-> row.data,
        destination |-> destination.data, credentials |-> payload])

GetSecret(r) ==
    /\ At(r, "contract", "secret")
    /\ LET payload == secrets[request[r].destination.secret]
       IN  IF payload = None
             THEN Answer(r, Invalid)
             ELSE Answer(r, Contract(request[r].worker, request[r].config, request[r].row,
                                     request[r].destination, payload))
    /\ Read(r)
    /\ UNCHANGED external

-----------------------------------------------------------------------------
(* MaterializeCdcConnectorUseCase. *)

materialize_source_connector(r, s) ==
    /\ Begin(r, "materialize")
    /\ request' = [request EXCEPT ![r] = [op |-> "materialize", step |-> "source", id |-> s]]

\* Mutant: the missing row is used.
GetSourceConnectionUnchecked(r) ==
    /\ At(r, "materialize", "source")
    /\ Continue(r, [op |-> "materialize", step |-> "secret", id |-> request[r].id,
                    source |-> connections[request[r].id]])
    /\ Read(r)
    /\ UNCHANGED external

GetSourceConnection(r) ==
    /\ At(r, "materialize", "source")
    /\ LET s == request[r].id
       IN  IF s \in LiveConnections
             THEN Continue(r, [op |-> "materialize", step |-> "secret", id |-> s,
                               source |-> connections[s]])
             ELSE Answer(r, NotFound)
    /\ Read(r)
    /\ UNCHANGED external

GetCredentials(r) ==
    /\ At(r, "materialize", "secret")
    /\ LET payload == secrets[request[r].source.secret]
       IN  IF payload = None
             THEN Answer(r, Invalid)
             ELSE Continue(r, [op |-> "materialize", step |-> "configs",
                               id |-> request[r].id, source |-> request[r].source,
                               payload |-> payload])
    /\ Read(r)
    /\ UNCHANGED external

EnabledConfigsForSource(s) ==
    {c \in LiveConfigs : configs[c].enabled /\ configs[c].source = s}

Compiled(source, payload, cs) ==
    [host |-> source.data, credentials |-> payload,
     tables |-> {<<c, configs[c].data>> : c \in cs}]

\* list_configs, one SELECT after the other in a transaction, is taken as one read; the
\* compiler refuses a source without enabled tables.
ListConfigs(r) ==
    /\ At(r, "materialize", "configs")
    /\ LET s == request[r].id
           cs == EnabledConfigsForSource(s)
       IN  IF cs = {}
             THEN Answer(r, Invalid)
             ELSE Continue(r, [op |-> "materialize", step |-> "put", id |-> s,
                               compiled |-> Compiled(request[r].source,
                                                     request[r].payload, cs)])
    /\ Read(r)
    /\ UNCHANGED external

\* A source is settled by a materialisation answered 200 that nobody has written
\* during, with no PUT for it on its way that another one has prepared before a write.
Settle(r) ==
    LET s == request[r].id
        older == {q \in overtaken : request[q].op = "materialize" /\ request[q].id = s}
    IN  /\ overtaken' = overtaken \ {r}
        /\ settled' = IF /\ answer'[r].status = 200
                         /\ older = {}
                         /\ \A put \in delayed : put.id # s
                        THEN settled \cup {s} ELSE settled
        /\ UNCHANGED <<stored, writes>>

\* Kafka Connect accepts the configuration.
PutAccepted(r) ==
    /\ At(r, "materialize", "put")
    /\ connectors' = [connectors EXCEPT ![request[r].id] = request[r].compiled]
    /\ Answer(r, OK(request[r].compiled))
    /\ Settle(r)
    /\ UNCHANGED delayed

\* Mutant: what Kafka Connect answers is not looked at.
PutFailsUnnoticed(r) ==
    /\ At(r, "materialize", "put")
    /\ Answer(r, OK(request[r].compiled))
    /\ Settle(r)
    /\ UNCHANGED external

\* It refuses it, or the answer does not come in time: the PUT may still arrive.
PutFails(r) ==
    /\ At(r, "materialize", "put")
    /\ Answer(r, BadGateway)
    /\ \/ UNCHANGED delayed
       \/ /\ Cardinality(delayed) < MaxDelayed
          /\ delayed' = delayed \cup {[id |-> request[r].id, compiled |-> request[r].compiled]}
    /\ Settle(r)
    /\ UNCHANGED connectors

PutArrives ==
    /\ \E put \in delayed :
         /\ connectors' = [connectors EXCEPT ![put.id] = put.compiled]
         /\ delayed' = delayed \ {put}
    /\ UNCHANGED <<stored, request, answer, overtaken, settled, writes>>

-----------------------------------------------------------------------------
Start(r) ==
    \/ \E id \in Connections : update_connection(r, id)
    \/ \E op \in ConfigOps, c \in Configs, row \in ConfigRequest : save_config(r, op, c, row)
    \/ \E w \in WorkerIds, c \in Configs : assign_config_to_worker(r, w, c)
    \/ \E name \in Names : get_worker_runtime_config(r, name)
    \/ \E s \in Sources : materialize_source_connector(r, s)

Step(r) ==
    \/ GetConnectionToUpdate(r) \/ UpdateConnection(r)
    \/ GetConfigToUpdate(r)
    \/ GetConfigReference(r, "source", "destination")
    \/ GetConfigReference(r, "destination", "save")
    \/ SaveConfig(r)
    \/ GetWorkerToAssign(r) \/ GetConfigToAssign(r) \/ SaveAssignment(r)
    \/ ReadAssignment(r)
    \/ GetWorker(r) \/ GetAssignment(r) \/ GetConfig(r)
    \/ GetSource(r) \/ GetDestination(r) \/ GetSecret(r)
    \/ GetSourceConnection(r) \/ GetCredentials(r) \/ ListConfigs(r)
    \/ PutAccepted(r) \/ PutFails(r)

Single ==
    \/ \E id \in Connections :
         \/ create_source_connection(id) \/ create_destination(id)
         \/ delete_source_connection(id) \/ delete_destination(id)
    \/ \E c \in Configs : delete_config(c)
    \/ \E w \in WorkerIds :
         \/ delete_worker(w)
         \/ \E name \in Names, enabled \in BOOLEAN : save_worker(w, name, enabled)

Next ==
    \/ \E r \in Requests : Start(r) \/ Step(r)
    \/ Single
    \/ PutArrives

Spec == Init /\ [][Next]_vars

-----------------------------------------------------------------------------
(* Properties. *)

\* Credentials exist for exactly the connections that exist, however updates overlap
\* with deletions: none is lost while it is needed, and the secret of a deleted
\* connection is gone for good.
SecretsOwned ==
    /\ \A id \in LiveConnections : secrets[connections[id].secret] # None
    /\ \A secret \in Connections : secrets[secret] # None =>
         \E id \in LiveConnections : connections[id].secret = secret

\* A worker's assignment always leads to a configuration and on to connections that
\* exist, although each of them was looked up some time before it was referred to.
ChainResolves ==
    /\ \A c \in LiveConfigs :
         {configs[c].source, configs[c].destination} \subseteq LiveConnections
    /\ \A w \in WorkerIds : assignments[w] # None =>
         w \in LiveWorkers /\ assignments[w] \in LiveConfigs

\* What docs/api.md says of the answers, over the tables as they are.
Expected(req) ==
    CASE req.op = "update_connection" ->
           IF req.id \in LiveConnections THEN {OK(req.id)} ELSE {NotFound}
      [] req.op \in ConfigOps ->
           IF /\ req.op = "update_config" => req.id \in LiveConfigs
              /\ {req.row.source, req.row.destination} \subseteq LiveConnections
             THEN {OK(req.id)} ELSE {NotFound}
      [] req.op = "assign" ->
           IF req.id \in LiveWorkers /\ req.config \in LiveConfigs
             THEN {OK([worker |-> req.id, config |-> req.config])} ELSE {NotFound}
      [] req.op = "contract" ->
           LET named == {w \in LiveWorkers : workers[w].worker_id = req.name}
               w == CHOOSE v \in named : TRUE
               c == assignments[w]
               row == configs[c]
               d == connections[row.destination]
           IN  CASE named = {} -> {NotFound}
                 [] named # {} /\ ~workers[w].enabled -> {Invalid}
                 [] named # {} /\ workers[w].enabled /\ c = None -> {NotFound}
                 [] OTHER -> IF row.enabled
                               THEN {Contract(w, c, row, d, secrets[d.secret])}
                               ELSE {Invalid}
      [] req.op = "materialize" ->
           IF req.id \notin LiveConnections THEN {NotFound}
           ELSE IF EnabledConfigsForSource(req.id) = {} THEN {Invalid}
           ELSE {BadGateway, OK(Compiled(connections[req.id],
                                         secrets[connections[req.id].secret],
                                         EnabledConfigsForSource(req.id)))}

\* A request during which nobody else writes gets the answer the tables call for, one
\* contract or connector made of a single state: no 500, no dangling reference, no
\* parts of different moments.
UndisturbedAnswers ==
    [][\A r \in Busy \ overtaken : request'[r] = Idle =>
         answer'[r] \in Expected(request[r])]_vars

\* Once a source is settled, Kafka Connect runs what the tables call for until somebody
\* writes again, whatever materialisations overlap, fail or arrive late.
ConnectorsSettle ==
    \A s \in settled :
        /\ s \in LiveConnections
        /\ connectors[s] = Compiled(connections[s], secrets[connections[s].secret],
                                    EnabledConfigsForSource(s))
=============================================================================
