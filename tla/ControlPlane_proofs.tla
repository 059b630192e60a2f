------------------------ MODULE ControlPlane_proofs ------------------------
(***************************************************************************)
(* What the tables of the control plane keep however many requests         *)
(* overlap, what a request that nobody overtakes is answered, and what     *)
(* Kafka Connect runs once the materialisations have settled.              *)
(***************************************************************************)
EXTENDS ControlPlane, TLAPS

-----------------------------------------------------------------------------
(* The tables. *)

TablesTyped ==
    /\ secrets \in [Connections -> Contents \cup {None}]
    /\ connections \in [Connections -> ConnectionRow \cup {None, Gone}]
    /\ configs \in [Configs -> ConfigRow \cup {None, Gone}]
    /\ workers \in [WorkerIds -> WorkerRow \cup {None, Gone}]
    /\ assignments \in [WorkerIds -> Configs \cup {None}]

\* A connection keeps the secret that was made for it, and the secret goes with it.
OwnSecrets ==
    /\ \A id \in LiveConnections : connections[id].secret = id /\ secrets[id] # None
    /\ \A id \in Connections \ LiveConnections : secrets[id] = None

\* What the UNIQUE constraint on worker_id gives at every moment.
NamesUnique ==
    \A v, w \in LiveWorkers : workers[v].worker_id = workers[w].worker_id => v = w

TablesOK == TablesTyped /\ OwnSecrets /\ ChainResolves /\ NamesUnique

-----------------------------------------------------------------------------
(* The requests in progress. *)

RequestsOK ==
    /\ DOMAIN request = Requests
    /\ \A r \in Requests :
         /\ RequestOK(request[r])
         /\ At(r, "update_connection", "update") => request[r].secret = request[r].id

\* A configuration that is being created exists nowhere else.
CreationsFresh ==
    \A r \in Requests : request[r].op = "create_config" =>
        /\ configs[request[r].id] = None
        /\ \A q \in Requests \ {r} : request[q].op = "create_config" =>
             request[q].id # request[r].id

HistoryOK ==
    /\ overtaken \subseteq Busy
    /\ settled \subseteq Sources
    /\ writes \in Nat

Inv == TablesOK /\ RequestsOK /\ CreationsFresh /\ HistoryOK

LEMMA InvSafe == Inv => TypeOK /\ SecretsOwned /\ ChainResolves
<1> SUFFICES ASSUME Inv PROVE TypeOK /\ SecretsOwned /\ ChainResolves
  OBVIOUS
<1>1. TypeOK
  BY DEF Inv, TablesOK, TablesTyped, RequestsOK, HistoryOK, Busy, TypeOK
<1>2. SecretsOwned
  BY DEF Inv, TablesOK, OwnSecrets, SecretsOwned, LiveConnections
<1>3. QED
  BY <1>1, <1>2 DEF Inv, TablesOK

\* What stands for a missing row is none.
LEMMA NoneIsNoRow ==
    \A v \in {None, Gone} :
        v \notin Contents /\ v \notin Configs /\ v \notin ConnectionRow
            /\ v \notin ConfigRow /\ v \notin WorkerRow
  BY NoneAssumption DEF Contents, ConnectionRow, ConfigRow, WorkerRow, Connections

LEMMA InitInv == Init => Inv
<1> SUFFICES ASSUME Init PROVE Inv
  OBVIOUS
<1>1. TablesOK
  <2> USE NoneIsNoRow
  <2>1. CASE /\ secrets = Empty(Connections)
             /\ connections = Empty(Connections)
             /\ configs = Empty(Configs)
             /\ workers = Empty(WorkerIds)
             /\ assignments = Empty(WorkerIds)
    <3>1. LiveConnections = {} /\ LiveConfigs = {} /\ LiveWorkers = {}
      BY <2>1 DEF LiveConnections, LiveConfigs, LiveWorkers, Empty
    <3>2. TablesTyped
      BY <2>1 DEF TablesTyped, Empty
    <3>3. QED
      BY <2>1, <3>1, <3>2
         DEF TablesOK, OwnSecrets, ChainResolves, NamesUnique, Empty
  <2>2. ASSUME NEW s \in Sources, NEW d \in Destinations, NEW c \in Configs,
               NEW w \in WorkerIds, NEW name \in Names,
               NEW configured \in BOOLEAN, NEW assigned \in BOOLEAN,
               assigned => configured,
               secrets = [Empty(Connections) EXCEPT ![s] = 0, ![d] = 0],
               connections = [Empty(Connections) EXCEPT ![s] = [secret |-> s, data |-> 0],
                                                        ![d] = [secret |-> d, data |-> 0]],
               configs = [Empty(Configs) EXCEPT ![c] =
                             IF configured THEN [source |-> s, destination |-> d,
                                                 enabled |-> TRUE, data |-> 0] ELSE None],
               workers = [Empty(WorkerIds) EXCEPT ![w] = [worker_id |-> name, enabled |-> TRUE]],
               assignments = [Empty(WorkerIds) EXCEPT ![w] = IF assigned THEN c ELSE None]
        PROVE  TablesOK
    <3> DEFINE config == [source |-> s, destination |-> d, enabled |-> TRUE, data |-> 0]
               worker == [worker_id |-> name, enabled |-> TRUE]
    <3>1. /\ s \in Connections /\ d \in Connections /\ s # d
          /\ [secret |-> s, data |-> 0] \in ConnectionRow
          /\ [secret |-> d, data |-> 0] \in ConnectionRow
          /\ config \in ConfigRow /\ worker \in WorkerRow
          /\ 0 \in Contents
      BY <2>2, DisjointAssumption DEF Connections, ConnectionRow, ConfigRow, WorkerRow, Contents
    <3>2. LiveConnections = {s, d}
      BY <2>2, <3>1 DEF LiveConnections, Empty
    <3>3. LiveConfigs = IF configured THEN {c} ELSE {}
      BY <2>2, <3>1 DEF LiveConfigs, Empty
    <3>4. LiveWorkers = {w}
      BY <2>2, <3>1 DEF LiveWorkers, Empty
    <3>5. TablesTyped
      <4>1. secrets \in [Connections -> Contents \cup {None}]
        BY <2>2, <3>1 DEF Empty
      <4>2. connections \in [Connections -> ConnectionRow \cup {None, Gone}]
        BY <2>2, <3>1 DEF Empty
      <4>3. configs \in [Configs -> ConfigRow \cup {None, Gone}]
        BY <2>2, <3>1 DEF Empty
      <4>4. workers \in [WorkerIds -> WorkerRow \cup {None, Gone}]
        BY <2>2, <3>1 DEF Empty
      <4>5. assignments \in [WorkerIds -> Configs \cup {None}]
        BY <2>2 DEF Empty
      <4>6. QED
        BY <4>1, <4>2, <4>3, <4>4, <4>5 DEF TablesTyped
    <3>6. OwnSecrets
      BY <2>2, <3>1, <3>2 DEF OwnSecrets, Empty
    <3>7. ChainResolves
      BY <2>2, <3>1, <3>2, <3>3, <3>4 DEF ChainResolves, Empty
    <3>8. NamesUnique
      BY <3>4 DEF NamesUnique
    <3>9. QED
      BY <3>5, <3>6, <3>7, <3>8 DEF TablesOK
  <2>3. QED
    BY <2>1, <2>2 DEF Init
<1>2. RequestsOK /\ CreationsFresh /\ HistoryOK
  BY DEF Init, RequestsOK, RequestOK, At, CreationsFresh, HistoryOK, Idle, ConfigOps
<1>3. QED
  BY <1>1, <1>2 DEF Inv

\* A step that goes on with one request, or ends it, and leaves the tables alone.
LEMMA RequestInv ==
    ASSUME Inv, NEW r \in Requests, NEW req, UNCHANGED stored,
           request' = [request EXCEPT ![r] = req],
           RequestOK(req),
           req.op = "update_connection" /\ req.step = "update" => req.secret = req.id,
           req.op = "create_config" =>
             /\ configs[req.id] = None
             /\ \A q \in Requests \ {r} : request[q].op = "create_config" => request[q].id # req.id,
           HistoryOK'
    PROVE  Inv'
<1>1. TablesOK'
  BY DEF Inv, TablesOK, TablesTyped, OwnSecrets, ChainResolves, NamesUnique,
         LiveConnections, LiveConfigs, LiveWorkers, stored
<1>2. RequestsOK'
  BY DEF Inv, RequestsOK, RequestOK, At
<1>3. CreationsFresh'
  BY DEF Inv, RequestsOK, CreationsFresh, stored
<1>4. QED
  BY <1>1, <1>2, <1>3 DEF Inv

\* The same for a step of a use case, which either answers or goes on.
LEMMA ReadInv ==
    ASSUME Inv, NEW r \in Requests, NEW req, Read(r),
           request' = [request EXCEPT ![r] = req],
           RequestOK(req),
           req.op = "update_connection" /\ req.step = "update" => req.secret = req.id,
           req.op = "create_config" => request[r].op = "create_config" /\ req.id = request[r].id
    PROVE  Inv'
<1>1. HistoryOK'
  BY DEF Inv, RequestsOK, HistoryOK, Busy, Read
<1>2. req.op = "create_config" =>
         /\ configs[req.id] = None
         /\ \A q \in Requests \ {r} : request[q].op = "create_config" => request[q].id # req.id
  BY DEF Inv, CreationsFresh
<1>3. QED
  BY <1>1, <1>2, RequestInv DEF Read

\* An answer is always possible.
LEMMA AnswerInv ==
    ASSUME Inv, NEW r \in Requests, NEW a, Read(r), Answer(r, a)
    PROVE  Inv'
<1>1. RequestOK(Idle)
  BY DEF RequestOK, Idle, ConfigOps
<1>2. request' = [request EXCEPT ![r] = Idle]
  BY DEF Answer
<1>3. QED
  BY <1>1, <1>2, ReadInv DEF Idle

-----------------------------------------------------------------------------
(* Requests begin. *)

LEMMA BeginInv ==
    ASSUME Inv, NEW r \in Requests, NEW req,
           UNCHANGED <<stored, overtaken, settled, writes>>,
           request' = [request EXCEPT ![r] = req],
           RequestOK(req),
           req.op # "idle",
           req.op = "update_connection" => req.step = "get",
           req.op = "create_config" =>
             /\ configs[req.id] = None
             /\ \A q \in Requests \ {r} : request[q].op = "create_config" => request[q].id # req.id
    PROVE  Inv'
<1>1. req # Idle
  BY DEF Idle
<1>2. HistoryOK'
  BY <1>1 DEF Inv, RequestsOK, HistoryOK, Busy
<1>3. QED
  BY <1>2, RequestInv

LEMMA StartInv == ASSUME Inv, NEW r \in Requests, Start(r) PROVE Inv'
<1> USE DEF Begin, ConfigOps
<1>1. ASSUME NEW id \in Connections, update_connection(r, id) PROVE Inv'
  <2> DEFINE req == [op |-> "update_connection", step |-> "get", id |-> id]
  <2>1. RequestOK(req)
    BY DEF RequestOK
  <2>2. QED
    BY <1>1, <2>1, BeginInv DEF update_connection
<1>2. ASSUME NEW op \in ConfigOps, NEW c \in Configs, NEW row \in ConfigRequest,
             save_config(r, op, c, row)
      PROVE  Inv'
  <2> DEFINE step == IF op = "create_config" THEN "source" ELSE "config"
             req == [op |-> op, step |-> step, id |-> c, row |-> row]
  <2>1. RequestOK(req)
    BY DEF RequestOK
  <2>2. op = "create_config" =>
          /\ configs[c] = None
          /\ \A q \in Requests \ {r} : request[q].op = "create_config" => request[q].id # c
    BY <1>2 DEF save_config
  <2>3. QED
    BY <1>2, <2>1, <2>2, BeginInv DEF save_config
<1>3. ASSUME NEW w \in WorkerIds, NEW c \in Configs, assign_config_to_worker(r, w, c)
      PROVE  Inv'
  <2> DEFINE req == [op |-> "assign", step |-> "worker", id |-> w, config |-> c]
  <2>1. RequestOK(req)
    BY DEF RequestOK
  <2>2. QED
    BY <1>3, <2>1, BeginInv DEF assign_config_to_worker
<1>4. ASSUME NEW name \in Names, get_worker_runtime_config(r, name) PROVE Inv'
  <2> DEFINE req == [op |-> "contract", step |-> "worker", name |-> name]
  <2>1. RequestOK(req)
    BY DEF RequestOK
  <2>2. QED
    BY <1>4, <2>1, BeginInv DEF get_worker_runtime_config
<1>5. ASSUME NEW s \in Sources, materialize_source_connector(r, s) PROVE Inv'
  <2> DEFINE req == [op |-> "materialize", step |-> "source", id |-> s]
  <2>1. RequestOK(req)
    BY DEF RequestOK
  <2>2. QED
    BY <1>5, <2>1, BeginInv DEF materialize_source_connector
<1>6. QED
  BY <1>1, <1>2, <1>3, <1>4, <1>5 DEF Start

-----------------------------------------------------------------------------
(* Requests go on without writing. *)

ReadStep(r) ==
    \/ GetConnectionToUpdate(r)
    \/ GetConfigToUpdate(r)
    \/ GetConfigReference(r, "source", "destination")
    \/ GetConfigReference(r, "destination", "save")
    \/ GetWorkerToAssign(r) \/ GetConfigToAssign(r) \/ ReadAssignment(r)
    \/ GetWorker(r) \/ GetAssignment(r) \/ GetConfig(r)
    \/ GetSource(r) \/ GetDestination(r) \/ GetSecret(r)
    \/ GetSourceConnection(r) \/ GetCredentials(r) \/ ListConfigs(r)

LEMMA ReadStepInv == ASSUME Inv, NEW r \in Requests, ReadStep(r) PROVE Inv'
<1>1. RequestOK(request[r])
  BY DEF Inv, RequestsOK
<1>2. \A id \in LiveConnections :
        id \in Connections /\ connections[id] \in ConnectionRow /\ connections[id].secret = id
  BY DEF Inv, TablesOK, TablesTyped, OwnSecrets, LiveConnections
<1>3. CASE GetConnectionToUpdate(r)
  <2> DEFINE id == request[r].id
             req == [op |-> "update_connection", step |-> "update", id |-> id,
                     secret |-> connections[id].secret]
  <2>1. CASE id \in LiveConnections
    <3>1. RequestOK(req)
      BY <1>2, <2>1 DEF RequestOK, ConfigOps
    <3>2. request' = [request EXCEPT ![r] = req] /\ Read(r)
      BY <1>3, <2>1 DEF GetConnectionToUpdate, Continue
    <3>3. QED
      BY <1>2, <2>1, <3>1, <3>2, ReadInv
  <2>2. CASE id \notin LiveConnections
    BY <1>3, <2>2, AnswerInv DEF GetConnectionToUpdate
  <2>3. QED
    BY <2>1, <2>2
<1>4. ASSUME NEW step \in {"source", "destination", "save"},
             Continue(r, ConfigStep(r, step)), Read(r), request[r].op \in ConfigOps
      PROVE  Inv'
  <2>1. RequestOK(ConfigStep(r, step))
    BY <1>1, <1>4 DEF RequestOK, ConfigStep, ConfigOps
  <2>2. QED
    BY <1>4, <2>1, ReadInv DEF ConfigStep, Continue, ConfigOps
<1>5. CASE GetConfigToUpdate(r)
  <2>1. CASE request[r].id \in LiveConfigs
    BY <1>4, <1>5, <2>1 DEF GetConfigToUpdate, At, ConfigOps
  <2>2. CASE request[r].id \notin LiveConfigs
    BY <1>5, <2>2, AnswerInv DEF GetConfigToUpdate
  <2>3. QED
    BY <2>1, <2>2
<1>6. ASSUME NEW step, NEW next \in {"destination", "save"}, GetConfigReference(r, step, next)
      PROVE  Inv'
  <2>1. CASE request[r].row[step] \in LiveConnections
    BY <1>4, <1>6, <2>1 DEF GetConfigReference
  <2>2. CASE request[r].row[step] \notin LiveConnections
    BY <1>6, <2>2, AnswerInv DEF GetConfigReference
  <2>3. QED
    BY <2>1, <2>2
<1>7. ASSUME NEW step, NEW name, Continue(r, AssignStep(r, step, name)), Read(r),
             request[r].op = "assign"
      PROVE  Inv'
  <2>1. RequestOK(AssignStep(r, step, name))
    BY <1>1, <1>7 DEF RequestOK, AssignStep, ConfigOps
  <2>2. QED
    BY <1>7, <2>1, ReadInv DEF AssignStep, Continue
<1>8. CASE GetWorkerToAssign(r)
  <2>1. CASE request[r].id \in LiveWorkers
    BY <1>7, <1>8, <2>1 DEF GetWorkerToAssign, At
  <2>2. CASE request[r].id \notin LiveWorkers
    BY <1>8, <2>2, AnswerInv DEF GetWorkerToAssign
  <2>3. QED
    BY <2>1, <2>2
<1>9. CASE GetConfigToAssign(r)
  <2>1. CASE request[r].config \in LiveConfigs
    BY <1>7, <1>9, <2>1 DEF GetConfigToAssign, At
  <2>2. CASE request[r].config \notin LiveConfigs
    BY <1>9, <2>2, AnswerInv DEF GetConfigToAssign
  <2>3. QED
    BY <2>1, <2>2
<1>10. CASE ReadAssignment(r)
  <2>1. \E a : Answer(r, a) /\ Read(r)
    BY <1>10 DEF ReadAssignment
  <2>2. QED
    BY <2>1, AnswerInv
<1>11. ASSUME NEW req, Read(r), Continue(r, req), RequestOK(req),
              req.op \in {"contract", "materialize"}
       PROVE  Inv'
  BY <1>11, ReadInv DEF Continue
<1>12. CASE GetWorker(r)
  <2> DEFINE next(w) == [op |-> "contract", step |-> "assignment",
                         name |-> request[r].name, worker |-> w]
  <2>1. Read(r) /\ ((\E a : Answer(r, a)) \/ (\E w : Continue(r, next(w))))
    BY <1>12 DEF GetWorker
  <2>2. ASSUME NEW w, Continue(r, next(w)) PROVE Inv'
    BY <1>11, <2>1, <2>2 DEF RequestOK, ConfigOps
  <2>3. QED
    BY <2>1, <2>2, AnswerInv
<1>13. CASE GetAssignment(r)
  <2> DEFINE next(c) == [op |-> "contract", step |-> "config",
                         name |-> request[r].name, worker |-> request[r].worker,
                         config |-> c]
  <2>1. Read(r) /\ ((\E a : Answer(r, a)) \/ (\E c : Continue(r, next(c))))
    BY <1>13 DEF GetAssignment
  <2>2. ASSUME NEW c, Continue(r, next(c)) PROVE Inv'
    BY <1>11, <2>1, <2>2 DEF RequestOK, ConfigOps
  <2>3. QED
    BY <2>1, <2>2, AnswerInv
<1>14. CASE GetConfig(r) \/ GetSource(r)
  <2>1. \/ \E a : Answer(r, a)
        \/ \E req : Continue(r, req) /\ req.op = "contract" /\ req.step # "secret"
    BY <1>14 DEF GetConfig, GetSource
  <2>2. Read(r)
    BY <1>14 DEF GetConfig, GetSource
  <2>3. ASSUME NEW req, req.op = "contract", req.step # "secret" PROVE RequestOK(req)
    BY <2>3 DEF RequestOK, ConfigOps
  <2>4. QED
    BY <1>11, <2>1, <2>2, <2>3, AnswerInv
<1>15. CASE GetDestination(r)
  <2> DEFINE d == request[r].row.destination
             req == [op |-> "contract", step |-> "secret",
                     name |-> request[r].name, worker |-> request[r].worker,
                     config |-> request[r].config, row |-> request[r].row,
                     destination |-> connections[d]]
  <2>1. CASE d \in LiveConnections
    <3>1. RequestOK(req)
      BY <1>2, <2>1 DEF RequestOK, ConfigOps
    <3>2. Continue(r, req) /\ Read(r)
      BY <1>15, <2>1 DEF GetDestination
    <3>3. QED
      BY <1>11, <3>1, <3>2
  <2>2. CASE d \notin LiveConnections
    BY <1>15, <2>2, AnswerInv DEF GetDestination
  <2>3. QED
    BY <2>1, <2>2
<1>16. CASE GetSecret(r)
  <2>1. \E a : Answer(r, a) /\ Read(r)
    BY <1>16 DEF GetSecret
  <2>2. QED
    BY <2>1, AnswerInv
<1>17. CASE GetSourceConnection(r)
  <2> DEFINE s == request[r].id
             req == [op |-> "materialize", step |-> "secret", id |-> s,
                     source |-> connections[s]]
  <2>1. CASE s \in LiveConnections
    <3>1. RequestOK(req)
      BY <1>1, <1>2, <1>17, <2>1 DEF RequestOK, ConfigOps, GetSourceConnection, At
    <3>2. Continue(r, req) /\ Read(r)
      BY <1>17, <2>1 DEF GetSourceConnection
    <3>3. QED
      BY <1>11, <3>1, <3>2
  <2>2. CASE s \notin LiveConnections
    BY <1>17, <2>2, AnswerInv DEF GetSourceConnection
  <2>3. QED
    BY <2>1, <2>2
<1>18. CASE GetCredentials(r) \/ ListConfigs(r)
  <2>1. \/ \E a : Answer(r, a)
        \/ \E req : /\ Continue(r, req)
                    /\ req.op = "materialize" /\ req.step # "secret"
                    /\ req.id = request[r].id
    BY <1>18 DEF GetCredentials, ListConfigs
  <2>2. Read(r) /\ request[r].op = "materialize"
    BY <1>18 DEF GetCredentials, ListConfigs, At
  <2>3. ASSUME NEW req, req.op = "materialize", req.step # "secret", req.id = request[r].id
        PROVE RequestOK(req)
    BY <1>1, <2>2, <2>3 DEF RequestOK, ConfigOps
  <2>4. QED
    BY <1>11, <2>1, <2>2, <2>3, AnswerInv
<1>19. QED
  BY <1>3, <1>5, <1>6, <1>8, <1>9, <1>10, <1>12, <1>15, <1>16, <1>17, <1>18,
     <1>13, <1>14 DEF ReadStep

-----------------------------------------------------------------------------
(* Kafka Connect answers. *)

PutStep(r) == PutAccepted(r) \/ PutFails(r)

LEMMA PutStepInv == ASSUME Inv, NEW r \in Requests, PutStep(r) PROVE Inv'
<1>1. PICK a : Answer(r, a) /\ Settle(r)
  BY DEF PutStep, PutAccepted, PutFails
<1>2. request[r].id \in Sources
  BY DEF Inv, RequestsOK, RequestOK, PutStep, PutAccepted, PutFails, At
<1>3. request' = [request EXCEPT ![r] = Idle]
  BY <1>1 DEF Answer
<1>4. HistoryOK'
  BY <1>1, <1>2, <1>3 DEF Inv, RequestsOK, HistoryOK, Busy, Settle
<1>5. RequestOK(Idle) /\ UNCHANGED stored
  BY <1>1 DEF RequestOK, Idle, ConfigOps, Settle
<1>6. QED
  BY <1>3, <1>4, <1>5, RequestInv DEF Idle

-----------------------------------------------------------------------------
(* Writes. *)

\* The history of a transaction in which r may end.
LEMMA WriteHistory ==
    ASSUME Inv, NEW writers, Write(writers),
           \/ UNCHANGED request
           \/ \E r \in writers : request' = [request EXCEPT ![r] = Idle]
           \/ \E r \in Requests : \E req : req # Idle /\ request' = [request EXCEPT ![r] = req]
    PROVE  HistoryOK'
  BY DEF Inv, RequestsOK, HistoryOK, Busy, Write

LEMMA RequestsUnchanged ==
    ASSUME Inv, UNCHANGED request PROVE RequestsOK'
  BY DEF Inv, RequestsOK, RequestOK, At

LEMMA RequestsAnswered ==
    ASSUME Inv, NEW r \in Requests, NEW a, Answer(r, a)
    PROVE  RequestsOK' /\ request' = [request EXCEPT ![r] = Idle]
<1>1. RequestOK(Idle) /\ Idle.op # "update_connection"
  BY DEF RequestOK, Idle, ConfigOps
<1>2. QED
  BY <1>1 DEF Inv, RequestsOK, RequestOK, At, Answer

\* Names, references and creations as long as configurations, workers and
\* assignments stay as they are and no connection that is referred to goes.
LEMMA ConnectionsWritten ==
    ASSUME Inv, UNCHANGED <<configs, workers, assignments>>,
           \A id \in LiveConnections : id \in LiveConnections' \/ ~Referenced(id),
           \/ UNCHANGED request
           \/ \E r \in Requests : request' = [request EXCEPT ![r] = Idle]
    PROVE  ChainResolves' /\ NamesUnique' /\ CreationsFresh'
<1>1. LiveConfigs' = LiveConfigs /\ LiveWorkers' = LiveWorkers
  BY DEF LiveConfigs, LiveWorkers
<1>2. ChainResolves'
  BY <1>1 DEF Inv, TablesOK, ChainResolves, Referenced
<1>3. NamesUnique'
  BY <1>1 DEF Inv, TablesOK, NamesUnique
<1>4. CreationsFresh'
  BY DEF Inv, RequestsOK, CreationsFresh, Idle
<1>5. QED
  BY <1>2, <1>3, <1>4

LEMMA ConnectionUpdatedInv ==
    ASSUME Inv, NEW r \in Requests, UpdateConnection(r), Write({r}) PROVE Inv'
<1> DEFINE id == request[r].id
<1>1. id \in Connections /\ request[r].secret = id
  BY DEF Inv, RequestsOK, RequestOK, UpdateConnection, At
<1>2. /\ UNCHANGED <<configs, workers, assignments>>
      /\ Write({r})
      /\ \E a : Answer(r, a)
  BY DEF UpdateConnection
<1>3. RequestsOK' /\ request' = [request EXCEPT ![r] = Idle]
  BY <1>2, RequestsAnswered
<1>4. \/ connections' = connections
      \/ id \in LiveConnections /\ connections' = [connections EXCEPT ![id].data = Other(@)]
  BY DEF UpdateConnection
<1>5. connections' \in [Connections -> ConnectionRow \cup {None, Gone}]
      /\ LiveConnections' = LiveConnections
      /\ \A c \in LiveConnections : connections'[c].secret = connections[c].secret
  <2>1. CASE connections' = connections
    BY <2>1 DEF Inv, TablesOK, TablesTyped, LiveConnections
  <2>2. CASE id \in LiveConnections /\ connections' = [connections EXCEPT ![id].data = Other(@)]
    <3>1. connections[id] \in ConnectionRow
      BY <2>2 DEF Inv, TablesOK, TablesTyped, LiveConnections
    <3>2. connections'[id] \in ConnectionRow /\ connections'[id].secret = connections[id].secret
      BY <1>1, <2>2, <3>1 DEF Inv, TablesOK, TablesTyped, ConnectionRow, Contents, Other
    <3>3. QED
      BY <1>1, <2>2, <3>2, NoneIsNoRow DEF Inv, TablesOK, TablesTyped, LiveConnections
  <2>3. QED
    BY <1>4, <2>1, <2>2
<1>6. secrets' \in [Connections -> Contents \cup {None}]
      /\ \A c \in Connections : secrets'[c] = None <=> secrets[c] = None
  <2>1. CASE secrets' = secrets
    BY <2>1 DEF Inv, TablesOK, TablesTyped
  <2>2. CASE secrets' = SecretsUpdated(id)
    BY <1>1, <2>2, NoneIsNoRow
       DEF Inv, TablesOK, TablesTyped, SecretsUpdated, Other, Contents
  <2>3. QED
    BY <1>1, <2>1, <2>2 DEF UpdateConnection
<1>7. TablesTyped' /\ OwnSecrets'
  <2>1. TablesTyped'
    BY <1>2, <1>5, <1>6 DEF Inv, TablesOK, TablesTyped
  <2>2. LiveConnections \subseteq Connections
    BY DEF LiveConnections
  <2>3. OwnSecrets'
    BY <1>5, <1>6, <2>2 DEF Inv, TablesOK, OwnSecrets
  <2>4. QED
    BY <2>1, <2>3
<1>8. ChainResolves' /\ NamesUnique' /\ CreationsFresh'
  BY <1>2, <1>3, <1>5, ConnectionsWritten
<1>9. HistoryOK'
  BY <1>2, <1>3, WriteHistory
<1>10. QED
  BY <1>3, <1>7, <1>8, <1>9 DEF Inv, TablesOK

LEMMA UpdateConnectionInv ==
    ASSUME Inv, NEW r \in Requests, UpdateConnection(r) PROVE Inv'
<1>1. CASE \E a : Answer(r, a) /\ Read(r)
  BY <1>1, AnswerInv
<1>2. CASE Write({r})
  BY <1>2, ConnectionUpdatedInv
<1>3. QED
  BY <1>1, <1>2 DEF UpdateConnection

LEMMA SaveConfigInv ==
    ASSUME Inv, NEW r \in Requests, SaveConfig(r) PROVE Inv'
<1> DEFINE c == request[r].id
           row == request[r].row
           saved == [source |-> row.source, destination |-> row.destination,
                     enabled |-> row.enabled,
                     data |-> IF configs[c] = None THEN 0 ELSE Other(configs[c].data)]
<1>1. c \in Configs /\ row \in ConfigRequest /\ request[r].op \in ConfigOps
  BY DEF Inv, RequestsOK, RequestOK, SaveConfig
<1>2. CASE \E a : Answer(r, a) /\ Read(r)
  BY <1>2, AnswerInv
<1>3. CASE /\ request[r].op = "update_config" => c \in LiveConfigs
           /\ ReferencesHold(row)
           /\ configs' = [configs EXCEPT ![c] = saved]
           /\ Answer(r, OK(c))
           /\ Write({r})
           /\ UNCHANGED <<secrets, connections, workers, assignments>>
  <2>1. configs[c] = None \/ configs[c] \in ConfigRow
    BY <1>1, <1>3 DEF Inv, TablesOK, TablesTyped, CreationsFresh, LiveConfigs, ConfigOps
  <2>2. saved \in ConfigRow
    BY <1>1, <2>1 DEF ConfigRow, ConfigRequest, Contents, Other
  <2>3. TablesTyped' /\ LiveConfigs' = LiveConfigs \cup {c}
    BY <1>1, <1>3, <2>2, NoneIsNoRow DEF Inv, TablesOK, TablesTyped, LiveConfigs
  <2>4. LiveConnections' = LiveConnections /\ LiveWorkers' = LiveWorkers
    BY <1>3 DEF LiveConnections, LiveWorkers
  <2>5. OwnSecrets' /\ NamesUnique'
    BY <1>3, <2>4 DEF Inv, TablesOK, OwnSecrets, NamesUnique
  <2>6. ChainResolves'
    <3>1. ASSUME NEW d \in LiveConfigs'
          PROVE  {configs'[d].source, configs'[d].destination} \subseteq LiveConnections
      <4>1. CASE d = c
        BY <1>1, <1>3, <4>1 DEF ReferencesHold, Inv, TablesOK, TablesTyped
      <4>2. CASE d # c
        BY <1>3, <2>3, <4>2 DEF Inv, TablesOK, TablesTyped, ChainResolves
      <4>3. QED
        BY <4>1, <4>2
    <3>2. QED
      BY <1>3, <2>3, <2>4, <3>1 DEF Inv, TablesOK, ChainResolves
  <2>7. RequestsOK' /\ request' = [request EXCEPT ![r] = Idle]
    BY <1>3, RequestsAnswered
  <2>8. CreationsFresh'
    <3>1. ASSUME NEW q \in Requests, request'[q].op = "create_config"
          PROVE  q # r /\ request'[q] = request[q] /\ request[q].id # c
      <4>1. q # r /\ request'[q] = request[q]
        BY <2>7, <3>1 DEF Idle, Inv, RequestsOK
      <4>2. request[q].id \in Configs
        BY <3>1, <4>1 DEF Inv, RequestsOK, RequestOK, ConfigOps
      <4>3. CASE request[r].op = "create_config"
        BY <3>1, <4>1, <4>3 DEF Inv, CreationsFresh
      <4>4. CASE c \in LiveConfigs
        BY <3>1, <4>1, <4>4 DEF Inv, CreationsFresh, LiveConfigs
      <4>5. QED
        BY <1>1, <1>3, <4>1, <4>3, <4>4 DEF ConfigOps
    <3>2. QED
      BY <1>3, <2>7, <3>1 DEF Inv, CreationsFresh, TablesOK, TablesTyped, RequestsOK
  <2>9. HistoryOK'
    BY <1>3, <2>7, WriteHistory
  <2>10. QED
    BY <2>3, <2>5, <2>6, <2>7, <2>8, <2>9 DEF Inv, TablesOK
<1>4. QED
  BY <1>2, <1>3 DEF SaveConfig

LEMMA SaveAssignmentInv ==
    ASSUME Inv, NEW r \in Requests, SaveAssignment(r) PROVE Inv'
<1> DEFINE w == request[r].id
           c == request[r].config
           req == AssignStep(r, "read", request[r].name)
<1>1. w \in WorkerIds /\ c \in Configs /\ request[r].op = "assign"
  BY DEF Inv, RequestsOK, RequestOK, SaveAssignment, At, ConfigOps
<1>2. CASE Answer(r, ServerError) /\ Read(r)
  BY <1>2, AnswerInv
<1>3. CASE /\ w \in LiveWorkers /\ c \in LiveConfigs
           /\ assignments' = [assignments EXCEPT ![w] = c]
           /\ Continue(r, req)
           /\ Write({r} \ overtaken)
           /\ UNCHANGED <<secrets, connections, configs, workers>>
  <2>1. TablesTyped'
    BY <1>1, <1>3 DEF Inv, TablesOK, TablesTyped
  <2>2. /\ LiveConnections' = LiveConnections
        /\ LiveConfigs' = LiveConfigs
        /\ LiveWorkers' = LiveWorkers
    BY <1>3 DEF LiveConnections, LiveConfigs, LiveWorkers
  <2>3. OwnSecrets' /\ NamesUnique'
    BY <1>3, <2>2 DEF Inv, TablesOK, OwnSecrets, NamesUnique
  <2>4. ChainResolves'
    BY <1>1, <1>3, <2>2 DEF Inv, TablesOK, TablesTyped, ChainResolves
  <2>5. request' = [request EXCEPT ![r] = req]
    BY <1>3 DEF Continue
  <2>6. RequestOK(req) /\ req.op = "assign" /\ req # Idle
    BY <1>1 DEF RequestOK, AssignStep, ConfigOps, Idle
  <2>7. RequestsOK'
    BY <2>5, <2>6 DEF Inv, RequestsOK, RequestOK, At
  <2>8. CreationsFresh'
    BY <1>3, <2>5, <2>6 DEF Inv, RequestsOK, CreationsFresh
  <2>9. HistoryOK'
    BY <1>3, <2>5, <2>6, WriteHistory
  <2>10. QED
    BY <2>1, <2>3, <2>4, <2>7, <2>8, <2>9 DEF Inv, TablesOK
<1>4. QED
  BY <1>2, <1>3 DEF SaveAssignment

LEMMA SaveConnectionInv ==
    ASSUME Inv, NEW id \in Connections, save_connection_with_credentials(id) PROVE Inv'
<1> DEFINE row == [secret |-> id, data |-> 0]
<1> USE DEF save_connection_with_credentials
<1>1. row \in ConnectionRow /\ 0 \in Contents
  BY DEF ConnectionRow, Contents
<1>2. TablesTyped' /\ LiveConnections' = LiveConnections \cup {id}
  BY <1>1, NoneIsNoRow DEF Inv, TablesOK, TablesTyped, LiveConnections
<1>3. OwnSecrets'
  BY <1>1, <1>2, NoneIsNoRow DEF Inv, TablesOK, TablesTyped, OwnSecrets, LiveConnections
<1>4. ChainResolves' /\ NamesUnique' /\ CreationsFresh'
  BY <1>2, ConnectionsWritten
<1>5. RequestsOK' /\ HistoryOK'
  BY RequestsUnchanged, WriteHistory
<1>6. QED
  BY <1>2, <1>3, <1>4, <1>5 DEF Inv, TablesOK

LEMMA DeleteConnectionInv ==
    ASSUME Inv, NEW id \in Connections, delete_connection(id) PROVE Inv'
<1> USE DEF delete_connection
<1>1. secrets' = [secrets EXCEPT ![id] = None]
  BY DEF Inv, TablesOK, OwnSecrets, secrets_after_delete
<1>2. TablesTyped' /\ LiveConnections' = LiveConnections \ {id}
  BY <1>1 DEF Inv, TablesOK, TablesTyped, LiveConnections
<1>3. OwnSecrets'
  BY <1>1, <1>2 DEF Inv, TablesOK, TablesTyped, OwnSecrets, LiveConnections
<1>4. ChainResolves' /\ NamesUnique' /\ CreationsFresh'
  BY <1>2, ConnectionsWritten
<1>5. RequestsOK' /\ HistoryOK'
  BY RequestsUnchanged, WriteHistory
<1>6. QED
  BY <1>2, <1>3, <1>4, <1>5 DEF Inv, TablesOK

LEMMA DeleteConfigInv ==
    ASSUME Inv, NEW c \in Configs, delete_config(c) PROVE Inv'
<1> USE DEF delete_config
<1>1. TablesTyped' /\ LiveConfigs' = LiveConfigs \ {c}
  BY DEF Inv, TablesOK, TablesTyped, LiveConfigs
<1>2. LiveConnections' = LiveConnections /\ LiveWorkers' = LiveWorkers
  BY DEF LiveConnections, LiveWorkers
<1>3. OwnSecrets' /\ NamesUnique'
  BY <1>2 DEF Inv, TablesOK, OwnSecrets, NamesUnique
<1>4. ChainResolves'
  BY <1>1, <1>2 DEF Inv, TablesOK, TablesTyped, ChainResolves
<1>5. CreationsFresh'
  BY DEF Inv, CreationsFresh, LiveConfigs, TablesOK, TablesTyped
<1>6. RequestsOK' /\ HistoryOK'
  BY RequestsUnchanged, WriteHistory
<1>7. QED
  BY <1>1, <1>3, <1>4, <1>5, <1>6 DEF Inv, TablesOK

LEMMA SaveWorkerInv ==
    ASSUME Inv, NEW w \in WorkerIds, NEW name \in Names, NEW enabled \in BOOLEAN,
           save_worker(w, name, enabled)
    PROVE  Inv'
<1> USE DEF save_worker
<1>1. [worker_id |-> name, enabled |-> enabled] \in WorkerRow
  BY DEF WorkerRow
<1>2. TablesTyped' /\ LiveWorkers' = LiveWorkers \cup {w}
  BY <1>1, NoneIsNoRow DEF Inv, TablesOK, TablesTyped, LiveWorkers
<1>3. LiveConnections' = LiveConnections /\ LiveConfigs' = LiveConfigs
  BY DEF LiveConnections, LiveConfigs
<1>4. OwnSecrets' /\ ChainResolves' /\ CreationsFresh'
  BY <1>2, <1>3
     DEF Inv, TablesOK, OwnSecrets, ChainResolves, CreationsFresh
<1>5. NamesUnique'
  BY <1>2 DEF Inv, TablesOK, TablesTyped, NamesUnique
<1>6. RequestsOK' /\ HistoryOK'
  BY RequestsUnchanged, WriteHistory
<1>7. QED
  BY <1>2, <1>4, <1>5, <1>6 DEF Inv, TablesOK

LEMMA DeleteWorkerInv ==
    ASSUME Inv, NEW w \in WorkerIds, delete_worker(w) PROVE Inv'
<1> USE DEF delete_worker
<1>1. TablesTyped' /\ LiveWorkers' = LiveWorkers \ {w}
  BY DEF Inv, TablesOK, TablesTyped, LiveWorkers
<1>2. LiveConnections' = LiveConnections /\ LiveConfigs' = LiveConfigs
  BY DEF LiveConnections, LiveConfigs
<1>3. OwnSecrets' /\ CreationsFresh'
  BY <1>2 DEF Inv, TablesOK, OwnSecrets, CreationsFresh
<1>4. ChainResolves'
  BY <1>1, <1>2 DEF Inv, TablesOK, TablesTyped, ChainResolves
<1>5. NamesUnique'
  BY <1>1 DEF Inv, TablesOK, TablesTyped, NamesUnique
<1>6. RequestsOK' /\ HistoryOK'
  BY RequestsUnchanged, WriteHistory
<1>7. QED
  BY <1>1, <1>3, <1>4, <1>5, <1>6 DEF Inv, TablesOK

LEMMA SingleInv == ASSUME Inv, Single PROVE Inv'
  BY SaveConnectionInv, DeleteConnectionInv, DeleteConfigInv, SaveWorkerInv, DeleteWorkerInv
     DEF Single, create_source_connection, create_destination,
         delete_source_connection, delete_destination

LEMMA NextInv == Inv /\ [Next]_vars => Inv'
<1> SUFFICES ASSUME Inv, [Next]_vars PROVE Inv'
  OBVIOUS
<1>1. ASSUME NEW r \in Requests, Start(r) PROVE Inv'
  BY <1>1, StartInv
<1>2. ASSUME NEW r \in Requests, Step(r) PROVE Inv'
  BY <1>2, ReadStepInv, PutStepInv, UpdateConnectionInv, SaveConfigInv, SaveAssignmentInv
     DEF Step, ReadStep, PutStep
<1>3. CASE Single
  BY <1>3, SingleInv
<1>4. ASSUME UNCHANGED <<stored, request, overtaken, settled, writes>> PROVE Inv'
  <2>1. TablesOK' /\ CreationsFresh'
    BY <1>4
       DEF Inv, TablesOK, TablesTyped, OwnSecrets, ChainResolves, NamesUnique,
           LiveConnections, LiveConfigs, LiveWorkers, CreationsFresh, stored
  <2>2. RequestsOK'
    BY <1>4, RequestsUnchanged
  <2>3. HistoryOK'
    BY <1>4 DEF Inv, HistoryOK, Busy
  <2>4. QED
    BY <2>1, <2>2, <2>3 DEF Inv
<1>5. CASE PutArrives
  BY <1>4, <1>5 DEF PutArrives
<1>6. CASE UNCHANGED vars
  BY <1>4, <1>6 DEF vars, stored
<1>7. QED
  BY <1>1, <1>2, <1>3, <1>5, <1>6 DEF Next

\* The tables satisfy their constraints and the requests hold on to what fits them.
THEOREM ControlPlaneInvariant == Spec => []Inv
  BY InitInv, NextInv, PTL DEF Spec

\* The tables and the requests in progress keep their types.
THEOREM ControlPlaneTypeOK == Spec => []TypeOK
  BY ControlPlaneInvariant, InvSafe, PTL

\* No overlap of updates and deletions loses the credentials of a connection or leaves
\* those of a deleted one behind.
THEOREM ControlPlaneSecretsOwned == Spec => []SecretsOwned
  BY ControlPlaneInvariant, InvSafe, PTL

\* However lookups and deletions overlap, an assignment leads to a configuration and on
\* to its connections.
THEOREM ControlPlaneChainResolves == Spec => []ChainResolves
  BY ControlPlaneInvariant, InvSafe, PTL

-----------------------------------------------------------------------------
\* The connector configuration the tables call for.
Now(s) == Compiled(connections[s], secrets[connections[s].secret], EnabledConfigsForSource(s))

ConfigHolds(req) ==
    /\ req.op = "update_config" /\ req.step # "config" => req.id \in LiveConfigs
    /\ req.step \in {"destination", "save"} => req.row.source \in LiveConnections
    /\ req.step = "save" => req.row.destination \in LiveConnections

AssignHolds(req) ==
    /\ req.step \in {"config", "save", "read"} =>
         req.id \in LiveWorkers /\ workers[req.id].worker_id = req.name
    /\ req.step \in {"save", "read"} => req.config \in LiveConfigs
    /\ req.step = "read" => assignments[req.id] = req.config

ContractHolds(req) ==
    /\ req.step \in {"assignment", "config", "source", "destination", "secret"} =>
         /\ req.worker \in LiveWorkers
         /\ workers[req.worker].worker_id = req.name
         /\ workers[req.worker].enabled
    /\ req.step \in {"config", "source", "destination", "secret"} =>
         assignments[req.worker] # None /\ req.config = assignments[req.worker]
    /\ req.step \in {"source", "destination", "secret"} =>
         req.row = configs[req.config] /\ req.row.enabled
    /\ req.step = "secret" => req.destination = connections[req.row.destination]

MaterializeHolds(req) ==
    /\ req.step \in {"secret", "configs"} =>
         req.id \in LiveConnections /\ req.source = connections[req.id]
    /\ req.step = "configs" => req.payload = secrets[connections[req.id].secret]
    /\ req.step = "put" => /\ req.id \in LiveConnections
                           /\ EnabledConfigsForSource(req.id) # {}
                           /\ req.compiled = Now(req.id)

\* What the request has read is what the tables hold.
Holds(req) ==
    /\ req.op = "update_connection" /\ req.step = "update" => req.id \in LiveConnections
    /\ req.op \in ConfigOps => ConfigHolds(req)
    /\ req.op = "assign" => AssignHolds(req)
    /\ req.op = "contract" => ContractHolds(req)
    /\ req.op = "materialize" => MaterializeHolds(req)

LEMMA NowStable == ASSUME UNCHANGED stored, NEW s PROVE Now(s)' = Now(s)
  BY DEF Now, Compiled, stored, EnabledConfigsForSource, LiveConfigs

LEMMA HoldsStable ==
    ASSUME UNCHANGED stored, NEW req PROVE Holds(req)' <=> Holds(req)
<1>1. /\ LiveConnections' = LiveConnections
      /\ LiveConfigs' = LiveConfigs
      /\ LiveWorkers' = LiveWorkers
      /\ EnabledConfigsForSource(req.id)' = EnabledConfigsForSource(req.id)
  BY DEF LiveConnections, LiveConfigs, LiveWorkers, EnabledConfigsForSource, stored
<1>2. QED
  BY <1>1, NowStable
     DEF Holds, ConfigHolds, AssignHolds, ContractHolds, MaterializeHolds, stored

LEMMA IdleHolds == Holds(Idle)
  BY DEF Holds, Idle, ConfigOps

-----------------------------------------------------------------------------
(* One step of a request: from what holds to the answer expected, or to    *)
(* what holds.                                                             *)

Proceeds(r) ==
    \/ \E a : /\ Answer(r, a)
              /\ Holds(request[r]) => a \in Expected(request[r])
    \/ \E req : /\ Continue(r, req)
                /\ req.op = request[r].op
                /\ req.op = "materialize" => req.id = request[r].id
                /\ Holds(request[r]) => Holds(req)

LEMMA Answers ==
    ASSUME NEW r, NEW a, Answer(r, a), Holds(request[r]) => a \in Expected(request[r])
    PROVE  Proceeds(r)
  BY DEF Proceeds

LEMMA Continues ==
    ASSUME NEW r, NEW req, Continue(r, req), req.op = request[r].op,
           req.op = "materialize" => req.id = request[r].id,
           Holds(request[r]) => Holds(req)
    PROVE  Proceeds(r)
  BY DEF Proceeds

LEMMA UpdateConnectionProceeds ==
    ASSUME Inv, NEW r \in Requests, GetConnectionToUpdate(r) \/ UpdateConnection(r)
    PROVE  Proceeds(r)
<1> DEFINE id == request[r].id
           req == [op |-> "update_connection", step |-> "update", id |-> id,
                   secret |-> connections[id].secret]
<1>1. request[r].op = "update_connection"
  BY DEF GetConnectionToUpdate, UpdateConnection, At
<1>2. Expected(request[r]) = IF id \in LiveConnections THEN {OK(id)} ELSE {NotFound}
  BY <1>1 DEF Expected, ConfigOps
<1>3. CASE GetConnectionToUpdate(r)
  <2>1. CASE id \in LiveConnections
    <3>1. Holds(req)
      BY <2>1 DEF Holds, ConfigOps
    <3>2. Continue(r, req)
      BY <1>3, <2>1 DEF GetConnectionToUpdate
    <3>3. QED
      BY <1>1, <3>1, <3>2, Continues
  <2>2. CASE id \notin LiveConnections
    BY <1>2, <1>3, <2>2, Answers DEF GetConnectionToUpdate
  <2>3. QED
    BY <2>1, <2>2
<1>4. CASE UpdateConnection(r)
  <2>1. Answer(r, IF id \in LiveConnections THEN OK(id) ELSE NotFound)
    BY <1>4 DEF UpdateConnection
  <2>2. QED
    BY <1>2, <2>1, Answers
<1>5. QED
  BY <1>3, <1>4

LEMMA ConfigProceeds ==
    ASSUME Inv, NEW r \in Requests,
           \/ GetConfigToUpdate(r)
           \/ GetConfigReference(r, "source", "destination")
           \/ GetConfigReference(r, "destination", "save")
           \/ SaveConfig(r)
    PROVE  Proceeds(r)
<1> DEFINE id == request[r].id
           row == request[r].row
<1>1. request[r].op \in ConfigOps
  BY DEF GetConfigToUpdate, GetConfigReference, SaveConfig, At, ConfigOps
<1>2. Expected(request[r]) =
        IF /\ request[r].op = "update_config" => id \in LiveConfigs
           /\ {row.source, row.destination} \subseteq LiveConnections
          THEN {OK(id)} ELSE {NotFound}
  BY <1>1 DEF Expected, ConfigOps
<1>3. Holds(request[r]) <=> ConfigHolds(request[r])
  BY <1>1 DEF Holds, ConfigOps
<1>4. ASSUME NEW step, Continue(r, ConfigStep(r, step)),
             Holds(request[r]) => ConfigHolds(ConfigStep(r, step))
      PROVE  Proceeds(r)
  <2>1. ConfigStep(r, step).op = request[r].op
    BY DEF ConfigStep
  <2>2. Holds(request[r]) => Holds(ConfigStep(r, step))
    BY <1>1, <1>4, <2>1 DEF Holds, ConfigOps
  <2>3. QED
    BY <1>1, <1>4, <2>1, <2>2, Continues DEF ConfigOps
<1>5. CASE GetConfigToUpdate(r)
  <2>1. CASE id \in LiveConfigs
    BY <1>4, <1>5, <2>1 DEF GetConfigToUpdate, ConfigStep, ConfigHolds
  <2>2. CASE id \notin LiveConfigs
    BY <1>2, <1>5, <2>2, Answers DEF GetConfigToUpdate, At
  <2>3. QED
    BY <2>1, <2>2
<1>6. CASE GetConfigReference(r, "source", "destination")
  <2>1. CASE row.source \in LiveConnections
    BY <1>3, <1>4, <1>6, <2>1 DEF GetConfigReference, ConfigStep, ConfigHolds
  <2>2. CASE row.source \notin LiveConnections
    BY <1>2, <1>6, <2>2, Answers DEF GetConfigReference
  <2>3. QED
    BY <2>1, <2>2
<1>7. CASE GetConfigReference(r, "destination", "save")
  <2>1. CASE row.destination \in LiveConnections
    BY <1>3, <1>4, <1>7, <2>1 DEF GetConfigReference, ConfigStep, ConfigHolds
  <2>2. CASE row.destination \notin LiveConnections
    BY <1>2, <1>7, <2>2, Answers DEF GetConfigReference
  <2>3. QED
    BY <2>1, <2>2
<1>8. CASE SaveConfig(r)
  <2>1. request[r].step = "save"
    BY <1>8 DEF SaveConfig
  <2>2. CASE request[r].op = "update_config" /\ id \notin LiveConfigs
    BY <1>2, <1>8, <2>2, Answers DEF SaveConfig
  <2>3. CASE /\ ~(request[r].op = "update_config" /\ id \notin LiveConfigs)
             /\ ~ReferencesHold(row)
    <3>1. Answer(r, Conflict)
      BY <1>8, <2>3 DEF SaveConfig
    <3>2. ~Holds(request[r])
      BY <1>3, <2>1, <2>3 DEF ConfigHolds, ReferencesHold
    <3>3. QED
      BY <3>1, <3>2, Answers
  <2>4. CASE /\ ~(request[r].op = "update_config" /\ id \notin LiveConfigs)
             /\ ReferencesHold(row)
    <3>1. Answer(r, OK(id))
      BY <1>8, <2>4 DEF SaveConfig
    <3>2. OK(id) \in Expected(request[r])
      BY <1>2, <2>4 DEF ReferencesHold
    <3>3. QED
      BY <3>1, <3>2, Answers
  <2>5. QED
    BY <2>2, <2>3, <2>4
<1>9. QED
  BY <1>5, <1>6, <1>7, <1>8

LEMMA AssignProceeds ==
    ASSUME Inv, NEW r \in Requests,
           GetWorkerToAssign(r) \/ GetConfigToAssign(r) \/ ReadAssignment(r)
    PROVE  Proceeds(r)
<1> DEFINE w == request[r].id
           c == request[r].config
<1>1. request[r].op = "assign" /\ w \in WorkerIds /\ c \in Configs
  BY DEF GetWorkerToAssign, GetConfigToAssign, ReadAssignment, At, Inv, RequestsOK,
         RequestOK, ConfigOps
<1>2. Expected(request[r]) =
        IF w \in LiveWorkers /\ c \in LiveConfigs
          THEN {OK([worker |-> w, config |-> c])} ELSE {NotFound}
  BY <1>1 DEF Expected, ConfigOps
<1>3. Holds(request[r]) <=> AssignHolds(request[r])
  BY <1>1 DEF Holds, ConfigOps
<1>4. ASSUME NEW step, NEW name, Continue(r, AssignStep(r, step, name)),
             Holds(request[r]) => AssignHolds(AssignStep(r, step, name))
      PROVE  Proceeds(r)
  <2>1. AssignStep(r, step, name).op = "assign"
    BY DEF AssignStep
  <2>2. Holds(request[r]) => Holds(AssignStep(r, step, name))
    BY <1>4, <2>1 DEF Holds, ConfigOps
  <2>3. QED
    BY <1>1, <1>4, <2>1, <2>2, Continues
<1>5. CASE GetWorkerToAssign(r)
  <2>1. CASE w \in LiveWorkers
    BY <1>4, <1>5, <2>1 DEF GetWorkerToAssign, AssignStep, AssignHolds
  <2>2. CASE w \notin LiveWorkers
    BY <1>2, <1>5, <2>2, Answers DEF GetWorkerToAssign
  <2>3. QED
    BY <2>1, <2>2
<1>6. CASE GetConfigToAssign(r)
  <2>1. CASE c \in LiveConfigs
    BY <1>3, <1>4, <1>6, <2>1 DEF GetConfigToAssign, AssignStep, AssignHolds, At
  <2>2. CASE c \notin LiveConfigs
    BY <1>2, <1>6, <2>2, Answers DEF GetConfigToAssign
  <2>3. QED
    BY <2>1, <2>2
<1>7. CASE ReadAssignment(r)
  <2>1. CASE ~Holds(request[r])
    <3>1. \E a : Answer(r, a)
      BY <1>7 DEF ReadAssignment
    <3>2. QED
      BY <2>1, <3>1, Answers
  <2>2. CASE Holds(request[r])
    <3>1. /\ w \in LiveWorkers /\ workers[w].worker_id = request[r].name
          /\ c \in LiveConfigs /\ assignments[w] = c
      BY <1>3, <1>7, <2>2 DEF AssignHolds, ReadAssignment, At
    <3>2. c # None
      BY <1>1, NoneIsNoRow
    <3>3. AssignmentOf(request[r].name) = {w}
      BY <3>1, <3>2 DEF AssignmentOf, Inv, TablesOK, NamesUnique
    <3>4. Answer(r, OK([worker |-> w, config |-> c]))
      BY <1>7, <3>1, <3>3 DEF ReadAssignment
    <3>5. QED
      BY <1>2, <3>1, <3>4, Answers
  <2>3. QED
    BY <2>1, <2>2
<1>8. QED
  BY <1>5, <1>6, <1>7

\* What is expected for the one worker of a name.
LEMMA ContractExpected ==
    ASSUME Inv, NEW req, req.op = "contract", NEW w \in LiveWorkers,
           workers[w].worker_id = req.name
    PROVE  LET row == configs[assignments[w]]
               d == connections[row.destination]
           IN  /\ ~workers[w].enabled => Expected(req) = {Invalid}
               /\ workers[w].enabled /\ assignments[w] = None => Expected(req) = {NotFound}
               /\ workers[w].enabled /\ assignments[w] # None =>
                    Expected(req) = IF row.enabled
                      THEN {Contract(w, assignments[w], row, d, secrets[d.secret])}
                      ELSE {Invalid}
<1> DEFINE named == {v \in LiveWorkers : workers[v].worker_id = req.name}
<1>1. named = {w}
  BY DEF Inv, TablesOK, NamesUnique
<1>2. (CHOOSE v \in named : TRUE) = w
  BY <1>1
<1> HIDE DEF named
<1>3. Expected(req) =
        LET v == CHOOSE x \in named : TRUE
            row == configs[assignments[v]]
            d == connections[row.destination]
        IN  CASE named = {} -> {NotFound}
              [] named # {} /\ ~workers[v].enabled -> {Invalid}
              [] named # {} /\ workers[v].enabled /\ assignments[v] = None -> {NotFound}
              [] OTHER -> IF row.enabled
                            THEN {Contract(v, assignments[v], row, d, secrets[d.secret])}
                            ELSE {Invalid}
  BY DEF Expected, ConfigOps, named
<1>4. QED
  BY <1>1, <1>2, <1>3

LEMMA ContractProceeds ==
    ASSUME Inv, NEW r \in Requests,
           \/ GetWorker(r) \/ GetAssignment(r) \/ GetConfig(r)
           \/ GetSource(r) \/ GetDestination(r) \/ GetSecret(r)
    PROVE  Proceeds(r)
<1> DEFINE name == request[r].name
           w == request[r].worker
           c == request[r].config
           row == request[r].row
           d == row.destination
<1>1. request[r].op = "contract"
  BY DEF GetWorker, GetAssignment, GetConfig, GetSource, GetDestination, GetSecret, At
<1>2. Holds(request[r]) <=> ContractHolds(request[r])
  BY <1>1 DEF Holds, ConfigOps
<1>3. ASSUME NEW req, Continue(r, req), req.op = "contract",
             Holds(request[r]) => ContractHolds(req)
      PROVE  Proceeds(r)
  <2>1. Holds(request[r]) => Holds(req)
    BY <1>3 DEF Holds, ConfigOps
  <2>2. QED
    BY <1>1, <1>3, <2>1, Continues
<1>4. ASSUME NEW a, Answer(r, a), ~Holds(request[r]) PROVE Proceeds(r)
  BY <1>4, Answers
<1>5. ChainResolves
  BY DEF Inv, TablesOK
<1>6. CASE GetWorker(r)
  <2> DEFINE named == {v \in LiveWorkers : workers[v].worker_id = name}
             next(v) == [op |-> "contract", step |-> "assignment", name |-> name, worker |-> v]
  <2>1. CASE named = {}
    <3>1. Expected(request[r]) = {NotFound}
      BY <1>1, <2>1 DEF Expected, ConfigOps
    <3>2. Answer(r, NotFound)
      BY <1>6, <2>1 DEF GetWorker
    <3>3. QED
      BY <3>1, <3>2, Answers
  <2>2. ASSUME NEW v \in named,
               IF workers[v].enabled THEN Continue(r, next(v)) ELSE Answer(r, Invalid)
        PROVE  Proceeds(r)
    <3>1. CASE workers[v].enabled
      <4>1. ContractHolds(next(v))
        BY <2>2, <3>1 DEF ContractHolds
      <4>2. QED
        BY <1>3, <2>2, <3>1, <4>1
    <3>2. CASE ~workers[v].enabled
      BY <1>1, <2>2, <3>2, ContractExpected, Answers
    <3>3. QED
      BY <3>1, <3>2
  <2>3. QED
    BY <1>6, <2>1, <2>2 DEF GetWorker
<1>7. CASE GetAssignment(r)
  <2> DEFINE next(v) == [op |-> "contract", step |-> "config", name |-> name,
                         worker |-> w, config |-> assignments[v]]
  <2>1. Holds(request[r]) =>
          w \in LiveWorkers /\ workers[w].worker_id = name /\ workers[w].enabled
    BY <1>2, <1>7 DEF ContractHolds, GetAssignment, At
  <2>2. CASE AssignmentOf(name) = {}
    <3>1. Answer(r, NotFound)
      BY <1>7, <2>2 DEF GetAssignment
    <3>2. Holds(request[r]) => Expected(request[r]) = {NotFound}
      BY <1>1, <2>1, <2>2, ContractExpected DEF AssignmentOf
    <3>3. QED
      BY <3>1, <3>2, Answers
  <2>3. ASSUME NEW v \in AssignmentOf(name), Continue(r, next(v)) PROVE Proceeds(r)
    <3>1. Holds(request[r]) => v = w
      BY <2>1, <2>3 DEF AssignmentOf, Inv, TablesOK, NamesUnique
    <3>2. Holds(request[r]) => ContractHolds(next(v))
      BY <2>1, <2>3, <3>1 DEF AssignmentOf, ContractHolds
    <3>3. QED
      BY <1>3, <2>3, <3>2
  <2>4. QED
    BY <1>7, <2>2, <2>3 DEF GetAssignment
<1>8. CASE GetConfig(r)
  <2> DEFINE next == [op |-> "contract", step |-> "source", name |-> name,
                      worker |-> w, config |-> c, row |-> configs[c]]
  <2>1. Holds(request[r]) =>
          /\ w \in LiveWorkers /\ workers[w].worker_id = name /\ workers[w].enabled
          /\ assignments[w] # None /\ c = assignments[w]
    BY <1>2, <1>8 DEF ContractHolds, GetConfig, At
  <2>2. Holds(request[r]) => c \in LiveConfigs
    BY <1>5, <2>1 DEF ChainResolves, LiveWorkers
  <2>3. CASE c \in LiveConfigs /\ configs[c].enabled
    <3>1. Continue(r, next)
      BY <1>8, <2>3 DEF GetConfig
    <3>2. Holds(request[r]) => ContractHolds(next)
      BY <2>1, <2>3 DEF ContractHolds
    <3>3. QED
      BY <1>3, <3>1, <3>2
  <2>4. CASE ~(c \in LiveConfigs /\ configs[c].enabled)
    <3>1. Answer(r, Invalid)
      BY <1>8, <2>4 DEF GetConfig
    <3>2. Holds(request[r]) => Expected(request[r]) = {Invalid}
      BY <1>1, <2>1, <2>2, <2>4, ContractExpected
    <3>3. QED
      BY <3>1, <3>2, Answers
  <2>5. QED
    BY <2>3, <2>4
<1>9. ASSUME Holds(request[r]), request[r].step \in {"source", "destination", "secret"}
      PROVE  /\ w \in LiveWorkers /\ workers[w].worker_id = name /\ workers[w].enabled
             /\ assignments[w] # None /\ c = assignments[w]
             /\ row = configs[c] /\ row.enabled
             /\ row.source \in LiveConnections /\ d \in LiveConnections
  <2>1. /\ w \in LiveWorkers /\ workers[w].worker_id = name /\ workers[w].enabled
        /\ assignments[w] # None /\ c = assignments[w]
        /\ row = configs[c] /\ row.enabled
    BY <1>2, <1>9 DEF ContractHolds
  <2>2. c \in LiveConfigs
    BY <1>5, <2>1 DEF ChainResolves, LiveWorkers
  <2>3. QED
    BY <1>5, <2>1, <2>2 DEF ChainResolves
<1>10. CASE GetSource(r)
  <2> DEFINE next == [op |-> "contract", step |-> "destination", name |-> name,
                      worker |-> w, config |-> c, row |-> row]
  <2>1. CASE row.source \in LiveConnections
    <3>1. Continue(r, next)
      BY <1>10, <2>1 DEF GetSource
    <3>2. Holds(request[r]) => ContractHolds(next)
      BY <1>9, <1>10 DEF ContractHolds, GetSource, At
    <3>3. QED
      BY <1>3, <3>1, <3>2
  <2>2. CASE row.source \notin LiveConnections
    BY <1>4, <1>9, <1>10, <2>2 DEF GetSource, At
  <2>3. QED
    BY <2>1, <2>2
<1>11. CASE GetDestination(r)
  <2> DEFINE next == [op |-> "contract", step |-> "secret", name |-> name,
                      worker |-> w, config |-> c, row |-> row,
                      destination |-> connections[d]]
  <2>1. CASE d \in LiveConnections
    <3>1. Continue(r, next)
      BY <1>11, <2>1 DEF GetDestination
    <3>2. Holds(request[r]) => ContractHolds(next)
      BY <1>9, <1>11 DEF ContractHolds, GetDestination, At
    <3>3. QED
      BY <1>3, <3>1, <3>2
  <2>2. CASE d \notin LiveConnections
    BY <1>4, <1>9, <1>11, <2>2 DEF GetDestination, At
  <2>3. QED
    BY <2>1, <2>2
<1>12. CASE GetSecret(r)
  <2> DEFINE payload == secrets[request[r].destination.secret]
  <2>1. Holds(request[r]) => request[r].destination = connections[d]
    BY <1>2, <1>12 DEF ContractHolds, GetSecret, At
  <2>2. CASE payload = None
    <3>1. Answer(r, Invalid)
      BY <1>12, <2>2 DEF GetSecret
    <3>2. ~Holds(request[r])
      BY <1>9, <1>12, <2>1, <2>2 DEF GetSecret, At, Inv, TablesOK, OwnSecrets
    <3>3. QED
      BY <1>4, <3>1, <3>2
  <2>3. CASE payload # None
    <3>1. Answer(r, Contract(w, c, row, request[r].destination, payload))
      BY <1>12, <2>3 DEF GetSecret
    <3>2. ASSUME Holds(request[r])
          PROVE  Contract(w, c, row, request[r].destination, payload) \in Expected(request[r])
      BY <1>1, <1>9, <1>12, <2>1, <3>2, ContractExpected DEF GetSecret, At
    <3>3. QED
      BY <3>1, <3>2, Answers
  <2>4. QED
    BY <2>2, <2>3
<1>13. QED
  BY <1>6, <1>7, <1>8, <1>10, <1>11, <1>12

LEMMA MaterializeProceeds ==
    ASSUME Inv, NEW r \in Requests,
           GetSourceConnection(r) \/ GetCredentials(r) \/ ListConfigs(r) \/ PutStep(r)
    PROVE  Proceeds(r)
<1> DEFINE s == request[r].id
<1>1. request[r].op = "materialize"
  BY DEF GetSourceConnection, GetCredentials, ListConfigs, PutStep, PutAccepted, PutFails, At
<1>2. Holds(request[r]) <=> MaterializeHolds(request[r])
  BY <1>1 DEF Holds, ConfigOps
<1>3. ASSUME NEW req, Continue(r, req), req.op = "materialize", req.id = s,
             Holds(request[r]) => MaterializeHolds(req)
      PROVE  Proceeds(r)
  <2>1. Holds(request[r]) => Holds(req)
    BY <1>3 DEF Holds, ConfigOps
  <2>2. QED
    BY <1>1, <1>3, <2>1, Continues
<1>4. /\ s \notin LiveConnections => Expected(request[r]) = {NotFound}
      /\ s \in LiveConnections /\ EnabledConfigsForSource(s) = {} =>
           Expected(request[r]) = {Invalid}
      /\ s \in LiveConnections /\ EnabledConfigsForSource(s) # {} =>
           Expected(request[r]) = {BadGateway, OK(Now(s))}
  BY <1>1 DEF Expected, ConfigOps, Now
<1>5. CASE GetSourceConnection(r)
  <2>1. CASE s \in LiveConnections
    BY <1>3, <1>5, <2>1 DEF GetSourceConnection, MaterializeHolds
  <2>2. CASE s \notin LiveConnections
    BY <1>4, <1>5, <2>2, Answers DEF GetSourceConnection
  <2>3. QED
    BY <2>1, <2>2
<1>6. CASE GetCredentials(r)
  <2> DEFINE payload == secrets[request[r].source.secret]
             next == [op |-> "materialize", step |-> "configs", id |-> s,
                      source |-> request[r].source, payload |-> payload]
  <2>1. Holds(request[r]) => s \in LiveConnections /\ request[r].source = connections[s]
    BY <1>2, <1>6 DEF MaterializeHolds, GetCredentials, At
  <2>2. CASE payload = None
    <3>1. ~Holds(request[r])
      BY <2>1, <2>2 DEF Inv, TablesOK, OwnSecrets
    <3>2. QED
      BY <1>6, <2>2, <3>1, Answers DEF GetCredentials
  <2>3. CASE payload # None
    <3>1. Continue(r, next)
      BY <1>6, <2>3 DEF GetCredentials
    <3>2. Holds(request[r]) => MaterializeHolds(next)
      BY <2>1 DEF MaterializeHolds
    <3>3. QED
      BY <1>3, <3>1, <3>2
  <2>4. QED
    BY <2>2, <2>3
<1>7. CASE ListConfigs(r)
  <2> DEFINE cs == EnabledConfigsForSource(s)
             compiled == Compiled(request[r].source, request[r].payload, cs)
             next == [op |-> "materialize", step |-> "put", id |-> s, compiled |-> compiled]
  <2>1. Holds(request[r]) => s \in LiveConnections /\ compiled = Now(s)
    BY <1>2, <1>7 DEF MaterializeHolds, ListConfigs, At, Now
  <2>2. CASE cs = {}
    BY <1>4, <1>7, <2>1, <2>2, Answers DEF ListConfigs
  <2>3. CASE cs # {}
    <3>1. Continue(r, next)
      BY <1>7, <2>3 DEF ListConfigs
    <3>2. Holds(request[r]) => MaterializeHolds(next)
      BY <2>1, <2>3 DEF MaterializeHolds
    <3>3. QED
      BY <1>3, <3>1, <3>2
  <2>4. QED
    BY <2>2, <2>3
<1>8. CASE PutStep(r)
  <2>1. Holds(request[r]) => OK(request[r].compiled) \in Expected(request[r])
                             /\ BadGateway \in Expected(request[r])
    BY <1>2, <1>4, <1>8 DEF MaterializeHolds, PutStep, PutAccepted, PutFails, At
  <2>2. Answer(r, OK(request[r].compiled)) \/ Answer(r, BadGateway)
    BY <1>8 DEF PutStep, PutAccepted, PutFails
  <2>3. QED
    BY <2>1, <2>2, Answers
<1>9. QED
  BY <1>5, <1>6, <1>7, <1>8

LEMMA StepProceeds ==
    ASSUME Inv, NEW r \in Requests, Step(r), ~SaveAssignment(r)
    PROVE  Proceeds(r)
  BY UpdateConnectionProceeds, ConfigProceeds, AssignProceeds, ContractProceeds,
     MaterializeProceeds
     DEF Step, PutStep

-----------------------------------------------------------------------------
(* Requests that nobody has overtaken. *)

Fresh == \A r \in Requests \ overtaken : Holds(request[r])

\* A step of one request without a write: the others are not concerned.
LEMMA FreshRead ==
    ASSUME Inv, Fresh, UNCHANGED stored, NEW r \in Requests, NEW req,
           request' = [request EXCEPT ![r] = req],
           overtaken \ {r} \subseteq overtaken',
           r \in overtaken' \/ Holds(req)
    PROVE  Fresh'
<1>1. ASSUME NEW q \in Requests \ overtaken' PROVE Holds(request'[q])
  <2>1. CASE q = r
    BY <1>1, <2>1 DEF Inv, RequestsOK
  <2>2. CASE q # r
    BY <1>1, <2>2 DEF Fresh
  <2>3. QED
    BY <2>1, <2>2
<1>2. QED
  BY <1>1, HoldsStable DEF Fresh

\* A write overtakes everybody else.
LEMMA FreshWrite ==
    ASSUME Inv, NEW writers, Write(writers),
           \A q \in writers \cap Requests : Holds(request[q])',
           \A q \in Requests \ writers : request'[q] = request[q]
    PROVE  Fresh'
<1>1. Holds(Idle)'
  BY DEF Holds, Idle, ConfigOps
<1>2. ASSUME NEW q \in Requests \ overtaken' PROVE Holds(request[q])'
  <2>1. CASE q \in writers
    BY <2>1
  <2>2. CASE q \notin writers
    <3>1. request'[q] = Idle
      BY <1>2, <2>2 DEF Write, Busy
    <3>2. QED
      BY <1>1, <3>1
  <2>3. QED
    BY <2>1, <2>2
<1>3. QED
  BY <1>2 DEF Fresh

LEMMA BeginFresh ==
    ASSUME Inv, Fresh, UNCHANGED <<stored, overtaken>>, NEW r \in Requests, NEW req,
           request' = [request EXCEPT ![r] = req], Holds(req)
    PROVE  Fresh'
  BY FreshRead

LEMMA StartFresh == ASSUME Inv, Fresh, NEW r \in Requests, Start(r) PROVE Fresh'
<1> USE DEF Begin, Holds, ConfigOps
<1>1. ASSUME NEW id \in Connections, update_connection(r, id) PROVE Fresh'
  BY <1>1, BeginFresh DEF update_connection
<1>2. ASSUME NEW op \in ConfigOps, NEW c \in Configs, NEW row \in ConfigRequest,
             save_config(r, op, c, row)
      PROVE  Fresh'
  <2> DEFINE step == IF op = "create_config" THEN "source" ELSE "config"
             req == [op |-> op, step |-> step, id |-> c, row |-> row]
  <2>1. Holds(req)
    BY DEF ConfigHolds
  <2>2. request' = [request EXCEPT ![r] = req] /\ UNCHANGED <<stored, overtaken>>
    BY <1>2 DEF save_config
  <2>3. QED
    BY <2>1, <2>2, BeginFresh
<1>3. ASSUME NEW w \in WorkerIds, NEW c \in Configs, assign_config_to_worker(r, w, c)
      PROVE  Fresh'
  BY <1>3, BeginFresh DEF assign_config_to_worker, AssignHolds
<1>4. ASSUME NEW name \in Names, get_worker_runtime_config(r, name) PROVE Fresh'
  BY <1>4, BeginFresh DEF get_worker_runtime_config, ContractHolds
<1>5. ASSUME NEW s \in Sources, materialize_source_connector(r, s) PROVE Fresh'
  BY <1>5, BeginFresh DEF materialize_source_connector, MaterializeHolds
<1>6. QED
  BY <1>1, <1>2, <1>3, <1>4, <1>5 DEF Start

\* Where a step that proceeds leaves the request.
GoesTo(r, req) ==
    /\ request' = [request EXCEPT ![r] = req]
    /\ r \in overtaken \/ Holds(req)
    /\ req # Idle => /\ req.op = request[r].op
                     /\ req.op = "materialize" => req.id = request[r].id

LEMMA ProceedsTo ==
    ASSUME Inv, Fresh, NEW r \in Requests, Proceeds(r) PROVE \E req : GoesTo(r, req)
<1>1. ASSUME NEW a, Answer(r, a) PROVE GoesTo(r, Idle)
  BY <1>1, IdleHolds DEF Answer, GoesTo
<1>2. ASSUME NEW req, Continue(r, req), Holds(request[r]) => Holds(req),
             req.op = request[r].op, req.op = "materialize" => req.id = request[r].id
      PROVE  GoesTo(r, req)
  BY <1>2 DEF Continue, Fresh, GoesTo
<1>3. QED
  BY <1>1, <1>2 DEF Proceeds

LEMMA StepFresh == ASSUME Inv, Fresh, NEW r \in Requests, Step(r) PROVE Fresh'
<1>1. CASE SaveAssignment(r)
  <2> DEFINE w == request[r].id
             c == request[r].config
             req == AssignStep(r, "read", request[r].name)
  <2>1. CASE Answer(r, ServerError) /\ Read(r)
    BY <2>1, FreshRead, IdleHolds DEF Answer, Read, Inv, RequestsOK
  <2>2. CASE /\ w \in LiveWorkers /\ c \in LiveConfigs
             /\ assignments' = [assignments EXCEPT ![w] = c]
             /\ Continue(r, req)
             /\ Write({r} \ overtaken)
             /\ UNCHANGED <<secrets, connections, configs, workers>>
    <3>1. /\ request'[r] = req
          /\ \A q \in Requests \ {r} : request'[q] = request[q]
      BY <2>2 DEF Continue, Inv, RequestsOK
    <3>2. w \in WorkerIds /\ request[r].op = "assign" /\ request[r].step = "save"
      BY <1>1 DEF SaveAssignment, At, Inv, RequestsOK, RequestOK, ConfigOps
    <3>3. /\ w \in LiveWorkers' /\ c \in LiveConfigs' /\ assignments'[w] = c
          /\ workers'[w] = workers[w]
      BY <2>2, <3>2 DEF LiveWorkers, LiveConfigs, Inv, TablesOK, TablesTyped
    <3>4. ASSUME r \notin overtaken PROVE Holds(request[r])'
      <4>1. workers[w].worker_id = request[r].name
        BY <3>2, <3>4 DEF Fresh, Holds, AssignHolds
      <4>2. request'[r] = [op |-> "assign", step |-> "read", id |-> w, config |-> c,
                           name |-> request[r].name]
        BY <3>1 DEF AssignStep
      <4>3. AssignHolds(request[r])'
        BY <3>3, <4>1, <4>2 DEF AssignHolds
      <4>4. QED
        BY <4>2, <4>3 DEF Holds, ConfigOps
    <3>5. ASSUME NEW q \in Requests \ overtaken' PROVE Holds(request[q])'
      <4>1. CASE q = r /\ r \notin overtaken
        BY <3>4, <4>1
      <4>2. CASE ~(q = r /\ r \notin overtaken)
        <5>1. q # r /\ request[q] = Idle
          BY <2>2, <3>2, <3>5, <4>2 DEF Write, Busy, Idle
        <5>2. request'[q] = Idle
          BY <3>1, <5>1
        <5>3. QED
          BY <5>2 DEF Holds, Idle, ConfigOps
      <4>3. QED
        BY <4>1, <4>2
    <3>6. QED
      BY <3>5 DEF Fresh
  <2>3. QED
    BY <1>1, <2>1, <2>2 DEF SaveAssignment
<1>2. CASE ~SaveAssignment(r)
  <2>1. PICK req : GoesTo(r, req)
    BY <1>2, StepProceeds, ProceedsTo
  <2>2. CASE Read(r) \/ PutStep(r)
    <3>1. UNCHANGED stored /\ overtaken \ {r} \subseteq overtaken'
      BY <2>2 DEF Read, PutStep, PutAccepted, PutFails, Settle
    <3>2. r \in overtaken' \/ Holds(req)
      <4>1. CASE request'[r] = Idle
        BY <2>1, <4>1, IdleHolds DEF Inv, RequestsOK, GoesTo
      <4>2. CASE request'[r] # Idle
        <5>1. ~PutStep(r)
          BY <4>2 DEF PutStep, PutAccepted, PutFails, Answer, Inv, RequestsOK
        <5>2. QED
          BY <2>1, <2>2, <4>2, <5>1 DEF Read, GoesTo
      <4>3. QED
        BY <4>1, <4>2
    <3>3. QED
      BY <2>1, <3>1, <3>2, FreshRead DEF GoesTo
  <2>3. CASE Write({r}) /\ \E a : Answer(r, a)
    <3>1. /\ request'[r] = Idle
          /\ \A q \in Requests \ {r} : request'[q] = request[q]
      BY <2>3 DEF Answer, Inv, RequestsOK
    <3>2. Holds(request[r])'
      BY <3>1 DEF Holds, Idle, ConfigOps
    <3>3. QED
      BY <2>3, <3>1, <3>2, FreshWrite
  <2>4. QED
    BY <1>2, <2>2, <2>3
       DEF Step, GetConnectionToUpdate, UpdateConnection, GetConfigToUpdate,
           GetConfigReference, SaveConfig, GetWorkerToAssign, GetConfigToAssign,
           ReadAssignment, GetWorker, GetAssignment, GetConfig, GetSource,
           GetDestination, GetSecret, GetSourceConnection, GetCredentials, ListConfigs,
           PutStep
<1>3. QED
  BY <1>1, <1>2

-----------------------------------------------------------------------------
(* Kafka Connect.  Nothing on its way to a settled source can change what  *)
(* it runs: no request that prepared its PUT before the last write, and no *)
(* delayed PUT but of the present configuration.                           *)

SettledOK ==
    \A s \in settled :
        /\ s \in LiveConnections
        /\ connectors[s] = Now(s)
        /\ \A q \in overtaken : request[q].op = "materialize" => request[q].id # s
        /\ \A put \in delayed : put.id = s => put.compiled = Now(s)

DomainsOK == DOMAIN answer = Requests /\ DOMAIN connectors = Sources

AllInv == Inv /\ Fresh /\ SettledOK /\ DomainsOK

LEMMA InitAllInv == Init => AllInv
<1> SUFFICES ASSUME Init PROVE AllInv
  OBVIOUS
<1>1. Inv
  BY InitInv
<1>2. Fresh
  BY IdleHolds DEF Init, Fresh
<1>3. SettledOK /\ DomainsOK
  BY DEF Init, SettledOK, DomainsOK
<1>4. QED
  BY <1>1, <1>2, <1>3 DEF AllInv

LEMMA DomainsNext == DomainsOK /\ [Next]_vars => DomainsOK'
<1> SUFFICES ASSUME DomainsOK, [Next]_vars PROVE DomainsOK'
  OBVIOUS
<1>1. CASE UNCHANGED <<connectors, answer>>
  BY <1>1 DEF DomainsOK
<1>2. ASSUME NEW r \in Requests, Start(r) PROVE UNCHANGED <<connectors, answer>>
  BY <1>2 DEF Start, update_connection, save_config, assign_config_to_worker,
       get_worker_runtime_config, materialize_source_connector, Begin, external
<1>3. ASSUME NEW r \in Requests, Step(r) PROVE DomainsOK'
  <2>1. DOMAIN connectors' = DOMAIN connectors
    BY <1>3 DEF Step, GetConnectionToUpdate, UpdateConnection, GetConfigToUpdate,
         GetConfigReference, SaveConfig, GetWorkerToAssign, GetConfigToAssign,
         SaveAssignment, ReadAssignment, GetWorker, GetAssignment, GetConfig, GetSource,
         GetDestination, GetSecret, GetSourceConnection, GetCredentials, ListConfigs,
         PutAccepted, PutFails, external
  <2>2. DOMAIN answer' = DOMAIN answer
    <3>1. ASSUME NEW a, Answer(r, a) PROVE DOMAIN answer' = DOMAIN answer
      BY <3>1 DEF Answer
    <3>2. ASSUME NEW req, Continue(r, req) PROVE answer' = answer
      BY <3>2 DEF Continue
    <3>3. QED
      BY <1>3, <3>1, <3>2
         DEF Step, GetConnectionToUpdate, UpdateConnection, GetConfigToUpdate,
             GetConfigReference, SaveConfig, GetWorkerToAssign, GetConfigToAssign,
             SaveAssignment, ReadAssignment, GetWorker, GetAssignment, GetConfig,
             GetSource, GetDestination, GetSecret, GetSourceConnection, GetCredentials,
             ListConfigs, PutAccepted, PutFails
  <2>3. QED
    BY <2>1, <2>2 DEF DomainsOK
<1>4. CASE Single
  BY <1>1, <1>4 DEF Single, create_source_connection, create_destination,
       save_connection_with_credentials, delete_source_connection, delete_destination,
       delete_connection, delete_config, save_worker, delete_worker, external
<1>5. CASE PutArrives
  BY <1>5 DEF PutArrives, DomainsOK
<1>6. CASE UNCHANGED vars
  BY <1>1, <1>6 DEF vars
<1>7. QED
  BY <1>1, <1>2, <1>3, <1>4, <1>5, <1>6 DEF Next

LEMMA NextFresh == Inv /\ Fresh /\ [Next]_vars => Fresh'
<1> SUFFICES ASSUME Inv, Fresh, [Next]_vars PROVE Fresh'
  OBVIOUS
<1>1. ASSUME UNCHANGED <<stored, request, overtaken>> PROVE Fresh'
  BY <1>1, HoldsStable DEF Fresh
<1>2. CASE Single
  <2>1. Write({}) /\ UNCHANGED request
    BY <1>2 DEF Single, create_source_connection, create_destination,
         save_connection_with_credentials, delete_source_connection, delete_destination,
         delete_connection, delete_config, save_worker, delete_worker
  <2>2. QED
    BY <2>1, FreshWrite
<1>3. CASE PutArrives
  BY <1>1, <1>3 DEF PutArrives
<1>4. CASE UNCHANGED vars
  BY <1>1, <1>4 DEF vars, stored
<1>5. QED
  BY <1>2, <1>3, <1>4, StartFresh, StepFresh DEF Next

\* Nothing that has been settled changes unless somebody writes.
LEMMA SettledStable ==
    ASSUME Inv, SettledOK, UNCHANGED <<stored, connectors, delayed>>,
           settled' \subseteq settled, overtaken' \subseteq overtaken,
           \A q \in overtaken' : request'[q].op = "materialize" =>
             request[q].op = "materialize" /\ request'[q].id = request[q].id
    PROVE  SettledOK'
<1>1. ASSUME NEW s PROVE Now(s)' = Now(s)
  BY NowStable
<1>2. LiveConnections' = LiveConnections
  BY DEF LiveConnections, stored
<1>3. QED
  BY <1>1, <1>2 DEF SettledOK

LEMMA PutSettled ==
    ASSUME AllInv, NEW r \in Requests, PutStep(r) PROVE SettledOK'
<1> DEFINE s == request[r].id
           compiled == request[r].compiled
<1>1. /\ s \in Sources
      /\ request[r].op = "materialize" /\ request[r].step = "put"
  BY DEF AllInv, Inv, RequestsOK, RequestOK, PutStep, PutAccepted, PutFails, At
<1>2. /\ UNCHANGED stored
      /\ overtaken' = overtaken \ {r}
      /\ \A q \in overtaken' : request'[q] = request[q]
  BY DEF PutStep, PutAccepted, PutFails, Settle, Answer, AllInv, Inv, RequestsOK,
         HistoryOK, Busy
<1>3. LiveConnections' = LiveConnections /\ \A t : Now(t)' = Now(t)
  BY <1>2, NowStable DEF LiveConnections, stored
<1>4. r \notin overtaken => s \in LiveConnections /\ compiled = Now(s)
  BY <1>1 DEF AllInv, Fresh, Holds, MaterializeHolds, ConfigOps
<1>5. ASSUME NEW t \in settled PROVE t # s \/ r \notin overtaken
  BY <1>1, <1>5 DEF AllInv, SettledOK
<1>6. \A t \in Sources : connectors'[t] = connectors[t] \/ (t = s /\ connectors'[t] = compiled)
  BY DEF PutStep, PutAccepted, PutFails, AllInv, DomainsOK, external
<1>7. \A put \in delayed' : put \in delayed \/ put = [id |-> s, compiled |-> compiled]
  BY DEF PutStep, PutAccepted, PutFails, external
<1>8. ASSUME NEW t \in settled
      PROVE  /\ t \in LiveConnections
             /\ connectors'[t] = Now(t)
             /\ \A q \in overtaken' : request'[q].op = "materialize" => request'[q].id # t
             /\ \A put \in delayed' : put.id = t => put.compiled = Now(t)
  <2>1. t \in Sources
    BY DEF AllInv, Inv, HistoryOK
  <2>2. connectors'[t] = Now(t)
    BY <1>4, <1>5, <1>6, <2>1 DEF AllInv, SettledOK
  <2>3. \A put \in delayed' : put.id = t => put.compiled = Now(t)
    BY <1>4, <1>5, <1>7 DEF AllInv, SettledOK
  <2>4. QED
    BY <1>2, <2>2, <2>3 DEF AllInv, SettledOK
<1>9. ASSUME s \in settled' \ settled
      PROVE  /\ s \in LiveConnections
             /\ connectors'[s] = Now(s)
             /\ \A q \in overtaken' : request'[q].op = "materialize" => request'[q].id # s
             /\ \A put \in delayed' : put.id = s => put.compiled = Now(s)
  <2>1. /\ answer'[r].status = 200
        /\ \A q \in overtaken : request[q].op = "materialize" => request[q].id # s
        /\ \A put \in delayed : put.id # s
    BY <1>9 DEF PutStep, PutAccepted, PutFails, Settle
  <2>2. ~PutFails(r)
    BY <2>1 DEF PutFails, Answer, BadGateway, AllInv, DomainsOK
  <2>3. connectors' = [connectors EXCEPT ![s] = compiled] /\ delayed' = delayed
    BY <2>2 DEF PutStep, PutAccepted
  <2>4. s \in LiveConnections /\ compiled = Now(s)
    BY <1>1, <1>4, <2>1
  <2>5. QED
    BY <1>1, <1>2, <2>1, <2>3, <2>4 DEF AllInv, DomainsOK
<1>10. settled' \subseteq settled \cup {s}
  BY DEF PutStep, PutAccepted, PutFails, Settle
<1>11. QED
  BY <1>3, <1>8, <1>9, <1>10 DEF SettledOK

LEMMA NextSettled == AllInv /\ [Next]_vars => SettledOK'
<1> SUFFICES ASSUME AllInv, [Next]_vars PROVE SettledOK'
  OBVIOUS
<1> USE DEF AllInv
<1>1. ASSUME NEW writers, Write(writers) PROVE SettledOK'
  BY <1>1 DEF Write, SettledOK
<1>2. ASSUME NEW r \in Requests, Start(r) PROVE SettledOK'
  <2>1. /\ UNCHANGED <<stored, connectors, delayed, settled, overtaken>>
        /\ request[r] = Idle
        /\ \E req : request' = [request EXCEPT ![r] = req]
    BY <1>2 DEF Start, update_connection, save_config, assign_config_to_worker,
         get_worker_runtime_config, materialize_source_connector, Begin, external
  <2>2. \A q \in overtaken : request'[q] = request[q]
    BY <2>1 DEF Inv, HistoryOK, Busy, RequestsOK
  <2>3. QED
    BY <2>1, <2>2, SettledStable
<1>3. ASSUME NEW r \in Requests, ReadStep(r) PROVE SettledOK'
  <2>1. Step(r) /\ ~SaveAssignment(r)
    BY <1>3 DEF ReadStep, Step, SaveAssignment, At, GetConnectionToUpdate,
         GetConfigToUpdate, GetConfigReference, GetWorkerToAssign, GetConfigToAssign,
         ReadAssignment, GetWorker, GetAssignment, GetConfig, GetSource, GetDestination,
         GetSecret, GetSourceConnection, GetCredentials, ListConfigs, ConfigOps
  <2>2. PICK req : GoesTo(r, req)
    BY <2>1, StepProceeds, ProceedsTo
  <2>3. Read(r) /\ UNCHANGED external
    BY <1>3 DEF ReadStep, GetConnectionToUpdate,
         GetConfigToUpdate, GetConfigReference, GetWorkerToAssign, GetConfigToAssign,
         ReadAssignment, GetWorker, GetAssignment, GetConfig, GetSource, GetDestination,
         GetSecret, GetSourceConnection, GetCredentials, ListConfigs
  <2>4. \A q \in overtaken' : request'[q].op = "materialize" =>
          request[q].op = "materialize" /\ request'[q].id = request[q].id
    BY <2>2, <2>3 DEF GoesTo, Read, Inv, HistoryOK, Busy, RequestsOK, Idle
  <2>5. QED
    BY <2>3, <2>4, SettledStable DEF Read, external
<1>4. ASSUME NEW r \in Requests, Step(r), ~ReadStep(r) PROVE SettledOK'
  <2>1. CASE PutStep(r)
    BY <2>1, PutSettled
  <2>2. CASE UpdateConnection(r) \/ SaveConfig(r) \/ SaveAssignment(r)
    <3>1. CASE (\E a : Answer(r, a)) /\ Read(r)
      <4>1. \A q \in overtaken' : q # r /\ request'[q] = request[q]
        BY <3>1 DEF Answer, Read, Inv, HistoryOK, Busy, RequestsOK
      <4>2. UNCHANGED external
        BY <2>2 DEF UpdateConnection, SaveConfig, SaveAssignment
      <4>3. QED
        BY <3>1, <4>1, <4>2, SettledStable DEF Read, external
    <3>2. CASE Write({r}) \/ Write({r} \ overtaken)
      BY <1>1, <3>2
    <3>3. QED
      BY <2>2, <3>1, <3>2 DEF UpdateConnection, SaveConfig, SaveAssignment
  <2>3. QED
    BY <1>4, <2>1, <2>2 DEF Step, ReadStep, PutStep
<1>5. CASE Single
  BY <1>1, <1>5 DEF Single, create_source_connection, create_destination,
       save_connection_with_credentials, delete_source_connection, delete_destination,
       delete_connection, delete_config, save_worker, delete_worker
<1>6. CASE PutArrives
  <2>1. PICK put \in delayed : /\ connectors' = [connectors EXCEPT ![put.id] = put.compiled]
                               /\ delayed' = delayed \ {put}
    BY <1>6 DEF PutArrives
  <2>2. UNCHANGED <<stored, request, overtaken, settled>>
    BY <1>6 DEF PutArrives
  <2>3. LiveConnections' = LiveConnections /\ \A s : Now(s)' = Now(s)
    BY <2>2, NowStable DEF LiveConnections, stored
  <2>4. \A s \in settled : connectors'[s] = Now(s)
    BY <2>1 DEF SettledOK, DomainsOK, Inv, HistoryOK
  <2>5. QED
    BY <2>1, <2>2, <2>3, <2>4 DEF SettledOK
<1>7. CASE UNCHANGED vars
  BY <1>7, SettledStable DEF vars, stored
<1>8. QED
  BY <1>2, <1>3, <1>4, <1>5, <1>6, <1>7 DEF Next

\* What requests have read holds until another one writes, and nothing can disturb a
\* settled source.
THEOREM ControlPlaneRequestsInvariant == Spec => []AllInv
<1>1. AllInv /\ [Next]_vars => AllInv'
  BY NextInv, NextFresh, NextSettled, DomainsNext DEF AllInv
<1>2. QED
  BY <1>1, InitAllInv, PTL DEF Spec

\* Once a source is settled, Kafka Connect runs what the tables call for until the next
\* write, for any number of materialisations, lost answers and late PUTs.
THEOREM ControlPlaneConnectorsSettle == Spec => []ConnectorsSettle
<1>1. AllInv => ConnectorsSettle
  BY DEF AllInv, SettledOK, ConnectorsSettle, Now
<1>2. QED
  BY <1>1, ControlPlaneRequestsInvariant, PTL

LEMMA StepAnswers ==
    ASSUME AllInv, [Next]_vars, NEW r \in Busy \ overtaken, request'[r] = Idle
    PROVE  answer'[r] \in Expected(request[r])
<1>1. r \in Requests /\ request[r] # Idle /\ Holds(request[r])
  BY DEF Busy, AllInv, Fresh
<1>2. ASSUME NEW q \in Requests, Start(q) PROVE FALSE
  <2>1. request[q] = Idle /\ \A p \in Requests \ {q} : request'[p] = request[p]
    BY <1>2 DEF Start, update_connection, save_config, assign_config_to_worker,
         get_worker_runtime_config, materialize_source_connector, Begin,
         AllInv, Inv, RequestsOK
  <2>2. QED
    BY <1>1, <2>1
<1>3. ASSUME NEW q \in Requests, Step(q) PROVE q = r
  <2>1. \A p \in Requests \ {q} : request'[p] = request[p]
    <3>1. ASSUME NEW a, Answer(q, a) PROVE \A p \in Requests \ {q} : request'[p] = request[p]
      BY <3>1 DEF Answer, AllInv, Inv, RequestsOK
    <3>2. ASSUME NEW req, Continue(q, req)
          PROVE  \A p \in Requests \ {q} : request'[p] = request[p]
      BY <3>2 DEF Continue, AllInv, Inv, RequestsOK
    <3>3. CASE SaveAssignment(q)
      BY <3>1, <3>2, <3>3 DEF SaveAssignment
    <3>4. CASE Proceeds(q)
      BY <3>1, <3>2, <3>4 DEF Proceeds
    <3>5. QED
      BY <1>3, <3>3, <3>4, StepProceeds DEF AllInv
  <2>2. QED
    BY <1>1, <2>1
<1>4. CASE Step(r)
  <2>1. CASE SaveAssignment(r)
    <3>1. request[r].op = "assign" /\ request[r].step = "save"
      BY <2>1 DEF SaveAssignment, At
    <3>2. request[r].id \in LiveWorkers /\ request[r].config \in LiveConfigs
      BY <1>1, <3>1 DEF Holds, AssignHolds
    <3>3. request'[r] = AssignStep(r, "read", request[r].name)
      BY <1>1, <2>1, <3>2 DEF SaveAssignment, Continue, AllInv, Inv, RequestsOK
    <3>4. QED
      BY <3>3 DEF AssignStep, Idle
  <2>2. CASE Proceeds(r)
    <3>1. ASSUME NEW a, Answer(r, a), a \in Expected(request[r])
          PROVE  answer'[r] \in Expected(request[r])
      BY <1>1, <3>1 DEF Answer, AllInv, DomainsOK
    <3>2. ASSUME NEW req, Continue(r, req), req.op = request[r].op PROVE FALSE
      <4>1. request[r].op = "idle"
        BY <1>1, <3>2 DEF Continue, AllInv, Inv, RequestsOK, Idle
      <4>2. QED
        BY <1>4, <4>1
           DEF Step, GetConnectionToUpdate, UpdateConnection, GetConfigToUpdate,
               GetConfigReference, SaveConfig, GetWorkerToAssign, GetConfigToAssign,
               SaveAssignment, ReadAssignment, GetWorker, GetAssignment, GetConfig,
               GetSource, GetDestination, GetSecret, GetSourceConnection, GetCredentials,
               ListConfigs, PutAccepted, PutFails, At, ConfigOps
    <3>3. QED
      BY <1>1, <2>2, <3>1, <3>2 DEF Proceeds
  <2>3. QED
    BY <1>1, <1>4, <2>1, <2>2, StepProceeds DEF AllInv
<1>5. CASE Single \/ PutArrives \/ UNCHANGED vars
  <2>1. UNCHANGED request
    BY <1>5 DEF Single, create_source_connection, create_destination,
         save_connection_with_credentials, delete_source_connection, delete_destination,
         delete_connection, delete_config, save_worker, delete_worker, PutArrives, vars
  <2>2. QED
    BY <1>1, <2>1
<1>6. QED
  BY <1>2, <1>3, <1>4, <1>5 DEF Next

\* However many requests overlap, one during which nobody else writes gets the answer
\* the tables call for.
THEOREM ControlPlaneUndisturbedAnswers == Spec => UndisturbedAnswers
<1>1. AllInv /\ [Next]_vars =>
        [\A r \in Busy \ overtaken : request'[r] = Idle =>
           answer'[r] \in Expected(request[r])]_vars
  BY StepAnswers
<1>2. QED
  BY <1>1, ControlPlaneRequestsInvariant, PTL DEF Spec, UndisturbedAnswers
=============================================================================
