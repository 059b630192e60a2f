-------------------------- MODULE WorkerRegistry --------------------------
(***************************************************************************)
(* The workers of the control plane, written by requests that run          *)
(* concurrently in the API's thread pool (manage_control_plane.py).  Every *)
(* repository call is a transaction of its own, so creating or updating a  *)
(* worker first reads all workers, to refuse an effective Kafka group_id   *)
(* that another one has, and writes later.  PostgreSQL checks what is      *)
(* UNIQUE in the table workers (control_plane_tables.py) when it writes.   *)
(* Columns that no rule relates to other workers are left out.             *)
(***************************************************************************)
EXTENDS Naturals

CONSTANTS
    Ids,          \* internal UUIDs; uuid4 never gives the same one twice
    WorkerIds,    \* operational identifiers (WORKER_ID)
    GroupIds,     \* Kafka group_ids
    DerivedGroup, \* WorkerIds -> GroupIds: "cdc-sync-worker-{worker_id}"
    None,         \* a NULL kafka_group_id, a row that does not exist
    Requests      \* requests that may be in progress at the same time

\* A row of the table workers, without its id.
Worker == [worker_id : WorkerIds, kafka_group_id : GroupIds \cup {None}]

ASSUME DerivedGroupAssumption ==
    /\ DerivedGroup \in [WorkerIds -> GroupIds]
    /\ \A m, n \in WorkerIds : DerivedGroup[m] = DerivedGroup[n] => m = n

ASSUME NoneAssumption == None \notin GroupIds /\ None \notin Ids /\ None \notin Worker

VARIABLES
    workers,  \* Ids -> row, or None
    used,     \* the internal ids handed out so far
    request,  \* Requests -> what the request is about to write, or Idle
    overtaken \* history: requests past their check, since when another one has written

vars == <<workers, used, request, overtaken>>

\* Steps of a request: "get" (update only) looks its worker up, "ensure" checks the
\* effective group, "save" and "update" write.
Idle == [step |-> "idle"]
Writing == [step : {"get", "ensure", "save", "update"}, new : BOOLEAN, id : Ids, row : Worker]

\* Requests whose check of the effective group is behind them.
Checked == {r \in Requests : request[r].step \in {"save", "update"}}

TypeOK ==
    /\ workers \in [Ids -> Worker \cup {None}]
    /\ used \in SUBSET Ids
    /\ request \in [Requests -> Writing \cup {Idle}]
    /\ overtaken \in SUBSET Checked

Init ==
    /\ workers = [id \in Ids |-> None]
    /\ used = {}
    /\ request = [r \in Requests |-> Idle]
    /\ overtaken = {}

Rows == {id \in Ids : workers[id] # None}

-----------------------------------------------------------------------------
effective_worker_kafka_group_id(row) ==
    IF row.kafka_group_id # None THEN row.kafka_group_id ELSE DerivedGroup[row.worker_id]

\* Mutant: the table has no UNIQUE constraint on kafka_group_id.
ViolatesUniqueWorkerIdOnly(id, row) ==
    \E other \in Rows \ {id} : workers[other].worker_id = row.worker_id

\* uq_workers_worker_id, uq_workers_kafka_group_id: NULL equals nothing.
ViolatesUnique(id, row) ==
    \E other \in Rows \ {id} :
        \/ workers[other].worker_id = row.worker_id
        \/ workers[other].kafka_group_id = row.kafka_group_id /\ row.kafka_group_id # None

Finish(r) == request' = [request EXCEPT ![r] = Idle]

\* Mutant: the id is left for the database to fill in.
create_worker_without_id(r, id, row) ==
    /\ request[r] = Idle
    /\ id \notin used
    /\ used' = used \cup {id}
    /\ request' = [request EXCEPT ![r] =
                     [step |-> "ensure", new |-> TRUE, id |-> None, row |-> row]]
    /\ UNCHANGED <<workers, overtaken>>

\* create_worker builds the worker under a fresh uuid4.
create_worker(r, id, row) ==
    /\ request[r] = Idle
    /\ id \notin used
    /\ used' = used \cup {id}
    /\ request' = [request EXCEPT ![r] =
                     [step |-> "ensure", new |-> TRUE, id |-> id, row |-> row]]
    /\ UNCHANGED <<workers, overtaken>>

\* update_worker of an id some client has seen.
update_worker(r, id, row) ==
    /\ request[r] = Idle
    /\ id \in used
    /\ request' = [request EXCEPT ![r] =
                     [step |-> "get", new |-> FALSE, id |-> id, row |-> row]]
    /\ UNCHANGED <<workers, used, overtaken>>

\* get_worker: 404 unless the worker exists.
get_worker(r) ==
    /\ request[r].step = "get"
    /\ IF request[r].id \in Rows
         THEN request' = [request EXCEPT ![r].step = "ensure"]
         ELSE Finish(r)
    /\ UNCHANGED <<workers, used, overtaken>>

\* Mutant: the group is looked up in the column, where derived groups are not.
ensure_unique_worker_kafka_group_stored(r) ==
    /\ request[r].step = "ensure"
    /\ LET group == effective_worker_kafka_group_id(request[r].row)
       IN  IF \E id \in Rows \ {request[r].id} : workers[id].kafka_group_id = group
             THEN Finish(r)
             ELSE request' = [request EXCEPT ![r].step =
                                IF request[r].new THEN "save" ELSE "update"]
    /\ UNCHANGED <<workers, used, overtaken>>

\* _ensure_unique_worker_kafka_group: 409 if another worker has the group.
ensure_unique_worker_kafka_group(r) ==
    /\ request[r].step = "ensure"
    /\ LET group == effective_worker_kafka_group_id(request[r].row)
       IN  IF \E id \in Rows \ {request[r].id} :
                  effective_worker_kafka_group_id(workers[id]) = group
             THEN Finish(r)
             ELSE request' = [request EXCEPT ![r].step =
                                IF request[r].new THEN "save" ELSE "update"]
    /\ UNCHANGED <<workers, used, overtaken>>

\* save_worker and update_worker of the repository: 409 on an IntegrityError, and
\* 404 if the row to update is gone.
WriteWorker(r) ==
    LET id == request[r].id
        row == request[r].row
    IN  /\ request[r].step \in {"save", "update"}
        /\ IF ViolatesUnique(id, row) \/ (request[r].step = "update" /\ id \notin Rows)
             THEN UNCHANGED workers /\ overtaken' = overtaken \ {r}
             ELSE workers' = [workers EXCEPT ![id] = row] /\ overtaken' = Checked \ {r}
        /\ Finish(r)
        /\ UNCHANGED used

\* delete_worker is a single transaction.
delete_worker(id) ==
    /\ id \in Rows
    /\ workers' = [workers EXCEPT ![id] = None]
    /\ UNCHANGED <<used, request, overtaken>>

RequestStep(r) ==
    \/ \E id \in Ids, row \in Worker : create_worker(r, id, row) \/ update_worker(r, id, row)
    \/ get_worker(r)
    \/ ensure_unique_worker_kafka_group(r)
    \/ WriteWorker(r)

Next ==
    \/ \E r \in Requests : RequestStep(r)
    \/ \E id \in Ids : delete_worker(id)

Spec == Init /\ [][Next]_vars

-----------------------------------------------------------------------------
\* No two workers share an effective consumer group: docs/api.md promises that the API
\* refuses a worker whose group collides with another's.  (The read and the write of
\* _ensure_unique_worker_kafka_group are two transactions.)
EffectiveGroupsUnique ==
    \A id, other \in Rows :
        effective_worker_kafka_group_id(workers[id])
            = effective_worker_kafka_group_id(workers[other]) => id = other

\* Whatever requests overlap, two workers that do share a group got there in one way
\* only: one names the group the other derives.  The table's constraints exclude two
\* explicit groups and two derived ones.
CollisionsMixExplicitAndDerived ==
    \A id, other \in Rows :
        /\ id # other
        /\ effective_worker_kafka_group_id(workers[id])
             = effective_worker_kafka_group_id(workers[other])
        => (workers[id].kafka_group_id = None) # (workers[other].kafka_group_id = None)

\* And it takes an overlap: the step that brings the first collision is a write of a
\* request that another one has overtaken since its check.  Neither a deletion in
\* between nor the constraints at the write make the check worthless.
CollisionsNeedOverlap ==
    [][EffectiveGroupsUnique /\ ~EffectiveGroupsUnique'
         => \E r \in overtaken : WriteWorker(r)]_vars
=============================================================================
