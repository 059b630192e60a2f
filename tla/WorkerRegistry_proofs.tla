----------------------- MODULE WorkerRegistry_proofs -----------------------
(***************************************************************************)
(* What holds of the workers however many requests overlap, and what holds *)
(* when they do not.                                                       *)
(***************************************************************************)
EXTENDS WorkerRegistry, TLAPS

\* What the UNIQUE constraints of the table workers give at every moment.
TableUnique ==
    \A id, other \in Rows : id # other =>
        /\ workers[id].worker_id # workers[other].worker_id
        /\ workers[id].kafka_group_id = workers[other].kafka_group_id
             => workers[id].kafka_group_id = None

Inv == TypeOK /\ TableUnique

\* Every step keeps the types and the constraints.
THEOREM RegistryInvariant == Spec => []Inv
<1>1. Init => Inv
  BY DEF Init, Inv, TypeOK, TableUnique, Rows, Checked, Idle
<1>2. Inv /\ [Next]_vars => Inv'
  <2> SUFFICES ASSUME Inv, [Next]_vars PROVE Inv'
    OBVIOUS
  <2> USE NoneAssumption DEF Inv, TypeOK, Writing, Worker, Idle, TableUnique, Rows, Checked
  <2>1. ASSUME NEW r \in Requests, NEW id \in Ids, NEW row \in Worker,
               create_worker(r, id, row)
        PROVE  Inv'
    BY <2>1 DEF create_worker
  <2>2. ASSUME NEW r \in Requests, NEW id \in Ids, NEW row \in Worker,
               update_worker(r, id, row)
        PROVE  Inv'
    BY <2>2 DEF update_worker
  <2>3. ASSUME NEW r \in Requests, get_worker(r) PROVE Inv'
    BY <2>3 DEF get_worker, Finish
  <2>4. ASSUME NEW r \in Requests, ensure_unique_worker_kafka_group(r) PROVE Inv'
    BY <2>4 DEF ensure_unique_worker_kafka_group, Finish
  <2>5. ASSUME NEW r \in Requests, WriteWorker(r) PROVE Inv'
    <3> DEFINE id == request[r].id
               row == request[r].row
    <3>1. id \in Ids /\ row \in Worker
      BY <2>5 DEF WriteWorker
    <3>2. request' \in [Requests -> Writing \cup {Idle}] /\ used' = used
      BY <2>5 DEF WriteWorker, Finish
    <3>6. overtaken' \in SUBSET Checked'
      BY <2>5 DEF WriteWorker, Finish
    <3>3. CASE UNCHANGED workers
      BY <3>2, <3>3, <3>6
    <3>4. CASE ~ViolatesUnique(id, row) /\ workers' = [workers EXCEPT ![id] = row]
      <4>1. TypeOK'
        BY <3>1, <3>2, <3>4, <3>6
      <4>2. TableUnique'
        BY <3>1, <3>4 DEF ViolatesUnique
      <4>3. QED
        BY <4>1, <4>2
    <3>5. QED
      BY <2>5, <3>3, <3>4 DEF WriteWorker
  <2>6. ASSUME NEW id \in Ids, delete_worker(id) PROVE Inv'
    BY <2>6 DEF delete_worker
  <2>7. CASE UNCHANGED vars
    BY <2>7 DEF vars
  <2>8. QED
    BY <2>1, <2>2, <2>3, <2>4, <2>5, <2>6, <2>7 DEF Next, RequestStep
<1>3. QED
  BY <1>1, <1>2, PTL DEF Spec

\* The registry keeps its types.
THEOREM RegistryTypeOK == Spec => []TypeOK
<1>1. Inv => TypeOK
  BY DEF Inv
<1>2. QED
  BY <1>1, RegistryInvariant, PTL

\* The only collision that overlapping requests can leave behind is between a worker
\* that names a group and a worker that derives it.
THEOREM RegistryCollisions == Spec => []CollisionsMixExplicitAndDerived
<1>1. Inv => CollisionsMixExplicitAndDerived
  BY DerivedGroupAssumption
     DEF Inv, TypeOK, TableUnique, CollisionsMixExplicitAndDerived, Rows, Worker,
         effective_worker_kafka_group_id
<1>2. QED
  BY <1>1, RegistryInvariant, PTL

-----------------------------------------------------------------------------
(* What the check of _ensure_unique_worker_kafka_group read is still true  *)
(* when the row is written, deletions in between included, unless another  *)
(* request has written.                                                    *)

CheckedRowsFit ==
    \A r \in Checked \ overtaken : \A other \in Rows \ {request[r].id} :
        effective_worker_kafka_group_id(workers[other])
            # effective_worker_kafka_group_id(request[r].row)

\* A check that was not overtaken still holds.
LEMMA CheckedRowsFitInvariant == Spec => []CheckedRowsFit
<1>1. Init => CheckedRowsFit
  BY DEF Init, CheckedRowsFit, Checked, Idle
<1>2. Inv /\ CheckedRowsFit /\ [Next]_vars => CheckedRowsFit'
  <2> SUFFICES ASSUME Inv, CheckedRowsFit, [Next]_vars PROVE CheckedRowsFit'
    OBVIOUS
  <2> USE NoneAssumption DEF Inv, TypeOK, Writing, Idle, CheckedRowsFit, Checked, Rows,
          effective_worker_kafka_group_id
  <2>1. ASSUME NEW r \in Requests, NEW id \in Ids, NEW row \in Worker,
               create_worker(r, id, row)
        PROVE  CheckedRowsFit'
    BY <2>1 DEF create_worker
  <2>2. ASSUME NEW r \in Requests, NEW id \in Ids, NEW row \in Worker,
               update_worker(r, id, row)
        PROVE  CheckedRowsFit'
    BY <2>2 DEF update_worker
  <2>3. ASSUME NEW r \in Requests, get_worker(r) PROVE CheckedRowsFit'
    BY <2>3 DEF get_worker, Finish
  <2>4. ASSUME NEW r \in Requests, ensure_unique_worker_kafka_group(r)
        PROVE  CheckedRowsFit'
    BY <2>4 DEF ensure_unique_worker_kafka_group, Finish
  <2>5. ASSUME NEW r \in Requests, WriteWorker(r) PROVE CheckedRowsFit'
    BY <2>5 DEF WriteWorker, Finish
  <2>6. ASSUME NEW id \in Ids, delete_worker(id) PROVE CheckedRowsFit'
    BY <2>6 DEF delete_worker
  <2>7. CASE UNCHANGED vars
    BY <2>7 DEF vars
  <2>8. QED
    BY <2>1, <2>2, <2>3, <2>4, <2>5, <2>6, <2>7 DEF Next, RequestStep
<1>3. QED
  BY <1>1, <1>2, RegistryInvariant, PTL DEF Spec

\* No step brings a collision, but the write of an overtaken request.
LEMMA StepKeepsGroupsUnique ==
    ASSUME Inv, CheckedRowsFit, Next, EffectiveGroupsUnique,
           \A r \in overtaken : ~WriteWorker(r)
    PROVE  EffectiveGroupsUnique'
<1>1. CASE UNCHANGED workers
  BY <1>1 DEF EffectiveGroupsUnique, Rows, effective_worker_kafka_group_id
<1>2. ASSUME NEW r \in Requests, WriteWorker(r) PROVE EffectiveGroupsUnique'
  <2>1. r \in Checked \ overtaken
    BY <1>2 DEF Checked, WriteWorker
  <2>2. \A other \in Rows \ {request[r].id} :
           effective_worker_kafka_group_id(workers[other])
             # effective_worker_kafka_group_id(request[r].row)
    BY <2>1 DEF CheckedRowsFit
  <2>3. CASE workers' = [workers EXCEPT ![request[r].id] = request[r].row]
    BY <2>2, <2>3
       DEF Inv, TypeOK, EffectiveGroupsUnique, Rows, effective_worker_kafka_group_id
  <2>4. QED
    BY <1>1, <1>2, <2>3 DEF WriteWorker
<1>3. ASSUME NEW id \in Ids, delete_worker(id) PROVE EffectiveGroupsUnique'
  BY <1>3 DEF delete_worker, Inv, TypeOK, EffectiveGroupsUnique, Rows,
              effective_worker_kafka_group_id
<1>4. CASE \E r \in Requests : RequestStep(r)
  BY <1>1, <1>2, <1>4
     DEF RequestStep, create_worker, update_worker, get_worker,
         ensure_unique_worker_kafka_group
<1>5. QED
  BY <1>3, <1>4 DEF Next

\* Only the write of a request that another one has overtaken can bring the first
\* collision.
THEOREM RegistryCollisionsNeedOverlap == Spec => CollisionsNeedOverlap
<1>1. Inv /\ CheckedRowsFit /\ [Next]_vars
        => [EffectiveGroupsUnique /\ ~EffectiveGroupsUnique'
              => \E r \in overtaken : WriteWorker(r)]_vars
  BY StepKeepsGroupsUnique
<1>2. QED
  BY <1>1, RegistryInvariant, CheckedRowsFitInvariant, PTL DEF Spec, CollisionsNeedOverlap

\* If at most one request is in progress at a time, the check is enough.
THEOREM SerialRequestsKeepGroupsUnique ==
    ASSUME \A r, s \in Requests : r = s
    PROVE  Spec => []EffectiveGroupsUnique
<1>1. Init => EffectiveGroupsUnique /\ overtaken = {}
  BY DEF Init, EffectiveGroupsUnique, Rows
<1>2. Inv /\ overtaken = {} /\ [Next]_vars => (overtaken = {})'
  BY DEF Next, RequestStep, create_worker, update_worker, get_worker,
         ensure_unique_worker_kafka_group, WriteWorker, delete_worker, Checked, vars
<1>3. Inv /\ CheckedRowsFit /\ overtaken = {} /\ EffectiveGroupsUnique /\ [Next]_vars
        => EffectiveGroupsUnique'
  <2>1. CASE UNCHANGED vars
    BY <2>1 DEF vars, EffectiveGroupsUnique, Rows, effective_worker_kafka_group_id
  <2>2. CASE Next
    BY <2>2, StepKeepsGroupsUnique
  <2>3. QED
    BY <2>1, <2>2
<1>4. QED
  BY <1>1, <1>2, <1>3, RegistryInvariant, CheckedRowsFitInvariant, PTL DEF Spec
=============================================================================
