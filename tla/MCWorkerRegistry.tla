-------------------------- MODULE MCWorkerRegistry --------------------------
(* Small instances of WorkerRegistry for TLC. *)
EXTENDS WorkerRegistry, TLC

CONSTANTS crm, sales, crmGroup, salesGroup, ownGroup

WorkerIdsAndGroups == (crm :> crmGroup) @@ (sales :> salesGroup)

Symmetry == Permutations(Ids) \cup Permutations(Requests)
=============================================================================
