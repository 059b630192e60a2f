---------------------------- MODULE MCCdcPipeline ----------------------------
(* Small instances of CdcPipeline for TLC. *)
EXTENDS CdcPipeline, TLC

CONSTANTS w1, w2, k1, k2, p1, p2

OneKey == (k1 :> p1)
TwoKeysOnePartition == (k1 :> p1) @@ (k2 :> p1)
TwoPartitions == (k1 :> p1) @@ (k2 :> p2)

WorkerSymmetry == Permutations(Workers)
=============================================================================
