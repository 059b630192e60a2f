------------------------- MODULE MCConfigAggregate -------------------------
(* Small instances of ConfigAggregate for TLC. *)
EXTENDS ConfigAggregate, TLC

Symmetry == Permutations(Requests) \cup Permutations(Names)
=============================================================================
