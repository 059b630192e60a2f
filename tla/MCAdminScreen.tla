--------------------------- MODULE MCAdminScreen ---------------------------
(* Two rows of two fields. *)
EXTENDS AdminScreen, TLC

Symmetry == Permutations(Ids) \cup Permutations(Fields)
=============================================================================
