-------------------------- MODULE MCWarehouseAccess --------------------------
(* Small instances of WarehouseAccess for TLC. *)
EXTENDS WarehouseAccess, TLC

Symmetry == Permutations(Replicas) \cup Permutations(Roles)
=============================================================================
