---------------------------- MODULE MCSyncService ----------------------------
(* Two warehouses compete for one slot. *)
EXTENDS SyncService

CONSTANTS w1, w2, g1, g2
=============================================================================
