---------------------------- MODULE MCWorldItems ----------------------------
(***************************************************************************)
(* WorldStore with the slot and player updates: players moving a stack     *)
(* between a chest and their inventories, with sessions that come and go.  *)
(* No symmetry, which would not be sound for the liveness properties.      *)
(***************************************************************************)
EXTENDS WorldStore
=============================================================================
