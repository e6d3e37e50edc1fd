-------------------------------- MODULE MCScale --------------------------------
(***************************************************************************)
(* A small cluster that is only scaled, for TLC.                           *)
(***************************************************************************)
EXTENDS MCReconciler, ReconcilerScale

=============================================================================
