--------------------------------- MODULE MCLog ---------------------------------
(***************************************************************************)
(* A short log for TLC.  The writers of a slot are alike.                  *)
(***************************************************************************)
EXTENDS LogRotation, TLC

Symmetry == Permutations(Writer)

=============================================================================
