------------------------------ MODULE MCOwnership ------------------------------
(***************************************************************************)
(* A few processes for TLC.  Fresh process ids and fresh groups are alike. *)
(***************************************************************************)
EXTENDS Ownership, TLC

Symmetry == Permutations(Pid) \union Permutations(Group)

=============================================================================
