-------------------------------- MODULE Register -------------------------------
(***************************************************************************)
(* What the rest of the program takes a private file for: a cell that holds *)
(* a whole document or nothing, is set and cleared in one step, and may go  *)
(* back to what it last held on the disk when the power fails.              *)
(* PrivateFile implements it.                                               *)
(***************************************************************************)
CONSTANTS
    Document,   \* the documents that may be written
    NoFile      \* no document

VARIABLES
    value,      \* what a reader finds
    durable     \* what a reader finds after a power failure

vars == <<value, durable>>

Init == value = NoFile /\ durable = NoFile

Put(d)  == value' = d /\ UNCHANGED durable
Clear   == value' = NoFile /\ UNCHANGED durable
Persist == durable' = value /\ UNCHANGED value
Lose    == value' = durable /\ UNCHANGED durable

Next == (\E d \in Document : Put(d)) \/ Clear \/ Persist \/ Lose
Spec == Init /\ [][Next]_vars

=============================================================================
