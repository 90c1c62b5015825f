----------------------------- MODULE MCJobQueue -----------------------------
(* Two workers and the API on a table of two rows, which any kind may fill. *)
EXTENDS JobQueue

AnyRow == [k \in Kinds |-> JobIds]
=============================================================================
