----------------------------- MODULE MCHandles ------------------------------
(* A small instance of Handles. *)
EXTENDS Handles

CONSTANTS p1, p2, p3

(* One process has another embedder. *)
MCWidth == [p \in Procs |-> IF p = p2 THEN 2 ELSE 1]

=============================================================================
