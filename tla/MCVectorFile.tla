----------------------------- MODULE MCVectorFile -----------------------------
(* A small instance of VectorFile for TLC. *)
EXTENDS VectorFile, TLC

Equal == Permutations(Procs) \cup Permutations(Threads) \cup Permutations(Claims)
             \cup Permutations(Wordings)

(* A claim is embedded twice and a turn once. *)
ClaimsTwice == [claims |-> 2, turns |-> 1]

=============================================================================
