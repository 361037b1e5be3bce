---------------------------- MODULE MCDocuments -----------------------------
(* A small instance of Documents. *)
EXTENDS Documents, TLC

CONSTANTS a, b

MCContents == {{a}, {a, b}}

Sym == Permutations(Calls)

=============================================================================
