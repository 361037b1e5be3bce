------------------------------ MODULE MCLists -------------------------------
(* A small instance of Lists: the first claim ends while searches run, and *)
(* the second begins.                                                      *)
EXTENDS Lists, TLC

CONSTANTS a, b

MCFrom == [k \in Ids |-> IF k = b THEN 1 ELSE 0]
MCTo   == [k \in Ids |-> IF k = a THEN 1 ELSE 2]

Interchangeable == Permutations(Threads)

=============================================================================
