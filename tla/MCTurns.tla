------------------------------ MODULE MCTurns -------------------------------
(* A small instance of Turns: one person's home, said in a few ways. *)
EXTENDS Turns, TLC

CONSTANTS alice, unset, noval, rome, oslo

MCScope == [user |-> alice, project |-> unset, agent |-> unset, session |-> unset]

(* Two ways to say one value, another value, and a retraction. *)
MCSays ==
    [x \in Texts |->
        [val |-> CASE x \in {"Rome", "still Rome", "no longer Rome"} -> rome
                   [] x = "Oslo" -> oslo,
         neg |-> x = "no longer Rome"]]

Interchangeable == Permutations(Calls)

=============================================================================
