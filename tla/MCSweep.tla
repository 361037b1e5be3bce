------------------------------- MODULE MCSweep -------------------------------
(* A small instance of Sweep for TLC. *)
EXTENDS Sweep, TLC

(* Each phrase is alike the next one only. *)
TouchingPhrases == {e \in Phrases \X Phrases : e[1] = e[2] + 1 \/ e[2] = e[1] + 1 \/ e[1] = e[2]}

(* A strength is halved with each tick. *)
Halving == [b \in 0 .. MaxSalience |-> [n \in Time |-> b \div (2 ^ n)]]

AllAtOnce == {Stages}

(* Bound: a third claim, and a third phrase, only where callers close none. *)
ThirdStands ==
    \/ last < 3 /\ \A k \in DOMAIN rows : rows[k].phrase < 3
    \/ last = 3 /\ \A k \in 1 .. last : ~ TakenBack(k) /\ rows[k].to = Open

EqualPasses == Permutations(Passes)

=============================================================================
