------------------------------ MODULE Evidence ------------------------------
(***************************************************************************)
(* What a consolidation pass may not touch.  A slot has evidence: how many *)
(* times a caller or a turn was heard to say what it believes.  A claim    *)
(* stands until a caller ends it, retires it or erases it, and none of     *)
(* that is taken back.  Maintenance is not seen here at all: it moves      *)
(* evidence from one claim of a slot to another, and adds and loses none.  *)
(***************************************************************************)
EXTENDS Naturals

CONSTANTS Slots, Ids

VARIABLES
    evidence,   \* how much each slot's believed claims were heard
    fate        \* what callers have done with each claim

Fates == {"standing", "ended", "withdrawn"}

Init ==
    /\ evidence = [s \in Slots |-> 0]
    /\ fate = [k \in Ids |-> "standing"]

(* A value is said, or said again. *)
Hear(s) ==
    /\ evidence' = [evidence EXCEPT ![s] = @ + 1]
    /\ UNCHANGED fate

(* A caller says a claim has ended; what was heard was still heard. *)
End(k) ==
    /\ fate[k] = "standing"
    /\ fate' = [fate EXCEPT ![k] = "ended"]
    /\ UNCHANGED evidence

(* A caller takes a claim back, with all it holds. *)
Withdraw(k, s, n) ==
    /\ fate[k] # "withdrawn"
    /\ fate' = [fate EXCEPT ![k] = "withdrawn"]
    /\ evidence' = [evidence EXCEPT ![s] = @ - n]

Next ==
    \/ \E s \in Slots : Hear(s)
    \/ \E k \in Ids : End(k)
    \/ \E k \in Ids, s \in Slots : \E n \in 0 .. evidence[s] : Withdraw(k, s, n)

Spec == Init /\ [][Next]_<<evidence, fate>>

=============================================================================
