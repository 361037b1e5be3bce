------------------------------ MODULE MCLedger ------------------------------
(* Small instances of Ledger and Reading.  Each configuration chooses the  *)
(* dimensions of what may be said; Statements is every combination.        *)
EXTENDS Reading, TLC

CONSTANTS
    alice, repo, bot,    \* a user, a project and an agent
    unset, noval, w1,
    Superseding,         \* the predicates whose claims end those of
    Superseded,
    Said,                \* the values spoken of
    Spoken,              \* the predicates spoken of
    Levels,              \* where a writer may stand
    Polarities,          \* {FALSE}, or with TRUE for retractions
    Froms, Widths, Tos,  \* valid_from, temporal_precision, valid_to
    Recs,                \* recorded_at, Forever when it is left out
    Confs, Exps,
    Speakers,            \* TRUE: a caller's own write, FALSE: a turn's
    Breadth              \* bound: how many unusual choices one statement makes

MCUsers    == {alice}
MCProjects == {repo}
MCAgents   == {bot}

MCSupersedes == Superseding \X Superseded

(* home is kept per user, tool per project, and pet holds many values. *)
AtLevel(l) ==
    [user    |-> alice,
     project |-> IF l \in {"project", "agent in project"} THEN repo ELSE unset,
     agent   |-> IF l \in {"agent", "agent in project"} THEN bot ELSE unset,
     session |-> unset]

Phrased ==
    [pred : Spoken, val : Said, neg : Polarities, scope : {AtLevel(l) : l \in Levels},
     from : Froms, width : Widths, to : Tos, rec : Recs,
     inv : {Forever}, conf : Confs, exp : Exps, user : Speakers]

(* Turns here carry no expiry, and are recorded when they are read.       *)
Sensible ==
    {s \in Phrased : /\ s.from < s.to \/ s.from = Forever
                     /\ ~ s.user => s.rec = Forever /\ s.exp = Forever
                     /\ s.val = noval => s.neg}

(* Where a statement departs from "this value, from this instant, for good". *)
Unusual(s) ==
    {d \in {"retracts", "imprecise", "ends", "backdated", "weak", "expires"} :
        \/ d = "retracts"  /\ s.neg
        \/ d = "imprecise" /\ s.width > 0
        \/ d = "ends"      /\ s.to < Forever
        \/ d = "backdated" /\ s.rec < Forever
        \/ d = "weak"      /\ \E c \in Confs : c > s.conf
        \/ d = "expires"   /\ s.exp < Forever}

MCStatements == {s \in Sensible : Cardinality(Unusual(s)) <= Breadth}

(* The same, where a caller leaves the beginning out of the backdated      *)
(* statements only, and a turn says its value plainly.                     *)
MCWithTurns ==
    {s \in MCStatements :
        IF s.user
        THEN s.from = Forever <=> Unusual(s) = {"backdated"}
        ELSE s.from = Forever /\ Unusual(s) = {}}

(* The same, with the second predicate spoken of plainly, and only there   *)
(* by an agent in a project.                                               *)
MCTwoPredicates ==
    {s \in MCStatements :
        IF s.pred \in Superseding
        THEN Unusual(s) = {} /\ s.from = 0 /\ s.scope \in {AtLevel("user"), AtLevel("agent in project")}
        ELSE /\ s.scope # AtLevel("agent in project")
             /\ \/ Unusual(s) = {} /\ s.from = 0
                \/ s.scope = AtLevel("project") /\ (Unusual(s) = {} \/ s.from = 0)}

(* Bound: an add begins early, and one that can store no more is left. *)
MayStore == \A w \in Writers : began[w] # Forever => began[w] <= 1 /\ writes + 1 \in Serials

(* Values and calls in flight are interchangeable. *)
Rename == Permutations(Said) \cup Permutations(Writers)

=============================================================================
