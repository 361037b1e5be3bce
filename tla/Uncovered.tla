----------------------------- MODULE Uncovered ------------------------------
(***************************************************************************)
(* The two loops behind EarlierEnd and Gaps, a step at a time as           *)
(* Reconciler._earlier_period and _uncovered take them: the first follows  *)
(* the stored claims of a value back from the earliest live one, the       *)
(* second sweeps them in the order of their starts.  Reconcile states what *)
(* both compute; here the loops are shown to compute it.                   *)
(***************************************************************************)
EXTENDS Reconcile

CONSTANTS
    MaxStored,   \* bound: stored claims of the value
    Widths       \* how far the date of an incoming claim may reach

ASSUME WidthsAssumption == Widths \subseteq Nat

VARIABLES
    onFile,         \* the claims of the value that the store believes
    restated,       \* the incoming claim
    reconciledAt,   \* when it is reconciled
    pc,             \* "start", "walking", "sweeping" or "done"
    stopsAt,        \* where the incoming claim's period ends, as far as is known
    spans,          \* the claims the sweep has not come to
    reached,        \* how far the sweep is covered; Forever once nothing is left
    uncovered       \* the parts found that no claim holds

loops == <<onFile, restated, reconciledAt, pc, stopsAt, spans, reached, uncovered>>

Period == {p \in [from : Time, to : Ends] : p.from <= p.to}

Known == DOMAIN onFile

InForceNow == {k \in Known : InForce(onFile[k], reconciledAt)}

(* apply: every live claim of the value begins after the incoming one. *)
BeginsBefore == InForceNow # {} /\ \A k \in InForceNow : IsAfter(onFile[k], restated)

Sweeping(e) ==
    /\ stopsAt' = e
    /\ reached' = restated.from
    /\ IF e <= restated.from
          THEN /\ pc' = "done"
               /\ spans' = {}
               /\ uncovered' = {[lo |-> restated.from, hi |-> e]}
          ELSE /\ pc' = "sweeping"
               /\ spans' = Overlapped(onFile, restated, Known, e)
               /\ uncovered' = {}

LoopInit ==
    /\ \E n \in 0 .. MaxStored : onFile \in [1 .. n -> Period]
    /\ \A j, k \in DOMAIN onFile : j < k =>
          \/ onFile[j].from < onFile[k].from
          \/ onFile[j].from = onFile[k].from /\ onFile[j].to <= onFile[k].to
    /\ restated \in [from : Time, width : Widths, to : 1 .. Forever]
    /\ restated.from < restated.to
    /\ reconciledAt \in Time
    /\ pc = "start"
    /\ stopsAt = restated.to
    /\ spans = {}
    /\ reached = restated.from
    /\ uncovered = {}

Start ==
    /\ pc = "start"
    /\ IF BeginsBefore
          THEN /\ pc' = "walking"
               /\ stopsAt' = LeastOf({onFile[k].from : k \in InForceNow})
               /\ UNCHANGED <<spans, reached, uncovered>>
          ELSE Sweeping(restated.to)
    /\ UNCHANGED <<onFile, restated, reconciledAt>>

(* One turn of the while of _earlier_period. *)
Back(e) ==
    LET reaching == Reaching(onFile, restated, Known, e)
    IN  LeastOf({onFile[k].from : k \in reaching})

StepBack ==
    /\ pc = "walking"
    /\ Reaching(onFile, restated, Known, stopsAt) # {}
    /\ stopsAt' = Back(stopsAt)
    /\ UNCHANGED <<onFile, restated, reconciledAt, pc, spans, reached, uncovered>>

StopAtFirst == pc = "walking"

StopWalking == pc = "walking" /\ Reaching(onFile, restated, Known, stopsAt) = {}

Settle ==
    /\ StopWalking
    /\ Sweeping(Earlier(stopsAt, restated.to))
    /\ UNCHANGED <<onFile, restated, reconciledAt>>

(* One turn of the for of _uncovered, over the spans in order. *)
ReachOnly(k) == onFile[k].to

Reach(k) == Later(reached, onFile[k].to)

Visit(k) ==
    LET lo == HoldsFrom(onFile[k], restated)
    IN  /\ pc = "sweeping"
        /\ k \in spans
        /\ \A j \in spans : lo <= HoldsFrom(onFile[j], restated)
        /\ reached < stopsAt
        /\ uncovered' = uncovered \cup (IF lo > reached THEN {[lo |-> reached, hi |-> lo]} ELSE {})
        /\ reached' = Reach(k)
        /\ spans' = spans \ {k}
        /\ UNCHANGED <<onFile, restated, reconciledAt, pc, stopsAt>>

Finish ==
    /\ pc = "sweeping"
    /\ spans = {} \/ reached >= stopsAt
    /\ uncovered' = uncovered \cup (IF reached < stopsAt THEN {[lo |-> reached, hi |-> stopsAt]} ELSE {})
    /\ pc' = "done"
    /\ UNCHANGED <<onFile, restated, reconciledAt, stopsAt, spans, reached>>

LoopNext ==
    \/ Start
    \/ StepBack
    \/ Settle
    \/ \E k \in spans : Visit(k)
    \/ Finish

LoopSpec == LoopInit /\ [][LoopNext]_loops

-----------------------------------------------------------------------------
(* Properties                                                              *)

(* The walk ends where EarlierEnd says, at the latest start, no later than *)
(* the earliest live claim, that no stored claim begins before and         *)
(* reaches; and up to there the sweep finds the maximal runs of instants   *)
(* that no claim holds, and no others, whatever the claims' order and      *)
(* overlaps.                                                               *)
LoopsFindGaps ==
    pc = "done" =>
        /\ BeginsBefore => stopsAt = EarlierEnd(onFile, restated, Known, InForceNow)
        /\ uncovered = Gaps(onFile, restated, Known, stopsAt)

=============================================================================
