----------------------------- MODULE Reconcile ------------------------------
(***************************************************************************)
(* What Reconciler.apply (memvara/write/reconcile.py) does to the claims   *)
(* of a store, decided inside one transaction.                             *)
(*                                                                         *)
(* S is the table of claims, a function from the ids in use to claims, and *)
(* n the number of writes that have stored anything.  The pieces one write *)
(* stores are <<n + 1, start of the piece>>, so the first part of an id is *)
(* the order of commits.  An incoming claim i is reconciled as of an       *)
(* instant t, which is not always the wall clock: a batch of turns is      *)
(* reconciled as of the instant the batch began.                           *)
(*                                                                         *)
(* The code's own ids are random, so wherever it breaks a tie on the id    *)
(* any of the tied claims may come first, and Apply is a set of outcomes.  *)
(***************************************************************************)
EXTENDS Claims

CONSTANTS
    Functional,      \* predicates that hold one value (PredicateSpec.functional)
    Global,          \* predicates that are not project_scoped
    Supersedes       \* pairs <<p, q>>: a claim of p ends the claims of q

ASSUME FunctionalAssumption ==
    /\ Functional \subseteq Predicates
    /\ Global \subseteq Predicates
    /\ Supersedes \subseteq Predicates \X Predicates

-----------------------------------------------------------------------------
(* Periods                                                                 *)

(* PredicateRegistry.slot_scope: a global predicate is filed with no project. *)
SlotScope(p, s) == IF p \in Global THEN [s EXCEPT !.project = Unset] ELSE s

(* _is_after: c begins past everything the date of i can mean. *)
IsAfter(c, i) == c.from >= i.from + i.width /\ c.from > i.from

(* _overlaps: some instant at which both are true. *)
Overlaps(a, b) ==
    /\ a.from < a.to /\ b.from < b.to
    /\ a.from < b.to /\ b.from < a.to

(* The first stored of some claims; the code breaks a tie on a random id. *)
Oldest(S, ids) == {k \in ids : \A j \in ids : S[k].rec <= S[j].rec}

LeastOf(N) == CHOOSE x \in N : \A y \in N : x <= y

GreatestOf(N) == CHOOSE x \in N : \A y \in N : y <= x

(* The instants from which a stored claim c holds part of i's value: a date *)
(* less precise than an instant is held from its start by what begins in it. *)
HoldsFrom(c, i) == IF IsAfter(c, i) THEN c.from ELSE Earlier(c.from, i.from)

(* The claims among ids that hold some of i's period up to stop. *)
Overlapped(S, i, ids, stop) ==
    {k \in ids : /\ i.from < stop
                 /\ S[k].from < S[k].to
                 /\ HoldsFrom(S[k], i) < stop
                 /\ i.from < S[k].to}

(***************************************************************************)
(* _uncovered: the parts of i's period, up to stop, that no claim of ids   *)
(* holds, as the maximal runs of unheld instants.  A period of no length   *)
(* is its own single part.                                                 *)
(***************************************************************************)
UnheldInstants(S, i, ids, stop) ==
    {v \in i.from .. (stop - 1) :
        \A k \in Overlapped(S, i, ids, stop) :
            ~ (HoldsFrom(S[k], i) <= v /\ v < S[k].to)}

WholePeriod(S, i, ids, stop) == {[lo |-> i.from, hi |-> stop]}

Gaps(S, i, ids, stop) ==
    LET unheld == UnheldInstants(S, i, ids, stop)
    IN  IF stop <= i.from
        THEN {[lo |-> i.from, hi |-> stop]}
        ELSE {g \in [lo : unheld, hi : Ends] :
                /\ g.lo < g.hi
                /\ \A v \in g.lo .. (g.hi - 1) : v \in unheld
                /\ g.lo = i.from \/ g.lo - 1 \notin unheld
                /\ g.hi \notin unheld}

-----------------------------------------------------------------------------
(* Lookups                                                                 *)

(* Store.find_by_value *)
FindByValue(S, i) == {k \in DOMAIN S : ValueKey(S[k]) = ValueKey(i)}

LiveSameAnywhere(S, i, t) ==
    {k \in FindByValue(S, i) : IsLive(S[k], t, t) /\ ~ Hidden(S[k], t)}

LiveSameSeen(S, i, t) ==
    {k \in LiveSameAnywhere(S, i, t) : Sees(i.scope, S[k].scope)}

(* live_same of apply, after the two filters on what the writer sees. *)
LiveSame(S, i, t) ==
    LET seen == {k \in FindByValue(S, i) :
                    /\ IsLive(S[k], t, t)
                    /\ ~ Hidden(S[k], t)
                    /\ Sees(i.scope, S[k].scope)}
    IN  IF i.exp = Forever THEN seen
                           ELSE {k \in seen : S[k].scope = i.scope}

(* _held: believed at t, visible to the writer, whatever period it is for. *)
Held(S, i, t) ==
    {k \in FindByValue(S, i) :
        /\ Sees(i.scope, S[k].scope)
        /\ Believed(S[k], t)
        /\ ~ Hidden(S[k], t)}

HeldFor(S, i, t) ==
    IF i.exp = Forever THEN Held(S, i, t)
                       ELSE {k \in Held(S, i, t) : S[k].scope = i.scope}

CoveringAnyStart(S, i, ids, stop) ==
    {k \in ids : IF stop = Forever THEN S[k].to = Forever
                                  ELSE S[k].to # Forever /\ S[k].to >= stop}

(* _covering: one stored claim that reaches the end of i's period. *)
Covering(S, i, ids, stop) ==
    {k \in ids : /\ IF stop = Forever THEN S[k].to = Forever
                                      ELSE S[k].to # Forever /\ S[k].to >= stop
                 /\ ~ IsAfter(S[k], i)}

(***************************************************************************)
(* _earlier_period: where the stored claims of i's value take over, when i *)
(* begins before every live one.  The code follows the stored claims back  *)
(* from the earliest live start until none reaches further; that is the    *)
(* latest start no stored claim begins before and reaches.                 *)
(***************************************************************************)
Reaching(S, i, ids, stop) ==
    {k \in ids : /\ S[k].from < stop
                 /\ S[k].to # Forever /\ S[k].to >= stop
                 /\ IsAfter(S[k], i)}

EarlierEnd(S, i, held, seen) ==
    LET first  == LeastOf({S[k].from : k \in seen})
        starts == {first} \cup {S[k].from : k \in {j \in held : IsAfter(S[j], i)}}
        end    == GreatestOf({e \in starts : /\ e <= first
                                             /\ Reaching(S, i, held, e) = {}})
    IN  Earlier(end, i.to)

(***************************************************************************)
(* _occupants: every value recorded by t that is neither retired nor ended *)
(* then, which includes the values written to begin later.                 *)
(***************************************************************************)
OccupantsInForce(S, key, t) ==
    {k \in DOMAIN S : /\ SlotOf(S[k]) = key
                      /\ S[k].inv = Forever
                      /\ IsLive(S[k], t, t)
                      /\ ~ Hidden(S[k], t)}

OccupantsBefore(S, key, t) ==
    {k \in DOMAIN S : /\ SlotOf(S[k]) = key
                      /\ S[k].rec < t
                      /\ S[k].inv = Forever
                      /\ S[k].to > t
                      /\ ~ Hidden(S[k], t)}

Occupants(S, key, t) ==
    {k \in DOMAIN S : /\ SlotOf(S[k]) = key
                      /\ S[k].rec <= t
                      /\ S[k].inv = Forever
                      /\ S[k].to > t
                      /\ ~ Hidden(S[k], t)}

-----------------------------------------------------------------------------
(* Competition                                                             *)

VictimsInSlot(S, i, t) ==
    {k \in Occupants(S, SlotOf(i), t) :
        /\ S[k].scope = i.scope /\ Overlaps(S[k], i)
        /\ i.pred \in Functional /\ S[k].val # i.val}

(* _victims, before the split: only values at exactly the writer's scope. *)
Victims(S, i, t) ==
    {k \in DOMAIN S :
        /\ S[k].scope = i.scope
        /\ Overlaps(S[k], i)
        /\ \/ /\ i.pred \in Functional
              /\ k \in Occupants(S, SlotOf(i), t)
              /\ S[k].val # i.val
           \/ \E p \in Predicates :
                 /\ <<i.pred, p>> \in Supersedes
                 /\ k \in Occupants(S, FactKey(i.scope, p), t)}

Newer(S, i, t) == {k \in Victims(S, i, t) : IsAfter(S[k], i)}
Older(S, i, t) == Victims(S, i, t) \ Newer(S, i, t)

(* _outranked: AUTHORITY_SHARE is a half. *)
HasAuthorityOver(i, c) == 2 * i.conf >= c.conf

Outranked(S, i, ids) == {k \in ids : HasAuthorityOver(i, S[k])}

-----------------------------------------------------------------------------
(* Effects                                                                 *)

(* The ids a store may give: a write, and where the piece begins. *)
Ids == (Nat \ {0}) \X Time

Outcome(S, n) == [rows |-> S, writes |-> n]

(* _repeat: the claims in ids are reinforced.  Of what this model keeps only *)
(* the expiry can change, and only on a caller's write that names one.       *)
Repeat(S, i, ids) ==
    [k \in DOMAIN S |-> IF k \in ids /\ i.user /\ i.exp # Forever
                           THEN [S[k] EXCEPT !.exp = i.exp]
                           ELSE S[k]]

(* One stored part of an incoming claim. *)
Piece(i, g) ==
    [i EXCEPT !.from  = g.lo,
              !.width = IF g.lo = i.from THEN i.width ELSE 0,
              !.to    = g.hi]

(* _store_in_pieces: the claims that hold the rest are repeated first. *)
StoreInPieces(S, n, i, gaps, overlapped) ==
    LET R == Repeat(S, i, overlapped)
    IN  [k \in DOMAIN S \cup {<<n + 1, g.lo>> : g \in gaps} |->
            IF k \in DOMAIN S THEN R[k]
                              ELSE Piece(i, CHOOSE g \in gaps : g.lo = k[2])]

(* _retire *)
RetireFromRecord(S, ids, i, t, close) ==
    [k \in DOMAIN S |->
        IF k \notin ids THEN S[k]
        ELSE CloseOut(S[k], IF close = "retired" THEN i.rec ELSE i.from, close)]

Retire(S, ids, i, t, close) ==
    [k \in DOMAIN S |->
        IF k \notin ids THEN S[k]
        ELSE CloseOut(S[k], IF close = "retired" THEN t ELSE i.from, close)]

-----------------------------------------------------------------------------
(* Reconciler.apply                                                        *)

(* The part of apply after the duplicate lookup: the value competes. *)
Compete(S, n, i, t, close) ==
    LET newer      == Newer(S, i, t)
        stop       == Earlier(i.to, LeastOf({Forever} \cup {S[k].from : k \in newer}))
        held       == HeldFor(S, i, t)
        covering   == Covering(S, i, held, stop)
        gaps       == Gaps(S, i, held, stop)
        overlapped == Overlapped(S, i, held, stop)
        closing    == Outranked(S, i, Older(S, i, t))
    IN  CASE covering # {} ->
                {Outcome(Repeat(S, i, {k}), n) : k \in Oldest(S, covering)}
          [] covering = {} /\ gaps = {} ->
                {Outcome(Repeat(S, i, overlapped), n)}
          [] covering = {} /\ gaps # {} ->
                {Outcome(Retire(StoreInPieces(S, n, i, gaps, overlapped),
                                closing, i, t, close), n + 1)}

(* The value is live already and i began before every live claim of it. *)
ExtendBackwards(S, n, i, t, seen) ==
    LET held       == Held(S, i, t)
        stop       == EarlierEnd(S, i, held, seen)
        covering   == Covering(S, i, held, stop)
        gaps       == Gaps(S, i, held, stop)
        overlapped == Overlapped(S, i, held, stop)
    IN  CASE covering # {} ->
                {Outcome(Repeat(S, i, {k}), n) : k \in Oldest(S, covering)}
          [] covering = {} /\ gaps = {} ->
                {Outcome(Repeat(S, i, overlapped), n)}
          [] covering = {} /\ gaps # {} ->
                {Outcome(StoreInPieces(S, n, i, gaps, overlapped), n + 1)}

ApplyPositive(S, n, i, t, close) ==
    LET live     == LiveSame(S, i, t)
        expiring == i.exp # Forever /\ i.user
        before   == \A k \in live : IsAfter(S[k], i)
        whole    == Gaps(S, i, HeldFor(S, i, t), i.to) = {}
    IN  CASE live # {} /\ before /\ ~ expiring -> ExtendBackwards(S, n, i, t, live)
          [] live # {} /\ (expiring \/ (~ before /\ whole)) ->
                {Outcome(Repeat(S, i, {k}), n) : k \in Oldest(S, live)}
          [] live = {} \/ (~ before /\ ~ expiring /\ ~ whole) ->
                Compete(S, n, i, t, close)

(***************************************************************************)
(* _retract: closes the live claims the writer sees and outranks, and      *)
(* stores a tombstone closed on both clocks.  A retraction that changes    *)
(* nothing, of a value that is not there or already on record, stores      *)
(* nothing.  The slot lookup hides what has expired by the wall clock.     *)
(***************************************************************************)
Retracted(S, i, t, clock) ==
    {k \in DOMAIN S : /\ SlotOf(S[k]) = SlotOf(i)
                      /\ Sees(i.scope, S[k].scope)
                      /\ IsLive(S[k], t, t)
                      /\ S[k].inv = Forever
                      /\ ~ Hidden(S[k], clock)}

Tombstone(i) == [i EXCEPT !.inv = i.rec, !.to = NotBeforeStart(i.rec, i)]

ApplyRetraction(S, n, i, t, clock, close) ==
    LET slot    == Retracted(S, i, t, clock)
        matches == {k \in slot : i.val = NoValue \/ S[k].val = i.val}
        changed == {k \in matches : \/ close = "retired"
                                    \/ S[k].to > NotBeforeStart(i.from, S[k])}
        closing == Outranked(S, i, changed)
        prior   == {k \in FindByValue(S, i) : /\ Sees(i.scope, S[k].scope)
                                              /\ ~ Hidden(S[k], t)}
        stored  == StoreInPieces(S, n, i, {[lo |-> i.from, hi |-> i.to]}, {})
        new     == <<n + 1, i.from>>
        nothing == \/ prior # {}
                   \/ i.val # NoValue /\ slot # {} /\ matches = {}
    IN  IF closing = {} /\ nothing
        THEN {Outcome(S, n)}
        ELSE {Outcome(Retire([stored EXCEPT ![new] = Tombstone(i)],
                             closing, i, t, close), n + 1)}

(* Reconciler.apply, of a claim filed at its slot's scope; clock is now. *)
Canonical(i, t) == [i EXCEPT !.scope = SlotScope(i.pred, i.scope),
                             !.rec   = Earlier(i.rec, t)]

Apply(S, n, i, t, clock, close) ==
    LET c == Canonical(i, t)
    IN  CASE c.neg -> ApplyRetraction(S, n, c, t, clock, close)
          [] ~ c.neg /\ c.val = NoValue -> {Outcome(S, n)}
          [] ~ c.neg /\ c.val # NoValue -> ApplyPositive(S, n, c, t, close)

=============================================================================
