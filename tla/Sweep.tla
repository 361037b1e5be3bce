-------------------------------- MODULE Sweep --------------------------------
(***************************************************************************)
(* Consolidation passes (memvara/consolidate) beside the callers of one    *)
(* store.  A pass reads the live claims page by page and outside every     *)
(* transaction, decides on its copies, and writes them back a window at a  *)
(* time, each window in a transaction that reads its rows again.           *)
(*                                                                         *)
(* Ids are given in the order claims are recorded.  A phrase is one of the *)
(* ways to say a value, numbered in the order of its text; which phrases   *)
(* an embedder finds alike is a constant, and so is what is left of a      *)
(* strength at an age.  Salience is counted in whole units.                *)
(***************************************************************************)
EXTENDS Naturals, FiniteSets, FiniteSetsExt, Functions

CONSTANTS
    Slots, Phrases,
    Alike,           \* pairs of phrases similar enough to merge
    Passes,          \* passes that may run beside one another
    Kinds,           \* the sets of stages a pass may be asked for
    Page,            \* rows a pass reads at a time
    Window,          \* rows a pass writes in one transaction, or a few more
    Neighbourhood,   \* how far apart in text order two claims are compared
    MinObservations, \* an episodic claim heard this often is promoted
    NewSalience, Bump, MassedBump, MaxSalience, SalienceFloor,
    Fade,            \* what is left of a strength at an age
    MaxClaims, MaxHeard, MaxClosed, MaxTime    \* bounds

Stages == {"decay", "merge", "promote"}

Time == 0 .. MaxTime

ASSUME SweepAssumption ==
    /\ Phrases \subseteq Nat /\ Alike \subseteq Phrases \X Phrases
    /\ \A f, g \in Phrases : <<f, g>> \in Alike => <<g, f>> \in Alike
    /\ {Page, Window, Neighbourhood, NewSalience, SalienceFloor} \subseteq Nat \ {0}
    /\ {MinObservations, Bump, MassedBump, MaxSalience} \subseteq Nat
    /\ Kinds \subseteq SUBSET Stages
    /\ MassedBump <= Bump /\ SalienceFloor <= NewSalience /\ NewSalience <= MaxSalience
    /\ {MaxClaims, MaxHeard, MaxClosed, MaxTime} \subseteq Nat
    /\ Fade \in [0 .. MaxSalience -> [Time -> 0 .. MaxSalience]]
    /\ \A b \in 0 .. MaxSalience : Fade[b][0] = b
    /\ \A b \in 0 .. MaxSalience, m, n \in Time : m <= n => Fade[b][n] <= Fade[b][m]

Open == MaxTime + 1       \* the None of an interval that has not ended
Ids  == 1 .. MaxClaims
Nobody == 0

Row == [slot   : Slots,
        phrase : Phrases,
        kind   : {"episodic", "semantic"},
        obs    : Nat,                      \* observation_count
        base   : 0 .. MaxSalience,         \* meta salience_base, 0 when unset
        sal    : 0 .. MaxSalience,
        seen   : Time,                     \* trace_from
        rec    : Time,
        to     : Time \cup {Open},
        inv    : Time \cup {Open},
        by     : Ids \cup {Nobody}]        \* invalidated_by

VARIABLES
    rows,    \* the claims table
    last,    \* the last id given
    now,
    pass     \* what each pass is doing

vars == <<rows, last, now, pass>>

(* What the believed claims of a slot were heard, all together. *)
Heard(s) == MapThenSumSet(LAMBDA k : rows[k].obs,
                          {k \in DOMAIN rows : rows[k].slot = s /\ rows[k].inv = Open})

Idle == [doing |-> "nothing"]

TypeOK ==
    /\ DOMAIN rows \subseteq 1 .. last
    /\ rows \in [DOMAIN rows -> Row]
    /\ last \in 0 .. MaxClaims
    /\ now \in Time
    /\ \A p \in Passes :
          \/ pass[p] = Idle
          \/ /\ pass[p].doing = "reading"
             /\ pass[p].at \in 0 .. now
             /\ pass[p].read \in [DOMAIN pass[p].read -> Row]
          \/ /\ pass[p].doing = "writing"
             /\ UNION pass[p].units \subseteq DOMAIN pass[p].read
             /\ pass[p].made \in [DOMAIN pass[p].read -> Row]

Init ==
    /\ rows = [k \in {} |-> {}]
    /\ last = 0
    /\ now = 0
    /\ pass = [p \in Passes |-> Idle]

-----------------------------------------------------------------------------
(* Salience                                                                *)

Smaller(a, b) == IF a <= b THEN a ELSE b
Larger(a, b)  == IF a <= b THEN b ELSE a

(* Claim.salience_base *)
Strength(r) == IF r.base = 0 THEN r.sal ELSE r.base

(* The salience a strength has decayed to at an age. *)
Curve(base, age) == Larger(SalienceFloor, Fade[base][age])

Age(r, at) == IF at <= r.seen THEN 0 ELSE at - r.seen

DecayedAgain(r, at) ==
    [r EXCEPT !.base = Strength(r), !.sal = Curve(r.sal, Age(r, at))]

(* decayed_salience: computed from the strength, never from the salience. *)
Decayed(r, at) ==
    LET base == Larger(Strength(r), r.sal)
    IN  [r EXCEPT !.base = base, !.sal = Curve(base, Age(r, at))]

(* The more had faded, the more a repeat is worth. *)
Gain(r) ==
    LET faded == Strength(r) - Smaller(r.sal, Strength(r))
    IN  MassedBump + ((Bump - MassedBump) * faded) \div Strength(r)

(* _reinforced_base *)
Reinforced(r) == Smaller(MaxSalience, Strength(r) + Gain(r))

-----------------------------------------------------------------------------
(* The stages of a pass, over the rows c it read, as of the instant at     *)

IsLive(r, at) == r.rec <= at /\ at < r.inv /\ at < r.to

(* survivor_rank: heard most, then recorded first. *)
Outranks(c, j, k) == c[j].obs > c[k].obs \/ (c[j].obs = c[k].obs /\ j < k)

Best(c, ids) == CHOOSE k \in ids : \A j \in ids \ {k} : Outranks(c, k, j)

(* The order of their text, and of their rank where that is the same. *)
Precedes(c, j, k) ==
    \/ c[j].phrase < c[k].phrase
    \/ c[j].phrase = c[k].phrase /\ Outranks(c, j, k)

LastOf(c, ids) == CHOOSE k \in ids : \A j \in ids \ {k} : Precedes(c, j, k)

(* The rows of its slot that follow i closely enough to be compared with it. *)
Following(c, i) ==
    LET mates == {j \in DOMAIN c : c[j].slot = c[i].slot}
    IN  {j \in mates : /\ Precedes(c, i, j)
                       /\ Cardinality({m \in mates : Precedes(c, i, m) /\ Precedes(c, m, j)}) + 1
                             < Neighbourhood}

(* What a keeper has of its own and of those it absorbs. *)
Pooled(c, keeper, losers) ==
    LET all == losers \cup {keeper}
    IN  [c[keeper] EXCEPT
            !.obs  = MapThenSumSet(LAMBDA k : c[k].obs, all),
            !.base = Smaller(MaxSalience, MapThenSumSet(LAMBDA k : Strength(c[k]), all))]

(* The losers of one cluster are retired in favour of its keeper. *)
InFavourOf(c, keeper, losers, kept, at) ==
    [k \in DOMAIN c |->
        CASE k = keeper   -> kept
          [] k \in losers -> [c[k] EXCEPT !.inv = at, !.by = keeper]
          [] OTHER        -> c[k]]

AbsorbedAsIs(c, keeper, losers, at) ==
    InFavourOf(c, keeper, losers, Pooled(c, keeper, losers), at)

(***************************************************************************)
(* _absorb, for all the losers of one cluster: the keeper has what all of  *)
(* them were heard, and their strength, on its own curve.                  *)
(***************************************************************************)
Absorbed(c, keeper, losers, at) ==
    InFavourOf(c, keeper, losers, Decayed(Pooled(c, keeper, losers), at), at)

(* The rows alike that meet at i, when acc is what is left of the claims. *)
Cluster(c, i, acc) ==
    {i} \cup {j \in Following(c, i) : /\ acc[j].inv = Open
                                    /\ <<c[i].phrase, c[j].phrase>> \in Alike}

(* The best of a cluster absorbs the others. *)
MergedAt(c, at, i, acc) ==
    LET cluster == Cluster(c, i, acc)
        keeper  == Best(c, cluster)
    IN  IF acc[i].inv # Open \/ cluster = {i}
        THEN acc
        ELSE Absorbed(acc, keeper, cluster \ {keeper}, at)

(* merge_pass: row after row in the order of their text.  The code takes   *)
(* slot after slot, and a merge reads and writes rows of one slot only.    *)
Merged(c, at) ==
    MapThenFoldSet(LAMBDA i, acc : MergedAt(c, at, i, acc), c,
                   LAMBDA i : i, LAMBDA s : LastOf(c, s), DOMAIN c)

(* promote_pass *)
Promoted(c, at) ==
    [k \in DOMAIN c |->
        IF c[k].kind = "episodic" /\ c[k].obs >= MinObservations /\ IsLive(c[k], at)
        THEN [c[k] EXCEPT !.kind = "semantic"]
        ELSE c[k]]

Faded(c, at) == [k \in DOMAIN c |-> Decayed(c[k], at)]

(* Consolidator.run, or those of its stages a caller asked for, before     *)
(* anything is written.                                                    *)
Made(c, at, stages) ==
    LET faded  == IF "decay" \in stages THEN Faded(c, at) ELSE c
        merged == IF "merge" \in stages THEN Merged(faded, at) ELSE faded
    IN  IF "promote" \in stages THEN Promoted(merged, at) ELSE merged

(* What a merge changed in one slot is written together or not at all. *)
MergedIn(c, made, s) ==
    {k \in DOMAIN c : c[k].slot = s /\ (made[k].obs # c[k].obs \/ made[k].inv # c[k].inv)}

Touched(c, made) == {k \in DOMAIN c : made[k] # c[k]}

UnitsOfOneRow(c, made) == {{k} : k \in Touched(c, made)}

Units(c, made) ==
    LET together == {MergedIn(c, made, s) : s \in Slots} \ {{}}
        alone    == Touched(c, made) \ UNION together
    IN  together \cup {{k} : k \in alone}

(* What is left of a pass that has decided: the rows it would write, each  *)
(* as it was read and as it would be.                                      *)
Decided(c, at, stages) ==
    LET made  == Made(c, at, stages)
        units == Units(c, made)
    IN  IF units = {}
        THEN Idle
        ELSE [doing |-> "writing", units |-> units,
              read |-> Restrict(c, UNION units), made |-> Restrict(made, UNION units)]

-----------------------------------------------------------------------------
(* A pass                                                                  *)

(* Sweep.__init__: the instant is taken, and how far the walk will go. *)
Begin(p, stages) ==
    /\ pass[p] = Idle
    /\ pass' = [pass EXCEPT ![p] = [doing |-> "reading", stages |-> stages, at |-> now, next |-> 1, end |-> last,
                                    read |-> [k \in {} |-> {}]]]
    /\ UNCHANGED <<rows, last, now>>

(* One page of iter_claims: the next believed rows; after the last page the *)
(* pass decides.                                                           *)
Read(p) ==
    LET q       == pass[p]
        held    == {k \in DOMAIN rows \cap (q.next .. q.end) : rows[k].inv = Open}
        page    == {k \in held : Cardinality({j \in held : j < k}) < Page}
        next    == IF page = {} THEN q.next + Page ELSE 1 + Max(page)
        live    == {k \in page : IsLive(rows[k], q.at)}
        read    == [k \in DOMAIN q.read \cup live |-> IF k \in live THEN rows[k] ELSE q.read[k]]
    IN  /\ q.doing = "reading"
        /\ pass' = [pass EXCEPT ![p] =
                      IF next <= q.end
                      THEN [q EXCEPT !.next = next, !.read = read]
                      ELSE Decided(read, q.at, q.stages)]
        /\ UNCHANGED <<rows, last, now>>

StillThere(q, k) == k \in DOMAIN rows

(* Still as the snapshot read it: claim_digest under the write lock. *)
AsRead(q, k) == k \in DOMAIN rows /\ rows[k] = q.read[k]

(* The units of one window: units are added until there are rows enough. *)
Windows(units) ==
    {w \in SUBSET units : /\ w # {}
                          /\ w = units \/ Cardinality(UNION w) >= Window
                          /\ \E u \in w : Cardinality(UNION (w \ {u})) < Window}

(* Sweep._write *)
Write(p, w) ==
    LET q    == pass[p]
        keep == UNION {u \in w : \A k \in u : AsRead(q, k)}
    IN  /\ q.doing = "writing"
        /\ rows' = [k \in DOMAIN rows \cup keep |-> IF k \in keep THEN q.made[k] ELSE rows[k]]
        /\ pass' = [pass EXCEPT ![p] = IF w = q.units THEN Idle
                                                      ELSE [q EXCEPT !.units = @ \ w]]
        /\ UNCHANGED <<last, now>>

(* The process of a pass dies with what it had read and decided. *)
Leave(p) ==
    /\ pass[p] # Idle
    /\ pass' = [pass EXCEPT ![p] = Idle]
    /\ UNCHANGED <<rows, last, now>>

-----------------------------------------------------------------------------
(* Callers                                                                 *)

(* A value no live claim of the slot has, in these words. *)
Say(s, f) ==
    /\ last < MaxClaims /\ Heard(s) < MaxHeard
    /\ \A k \in DOMAIN rows : ~ (rows[k].slot = s /\ rows[k].phrase = f /\ IsLive(rows[k], now))
    /\ last' = last + 1
    /\ rows' = [k \in DOMAIN rows \cup {last'} |->
                  IF k = last'
                  THEN [slot |-> s, phrase |-> f, kind |-> "episodic", obs |-> 1,
                        base |-> 0, sal |-> NewSalience, seen |-> now, rec |-> now,
                        to |-> Open, inv |-> Open, by |-> Nobody]
                  ELSE rows[k]]
    /\ UNCHANGED <<now, pass>>

(* Reconciler.reinforce, of evidence uttered at `at`. *)
Restate(k, at) ==
    /\ IsLive(rows[k], now) /\ Heard(rows[k].slot) < MaxHeard
    /\ rows' = [rows EXCEPT ![k] =
                   [rows[k] EXCEPT !.obs = @ + 1, !.base = Reinforced(rows[k]),
                                   !.sal = Reinforced(rows[k]), !.seen = Larger(@, at)]]
    /\ UNCHANGED <<last, now, pass>>

(* Bound: callers close MaxClosed claims between them. *)
TakenBack(k) == k <= last /\ (k \notin DOMAIN rows
                              \/ (rows[k].inv # Open /\ rows[k].by = Nobody))

MayClose(k) ==
    Cardinality({j \in 1 .. last : TakenBack(j) \/ rows[j].to # Open} \ {k}) < MaxClosed

End(k) ==
    /\ rows[k].inv = Open /\ rows[k].to = Open /\ MayClose(k)
    /\ rows' = [rows EXCEPT ![k].to = now]
    /\ UNCHANGED <<last, now, pass>>

Retire(k) ==
    /\ rows[k].inv = Open /\ MayClose(k)
    /\ rows' = [rows EXCEPT ![k].inv = now]
    /\ UNCHANGED <<last, now, pass>>

Erase(k) ==
    /\ MayClose(k)
    /\ rows' = [j \in DOMAIN rows \ {k} |-> rows[j]]
    /\ UNCHANGED <<last, now, pass>>

Tick ==
    /\ now < MaxTime
    /\ now' = now + 1
    /\ UNCHANGED <<rows, last, pass>>

Next ==
    \/ \E p \in Passes : (\E stages \in Kinds : Begin(p, stages)) \/ Read(p) \/ Leave(p)
    \/ \E p \in Passes : pass[p].doing = "writing" /\ \E w \in Windows(pass[p].units) : Write(p, w)
    \/ \E s \in Slots, f \in Phrases : Say(s, f)
    \/ \E k \in DOMAIN rows : \E at \in 0 .. now : Restate(k, at)
    \/ \E k \in DOMAIN rows : End(k) \/ Retire(k) \/ Erase(k)
    \/ Tick

Spec == Init /\ [][Next]_vars

-----------------------------------------------------------------------------
(* Properties                                                              *)

(***************************************************************************)
(* Passes are invisible in what callers said and did: beside any number of *)
(* passes, the evidence of a slot grows by one with each restatement, goes *)
(* down only when a caller takes a claim back, and an ending, a retirement *)
(* or an erasure is never undone by the copy a pass made before it.        *)
(***************************************************************************)
Kept == INSTANCE Evidence WITH
    evidence <- [s \in Slots |-> Heard(s)],
    fate     <- [k \in Ids |-> IF TakenBack(k) THEN "withdrawn"
                              ELSE IF k \in DOMAIN rows /\ rows[k].to # Open THEN "ended"
                              ELSE "standing"]

EvidenceKept == Kept!Spec

(***************************************************************************)
(* A believed claim is never weaker than its strength decayed once over    *)
(* the time since it was last heard, however many passes have run.         *)
(***************************************************************************)
FadesNoFaster ==
    \A k \in DOMAIN rows :
        rows[k].inv = Open => rows[k].sal >= Curve(Strength(rows[k]), Age(rows[k], now))

(***************************************************************************)
(* A second pass at the same instant would find nothing left to write.  A  *)
(* slot with more live claims than are compared is left out: two of its    *)
(* claims may come near enough only once those between them are gone.      *)
(***************************************************************************)
PassIsIdempotent ==
    LET live == {k \in DOMAIN rows : IsLive(rows[k], now)}
        read == Restrict(rows, live)
        once == Made(read, now, Stages)
        left == Restrict(once, {k \in live : once[k].inv = Open})
    IN  (\A k \in live : Cardinality({j \in live : rows[j].slot = rows[k].slot}) <= Neighbourhood)
            => Made(left, now, Stages) = left

(***************************************************************************)
(* What a claim has learned it keeps: however passes and repeats overlap,  *)
(* a claim that is still believed never becomes weaker, older or episodic  *)
(* again.                                                                  *)
(***************************************************************************)
LearningKept ==
    [][\A k \in DOMAIN rows \cap DOMAIN rows' :
          rows'[k].inv = Open =>
              /\ Strength(rows'[k]) >= Strength(rows[k])
              /\ rows'[k].seen >= rows[k].seen
              /\ rows[k].kind = "semantic" => rows'[k].kind = "semantic"]_vars

=============================================================================
