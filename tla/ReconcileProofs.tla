--------------------------- MODULE ReconcileProofs ---------------------------
(***************************************************************************)
(* Theorems of Reconcile, for every value of its constants: what one call  *)
(* of Reconciler.apply may do to a table of claims.                        *)
(***************************************************************************)
EXTENDS Uncovered, WellFoundedInduction, TLAPS

-----------------------------------------------------------------------------
(* Least and greatest instants                                             *)

(* A set of naturals that is not empty has a least element. *)
LEMMA LeastExists ==
    ASSUME NEW N, N \subseteq Nat, N # {}
    PROVE  \E x \in N : \A y \in N : x <= y
<1>. DEFINE R == OpToRel(<, Nat)
<1>1. \A x, y \in Nat : x < y => <<x, y>> \in R
  BY Zenon DEF OpToRel
<1>2. IsWellFoundedOn(R, Nat)
  BY NatLessThanWellFounded, Zenon
<1>. HIDE DEF R
<1>3. PICK x \in N : \A y \in N : ~ (<<y, x>> \in R)
  BY <1>2, WFMin, Zenon
<1>4. ASSUME NEW y \in N
      PROVE  x <= y
  <2>1. x \in Nat /\ y \in Nat
    OBVIOUS
  <2>2. ~ (y < x)
    BY <1>1, <1>3, <2>1, Zenon
  <2>. QED
    BY <2>1, <2>2
<1>. QED
  BY <1>4, Zenon

LEMMA LeastOfIsLeast ==
    ASSUME NEW N, N \subseteq Nat, N # {}
    PROVE  LeastOf(N) \in N /\ \A y \in N : LeastOf(N) <= y
  BY LeastExists, Zenon DEF LeastOf

(* One bounded above has a greatest. *)
LEMMA GreatestOfIsGreatest ==
    ASSUME NEW N, N \subseteq Nat, N # {}, NEW b \in Nat, \A y \in N : y <= b
    PROVE  GreatestOf(N) \in N /\ \A y \in N : y <= GreatestOf(N)
<1>. DEFINE D == {b - y : y \in N}
<1>1. \A y \in N : b - y \in Nat
  <2>. TAKE y \in N
  <2>1. y \in Nat /\ y <= b
    OBVIOUS
  <2>. QED
    BY <2>1
<1>2. D \subseteq Nat /\ D # {}
  BY <1>1, Zenon
<1>3. PICK d \in D : \A e \in D : d <= e
  <2>. HIDE DEF D
  <2>. QED
    BY <1>2, LeastExists, Zenon
<1>4. PICK x \in N : d = b - x
  BY Zenon
<1>5. ASSUME NEW y \in N
      PROVE  y <= x
  <2>1. y \in Nat /\ x \in Nat /\ b - x <= b - y
    BY <1>3, <1>4
  <2>. QED
    BY <2>1
<1>. QED
  BY <1>5, Zenon DEF GreatestOf

-----------------------------------------------------------------------------
(* Closing                                                                 *)

(* d is c after any number of closures of one kind and repeats.            *)
ClosedBy(c, d, close) ==
    /\ d.pred = c.pred /\ d.val = c.val /\ d.neg = c.neg /\ d.scope = c.scope
    /\ d.from = c.from /\ d.rec = c.rec /\ d.conf = c.conf /\ d.user = c.user
    /\ close = "retired" => d.to = c.to /\ (d.inv # c.inv => c.inv = Forever)
    /\ close # "retired" => /\ d.inv = c.inv
                            /\ d.to <= c.to
                            /\ d.to # c.to => c.inv = Forever /\ d.from <= d.to

LEMMA EndsAreNaturals == /\ Time \subseteq Nat /\ Ends \subseteq Nat /\ Time \subseteq Ends
                         /\ Forever \in Ends /\ Forever \in Nat
                         /\ \A e \in Ends : e <= Forever
                         /\ \A v \in Time : v < Forever
  BY ForeverAssumption DEF Time, Ends

(* close_out returns a claim, with at most one clock moved.                *)
LEMMA CloseOutCloses ==
    ASSUME NEW c \in Claim, NEW at \in Ends, NEW close \in Closures
    PROVE  /\ CloseOut(c, at, close) \in Claim
           /\ ClosedBy(c, CloseOut(c, at, close), close)
<1>1. Earlier(c.to, NotBeforeStart(at, c)) \in Ends
  BY EndsAreNaturals DEF Earlier, Later, NotBeforeStart, Claim
<1>2. CASE c.inv # Forever
  BY <1>2, EndsAreNaturals DEF CloseOut, ClosedBy, Claim
<1>3. CASE c.inv = Forever /\ close = "retired"
  BY <1>3, EndsAreNaturals DEF CloseOut, ClosedBy, Claim
<1>4. CASE c.inv = Forever /\ close # "retired"
  <2>. DEFINE d == [c EXCEPT !.to = Earlier(c.to, NotBeforeStart(at, c))]
  <2>1. CloseOut(c, at, close) = d
    BY <1>4 DEF CloseOut
  <2>2. d \in Claim
    BY <1>1 DEF Claim
  <2>3. ClosedBy(c, d, close)
    BY <1>4, EndsAreNaturals DEF ClosedBy, Claim, Earlier, Later, NotBeforeStart
  <2>. QED
    BY <2>1, <2>2, <2>3
<1>. QED
  BY <1>2, <1>3, <1>4

-----------------------------------------------------------------------------
(* Tables of claims                                                        *)

Table(S, n) ==
    /\ DOMAIN S \subseteq Ids
    /\ S \in [DOMAIN S -> Claim]
    /\ \A k \in DOMAIN S : k[1] <= n

(* R is S after a write that closes in one way: every claim of S is still  *)
(* there, and what is new was stored by the write after the first n.       *)
Updated(S, R, n, close) ==
    /\ DOMAIN S \subseteq DOMAIN R
    /\ \A k \in DOMAIN S : ClosedBy(S[k], R[k], close)
    /\ \A k \in DOMAIN R \ DOMAIN S : k[1] = n + 1

LEMMA ClosedByItself ==
    ASSUME NEW c \in Claim, NEW close \in Closures
    PROVE  ClosedBy(c, c, close)
<1>1. c.to \in Nat
  BY EndsAreNaturals DEF Claim
<1>2. \A e \in Nat : e <= e
  OBVIOUS
<1>. QED
  BY <1>1, <1>2, Zenon DEF ClosedBy

LEMMA ClosedTwice ==
    ASSUME NEW c \in Claim, NEW d \in Claim, NEW e \in Claim, NEW close \in Closures,
           ClosedBy(c, d, close), ClosedBy(d, e, close)
    PROVE  ClosedBy(c, e, close)
<1>. /\ c.to \in Nat /\ d.to \in Nat /\ e.to \in Nat
     /\ c.from \in Nat
  BY EndsAreNaturals DEF Claim
<1>1. CASE close = "retired"
  BY <1>1 DEF ClosedBy
<1>2. CASE close # "retired"
  BY <1>2 DEF ClosedBy
<1>. QED
  BY <1>1, <1>2

LEMMA UpdatedTwice ==
    ASSUME NEW S, NEW R, NEW Q, NEW n \in Nat, NEW m \in Nat, NEW close \in Closures,
           Table(S, n), Table(R, m), Table(Q, m), DOMAIN Q = DOMAIN R,
           Updated(S, R, n, close), \A k \in DOMAIN R : ClosedBy(R[k], Q[k], close)
    PROVE  Updated(S, Q, n, close)
<1>1. ASSUME NEW k \in DOMAIN S
      PROVE  ClosedBy(S[k], Q[k], close)
  <2>1. /\ k \in DOMAIN R /\ k \in DOMAIN Q
        /\ S[k] \in Claim /\ R[k] \in Claim /\ Q[k] \in Claim
        /\ ClosedBy(S[k], R[k], close) /\ ClosedBy(R[k], Q[k], close)
    BY DEF Table, Updated
  <2>. QED
    BY <2>1, ClosedTwice
<1>. QED
  BY <1>1 DEF Updated

(* _repeat moves nothing but an expiry.                                    *)
LEMMA RepeatKeeps ==
    ASSUME NEW S, NEW n \in Nat, Table(S, n), NEW i \in Claim, NEW ids, NEW close \in Closures
    PROVE  /\ Table(Repeat(S, i, ids), n)
           /\ DOMAIN Repeat(S, i, ids) = DOMAIN S
           /\ Updated(S, Repeat(S, i, ids), n, close)
<1>. DEFINE R == Repeat(S, i, ids)
<1>1. DOMAIN R = DOMAIN S
  BY DEF Repeat
<1>2. ASSUME NEW k \in DOMAIN S
      PROVE  R[k] \in Claim /\ ClosedBy(S[k], R[k], close)
  <2>1. S[k] \in Claim
    BY DEF Table
  <2>2. CASE k \in ids /\ i.user /\ i.exp # Forever
    <3>1. R[k] = [S[k] EXCEPT !.exp = i.exp]
      BY <2>2 DEF Repeat
    <3>2. i.exp \in Ends
      BY DEF Claim
    <3>. HIDE DEF R
    <3>. QED
      BY <2>1, <3>1, <3>2, EndsAreNaturals DEF Claim, ClosedBy
  <2>3. CASE ~ (k \in ids /\ i.user /\ i.exp # Forever)
    <3>1. R[k] = S[k]
      BY <2>3 DEF Repeat
    <3>. HIDE DEF R
    <3>. QED
      BY <2>1, <3>1, ClosedByItself
  <2>. QED
    BY <2>2, <2>3
<1>3. R \in [DOMAIN R -> Claim]
  BY <1>1, <1>2 DEF Repeat
<1>. QED
  BY <1>1, <1>2, <1>3 DEF Table, Updated

(* _retire moves one clock of the claims it closes.                        *)
LEMMA RetireKeeps ==
    ASSUME NEW S, NEW n \in Nat, Table(S, n), NEW ids, NEW i \in Claim, NEW t \in Time,
           NEW close \in Closures
    PROVE  /\ Table(Retire(S, ids, i, t, close), n)
           /\ DOMAIN Retire(S, ids, i, t, close) = DOMAIN S
           /\ \A k \in DOMAIN S : ClosedBy(S[k], Retire(S, ids, i, t, close)[k], close)
<1>. DEFINE R == Retire(S, ids, i, t, close)
            at == IF close = "retired" THEN t ELSE i.from
<1>1. DOMAIN R = DOMAIN S
  BY DEF Retire
<1>2. at \in Ends
  BY EndsAreNaturals DEF Claim
<1>3. ASSUME NEW k \in DOMAIN S
      PROVE  R[k] \in Claim /\ ClosedBy(S[k], R[k], close)
  <2>1. S[k] \in Claim
    BY DEF Table
  <2>2. R[k] = IF k \notin ids THEN S[k] ELSE CloseOut(S[k], at, close)
    BY DEF Retire
  <2>. HIDE DEF R, at
  <2>. QED
    BY <1>2, <2>1, <2>2, ClosedByItself, CloseOutCloses
<1>4. R \in [DOMAIN R -> Claim]
  BY <1>1, <1>3 DEF Retire
<1>. QED
  BY <1>1, <1>3, <1>4 DEF Table

-----------------------------------------------------------------------------
(* Storing in pieces                                                       *)

(* Parts of a period, of which no two begin together.                      *)
Parts(gaps) ==
    /\ \A g \in gaps : g.lo \in Time /\ g.hi \in Ends
    /\ \A g, h \in gaps : g.lo = h.lo => g = h

(* _uncovered returns parts of i's period before stop.                     *)
LEMMA GapsAreParts ==
    ASSUME NEW S, NEW i \in Claim, NEW ids, NEW stop \in Ends
    PROVE  /\ Parts(Gaps(S, i, ids, stop))
           /\ \A g \in Gaps(S, i, ids, stop) : i.from <= g.lo /\ g.hi <= stop
<1>. DEFINE unheld == UnheldInstants(S, i, ids, stop)
<1>1. i.from \in Time /\ i.from \in Nat /\ stop \in Nat /\ Forever \in Nat /\ stop <= Forever
  BY EndsAreNaturals DEF Claim
<1>2. CASE stop <= i.from
  BY <1>1, <1>2 DEF Gaps, Parts
<1>3. CASE ~ (stop <= i.from)
  <2>1. \A v \in unheld : v \in Time /\ v \in Nat /\ i.from <= v /\ v < stop
    BY <1>1 DEF UnheldInstants, Time
  <2>2. Gaps(S, i, ids, stop) =
          {g \in [lo : unheld, hi : Ends] :
                /\ g.lo < g.hi
                /\ \A v \in g.lo .. (g.hi - 1) : v \in unheld
                /\ g.lo = i.from \/ g.lo - 1 \notin unheld
                /\ g.hi \notin unheld}
    BY <1>3 DEF Gaps
  <2>. HIDE DEF unheld
  <2>3. ASSUME NEW g \in Gaps(S, i, ids, stop)
        PROVE  /\ g.lo \in Time /\ g.hi \in Ends /\ g.lo \in Nat /\ g.hi \in Nat
               /\ i.from <= g.lo /\ g.hi <= stop
               /\ g = [lo |-> g.lo, hi |-> g.hi]
    <3>1. /\ g \in [lo : unheld, hi : Ends]
          /\ g.lo < g.hi
          /\ \A v \in g.lo .. (g.hi - 1) : v \in unheld
      BY <2>2
    <3>2. g.lo \in Nat /\ g.hi \in Nat /\ g.lo \in Time /\ g.hi \in Ends /\ i.from <= g.lo
      BY <2>1, <3>1, EndsAreNaturals
    <3>3. g.hi - 1 \in unheld
      BY <3>1, <3>2
    <3>4. g.hi <= stop
      BY <1>1, <2>1, <3>2, <3>3
    <3>. QED
      BY <3>1, <3>2, <3>4
  <2>4. ASSUME NEW g \in Gaps(S, i, ids, stop), NEW h \in Gaps(S, i, ids, stop), g.lo = h.lo
        PROVE  g = h
    <3>1. /\ \A v \in g.lo .. (g.hi - 1) : v \in unheld
          /\ \A v \in h.lo .. (h.hi - 1) : v \in unheld
          /\ g.hi \notin unheld /\ h.hi \notin unheld
          /\ g.lo < g.hi /\ h.lo < h.hi
      BY <2>2
    <3>2. g.lo \in Nat /\ g.hi \in Nat /\ h.lo \in Nat /\ h.hi \in Nat
      BY <2>3
    <3>3. ~ (g.hi < h.hi) /\ ~ (h.hi < g.hi)
      BY <2>4, <3>1, <3>2
    <3>4. g.hi = h.hi
      BY <3>2, <3>3
    <3>. QED
      BY <2>3, <2>4, <3>4
  <2>. QED
    BY <2>3, <2>4 DEF Parts
<1>. QED
  BY <1>2, <1>3

(* What _store_in_pieces stores of i for one part.                         *)
LEMMA PieceIsClaim ==
    ASSUME NEW i \in Claim, NEW g, g.lo \in Time, g.hi \in Ends
    PROVE  /\ Piece(i, g) \in Claim
           /\ Piece(i, g).from = g.lo /\ Piece(i, g).to = g.hi
           /\ Piece(i, g).inv = i.inv /\ Piece(i, g).rec = i.rec
           /\ Piece(i, g).pred = i.pred /\ Piece(i, g).val = i.val
           /\ Piece(i, g).scope = i.scope /\ Piece(i, g).neg = i.neg
           /\ Piece(i, g).user = i.user /\ Piece(i, g).conf = i.conf
           /\ Piece(i, g).exp = i.exp
  BY DEF Piece, Claim

(* What R has and S has not are parts of i.                                *)
NewAreParts(S, R, n, i, gaps) ==
    \A k \in DOMAIN R \ DOMAIN S : \E g \in gaps : k = <<n + 1, g.lo>> /\ R[k] = Piece(i, g)

LEMMA StoreKeeps ==
    ASSUME NEW S, NEW n \in Nat, Table(S, n), NEW i \in Claim, NEW gaps, Parts(gaps),
           NEW overlapped, NEW close \in Closures
    PROVE  LET R == StoreInPieces(S, n, i, gaps, overlapped)
           IN  /\ Table(R, n + 1)
               /\ DOMAIN R = DOMAIN S \cup {<<n + 1, g.lo>> : g \in gaps}
               /\ Updated(S, R, n, close)
               /\ NewAreParts(S, R, n, i, gaps)
<1>. DEFINE R == StoreInPieces(S, n, i, gaps, overlapped)
            Q == Repeat(S, i, overlapped)
            new == {<<n + 1, g.lo>> : g \in gaps}
<1>1. Table(Q, n) /\ DOMAIN Q = DOMAIN S /\ Updated(S, Q, n, close)
  BY RepeatKeeps
<1>2. DOMAIN R = DOMAIN S \cup new
  BY DEF StoreInPieces
<1>3. new \subseteq Ids /\ \A k \in new : k[1] = n + 1
  BY DEF Ids, Parts
<1>4. ASSUME NEW k \in DOMAIN S
      PROVE  R[k] = Q[k] /\ R[k] \in Claim /\ ClosedBy(S[k], R[k], close)
  <2>1. R[k] = Q[k]
    BY DEF StoreInPieces
  <2>. HIDE DEF R, Q
  <2>. QED
    BY <1>1, <2>1 DEF Table, Updated
<1>5. ASSUME NEW k \in new, k \notin DOMAIN S
      PROVE  R[k] \in Claim /\ \E g \in gaps : k = <<n + 1, g.lo>> /\ R[k] = Piece(i, g)
  <2>1. PICK g \in gaps : k = <<n + 1, g.lo>>
    BY <1>5
  <2>2. R[k] = Piece(i, CHOOSE h \in gaps : h.lo = k[2])
    BY <1>5 DEF StoreInPieces
  <2>3. (CHOOSE h \in gaps : h.lo = k[2]) = g
    BY <2>1 DEF Parts
  <2>4. R[k] = Piece(i, g)
    BY <2>2, <2>3
  <2>. HIDE DEF R
  <2>. QED
    BY <2>1, <2>4, PieceIsClaim DEF Parts
<1>6. R \in [DOMAIN R -> Claim]
  BY <1>2, <1>4, <1>5 DEF StoreInPieces
<1>. HIDE DEF R, Q, new
<1>7. Table(R, n + 1)
  <2>1. \A k \in DOMAIN S : k \in Ids /\ k[1] \in Nat /\ k[1] <= n
    BY DEF Table, Ids
  <2>2. \A k \in DOMAIN R : k[1] <= n + 1
    BY <1>2, <1>3, <2>1
  <2>. QED
    BY <1>2, <1>3, <1>6, <2>1, <2>2 DEF Table
<1>8. Updated(S, R, n, close)
  BY <1>2, <1>3, <1>4 DEF Updated
<1>. QED
  BY <1>2, <1>5, <1>7, <1>8 DEF R, new, NewAreParts

-----------------------------------------------------------------------------
(* The reconciler                                                          *)

(* o is what one write that closes in one way may leave of S.              *)
Kept(S, n, o, close) ==
    /\ o.writes \in Nat
    /\ Table(o.rows, o.writes)
    /\ Updated(S, o.rows, n, close)

LEMMA OutcomeKept ==
    ASSUME NEW S, NEW n \in Nat, NEW R, NEW m \in Nat, NEW close \in Closures,
           Table(R, m), Updated(S, R, n, close)
    PROVE  Kept(S, n, Outcome(R, m), close)
<1>1. Outcome(R, m).rows = R /\ Outcome(R, m).writes = m
  BY DEF Outcome
<1>. QED
  BY <1>1, Zenon DEF Kept

LEMMA NothingKeeps ==
    ASSUME NEW S, NEW n \in Nat, Table(S, n), NEW close \in Closures
    PROVE  Kept(S, n, Outcome(S, n), close)
<1>1. \A k \in DOMAIN S : ClosedBy(S[k], S[k], close)
  BY ClosedByItself DEF Table
<1>2. Updated(S, S, n, close)
  BY <1>1 DEF Updated
<1>. QED
  BY <1>2, OutcomeKept

LEMMA RepeatingKeeps ==
    ASSUME NEW S, NEW n \in Nat, Table(S, n), NEW i \in Claim, NEW ids, NEW close \in Closures
    PROVE  Kept(S, n, Outcome(Repeat(S, i, ids), n), close)
<1>. DEFINE R == Repeat(S, i, ids)
<1>1. Table(R, n) /\ Updated(S, R, n, close)
  BY RepeatKeeps
<1>. QED
  BY <1>1, OutcomeKept, Zenon

LEMMA StoringKeeps ==
    ASSUME NEW S, NEW n \in Nat, Table(S, n), NEW i \in Claim, NEW gaps, Parts(gaps),
           NEW overlapped, NEW close \in Closures
    PROVE  Kept(S, n, Outcome(StoreInPieces(S, n, i, gaps, overlapped), n + 1), close)
<1>. DEFINE R == StoreInPieces(S, n, i, gaps, overlapped)
<1>1. n + 1 \in Nat
  OBVIOUS
<1>2. Table(R, n + 1) /\ Updated(S, R, n, close)
  BY StoreKeeps
<1>. QED
  BY <1>1, <1>2, OutcomeKept, Zenon

(* Anything stored by this write may be closed by it as well.              *)
LEMMA RetiringKeeps ==
    ASSUME NEW S, NEW n \in Nat, NEW R, Table(S, n), Table(R, n + 1), NEW i \in Claim, NEW ids,
           NEW t \in Time, NEW close \in Closures, Updated(S, R, n, close)
    PROVE  Kept(S, n, Outcome(Retire(R, ids, i, t, close), n + 1), close)
<1>. DEFINE Q == Retire(R, ids, i, t, close)
<1>1. n + 1 \in Nat
  OBVIOUS
<1>2. /\ Table(Q, n + 1)
      /\ DOMAIN Q = DOMAIN R
      /\ \A k \in DOMAIN R : ClosedBy(R[k], Q[k], close)
  BY <1>1, RetireKeeps
<1>. HIDE DEF Q
<1>3. Updated(S, Q, n, close)
  BY <1>1, <1>2, UpdatedTwice
<1>. QED
  BY <1>1, <1>2, <1>3, OutcomeKept, Zenon DEF Q

(* Claims not hidden by their expiry: only these are ever repeated.        *)
Unhidden(S, t) == {k \in DOMAIN S : ~ Hidden(S[k], t)}

LEMMA HeldIsUnhidden ==
    ASSUME NEW S, NEW i, NEW t
    PROVE  /\ Held(S, i, t) \subseteq Unhidden(S, t)
           /\ HeldFor(S, i, t) \subseteq Unhidden(S, t)
           /\ LiveSame(S, i, t) \subseteq Unhidden(S, t)
<1>1. Held(S, i, t) \subseteq Unhidden(S, t)
  BY DEF Held, FindByValue, Unhidden
<1>2. HeldFor(S, i, t) \subseteq Held(S, i, t)
  BY DEF HeldFor
<1>3. LiveSame(S, i, t) \subseteq Unhidden(S, t)
  BY DEF LiveSame, FindByValue, Unhidden
<1>. QED
  BY <1>1, <1>2, <1>3

LEMMA LookupsAreAmong ==
    ASSUME NEW S, NEW i, NEW ids, NEW stop
    PROVE  /\ Covering(S, i, ids, stop) \subseteq ids
           /\ Overlapped(S, i, ids, stop) \subseteq ids
           /\ Oldest(S, ids) \subseteq ids
  BY DEF Covering, Overlapped, Oldest

(* The value competes: what is stored ends where a later value begins.     *)
CompetesTo(S, i, t) == Earlier(i.to, LeastOf({Forever} \cup {S[k].from : k \in Newer(S, i, t)}))

LEMMA CompetesToType ==
    ASSUME NEW S, NEW n \in Nat, Table(S, n), NEW i \in Claim, NEW t \in Time
    PROVE  /\ CompetesTo(S, i, t) \in Ends
           /\ CompetesTo(S, i, t) <= i.to
           /\ \A k \in Newer(S, i, t) : CompetesTo(S, i, t) <= S[k].from
           /\ \/ CompetesTo(S, i, t) \in {i.to, Forever}
              \/ \E k \in Newer(S, i, t) : CompetesTo(S, i, t) = S[k].from
<1>. DEFINE starts == {Forever} \cup {S[k].from : k \in Newer(S, i, t)}
<1>1. \A k \in Newer(S, i, t) : S[k].from \in Ends
  BY EndsAreNaturals DEF Newer, Victims, Table, Claim
<1>2. starts \subseteq Ends /\ starts # {} /\ \A k \in Newer(S, i, t) : S[k].from \in starts
  BY <1>1, EndsAreNaturals
<1>9. \A e \in starts : e = Forever \/ \E k \in Newer(S, i, t) : e = S[k].from
  OBVIOUS
<1>. HIDE DEF starts
<1>3. LeastOf(starts) \in starts /\ \A e \in starts : LeastOf(starts) <= e
  BY <1>2, LeastOfIsLeast, EndsAreNaturals
<1>4. CompetesTo(S, i, t) = Earlier(i.to, LeastOf(starts))
  BY DEF CompetesTo, starts
<1>5. LeastOf(starts) \in Ends /\ i.to \in Ends
  BY <1>2, <1>3 DEF Claim
<1>6. LeastOf(starts) \in Nat /\ i.to \in Nat /\ \A e \in starts : e \in Nat
  BY <1>2, <1>5, EndsAreNaturals
<1>7. /\ CompetesTo(S, i, t) \in Ends /\ CompetesTo(S, i, t) \in Nat
      /\ CompetesTo(S, i, t) <= i.to /\ CompetesTo(S, i, t) <= LeastOf(starts)
  BY <1>4, <1>5, <1>6 DEF Earlier
<1>8. ASSUME NEW k \in Newer(S, i, t)
      PROVE  CompetesTo(S, i, t) <= S[k].from
  <2>1. S[k].from \in Nat /\ LeastOf(starts) <= S[k].from
    BY <1>2, <1>3, <1>6
  <2>. QED
    BY <1>6, <1>7, <2>1
<1>10. \/ CompetesTo(S, i, t) \in {i.to, Forever}
       \/ \E k \in Newer(S, i, t) : CompetesTo(S, i, t) = S[k].from
  BY <1>3, <1>4, <1>9 DEF Earlier
<1>. QED
  BY <1>7, <1>8, <1>10

LEMMA CompeteForms ==
    ASSUME NEW S, NEW n, NEW i, NEW t, NEW close, NEW o \in Compete(S, n, i, t, close)
    PROVE  LET stop == CompetesTo(S, i, t)
               held == HeldFor(S, i, t)
           IN  \/ \E ids \in SUBSET Unhidden(S, t) : o = Outcome(Repeat(S, i, ids), n)
               \/ /\ Gaps(S, i, held, stop) # {}
                  /\ o = Outcome(Retire(StoreInPieces(S, n, i, Gaps(S, i, held, stop),
                                                      Overlapped(S, i, held, stop)),
                                        Outranked(S, i, Older(S, i, t)), i, t, close), n + 1)
<1>. DEFINE stop == CompetesTo(S, i, t)
            held == HeldFor(S, i, t)
            cover == Covering(S, i, held, stop)
            gaps == Gaps(S, i, held, stop)
            over == Overlapped(S, i, held, stop)
            shut == Outranked(S, i, Older(S, i, t))
<1>1. Compete(S, n, i, t, close) =
        CASE cover # {} -> {Outcome(Repeat(S, i, {k}), n) : k \in Oldest(S, cover)}
          [] cover = {} /\ gaps = {} -> {Outcome(Repeat(S, i, over), n)}
          [] cover = {} /\ gaps # {} ->
                {Outcome(Retire(StoreInPieces(S, n, i, gaps, over), shut, i, t, close), n + 1)}
  BY Zenon DEF Compete, CompetesTo
<1>0. over \subseteq Unhidden(S, t) /\ Oldest(S, cover) \subseteq Unhidden(S, t)
  BY HeldIsUnhidden, LookupsAreAmong
<1>. HIDE DEF stop, held, cover, gaps, over, shut
<1>2. CASE cover # {}
  BY <1>0, <1>1, <1>2
<1>3. CASE cover = {} /\ gaps = {}
  BY <1>0, <1>1, <1>3
<1>4. CASE cover = {} /\ gaps # {}
  <2>1. o = Outcome(Retire(StoreInPieces(S, n, i, gaps, over), shut, i, t, close), n + 1)
    BY <1>1, <1>4
  <2>. QED
    BY <1>4, <2>1, Zenon DEF stop, held, cover, gaps, over, shut
<1>. QED
  BY <1>2, <1>3, <1>4

LEMMA CompeteKeeps ==
    ASSUME NEW S, NEW n \in Nat, Table(S, n), NEW i \in Claim, NEW t \in Time,
           NEW close \in Closures, NEW o \in Compete(S, n, i, t, close)
    PROVE  Kept(S, n, o, close)
<1>. DEFINE stop == CompetesTo(S, i, t)
            held == HeldFor(S, i, t)
            gaps == Gaps(S, i, held, stop)
            over == Overlapped(S, i, held, stop)
            shut == Outranked(S, i, Older(S, i, t))
            R    == StoreInPieces(S, n, i, gaps, over)
<1>1. CASE \E ids \in SUBSET Unhidden(S, t) : o = Outcome(Repeat(S, i, ids), n)
  BY <1>1, RepeatingKeeps
<1>2. CASE o = Outcome(Retire(R, shut, i, t, close), n + 1)
  <2>1. Parts(gaps)
    BY CompetesToType, GapsAreParts
  <2>. HIDE DEF gaps, over, shut
  <2>2. Table(R, n + 1) /\ Updated(S, R, n, close)
    BY <2>1, StoreKeeps
  <2>. HIDE DEF R
  <2>. QED
    BY <1>2, <2>2, RetiringKeeps
<1>. QED
  BY <1>1, <1>2, CompeteForms

(* _earlier_period ends at a stored start, no later than the first live    *)
(* one: of the starts it may stop at, none reaches past the least.         *)
LEMMA EarlierEndType ==
    ASSUME NEW S, NEW n \in Nat, Table(S, n), NEW i \in Claim,
           NEW held, held \subseteq DOMAIN S, NEW seen, seen \subseteq DOMAIN S, seen # {}
    PROVE  /\ EarlierEnd(S, i, held, seen) \in Ends
           /\ EarlierEnd(S, i, held, seen) <= i.to
           /\ \A k \in seen : EarlierEnd(S, i, held, seen) <= S[k].from
           /\ \/ EarlierEnd(S, i, held, seen) = i.to
              \/ \E k \in seen \cup {j \in held : IsAfter(S[j], i)} :
                    EarlierEnd(S, i, held, seen) = S[k].from
<1>. DEFINE lives  == {S[k].from : k \in seen}
            first  == LeastOf(lives)
            starts == {first} \cup {S[k].from : k \in {j \in held : IsAfter(S[j], i)}}
            stops  == {e \in starts : e <= first /\ Reaching(S, i, held, e) = {}}
            near   == {e \in starts : e <= first}
            end    == GreatestOf(stops)
<1>1. \A k \in DOMAIN S : S[k].from \in Nat /\ S[k].from \in Ends
  BY EndsAreNaturals DEF Table, Claim
<1>2. lives \subseteq Nat /\ lives \subseteq Ends /\ lives # {}
  BY <1>1
<1>3. first \in lives /\ \A e \in lives : first <= e
  <2>. HIDE DEF lives
  <2>. QED
    BY <1>2, LeastOfIsLeast
<1>4. first \in Nat /\ first \in Ends
  BY <1>2, <1>3, Zenon
<1>5. \A k \in seen : first <= S[k].from
  BY <1>3
<1>. HIDE DEF lives, first
<1>6. starts \subseteq Nat /\ starts \subseteq Ends /\ first \in starts
  BY <1>1, <1>4
<1>16. \A e \in starts : \E k \in seen \cup {j \in held : IsAfter(S[j], i)} : e = S[k].from
  <2>1. \E k \in seen : first = S[k].from
    BY <1>3 DEF lives
  <2>. QED
    BY <2>1
<1>17. stops \subseteq starts
  OBVIOUS
<1>7. near \subseteq Nat /\ near # {}
  BY <1>4, <1>6
<1>8. PICK m \in near : \A e \in near : m <= e
  <2>. HIDE DEF near
  <2>. QED
    BY <1>7, LeastExists
<1>9. Reaching(S, i, held, m) = {}
  <2>. SUFFICES ASSUME NEW k \in Reaching(S, i, held, m)
                PROVE  FALSE
    OBVIOUS
  <2>1. k \in held /\ S[k].from < m /\ IsAfter(S[k], i)
    BY DEF Reaching
  <2>2. S[k].from \in starts /\ S[k].from \in Nat /\ m \in Nat /\ m <= first
    BY <1>1, <1>6, <2>1
  <2>3. S[k].from \in near
    BY <1>4, <2>1, <2>2
  <2>. QED
    BY <1>8, <2>1, <2>2, <2>3
<1>10. /\ stops # {} /\ stops \subseteq Nat /\ stops \subseteq Ends
       /\ \A e \in stops : e <= first
  BY <1>6, <1>8, <1>9
<1>11. EarlierEnd(S, i, held, seen) = Earlier(end, i.to)
  BY Zenon DEF EarlierEnd, first, lives
<1>. HIDE DEF stops, starts, near
<1>12. end \in stops
  BY <1>4, <1>10, GreatestOfIsGreatest
<1>13. /\ end \in Nat /\ end \in Ends /\ end <= first
       /\ i.to \in Nat /\ i.to \in Ends
  BY <1>10, <1>12, EndsAreNaturals DEF Claim
<1>. HIDE DEF end
<1>14. /\ Earlier(end, i.to) \in Ends /\ Earlier(end, i.to) \in Nat
       /\ Earlier(end, i.to) <= i.to /\ Earlier(end, i.to) <= first
  BY <1>4, <1>13 DEF Earlier
<1>15. ASSUME NEW k \in seen
       PROVE  Earlier(end, i.to) <= S[k].from
  <2>1. S[k].from \in Nat /\ first <= S[k].from
    BY <1>1, <1>5
  <2>. QED
    BY <1>4, <1>14, <2>1
<1>18. \/ Earlier(end, i.to) = i.to
       \/ \E k \in seen \cup {j \in held : IsAfter(S[j], i)} : Earlier(end, i.to) = S[k].from
  BY <1>12, <1>16, <1>17 DEF Earlier
<1>. QED
  BY <1>11, <1>14, <1>15, <1>18

LEMMA ExtendForms ==
    ASSUME NEW S, NEW n, NEW i, NEW t, NEW seen, NEW o \in ExtendBackwards(S, n, i, t, seen)
    PROVE  LET held == Held(S, i, t)
               stop == EarlierEnd(S, i, held, seen)
           IN  \/ \E ids \in SUBSET Unhidden(S, t) : o = Outcome(Repeat(S, i, ids), n)
               \/ o = Outcome(StoreInPieces(S, n, i, Gaps(S, i, held, stop),
                                            Overlapped(S, i, held, stop)), n + 1)
<1>. DEFINE held == Held(S, i, t)
            stop == EarlierEnd(S, i, held, seen)
            cover == Covering(S, i, held, stop)
            gaps == Gaps(S, i, held, stop)
            over == Overlapped(S, i, held, stop)
<1>1. ExtendBackwards(S, n, i, t, seen) =
        CASE cover # {} -> {Outcome(Repeat(S, i, {k}), n) : k \in Oldest(S, cover)}
          [] cover = {} /\ gaps = {} -> {Outcome(Repeat(S, i, over), n)}
          [] cover = {} /\ gaps # {} ->
                {Outcome(StoreInPieces(S, n, i, gaps, over), n + 1)}
  BY Zenon DEF ExtendBackwards
<1>0. over \subseteq Unhidden(S, t) /\ Oldest(S, cover) \subseteq Unhidden(S, t)
  BY HeldIsUnhidden, LookupsAreAmong
<1>. HIDE DEF stop, held, cover, gaps, over
<1>2. CASE cover # {}
  BY <1>0, <1>1, <1>2
<1>3. CASE cover = {} /\ gaps = {}
  BY <1>0, <1>1, <1>3
<1>4. CASE cover = {} /\ gaps # {}
  <2>1. o = Outcome(StoreInPieces(S, n, i, gaps, over), n + 1)
    BY <1>1, <1>4
  <2>. QED
    BY <2>1, Zenon DEF stop, held, cover, gaps, over
<1>. QED
  BY <1>2, <1>3, <1>4

LEMMA ExtendKeeps ==
    ASSUME NEW S, NEW n \in Nat, Table(S, n), NEW i \in Claim, NEW t \in Time,
           NEW close \in Closures, NEW seen, seen \subseteq DOMAIN S, seen # {},
           NEW o \in ExtendBackwards(S, n, i, t, seen)
    PROVE  Kept(S, n, o, close)
<1>. DEFINE held == Held(S, i, t)
            stop == EarlierEnd(S, i, held, seen)
            gaps == Gaps(S, i, held, stop)
            over == Overlapped(S, i, held, stop)
<1>1. held \subseteq DOMAIN S
  BY DEF Held, FindByValue
<1>2. Parts(gaps)
  BY <1>1, EarlierEndType, GapsAreParts
<1>3. CASE \E ids \in SUBSET Unhidden(S, t) : o = Outcome(Repeat(S, i, ids), n)
  BY <1>3, RepeatingKeeps
<1>4. CASE o = Outcome(StoreInPieces(S, n, i, gaps, over), n + 1)
  <2>. HIDE DEF gaps, over
  <2>. QED
    BY <1>2, <1>4, StoringKeeps
<1>. QED
  BY <1>3, <1>4, ExtendForms

(* Which of the ways a value may be stored is taken is not looked at.      *)
LEMMA PositiveForms ==
    ASSUME NEW S, NEW n, NEW i, NEW t, NEW close, NEW o \in ApplyPositive(S, n, i, t, close)
    PROVE  \/ \E ids \in SUBSET Unhidden(S, t) : o = Outcome(Repeat(S, i, ids), n)
           \/ /\ LiveSame(S, i, t) # {} /\ \A k \in LiveSame(S, i, t) : IsAfter(S[k], i)
              /\ o \in ExtendBackwards(S, n, i, t, LiveSame(S, i, t))
           \/ o \in Compete(S, n, i, t, close)
<1>. DEFINE live     == LiveSame(S, i, t)
            expiring == i.exp # Forever /\ i.user
            before   == \A k \in live : IsAfter(S[k], i)
            whole    == Gaps(S, i, HeldFor(S, i, t), i.to) = {}
<1>1. ApplyPositive(S, n, i, t, close) =
        CASE live # {} /\ before /\ ~ expiring -> ExtendBackwards(S, n, i, t, live)
          [] live # {} /\ (expiring \/ (~ before /\ whole)) ->
                {Outcome(Repeat(S, i, {k}), n) : k \in Oldest(S, live)}
          [] live = {} \/ (~ before /\ ~ expiring /\ ~ whole) ->
                Compete(S, n, i, t, close)
  BY Zenon DEF ApplyPositive
<1>2. before \in BOOLEAN /\ expiring \in BOOLEAN /\ whole \in BOOLEAN
  OBVIOUS
<1>0. Oldest(S, live) \subseteq Unhidden(S, t)
  BY HeldIsUnhidden, LookupsAreAmong
<1>. HIDE DEF live, expiring, before, whole
<1>3. CASE live # {} /\ before /\ ~ expiring
  BY <1>1, <1>3 DEF live, before
<1>4. CASE live # {} /\ (expiring \/ (~ before /\ whole))
  <2>1. o \in {Outcome(Repeat(S, i, {k}), n) : k \in Oldest(S, live)}
    BY <1>1, <1>4
  <2>. QED
    BY <1>0, <2>1
<1>5. CASE live = {} \/ (~ before /\ ~ expiring /\ ~ whole)
  BY <1>1, <1>5
<1>. QED
  BY <1>2, <1>3, <1>4, <1>5

LEMMA PositiveKeeps ==
    ASSUME NEW S, NEW n \in Nat, Table(S, n), NEW i \in Claim, NEW t \in Time,
           NEW close \in Closures, NEW o \in ApplyPositive(S, n, i, t, close)
    PROVE  Kept(S, n, o, close)
<1>1. LiveSame(S, i, t) \subseteq DOMAIN S
  BY DEF LiveSame, FindByValue
<1>. QED
  BY <1>1, PositiveForms, RepeatingKeeps, ExtendKeeps, CompeteKeeps

(* A retraction's tombstone begins and ends when it is recorded.           *)
LEMMA TombstoneIsClaim ==
    ASSUME NEW i \in Claim
    PROVE  Tombstone(i) \in Claim
<1>1. NotBeforeStart(i.rec, i) \in Time
  BY DEF NotBeforeStart, Later, Claim
<1>2. i.rec \in Ends
  BY EndsAreNaturals DEF Claim
<1>3. NotBeforeStart(i.rec, i) \in Ends
  BY <1>1, EndsAreNaturals
<1>. QED
  BY <1>2, <1>3 DEF Tombstone, Claim

Tombstoned(S, n, i) ==
    [StoreInPieces(S, n, i, {[lo |-> i.from, hi |-> i.to]}, {})
       EXCEPT ![<<n + 1, i.from>>] = Tombstone(i)]

LEMMA RetractionForms ==
    ASSUME NEW S, NEW n, NEW i, NEW t, NEW clock, NEW close,
           NEW o \in ApplyRetraction(S, n, i, t, clock, close)
    PROVE  \/ o = Outcome(S, n)
           \/ \E ids : o = Outcome(Retire(Tombstoned(S, n, i), ids, i, t, close), n + 1)
<1>. DEFINE slot    == Retracted(S, i, t, clock)
            matches == {k \in slot : i.val = NoValue \/ S[k].val = i.val}
            changed == {k \in matches : \/ close = "retired"
                                        \/ S[k].to > NotBeforeStart(i.from, S[k])}
            closing == Outranked(S, i, changed)
            prior   == {k \in FindByValue(S, i) : /\ Sees(i.scope, S[k].scope)
                                                  /\ ~ Hidden(S[k], t)}
            nothing == \/ prior # {}
                       \/ i.val # NoValue /\ slot # {} /\ matches = {}
            R       == Tombstoned(S, n, i)
<1>1. ApplyRetraction(S, n, i, t, clock, close) =
        IF closing = {} /\ nothing
        THEN {Outcome(S, n)}
        ELSE {Outcome(Retire(R, closing, i, t, close), n + 1)}
  BY Zenon DEF ApplyRetraction, Tombstoned
<1>2. \/ o = Outcome(S, n)
      \/ o = Outcome(Retire(R, closing, i, t, close), n + 1)
  <2>. HIDE DEF closing, nothing, R
  <2>. QED
    BY <1>1
<1>. HIDE DEF closing
<1>. QED
  BY <1>2, Zenon

LEMMA RetractionKeeps ==
    ASSUME NEW S, NEW n \in Nat, Table(S, n), NEW i \in Claim, NEW t \in Time, NEW clock,
           NEW close \in Closures, NEW o \in ApplyRetraction(S, n, i, t, clock, close)
    PROVE  Kept(S, n, o, close)
<1>. DEFINE gaps   == {[lo |-> i.from, hi |-> i.to]}
            stored == StoreInPieces(S, n, i, gaps, {})
            new    == <<n + 1, i.from>>
            R      == Tombstoned(S, n, i)
<1>0. R = [stored EXCEPT ![new] = Tombstone(i)]
  BY DEF Tombstoned
<1>1. Parts(gaps)
  BY DEF Parts, Claim
<1>2. \A g \in gaps : g.lo = i.from
  OBVIOUS
<1>. HIDE DEF gaps
<1>3. Table(stored, n + 1) /\ Updated(S, stored, n, close)
  BY <1>1, StoreKeeps
<1>. HIDE DEF stored
<1>4. new \notin DOMAIN S
  BY DEF Table, Ids
<1>. HIDE DEF R, new
<1>5. DOMAIN R = DOMAIN stored
  BY <1>0
<1>6. \A k \in DOMAIN stored : R[k] = IF k = new THEN Tombstone(i) ELSE stored[k]
  BY <1>0
<1>7. R \in [DOMAIN R -> Claim]
  BY <1>0, <1>3, TombstoneIsClaim DEF Table
<1>8. Table(R, n + 1)
  BY <1>3, <1>5, <1>7 DEF Table
<1>9. Updated(S, R, n, close)
  BY <1>3, <1>4, <1>5, <1>6 DEF Updated
<1>10. CASE o = Outcome(S, n)
  BY <1>10, NothingKeeps
<1>11. CASE \E ids : o = Outcome(Retire(R, ids, i, t, close), n + 1)
  BY <1>8, <1>9, <1>11, RetiringKeeps
<1>. QED
  BY <1>10, <1>11, RetractionForms DEF R

LEMMA CanonicalIsClaim ==
    ASSUME NEW i \in Claim, NEW t \in Time
    PROVE  Canonical(i, t) \in Claim
<1>1. SlotScope(i.pred, i.scope) \in Scope
  BY DEF SlotScope, Claim, Scope
<1>2. Earlier(i.rec, t) \in Time
  BY DEF Earlier, Claim
<1>. QED
  BY <1>1, <1>2 DEF Canonical, Claim

(* Reconciler.apply keeps the table, whatever it is told.                  *)
THEOREM ApplyKeeps ==
    ASSUME NEW S, NEW n \in Nat, Table(S, n), NEW i \in Claim, NEW t \in Time, NEW clock,
           NEW close \in Closures, NEW o \in Apply(S, n, i, t, clock, close)
    PROVE  Kept(S, n, o, close)
<1>. DEFINE c == Canonical(i, t)
<1>1. c \in Claim
  BY CanonicalIsClaim
<1>2. Apply(S, n, i, t, clock, close) =
        CASE c.neg -> ApplyRetraction(S, n, c, t, clock, close)
          [] ~ c.neg /\ c.val = NoValue -> {Outcome(S, n)}
          [] ~ c.neg /\ c.val # NoValue -> ApplyPositive(S, n, c, t, close)
  BY Zenon DEF Apply
<1>. HIDE DEF c
<1>3. c.neg \in BOOLEAN
  BY <1>1 DEF Claim
<1>4. CASE c.neg
  BY <1>1, <1>2, <1>4, RetractionKeeps
<1>5. CASE ~ c.neg /\ c.val = NoValue
  BY <1>2, <1>5, NothingKeeps
<1>6. CASE ~ c.neg /\ c.val # NoValue
  BY <1>1, <1>2, <1>6, PositiveKeeps
<1>. QED
  BY <1>3, <1>4, <1>5, <1>6

-----------------------------------------------------------------------------
(* What is stored is what was said                                         *)

SaidBy(c, i) ==
    /\ c.pred = i.pred /\ c.val = i.val /\ c.neg = i.neg /\ c.scope = i.scope
    /\ c.rec = i.rec /\ c.conf = i.conf /\ c.exp = i.exp /\ c.user = i.user

(* What R has more than S was said by i, and i moves no expiry but to one  *)
(* it names.                                                               *)
StemsFrom(S, R, i) ==
    /\ \A k \in DOMAIN R \ DOMAIN S : SaidBy(R[k], i)
    /\ i.exp = Forever => \A k \in DOMAIN R \cap DOMAIN S : R[k].exp = S[k].exp

(* And it is one write, or none.                                           *)
Stems(S, n, o, i) == o.writes \in {n, n + 1} /\ StemsFrom(S, o.rows, i)

LEMMA OutcomeStems ==
    ASSUME NEW S, NEW n, NEW R, NEW m \in {n, n + 1}, NEW i, StemsFrom(S, R, i)
    PROVE  Stems(S, n, Outcome(R, m), i)
<1>1. Outcome(R, m).rows = R /\ Outcome(R, m).writes = m
  BY DEF Outcome
<1>. QED
  BY <1>1, Zenon DEF Stems

LEMMA NothingStems ==
    ASSUME NEW S, NEW n, NEW i
    PROVE  Stems(S, n, Outcome(S, n), i)
<1>1. StemsFrom(S, S, i)
  BY DEF StemsFrom
<1>. QED
  BY <1>1, OutcomeStems

LEMMA RepeatingStems ==
    ASSUME NEW S, NEW n, NEW i, NEW ids
    PROVE  Stems(S, n, Outcome(Repeat(S, i, ids), n), i)
<1>. DEFINE R == Repeat(S, i, ids)
<1>1. StemsFrom(S, R, i)
  BY DEF StemsFrom, Repeat
<1>. QED
  BY <1>1, OutcomeStems, Zenon

LEMMA StoreStems ==
    ASSUME NEW S, NEW n \in Nat, Table(S, n), NEW i \in Claim, NEW gaps, Parts(gaps), NEW over
    PROVE  StemsFrom(S, StoreInPieces(S, n, i, gaps, over), i)
<1>. DEFINE R == StoreInPieces(S, n, i, gaps, over)
<1>1. DOMAIN R = DOMAIN S \cup {<<n + 1, g.lo>> : g \in gaps} /\ NewAreParts(S, R, n, i, gaps)
  <2>. "ended" \in Closures
    BY DEF Closures
  <2>. QED
    BY StoreKeeps
<1>2. \A k \in DOMAIN S : R[k] = Repeat(S, i, over)[k]
  BY <1>1 DEF StoreInPieces
<1>. HIDE DEF R
<1>3. ASSUME NEW k \in DOMAIN R \ DOMAIN S
      PROVE  SaidBy(R[k], i)
  <2>1. PICK g \in gaps : R[k] = Piece(i, g)
    BY <1>1, Zenon DEF NewAreParts
  <2>2. g.lo \in Time /\ g.hi \in Ends
    BY Zenon DEF Parts
  <2>3. SaidBy(Piece(i, g), i)
    BY <2>2, PieceIsClaim DEF SaidBy
  <2>. QED
    BY <2>1, <2>3
<1>4. ASSUME i.exp = Forever, NEW k \in DOMAIN R \cap DOMAIN S
      PROVE  R[k].exp = S[k].exp
  BY <1>2, <1>4 DEF Repeat
<1>. QED
  BY <1>3, <1>4, Zenon DEF StemsFrom, R

(* close_out moves no expiry, and nothing else that was said.              *)
LEMMA CloseOutSays ==
    ASSUME NEW c \in Claim, NEW at \in Ends, NEW close \in Closures
    PROVE  SaidBy(CloseOut(c, at, close), c)
<1>1. CASE c.inv # Forever
  BY <1>1 DEF CloseOut, SaidBy
<1>2. CASE c.inv = Forever /\ close = "retired"
  BY <1>2 DEF CloseOut, SaidBy, Claim
<1>3. CASE c.inv = Forever /\ close # "retired"
  BY <1>3 DEF CloseOut, SaidBy, Claim
<1>. QED
  BY <1>1, <1>2, <1>3

LEMMA RetireStems ==
    ASSUME NEW S, NEW m, NEW R, Table(R, m), NEW i \in Claim, StemsFrom(S, R, i), NEW ids,
           NEW t \in Time, NEW close \in Closures
    PROVE  StemsFrom(S, Retire(R, ids, i, t, close), i)
<1>. DEFINE Q == Retire(R, ids, i, t, close)
            at == IF close = "retired" THEN t ELSE i.from
<1>1. at \in Ends
  BY EndsAreNaturals DEF Claim
<1>2. DOMAIN Q = DOMAIN R
  BY DEF Retire
<1>3. ASSUME NEW k \in DOMAIN R
      PROVE  SaidBy(Q[k], R[k])
  <2>1. R[k] \in Claim
    BY DEF Table
  <2>2. Q[k] = IF k \notin ids THEN R[k] ELSE CloseOut(R[k], at, close)
    BY DEF Retire
  <2>. HIDE DEF Q, at
  <2>3. CASE k \in ids
    BY <1>1, <2>1, <2>2, <2>3, CloseOutSays, Zenon
  <2>4. CASE k \notin ids
    BY <2>2, <2>4, Zenon DEF SaidBy
  <2>. QED
    BY <2>3, <2>4
<1>. HIDE DEF Q
<1>4. \A k \in DOMAIN Q \ DOMAIN S : SaidBy(Q[k], i)
  <2>. SUFFICES ASSUME NEW k \in DOMAIN Q \ DOMAIN S
                PROVE  SaidBy(Q[k], i)
    OBVIOUS
  <2>1. SaidBy(Q[k], R[k]) /\ SaidBy(R[k], i)
    BY <1>2, <1>3 DEF StemsFrom
  <2>. QED
    BY <2>1, Zenon DEF SaidBy
<1>5. i.exp = Forever => \A k \in DOMAIN Q \cap DOMAIN S : Q[k].exp = S[k].exp
  BY <1>2, <1>3 DEF StemsFrom, SaidBy
<1>. QED
  BY <1>4, <1>5, Zenon DEF StemsFrom, Q

LEMMA CompeteStems ==
    ASSUME NEW S, NEW n \in Nat, Table(S, n), NEW i \in Claim, NEW t \in Time,
           NEW close \in Closures, NEW o \in Compete(S, n, i, t, close)
    PROVE  Stems(S, n, o, i)
<1>. DEFINE stop == CompetesTo(S, i, t)
            held == HeldFor(S, i, t)
            gaps == Gaps(S, i, held, stop)
            over == Overlapped(S, i, held, stop)
            shut == Outranked(S, i, Older(S, i, t))
            R    == StoreInPieces(S, n, i, gaps, over)
<1>1. CASE \E ids \in SUBSET Unhidden(S, t) : o = Outcome(Repeat(S, i, ids), n)
  BY <1>1, RepeatingStems
<1>2. CASE o = Outcome(Retire(R, shut, i, t, close), n + 1)
  <2>1. Parts(gaps)
    BY CompetesToType, GapsAreParts
  <2>. HIDE DEF gaps, over, shut
  <2>2. Table(R, n + 1)
    BY <2>1, StoreKeeps
  <2>3. StemsFrom(S, R, i)
    BY <2>1, StoreStems
  <2>. HIDE DEF R
  <2>4. StemsFrom(S, Retire(R, shut, i, t, close), i)
    BY <2>2, <2>3, RetireStems, Zenon
  <2>. QED
    BY <1>2, <2>4, OutcomeStems, Zenon
<1>. QED
  BY <1>1, <1>2, CompeteForms

LEMMA ExtendStems ==
    ASSUME NEW S, NEW n \in Nat, Table(S, n), NEW i \in Claim, NEW t \in Time,
           NEW seen, seen \subseteq DOMAIN S, seen # {},
           NEW o \in ExtendBackwards(S, n, i, t, seen)
    PROVE  Stems(S, n, o, i)
<1>. DEFINE held == Held(S, i, t)
            stop == EarlierEnd(S, i, held, seen)
            gaps == Gaps(S, i, held, stop)
            over == Overlapped(S, i, held, stop)
<1>1. held \subseteq DOMAIN S
  BY DEF Held, FindByValue
<1>2. Parts(gaps)
  BY <1>1, EarlierEndType, GapsAreParts
<1>3. CASE \E ids \in SUBSET Unhidden(S, t) : o = Outcome(Repeat(S, i, ids), n)
  BY <1>3, RepeatingStems
<1>4. CASE o = Outcome(StoreInPieces(S, n, i, gaps, over), n + 1)
  <2>. HIDE DEF gaps, over
  <2>1. StemsFrom(S, StoreInPieces(S, n, i, gaps, over), i)
    BY <1>2, StoreStems, Zenon
  <2>. QED
    BY <1>4, <2>1, OutcomeStems, Zenon
<1>. QED
  BY <1>3, <1>4, ExtendForms

LEMMA PositiveStems ==
    ASSUME NEW S, NEW n \in Nat, Table(S, n), NEW i \in Claim, NEW t \in Time,
           NEW close \in Closures, NEW o \in ApplyPositive(S, n, i, t, close)
    PROVE  Stems(S, n, o, i)
<1>1. LiveSame(S, i, t) \subseteq DOMAIN S
  BY DEF LiveSame, FindByValue
<1>. QED
  BY <1>1, PositiveForms, RepeatingStems, ExtendStems, CompeteStems

LEMMA RetractionStems ==
    ASSUME NEW S, NEW n \in Nat, Table(S, n), NEW i \in Claim, NEW t \in Time, NEW clock,
           NEW close \in Closures, NEW o \in ApplyRetraction(S, n, i, t, clock, close)
    PROVE  Stems(S, n, o, i)
<1>. DEFINE gaps   == {[lo |-> i.from, hi |-> i.to]}
            stored == StoreInPieces(S, n, i, gaps, {})
            new    == <<n + 1, i.from>>
            R      == Tombstoned(S, n, i)
<1>0. R = [stored EXCEPT ![new] = Tombstone(i)]
  BY DEF Tombstoned
<1>1. Parts(gaps)
  BY DEF Parts, Claim
<1>. HIDE DEF gaps
<1>2. Table(stored, n + 1) /\ StemsFrom(S, stored, i)
  <2>. "ended" \in Closures
    BY DEF Closures
  <2>. QED
    BY <1>1, StoreKeeps, StoreStems
<1>. HIDE DEF stored
<1>3. new \notin DOMAIN S
  BY DEF Table, Ids
<1>. HIDE DEF R, new
<1>4. DOMAIN R = DOMAIN stored /\ \A k \in DOMAIN stored : R[k] = IF k = new THEN Tombstone(i) ELSE stored[k]
  BY <1>0
<1>5. Table(R, n + 1)
  <2>1. R \in [DOMAIN R -> Claim]
    BY <1>0, <1>2, TombstoneIsClaim DEF Table
  <2>. QED
    BY <1>2, <1>4, <2>1 DEF Table
<1>6. SaidBy(Tombstone(i), i)
  BY DEF SaidBy, Tombstone, Claim
<1>7. StemsFrom(S, R, i)
  BY <1>2, <1>3, <1>4, <1>6, Zenon DEF StemsFrom
<1>8. CASE o = Outcome(S, n)
  BY <1>8, NothingStems
<1>9. ASSUME NEW ids, o = Outcome(Retire(R, ids, i, t, close), n + 1)
      PROVE  Stems(S, n, o, i)
  <2>1. StemsFrom(S, Retire(R, ids, i, t, close), i)
    BY <1>5, <1>7, RetireStems, Zenon
  <2>. QED
    BY <1>9, <2>1, OutcomeStems, Zenon
<1>. QED
  BY <1>8, <1>9, RetractionForms DEF R

(* Reconciler.apply stores what it is told, at the scope of its slot, and  *)
(* in one write; an expiry only moves to one it is told.                   *)
THEOREM ApplyStems ==
    ASSUME NEW S, NEW n \in Nat, Table(S, n), NEW i \in Claim, NEW t \in Time, NEW clock,
           NEW close \in Closures, NEW o \in Apply(S, n, i, t, clock, close)
    PROVE  Stems(S, n, o, Canonical(i, t))
<1>. DEFINE c == Canonical(i, t)
<1>1. c \in Claim
  BY CanonicalIsClaim
<1>2. Apply(S, n, i, t, clock, close) =
        CASE c.neg -> ApplyRetraction(S, n, c, t, clock, close)
          [] ~ c.neg /\ c.val = NoValue -> {Outcome(S, n)}
          [] ~ c.neg /\ c.val # NoValue -> ApplyPositive(S, n, c, t, close)
  BY Zenon DEF Apply
<1>. SUFFICES Stems(S, n, o, c)
  OBVIOUS
<1>. HIDE DEF c
<1>3. c.neg \in BOOLEAN
  BY <1>1 DEF Claim
<1>4. CASE c.neg
  <2>. o \in ApplyRetraction(S, n, c, t, clock, close)
    BY <1>2, <1>4
  <2>. QED
    BY <1>1, RetractionStems
<1>5. CASE ~ c.neg /\ c.val = NoValue
  BY <1>2, <1>5, NothingStems
<1>6. CASE ~ c.neg /\ c.val # NoValue
  <2>. o \in ApplyPositive(S, n, c, t, close)
    BY <1>2, <1>6
  <2>. QED
    BY <1>1, PositiveStems
<1>. QED
  BY <1>3, <1>4, <1>5, <1>6

-----------------------------------------------------------------------------
(* The forms of an outcome                                                 *)

(* What a call may repeat: nothing hidden, and where it moves an expiry,   *)
(* nothing of another scope.                                               *)
Repeatable(S, i, t) ==
    {k \in Unhidden(S, t) : i.exp # Forever /\ i.user => S[k].scope = i.scope}

Repeats(S, n, i, t, o) ==
    \E ids \in SUBSET Repeatable(S, i, t) : o = Outcome(Repeat(S, i, ids), n)

Stores(S, n, i, t, close, o) ==
    \E held \in {Held(S, i, t), HeldFor(S, i, t)}, stop \in Ends,
       over \in SUBSET Repeatable(S, i, t), shut \in SUBSET DOMAIN S :
          o = Outcome(Retire(StoreInPieces(S, n, i, Gaps(S, i, held, stop), over),
                             shut, i, t, close), n + 1)

Retracts(S, n, i, t, close, o) ==
    \E ids : o = Outcome(Retire(Tombstoned(S, n, i), ids, i, t, close), n + 1)

LEMMA FoundIsRepeatable ==
    ASSUME NEW S, NEW i, NEW t
    PROVE  /\ HeldFor(S, i, t) \subseteq Repeatable(S, i, t)
           /\ LiveSame(S, i, t) \subseteq Repeatable(S, i, t)
           /\ ~ (i.exp # Forever /\ i.user) => Held(S, i, t) \subseteq Repeatable(S, i, t)
<1>1. HeldFor(S, i, t) \subseteq Repeatable(S, i, t)
  BY HeldIsUnhidden DEF HeldFor, Repeatable
<1>2. LiveSame(S, i, t) \subseteq Repeatable(S, i, t)
  BY HeldIsUnhidden DEF LiveSame, Repeatable
<1>3. ~ (i.exp # Forever /\ i.user) => Held(S, i, t) \subseteq Repeatable(S, i, t)
  BY HeldIsUnhidden DEF Repeatable
<1>. QED
  BY <1>1, <1>2, <1>3

LEMMA CompeteTakesForm ==
    ASSUME NEW S, NEW n \in Nat, Table(S, n), NEW i \in Claim, NEW t \in Time, NEW close,
           NEW o \in Compete(S, n, i, t, close)
    PROVE  Repeats(S, n, i, t, o) \/ Stores(S, n, i, t, close, o)
<1>. DEFINE stop == CompetesTo(S, i, t)
            held == HeldFor(S, i, t)
            cover == Covering(S, i, held, stop)
            gaps == Gaps(S, i, held, stop)
            over == Overlapped(S, i, held, stop)
            shut == Outranked(S, i, Older(S, i, t))
<1>1. Compete(S, n, i, t, close) =
        CASE cover # {} -> {Outcome(Repeat(S, i, {k}), n) : k \in Oldest(S, cover)}
          [] cover = {} /\ gaps = {} -> {Outcome(Repeat(S, i, over), n)}
          [] cover = {} /\ gaps # {} ->
                {Outcome(Retire(StoreInPieces(S, n, i, gaps, over), shut, i, t, close), n + 1)}
  BY Zenon DEF Compete, CompetesTo
<1>2. over \in SUBSET Repeatable(S, i, t) /\ Oldest(S, cover) \subseteq Repeatable(S, i, t)
  BY FoundIsRepeatable, LookupsAreAmong
<1>3. shut \in SUBSET DOMAIN S
  BY DEF Outranked, Older, Victims
<1>4. stop \in Ends
  BY CompetesToType
<1>5. CASE cover # {}
  <2>. HIDE DEF cover, gaps, over, shut
  <2>. QED
    BY <1>1, <1>2, <1>5 DEF Repeats
<1>6. CASE cover = {} /\ gaps = {}
  <2>. HIDE DEF cover, gaps, over, shut
  <2>. QED
    BY <1>1, <1>2, <1>6 DEF Repeats
<1>7. CASE cover = {} /\ gaps # {}
  <2>1. o = Outcome(Retire(StoreInPieces(S, n, i, gaps, over), shut, i, t, close), n + 1)
    <3>. HIDE DEF cover, gaps, over, shut
    <3>. QED
      BY <1>1, <1>7
  <2>. HIDE DEF stop, cover, over, shut, held
  <2>2. held \in {Held(S, i, t), HeldFor(S, i, t)}
    BY DEF held
  <2>. QED
    BY <1>2, <1>3, <1>4, <2>1, <2>2, Zenon DEF Stores
<1>. QED
  BY <1>5, <1>6, <1>7

LEMMA RetireNone ==
    ASSUME NEW S, NEW n, NEW i, NEW gaps, NEW over, NEW t, NEW close
    PROVE  LET R == StoreInPieces(S, n, i, gaps, over) IN Retire(R, {}, i, t, close) = R
  BY DEF Retire, StoreInPieces

LEMMA ExtendTakesForm ==
    ASSUME NEW S, NEW n \in Nat, Table(S, n), NEW i \in Claim, NEW t \in Time, NEW close,
           ~ (i.exp # Forever /\ i.user), LiveSame(S, i, t) # {},
           NEW o \in ExtendBackwards(S, n, i, t, LiveSame(S, i, t))
    PROVE  Repeats(S, n, i, t, o) \/ Stores(S, n, i, t, close, o)
<1>. DEFINE seen == LiveSame(S, i, t)
            held == Held(S, i, t)
            stop == EarlierEnd(S, i, held, seen)
            cover == Covering(S, i, held, stop)
            gaps == Gaps(S, i, held, stop)
            over == Overlapped(S, i, held, stop)
<1>1. ExtendBackwards(S, n, i, t, seen) =
        CASE cover # {} -> {Outcome(Repeat(S, i, {k}), n) : k \in Oldest(S, cover)}
          [] cover = {} /\ gaps = {} -> {Outcome(Repeat(S, i, over), n)}
          [] cover = {} /\ gaps # {} ->
                {Outcome(StoreInPieces(S, n, i, gaps, over), n + 1)}
  BY Zenon DEF ExtendBackwards
<1>2. over \in SUBSET Repeatable(S, i, t) /\ Oldest(S, cover) \subseteq Repeatable(S, i, t)
  <2>1. held \subseteq Repeatable(S, i, t)
    BY FoundIsRepeatable
  <2>. HIDE DEF stop, held
  <2>. QED
    BY <2>1, LookupsAreAmong
<1>3. held \subseteq DOMAIN S /\ seen \subseteq DOMAIN S /\ seen # {}
  BY DEF Held, LiveSame, FindByValue
<1>4. stop \in Ends
  <2>. HIDE DEF held, seen
  <2>. QED
    BY <1>3, EarlierEndType
<1>5. CASE cover # {}
  <2>. HIDE DEF cover, gaps, over, seen
  <2>. QED
    BY <1>1, <1>2, <1>5 DEF Repeats, seen
<1>6. CASE cover = {} /\ gaps = {}
  <2>. HIDE DEF cover, gaps, over, seen
  <2>. QED
    BY <1>1, <1>2, <1>6 DEF Repeats, seen
<1>7. CASE cover = {} /\ gaps # {}
  <2>1. o = Outcome(StoreInPieces(S, n, i, gaps, over), n + 1)
    <3>. HIDE DEF cover, gaps, over, seen
    <3>. QED
      BY <1>1, <1>7 DEF seen
  <2>2. o = Outcome(Retire(StoreInPieces(S, n, i, gaps, over), {}, i, t, close), n + 1)
    <3>. HIDE DEF gaps, over
    <3>. QED
      BY <2>1, RetireNone
  <2>3. held \in {Held(S, i, t), HeldFor(S, i, t)} /\ {} \in SUBSET DOMAIN S
    OBVIOUS
  <2>. HIDE DEF stop, cover, over, held
  <2>. QED
    BY <1>2, <1>4, <2>2, <2>3, Zenon DEF Stores
<1>. QED
  BY <1>5, <1>6, <1>7

LEMMA PositiveTakesForm ==
    ASSUME NEW S, NEW n \in Nat, Table(S, n), NEW i \in Claim, NEW t \in Time, NEW close,
           NEW o \in ApplyPositive(S, n, i, t, close)
    PROVE  Repeats(S, n, i, t, o) \/ Stores(S, n, i, t, close, o)
<1>. DEFINE live     == LiveSame(S, i, t)
            expiring == i.exp # Forever /\ i.user
            before   == \A k \in live : IsAfter(S[k], i)
            whole    == Gaps(S, i, HeldFor(S, i, t), i.to) = {}
<1>1. ApplyPositive(S, n, i, t, close) =
        CASE live # {} /\ before /\ ~ expiring -> ExtendBackwards(S, n, i, t, live)
          [] live # {} /\ (expiring \/ (~ before /\ whole)) ->
                {Outcome(Repeat(S, i, {k}), n) : k \in Oldest(S, live)}
          [] live = {} \/ (~ before /\ ~ expiring /\ ~ whole) ->
                Compete(S, n, i, t, close)
  BY Zenon DEF ApplyPositive
<1>2. before \in BOOLEAN /\ expiring \in BOOLEAN /\ whole \in BOOLEAN
  OBVIOUS
<1>3. Oldest(S, live) \subseteq Repeatable(S, i, t)
  BY FoundIsRepeatable, LookupsAreAmong
<1>4. CASE live # {} /\ before /\ ~ expiring
  <2>1. o \in ExtendBackwards(S, n, i, t, live)
    <3>. HIDE DEF live, expiring, before, whole
    <3>. QED
      BY <1>1, <1>4
  <2>. QED
    BY <1>4, <2>1, ExtendTakesForm
<1>5. CASE live # {} /\ (expiring \/ (~ before /\ whole))
  <2>1. o \in {Outcome(Repeat(S, i, {k}), n) : k \in Oldest(S, live)}
    <3>. HIDE DEF live, expiring, before, whole
    <3>. QED
      BY <1>1, <1>5
  <2>. QED
    BY <1>3, <2>1 DEF Repeats
<1>6. CASE live = {} \/ (~ before /\ ~ expiring /\ ~ whole)
  <2>1. o \in Compete(S, n, i, t, close)
    <3>. HIDE DEF live, expiring, before, whole
    <3>. QED
      BY <1>1, <1>6
  <2>. QED
    BY <2>1, CompeteTakesForm
<1>. HIDE DEF live, expiring, before, whole
<1>. QED
  BY <1>2, <1>4, <1>5, <1>6

(* One call repeats, stores parts and closes what they displace, or closes *)
(* and stores a tombstone.                                                 *)
LEMMA ApplyTakesForm ==
    ASSUME NEW S, NEW n \in Nat, Table(S, n), NEW i \in Claim, NEW t \in Time, NEW clock, NEW close,
           NEW o \in Apply(S, n, i, t, clock, close)
    PROVE  LET c == Canonical(i, t)
           IN  \/ Repeats(S, n, c, t, o)
               \/ Stores(S, n, c, t, close, o)
               \/ Retracts(S, n, c, t, close, o)
<1>. DEFINE c == Canonical(i, t)
<1>1. c \in Claim
  BY CanonicalIsClaim
<1>2. Apply(S, n, i, t, clock, close) =
        CASE c.neg -> ApplyRetraction(S, n, c, t, clock, close)
          [] ~ c.neg /\ c.val = NoValue -> {Outcome(S, n)}
          [] ~ c.neg /\ c.val # NoValue -> ApplyPositive(S, n, c, t, close)
  BY Zenon DEF Apply
<1>. HIDE DEF c
<1>3. c.neg \in BOOLEAN
  BY <1>1 DEF Claim
<1>4. Repeats(S, n, c, t, Outcome(S, n))
  <2>1. S = Repeat(S, c, {})
    BY DEF Table, Repeat
  <2>2. {} \in SUBSET Repeatable(S, c, t) /\ Outcome(S, n) = Outcome(Repeat(S, c, {}), n)
    BY <2>1
  <2>. QED
    BY <2>2, Zenon DEF Repeats
<1>5. CASE c.neg
  <2>1. o \in ApplyRetraction(S, n, c, t, clock, close)
    BY <1>2, <1>5
  <2>. QED
    BY <1>4, <2>1, RetractionForms DEF Retracts, c
<1>6. CASE ~ c.neg /\ c.val = NoValue
  BY <1>2, <1>4, <1>6 DEF c
<1>7. CASE ~ c.neg /\ c.val # NoValue
  BY <1>1, <1>2, <1>7, PositiveTakesForm DEF c
<1>. QED
  BY <1>3, <1>5, <1>6, <1>7

-----------------------------------------------------------------------------
(* What a call may do to the clock and the expiry of what is stored        *)

(* d is c after one call told i at t: a claim that is retired is retired   *)
(* at t, and an expiry moves only at the scope i is filed at.              *)
Touched(c, d, i, t) ==
    /\ d.inv # c.inv => d.inv = t
    /\ d.exp # c.exp => /\ i.exp # Forever /\ i.user
                        /\ c.scope = i.scope

LEMMA RepeatTouches ==
    ASSUME NEW S, NEW n, Table(S, n), NEW i, NEW t, NEW ids \in SUBSET Repeatable(S, i, t),
           NEW k \in DOMAIN S
    PROVE  Touched(S[k], Repeat(S, i, ids)[k], i, t)
<1>1. S[k] \in Claim
  BY DEF Table
<1>2. CASE k \in ids /\ i.user /\ i.exp # Forever
  <2>1. Repeat(S, i, ids)[k] = [S[k] EXCEPT !.exp = i.exp]
    BY <1>2 DEF Repeat
  <2>2. S[k].scope = i.scope
    BY <1>2 DEF Repeatable
  <2>. QED
    BY <1>1, <1>2, <2>1, <2>2 DEF Touched, Claim
<1>3. CASE ~ (k \in ids /\ i.user /\ i.exp # Forever)
  <2>1. Repeat(S, i, ids)[k] = S[k]
    BY <1>3 DEF Repeat
  <2>. QED
    BY <2>1 DEF Touched
<1>. QED
  BY <1>2, <1>3

(* Closing moves no expiry, and retires at t.                              *)
LEMMA RetireTouches ==
    ASSUME NEW S, NEW n, NEW R, Table(R, n), NEW ids, NEW i, NEW t, NEW close,
           NEW c, NEW k \in DOMAIN R, Touched(c, R[k], i, t)
    PROVE  Touched(c, Retire(R, ids, i, t, close)[k], i, t)
<1>. DEFINE at == IF close = "retired" THEN t ELSE i.from
            d  == Retire(R, ids, i, t, close)[k]
<1>1. R[k] \in Claim
  BY DEF Table
<1>2. d = IF k \notin ids THEN R[k] ELSE CloseOut(R[k], at, close)
  BY DEF Retire
<1>. HIDE DEF d
<1>3. d.exp = R[k].exp /\ (d.inv # R[k].inv => d.inv = t)
  BY <1>1, <1>2 DEF CloseOut, Claim
<1>. QED
  BY <1>3 DEF Touched, d

(* What Reconciler.apply may do to the claims it finds.                    *)
LEMMA ApplyTouches ==
    ASSUME NEW S, NEW n \in Nat, Table(S, n), NEW i \in Claim, NEW t \in Time, NEW clock,
           NEW close \in Closures, NEW o \in Apply(S, n, i, t, clock, close), NEW k \in DOMAIN S
    PROVE  Touched(S[k], o.rows[k], Canonical(i, t), t)
<1>. DEFINE c == Canonical(i, t)
<1>1. c \in Claim
  BY CanonicalIsClaim
<1>2. Repeats(S, n, c, t, o) \/ Stores(S, n, c, t, close, o) \/ Retracts(S, n, c, t, close, o)
  BY ApplyTakesForm
<1>. HIDE DEF c
<1>. SUFFICES Touched(S[k], o.rows[k], c, t)
  BY DEF c
<1>3. CASE Repeats(S, n, c, t, o)
  BY <1>3, RepeatTouches DEF Repeats, Outcome
<1>4. CASE Stores(S, n, c, t, close, o)
  <2>1. PICK held \in {Held(S, c, t), HeldFor(S, c, t)}, stop \in Ends,
             over \in SUBSET Repeatable(S, c, t), shut \in SUBSET DOMAIN S :
               o = Outcome(Retire(StoreInPieces(S, n, c, Gaps(S, c, held, stop), over),
                                  shut, c, t, close), n + 1)
    BY <1>4 DEF Stores
  <2>. DEFINE gaps == Gaps(S, c, held, stop)
              R == StoreInPieces(S, n, c, gaps, over)
  <2>2. Parts(gaps)
    BY <1>1, GapsAreParts
  <2>. HIDE DEF gaps
  <2>3. Table(R, n + 1)
    BY <1>1, <2>2, StoreKeeps
  <2>4. k \in DOMAIN R /\ R[k] = Repeat(S, c, over)[k]
    BY DEF StoreInPieces
  <2>5. Touched(S[k], R[k], c, t)
    BY <2>4, RepeatTouches
  <2>. HIDE DEF R
  <2>6. Touched(S[k], Retire(R, shut, c, t, close)[k], c, t)
    BY <2>3, <2>4, <2>5, RetireTouches
  <2>7. o.rows = Retire(R, shut, c, t, close)
    BY <2>1 DEF Outcome, R, gaps
  <2>. QED
    BY <2>6, <2>7
<1>5. CASE Retracts(S, n, c, t, close, o)
  <2>1. PICK ids : o = Outcome(Retire(Tombstoned(S, n, c), ids, c, t, close), n + 1)
    BY <1>5 DEF Retracts
  <2>. DEFINE gaps == {[lo |-> c.from, hi |-> c.to]}
              R == StoreInPieces(S, n, c, gaps, {})
              T == Tombstoned(S, n, c)
              new == <<n + 1, c.from>>
  <2>2. T = [R EXCEPT ![new] = Tombstone(c)]
    BY DEF Tombstoned
  <2>3. Parts(gaps)
    BY <1>1 DEF Parts, Claim
  <2>. HIDE DEF gaps, T
  <2>4. Table(R, n + 1)
    BY <1>1, <2>3, StoreKeeps
  <2>5. k \in DOMAIN R /\ R[k] = Repeat(S, c, {})[k]
    BY DEF StoreInPieces
  <2>6. Touched(S[k], R[k], c, t)
    BY <2>5, RepeatTouches
  <2>. HIDE DEF R
  <2>7. k # new
    BY DEF Table, Ids
  <2>. HIDE DEF new
  <2>8. Table(T, n + 1) /\ k \in DOMAIN T /\ T[k] = R[k]
    BY <1>1, <2>2, <2>4, <2>5, <2>7, TombstoneIsClaim DEF Table
  <2>9. Touched(S[k], Retire(T, ids, c, t, close)[k], c, t)
    BY <2>6, <2>8, RetireTouches
  <2>10. o.rows = Retire(T, ids, c, t, close)
    BY <2>1 DEF Outcome, T
  <2>. QED
    BY <2>9, <2>10
<1>. QED
  BY <1>2, <1>3, <1>4, <1>5

-----------------------------------------------------------------------------
(* Where what a call stores begins and ends                                *)

(* A part of a period begins with it or where a claim ends, and ends with  *)
(* it or where a claim begins.                                             *)
LEMMA GapBounds ==
    ASSUME NEW S, NEW n, Table(S, n), NEW i \in Claim, NEW ids \in SUBSET DOMAIN S,
           NEW stop \in Ends, i.from < stop, NEW g \in Gaps(S, i, ids, stop)
    PROVE  /\ g.lo \in Time /\ g.hi \in Ends /\ i.from <= g.lo /\ g.lo < g.hi
           /\ g.lo = i.from \/ \E k \in ids : g.lo = S[k].to
           /\ g.hi = stop \/ \E k \in ids : g.hi = S[k].from
<1>. DEFINE unheld == UnheldInstants(S, i, ids, stop)
            over   == Overlapped(S, i, ids, stop)
<1>1. i.from \in Nat /\ stop \in Nat
  BY EndsAreNaturals DEF Claim
<1>2. /\ g.lo \in unheld /\ g.lo < g.hi
      /\ \A v \in g.lo .. (g.hi - 1) : v \in unheld
      /\ g.lo = i.from \/ g.lo - 1 \notin unheld
      /\ g.hi \notin unheld
  BY <1>1 DEF Gaps
<1>3. /\ g.lo \in Time /\ g.hi \in Ends /\ g.lo \in Nat /\ g.hi \in Nat
      /\ i.from <= g.lo /\ g.hi <= stop
  BY GapsAreParts, EndsAreNaturals DEF Parts
<1>4. \A v : v \in unheld <=> /\ v \in i.from .. (stop - 1)
                              /\ \A k \in over : ~ (HoldsFrom(S[k], i) <= v /\ v < S[k].to)
  BY DEF UnheldInstants
<1>5. ASSUME NEW k \in over
      PROVE  /\ k \in ids /\ S[k].from \in Nat /\ S[k].to \in Nat /\ HoldsFrom(S[k], i) \in Nat
             /\ HoldsFrom(S[k], i) = S[k].from \/ HoldsFrom(S[k], i) <= i.from
  <2>1. k \in ids /\ S[k].from \in Nat /\ S[k].to \in Nat
    BY EndsAreNaturals DEF Overlapped, Table, Claim
  <2>. QED
    BY <1>1, <2>1 DEF HoldsFrom, Earlier
<1>. HIDE DEF unheld, over
<1>6. ASSUME g.lo # i.from
      PROVE  \E k \in ids : g.lo = S[k].to
  <2>1. g.lo - 1 \in i.from .. (stop - 1) /\ g.lo - 1 \notin unheld
    BY <1>1, <1>2, <1>3, <1>6
  <2>2. PICK k \in over : HoldsFrom(S[k], i) <= g.lo - 1 /\ g.lo - 1 < S[k].to
    BY <1>4, <2>1
  <2>3. ~ (HoldsFrom(S[k], i) <= g.lo /\ g.lo < S[k].to)
    BY <1>2, <1>4
  <2>4. g.lo = S[k].to /\ k \in ids
    BY <1>3, <1>5, <2>2, <2>3
  <2>. QED
    BY <2>4
<1>7. ASSUME g.hi # stop
      PROVE  \E k \in ids : g.hi = S[k].from
  <2>1. g.hi \in i.from .. (stop - 1)
    BY <1>1, <1>2, <1>3, <1>7
  <2>7. i.from < g.hi
    BY <1>1, <1>2, <1>3
  <2>2. PICK k \in over : HoldsFrom(S[k], i) <= g.hi /\ g.hi < S[k].to
    BY <1>2, <1>4, <2>1
  <2>3. g.hi - 1 \in unheld
    BY <1>2, <1>3
  <2>4. ~ (HoldsFrom(S[k], i) <= g.hi - 1 /\ g.hi - 1 < S[k].to)
    BY <1>4, <2>3
  <2>5. k \in ids /\ g.hi = HoldsFrom(S[k], i)
    BY <1>3, <1>5, <2>2, <2>4
  <2>6. g.hi = S[k].from
    BY <1>1, <1>3, <1>5, <2>5, <2>7
  <2>. QED
    BY <2>5, <2>6
<1>. QED
  BY <1>2, <1>3, <1>6, <1>7

(* c is a part of i as a call stores it beside the claims of S.            *)
PartOf(S, c, i) ==
    /\ c.neg = i.neg /\ c.inv = i.inv /\ c.rec = i.rec
    /\ i.from < c.to
    /\ c.from = i.from \/ \E k \in DOMAIN S : c.from = S[k].to
    /\ c.to \in {i.to, Forever} \/ \E k \in DOMAIN S : c.to = S[k].from

(* d is c, ended when i began if it was ended.                             *)
EndedAt(c, d, i) ==
    /\ d.neg = c.neg /\ d.val = c.val /\ d.inv = c.inv /\ d.from = c.from
    /\ d.to = c.to \/ d.to = Later(i.from, c.from)

(* R is S with parts of i, and only where there are any with ends.         *)
InParts(S, R, i) ==
    /\ DOMAIN S \subseteq DOMAIN R
    /\ \A k \in DOMAIN S : EndedAt(S[k], R[k], i)
    /\ \A k \in DOMAIN R \ DOMAIN S : PartOf(S, R[k], i)
    /\ DOMAIN R = DOMAIN S => \A k \in DOMAIN S : R[k].to = S[k].to

LEMMA RepeatInParts ==
    ASSUME NEW S, NEW n, Table(S, n), NEW i, NEW ids
    PROVE  /\ DOMAIN Repeat(S, i, ids) = DOMAIN S
           /\ \A k \in DOMAIN S : /\ EndedAt(S[k], Repeat(S, i, ids)[k], i)
                                  /\ Repeat(S, i, ids)[k].to = S[k].to
           /\ InParts(S, Repeat(S, i, ids), i)
<1>. DEFINE R == Repeat(S, i, ids)
<1>1. DOMAIN R = DOMAIN S
  BY DEF Repeat
<1>2. ASSUME NEW k \in DOMAIN S
      PROVE  EndedAt(S[k], R[k], i) /\ R[k].to = S[k].to
  <2>1. S[k] \in Claim
    BY DEF Table
  <2>2. R[k] = S[k] \/ R[k] = [S[k] EXCEPT !.exp = i.exp]
    BY DEF Repeat
  <2>. HIDE DEF R
  <2>. QED
    BY <2>1, <2>2 DEF EndedAt, Claim
<1>. QED
  BY <1>1, <1>2 DEF InParts

LEMMA StoreShape ==
    ASSUME NEW S, NEW n \in Nat, Table(S, n), NEW i \in Claim, NEW gaps, Parts(gaps), NEW over
    PROVE  /\ DOMAIN StoreInPieces(S, n, i, gaps, over)
                = DOMAIN S \cup {<<n + 1, g.lo>> : g \in gaps}
           /\ NewAreParts(S, StoreInPieces(S, n, i, gaps, over), n, i, gaps)
           /\ \A k \in DOMAIN S : StoreInPieces(S, n, i, gaps, over)[k] = Repeat(S, i, over)[k]
<1>. DEFINE R == StoreInPieces(S, n, i, gaps, over)
<1>1. DOMAIN R = DOMAIN S \cup {<<n + 1, g.lo>> : g \in gaps} /\ NewAreParts(S, R, n, i, gaps)
  <2>. "ended" \in Closures
    BY DEF Closures
  <2>. QED
    BY StoreKeeps
<1>2. \A k \in DOMAIN S : R[k] = Repeat(S, i, over)[k]
  BY <1>1 DEF StoreInPieces
<1>. QED
  BY <1>1, <1>2

LEMMA PiecesInParts ==
    ASSUME NEW S, NEW n \in Nat, Table(S, n), NEW i \in Claim, NEW gaps, Parts(gaps), NEW over,
           \A g \in gaps : PartOf(S, Piece(i, g), i)
    PROVE  LET R == StoreInPieces(S, n, i, gaps, over)
           IN  /\ InParts(S, R, i)
               /\ \A k \in DOMAIN S : R[k].to = S[k].to
               /\ gaps # {} => DOMAIN R # DOMAIN S
<1>. DEFINE R == StoreInPieces(S, n, i, gaps, over)
<1>1. /\ DOMAIN R = DOMAIN S \cup {<<n + 1, g.lo>> : g \in gaps}
      /\ NewAreParts(S, R, n, i, gaps)
      /\ \A k \in DOMAIN S : R[k] = Repeat(S, i, over)[k]
  BY StoreShape
<1>. HIDE DEF R
<1>2. \A k \in DOMAIN S : EndedAt(S[k], R[k], i) /\ R[k].to = S[k].to
  BY <1>1, RepeatInParts
<1>3. \A k \in DOMAIN R \ DOMAIN S : PartOf(S, R[k], i)
  BY <1>1, Zenon DEF NewAreParts
<1>4. ASSUME NEW g \in gaps
      PROVE  <<n + 1, g.lo>> \in DOMAIN R /\ <<n + 1, g.lo>> \notin DOMAIN S
  BY <1>1 DEF Table, Ids
<1>. QED
  BY <1>1, <1>2, <1>3, <1>4 DEF InParts, R

LEMMA StoreInParts ==
    ASSUME NEW S, NEW n \in Nat, Table(S, n), NEW i \in Claim, NEW ids \in SUBSET DOMAIN S,
           NEW stop \in Ends, i.from < stop,
           stop \in {i.to, Forever} \/ \E k \in DOMAIN S : stop = S[k].from, NEW over,
           NEW gaps, gaps = Gaps(S, i, ids, stop)
    PROVE  LET R == StoreInPieces(S, n, i, gaps, over)
           IN  /\ InParts(S, R, i)
               /\ \A k \in DOMAIN S : R[k].to = S[k].to
               /\ gaps # {} => DOMAIN R # DOMAIN S
<1>1. Parts(gaps)
  BY GapsAreParts
<1>2. ASSUME NEW g \in gaps
      PROVE  PartOf(S, Piece(i, g), i)
  <2>1. /\ g.lo \in Time /\ g.hi \in Ends /\ i.from <= g.lo /\ g.lo < g.hi
        /\ g.lo = i.from \/ \E k \in ids : g.lo = S[k].to
        /\ g.hi = stop \/ \E k \in ids : g.hi = S[k].from
    <3>1. g \in Gaps(S, i, ids, stop)
      OBVIOUS
    <3>. QED
      BY <3>1, GapBounds
  <2>2. i.from < g.hi
    <3>1. g.lo \in Nat /\ g.hi \in Nat /\ i.from \in Nat
      BY <2>1, EndsAreNaturals DEF Claim
    <3>. QED
      BY <2>1, <3>1
  <2>3. /\ Piece(i, g).from = g.lo /\ Piece(i, g).to = g.hi
        /\ Piece(i, g).inv = i.inv /\ Piece(i, g).rec = i.rec /\ Piece(i, g).neg = i.neg
    BY <2>1, PieceIsClaim
  <2>. QED
    BY <2>1, <2>2, <2>3 DEF PartOf
<1>. QED
  BY <1>1, <1>2, PiecesInParts

(* What is ended once more is ended at the same instant.                   *)
LEMMA CloseEndsAt ==
    ASSUME NEW c \in Claim, NEW i \in Claim
    PROVE  EndedAt(c, CloseOut(c, i.from, "ended"), i)
  BY DEF CloseOut, EndedAt, Claim, Earlier, NotBeforeStart, Later

LEMMA RetireInParts ==
    ASSUME NEW S, NEW n, Table(S, n), NEW m, NEW R, Table(R, m), NEW i \in Claim, NEW t,
           NEW shut \in SUBSET DOMAIN S,
           InParts(S, R, i), \A k \in DOMAIN S : R[k].to = S[k].to, DOMAIN R # DOMAIN S
    PROVE  InParts(S, Retire(R, shut, i, t, "ended"), i)
<1>. DEFINE Q == Retire(R, shut, i, t, "ended")
<1>1. DOMAIN Q = DOMAIN R /\ \A k \in DOMAIN R \ shut : Q[k] = R[k]
  BY DEF Retire
<1>2. ASSUME NEW k \in DOMAIN S
      PROVE  EndedAt(S[k], Q[k], i)
  <2>1. R[k] \in Claim /\ EndedAt(S[k], R[k], i) /\ R[k].to = S[k].to
    BY DEF InParts, Table
  <2>2. Q[k] = R[k] \/ Q[k] = CloseOut(R[k], i.from, "ended")
    BY DEF Retire, InParts
  <2>3. EndedAt(R[k], CloseOut(R[k], i.from, "ended"), i)
    BY <2>1, CloseEndsAt
  <2>. HIDE DEF Q
  <2>. QED
    BY <2>1, <2>2, <2>3 DEF EndedAt
<1>. HIDE DEF Q
<1>3. \A k \in DOMAIN Q \ DOMAIN S : PartOf(S, Q[k], i)
  BY <1>1 DEF InParts
<1>. QED
  BY <1>1, <1>2, <1>3 DEF InParts, Q

LEMMA RepeatedInParts ==
    ASSUME NEW S, NEW n, Table(S, n), NEW i, NEW ids, NEW o, o = Outcome(Repeat(S, i, ids), n)
    PROVE  InParts(S, o.rows, i)
<1>1. o.rows = Repeat(S, i, ids)
  BY DEF Outcome
<1>. QED
  BY <1>1, RepeatInParts

LEMMA ExtendInParts ==
    ASSUME NEW S, NEW n \in Nat, Table(S, n), NEW i \in Claim, NEW t \in Time, i.from < i.to,
           NEW seen, seen \subseteq DOMAIN S, seen # {}, \A k \in seen : IsAfter(S[k], i),
           NEW o \in ExtendBackwards(S, n, i, t, seen)
    PROVE  InParts(S, o.rows, i)
<1>. DEFINE held == Held(S, i, t)
            stop == EarlierEnd(S, i, held, seen)
            gaps == Gaps(S, i, held, stop)
            over == Overlapped(S, i, held, stop)
<1>1. held \subseteq DOMAIN S
  BY DEF Held, FindByValue
<1>2. CASE \E ids \in SUBSET Unhidden(S, t) : o = Outcome(Repeat(S, i, ids), n)
  BY <1>2, RepeatedInParts
<1>3. CASE o = Outcome(StoreInPieces(S, n, i, gaps, over), n + 1)
  <2>1. /\ stop \in Ends
        /\ stop = i.to \/ \E k \in seen \cup {j \in held : IsAfter(S[j], i)} : stop = S[k].from
    <3>. HIDE DEF held
    <3>. QED
      BY <1>1, EarlierEndType
  <2>. DEFINE R == StoreInPieces(S, n, i, gaps, over)
  <2>2. o.rows = R
    BY <1>3 DEF Outcome
  <2>. HIDE DEF stop, R
  <2>3. i.from < stop
    BY <2>1 DEF IsAfter
  <2>4. stop \in {i.to, Forever} \/ \E k \in DOMAIN S : stop = S[k].from
    BY <1>1, <2>1
  <2>. HIDE DEF held
  <2>5. InParts(S, R, i)
    BY <1>1, <2>1, <2>3, <2>4, StoreInParts DEF R
  <2>. QED
    BY <2>2, <2>5
<1>. QED
  BY <1>2, <1>3, ExtendForms

LEMMA CompeteInParts ==
    ASSUME NEW S, NEW n \in Nat, Table(S, n), NEW i \in Claim, NEW t \in Time, i.from < i.to,
           NEW close, close = "ended", NEW o \in Compete(S, n, i, t, close)
    PROVE  InParts(S, o.rows, i)
<1>. DEFINE stop == CompetesTo(S, i, t)
            held == HeldFor(S, i, t)
            gaps == Gaps(S, i, held, stop)
            over == Overlapped(S, i, held, stop)
            shut == Outranked(S, i, Older(S, i, t))
            R    == StoreInPieces(S, n, i, gaps, over)
<1>1. CASE \E ids \in SUBSET Unhidden(S, t) : o = Outcome(Repeat(S, i, ids), n)
  BY <1>1, RepeatedInParts
<1>2. CASE gaps # {} /\ o = Outcome(Retire(R, shut, i, t, close), n + 1)
  <2>1. held \subseteq DOMAIN S /\ shut \subseteq DOMAIN S
    BY DEF HeldFor, Held, FindByValue, Outranked, Older, Victims
  <2>2. /\ stop \in Ends
        /\ stop \in {i.to, Forever} \/ \E k \in Newer(S, i, t) : stop = S[k].from
    BY CompetesToType
  <2>3. o.rows = Retire(R, shut, i, t, close)
    BY <1>2 DEF Outcome
  <2>. HIDE DEF stop, shut, held
  <2>4. i.from < stop
    <3>1. i.from < Forever
      <4>1. i.from \in Time
        BY DEF Claim
      <4>. QED
        BY <4>1, ForeverAssumption DEF Time
    <3>2. \A k \in Newer(S, i, t) : i.from < S[k].from
      BY DEF Newer, IsAfter
    <3>. QED
      BY <2>2, <3>1, <3>2
  <2>5. stop \in {i.to, Forever} \/ \E k \in DOMAIN S : stop = S[k].from
    BY <2>2 DEF Newer, Victims
  <2>6. InParts(S, R, i) /\ (\A k \in DOMAIN S : R[k].to = S[k].to) /\ DOMAIN R # DOMAIN S
    <3>1. stop \in Ends /\ held \subseteq DOMAIN S
      BY <2>1, <2>2
    <3>2. gaps # {} /\ gaps = Gaps(S, i, held, stop) /\ R = StoreInPieces(S, n, i, gaps, over)
      BY <1>2
    <3>. HIDE DEF gaps, over, R
    <3>3. LET Q == StoreInPieces(S, n, i, gaps, over)
          IN  /\ InParts(S, Q, i)
              /\ \A k \in DOMAIN S : Q[k].to = S[k].to
              /\ gaps # {} => DOMAIN Q # DOMAIN S
      BY <2>4, <2>5, <3>1, <3>2, StoreInParts
    <3>. QED
      BY <3>2, <3>3
  <2>7. Parts(gaps)
    BY <2>2, GapsAreParts
  <2>. HIDE DEF gaps
  <2>8. close \in Closures
    BY DEF Closures
  <2>9. Table(R, n + 1)
    BY <2>7, <2>8, StoreKeeps
  <2>. HIDE DEF R
  <2>10. InParts(S, Retire(R, shut, i, t, close), i)
    BY <2>1, <2>6, <2>9, RetireInParts
  <2>. QED
    BY <2>3, <2>10
<1>. QED
  BY <1>1, <1>2, CompeteForms

LEMMA PositiveInParts ==
    ASSUME NEW S, NEW n \in Nat, Table(S, n), NEW i \in Claim, NEW t \in Time, i.from < i.to,
           NEW o \in ApplyPositive(S, n, i, t, "ended")
    PROVE  InParts(S, o.rows, i)
<1>1. LiveSame(S, i, t) \subseteq DOMAIN S
  BY DEF LiveSame, FindByValue
<1>. QED
  BY <1>1, PositiveForms, RepeatedInParts, ExtendInParts, CompeteInParts

(* d records that i took something back, for no time at all.               *)
TombstoneOf(d, i) ==
    d.neg = i.neg /\ d.from = i.from /\ d.inv = i.rec /\ d.to = Later(i.rec, i.from)

(* R is S, closed or not when i begins, with a tombstone of i or without.  *)
InTombstones(S, R, i) ==
    /\ DOMAIN S \subseteq DOMAIN R
    /\ \A k \in DOMAIN S : EndedAt(S[k], R[k], i)
    /\ \A k \in DOMAIN R \ DOMAIN S : TombstoneOf(R[k], i)

LEMMA RetractionInTombstones ==
    ASSUME NEW S, NEW n \in Nat, Table(S, n), NEW i \in Claim, NEW t \in Time, NEW clock,
           NEW o \in ApplyRetraction(S, n, i, t, clock, "ended")
    PROVE  InTombstones(S, o.rows, i)
<1>. DEFINE gaps   == {[lo |-> i.from, hi |-> i.to]}
            stored == StoreInPieces(S, n, i, gaps, {})
            new    == <<n + 1, i.from>>
            R      == Tombstoned(S, n, i)
<1>0. R = [stored EXCEPT ![new] = Tombstone(i)]
  BY DEF Tombstoned
<1>1. Parts(gaps)
  BY DEF Parts, Claim
<1>2. DOMAIN stored = DOMAIN S \cup {new} /\ \A k \in DOMAIN S : stored[k] = S[k]
  BY DEF StoreInPieces, Repeat
<1>. HIDE DEF gaps, stored
<1>4. new \notin DOMAIN S
  BY DEF Table, Ids
<1>. HIDE DEF R
<1>5. DOMAIN R = DOMAIN S \cup {new} /\ R[new] = Tombstone(i) /\ \A k \in DOMAIN S : R[k] = S[k]
  BY <1>0, <1>2, <1>4
<1>6. TombstoneOf(Tombstone(i), i)
  BY DEF TombstoneOf, Tombstone, NotBeforeStart, Claim
<1>7. CASE o = Outcome(S, n)
  BY <1>7 DEF Outcome, InTombstones, EndedAt
<1>8. ASSUME NEW ids, o = Outcome(Retire(R, ids, i, t, "ended"), n + 1)
      PROVE  InTombstones(S, o.rows, i)
  <2>. DEFINE Q == Retire(R, ids, i, t, "ended")
  <2>1. o.rows = Q
    BY <1>8 DEF Outcome
  <2>2. DOMAIN Q = DOMAIN R /\ \A k \in DOMAIN R : Q[k] = R[k] \/ Q[k] = CloseOut(R[k], i.from, "ended")
    BY DEF Retire
  <2>. HIDE DEF Q
  <2>3. ASSUME NEW k \in DOMAIN S
        PROVE  EndedAt(S[k], Q[k], i)
    <3>1. S[k] \in Claim /\ R[k] = S[k] /\ k \in DOMAIN R
      BY <1>5 DEF Table
    <3>. QED
      BY <2>2, <3>1, CloseEndsAt DEF EndedAt
  <2>4. TombstoneOf(Q[new], i)
    <3>1. CASE Q[new] = R[new]
      BY <1>5, <1>6, <3>1
    <3>2. CASE Q[new] = CloseOut(Tombstone(i), i.from, "ended")
      <4>. DEFINE d == Tombstone(i)
      <4>1. d.inv = i.rec /\ i.rec # Forever
        BY DEF Tombstone, Claim, Time, Ends
      <4>. HIDE DEF d
      <4>2. CloseOut(d, i.from, "ended") = d
        BY <4>1 DEF CloseOut
      <4>. QED
        BY <1>6, <3>2, <4>2 DEF d
    <3>. QED
      BY <1>5, <2>2, <3>1, <3>2
  <2>. QED
    BY <1>5, <2>1, <2>2, <2>3, <2>4 DEF InTombstones
<1>. QED
  BY <1>7, <1>8, RetractionForms DEF R

(* What Reconciler.apply leaves is the table it found, parts of a value    *)
(* beside it or the tombstone of a retraction, and what it ends ends where *)
(* the incoming claim begins.                                              *)
THEOREM ApplyInParts ==
    ASSUME NEW S, NEW n \in Nat, Table(S, n), NEW i \in Claim, NEW t \in Time, NEW clock,
           i.from < i.to, NEW close, close = "ended",
           NEW o \in Apply(S, n, i, t, clock, close)
    PROVE  /\ ~ i.neg => InParts(S, o.rows, Canonical(i, t))
           /\ i.neg => InTombstones(S, o.rows, Canonical(i, t))
<1>. DEFINE c == Canonical(i, t)
<1>1. c \in Claim
  BY CanonicalIsClaim
<1>2. Apply(S, n, i, t, clock, close) =
        CASE c.neg -> ApplyRetraction(S, n, c, t, clock, close)
          [] ~ c.neg /\ c.val = NoValue -> {Outcome(S, n)}
          [] ~ c.neg /\ c.val # NoValue -> ApplyPositive(S, n, c, t, close)
  BY Zenon DEF Apply
<1>3. c.neg = i.neg /\ c.from = i.from /\ c.to = i.to /\ c.neg \in BOOLEAN
  BY DEF Canonical, Claim
<1>. HIDE DEF c
<1>4. CASE c.neg
  <2>1. o \in ApplyRetraction(S, n, c, t, clock, close)
    BY <1>2, <1>4
  <2>2. InTombstones(S, o.rows, c)
    BY <1>1, <2>1, RetractionInTombstones
  <2>. QED
    BY <1>3, <1>4, <2>2 DEF c
<1>5. CASE ~ c.neg /\ c.val = NoValue
  <2>1. o = Outcome(S, n)
    BY <1>2, <1>5
  <2>2. InParts(S, o.rows, c)
    BY <2>1 DEF Outcome, InParts, EndedAt
  <2>. QED
    BY <1>3, <1>5, <2>2 DEF c
<1>6. CASE ~ c.neg /\ c.val # NoValue
  <2>1. o \in ApplyPositive(S, n, c, t, close)
    BY <1>2, <1>6
  <2>2. InParts(S, o.rows, c)
    BY <1>1, <1>3, <2>1, PositiveInParts
  <2>. QED
    BY <1>3, <1>6, <2>2 DEF c
<1>. QED
  BY <1>3, <1>4, <1>5, <1>6

(* A claim that begins, ends and is taken back by m, or stays open.        *)
PlacedBy(c, m) ==
    /\ c.from <= m
    /\ c.to = Forever \/ c.to <= m
    /\ c.neg => c.inv <= m

LEMMA EndedIsPlaced ==
    ASSUME NEW c \in Claim, NEW d \in Claim, NEW i \in Claim, EndedAt(c, d, i),
           NEW m \in Nat, i.from <= m, PlacedBy(c, m)
    PROVE  PlacedBy(d, m)
<1>1. c.from \in Nat /\ i.from \in Nat
  BY EndsAreNaturals DEF Claim
<1>. QED
  BY <1>1 DEF EndedAt, PlacedBy, Later

(* What is believed stays placed when a batch reconciles what began by m.  *)
THEOREM ApplyPlaces ==
    ASSUME NEW S, NEW n \in Nat, Table(S, n), NEW i \in Claim, NEW t \in Time, NEW clock,
           i.to = Forever, NEW m \in Nat, i.from <= m, i.rec <= m,
           \A k \in DOMAIN S : PlacedBy(S[k], m),
           NEW close, close = "ended", NEW o \in Apply(S, n, i, t, clock, close)
    PROVE  \A k \in DOMAIN o.rows : PlacedBy(o.rows[k], m)
<1>. DEFINE c == Canonical(i, t)
<1>1. /\ c \in Claim /\ c.from = i.from /\ c.to = Forever /\ c.neg = i.neg
      /\ c.rec = Earlier(i.rec, t)
  BY CanonicalIsClaim DEF Canonical, Claim
<1>2. i.from < i.to
  <2>1. i.from \in Time
    BY DEF Claim
  <2>. QED
    BY <2>1, ForeverAssumption DEF Time
<1>3. (~ i.neg => InParts(S, o.rows, c)) /\ (i.neg => InTombstones(S, o.rows, c))
  BY <1>2, ApplyInParts
<1>. HIDE DEF c
<1>4. \A k \in DOMAIN o.rows : o.rows[k] \in Claim
  <2>1. close \in Closures
    BY DEF Closures
  <2>2. Kept(S, n, o, close)
    BY <2>1, ApplyKeeps
  <2>. QED
    BY <2>2 DEF Kept, Table
<1>5. i.neg \in BOOLEAN /\ DOMAIN S \subseteq DOMAIN o.rows
  BY <1>3 DEF Claim, InParts, InTombstones
<1>6. c.rec <= m /\ c.rec \in Nat /\ c.from \in Nat /\ c.from <= m
  <2>1. i.rec \in Nat /\ t \in Nat /\ i.from \in Nat
    BY EndsAreNaturals DEF Claim
  <2>. QED
    BY <1>1, <2>1 DEF Earlier
<1>7. ASSUME NEW k \in DOMAIN S
      PROVE  PlacedBy(o.rows[k], m)
  <2>1. S[k] \in Claim /\ o.rows[k] \in Claim
    BY <1>4, <1>5 DEF Table
  <2>2. EndedAt(S[k], o.rows[k], c)
    BY <1>3, <1>5 DEF InParts, InTombstones
  <2>. QED
    BY <1>1, <1>6, <2>1, <2>2, EndedIsPlaced
<1>8. ASSUME NEW k \in DOMAIN o.rows \ DOMAIN S
      PROVE  PlacedBy(o.rows[k], m)
  <2>. DEFINE d == o.rows[k]
  <2>1. d \in Claim /\ d.from \in Nat /\ d.from # Forever
    BY <1>4, ForeverAssumption DEF Claim, Time
  <2>2. CASE i.neg
    <3>1. TombstoneOf(d, c)
      BY <1>3, <2>2 DEF InTombstones
    <3>. QED
      BY <1>6, <3>1 DEF TombstoneOf, PlacedBy, Later
  <2>3. CASE ~ i.neg
    <3>1. PartOf(S, d, c)
      BY <1>3, <2>3 DEF InParts
    <3>2. \A j \in DOMAIN S : S[j].from <= m /\ (S[j].to = Forever \/ S[j].to <= m)
      BY DEF PlacedBy
    <3>. HIDE DEF d
    <3>3. d.from <= m
      BY <1>6, <2>1, <3>1, <3>2 DEF PartOf
    <3>4. d.to = Forever \/ d.to <= m
      BY <1>1, <3>1, <3>2 DEF PartOf
    <3>5. ~ d.neg
      BY <1>1, <2>3, <3>1 DEF PartOf
    <3>. QED
      BY <3>3, <3>4, <3>5 DEF PlacedBy, d
  <2>. QED
    BY <1>5, <2>2, <2>3
<1>. QED
  BY <1>7, <1>8

-----------------------------------------------------------------------------
(* The loops of _earlier_period and _uncovered                             *)

Dated(S, i) ==
    /\ \A k \in DOMAIN S : S[k].from \in Time /\ S[k].to \in Ends
    /\ i.from \in Time /\ i.to \in Ends /\ i.width \in Nat

(* Where the walk may come to stand.                                       *)
FirstLive == LeastOf({onFile[k].from : k \in InForceNow})

LaterStarts ==
    {FirstLive} \cup {onFile[k].from : k \in {j \in Known : IsAfter(onFile[j], restated)}}

(* The walk has passed no start that nothing reaches past.                 *)
Walks ==
    /\ BeginsBefore /\ stopsAt \in LaterStarts /\ stopsAt <= FirstLive
    /\ \A e \in LaterStarts :
          e <= FirstLive /\ Reaching(onFile, restated, Known, e) = {} => e <= stopsAt

AllGaps == Gaps(onFile, restated, Known, stopsAt)

(* What the sweep has passed it has covered, up to where a gap may begin,  *)
(* and it has found the gaps that begin before.                            *)
Sweeps ==
    /\ restated.from < stopsAt /\ restated.from <= reached /\ reached \in Nat
    /\ spans \subseteq Overlapped(onFile, restated, Known, stopsAt)
    /\ \A k \in Overlapped(onFile, restated, Known, stopsAt) \ spans : onFile[k].to <= reached
    /\ reached = restated.from
         \/ reached - 1 \notin UnheldInstants(onFile, restated, Known, stopsAt)
    /\ uncovered = {g \in AllGaps : g.lo < reached}

LoopInv ==
    /\ Dated(onFile, restated) /\ reconciledAt \in Time /\ stopsAt \in Ends
    /\ pc \in {"start", "walking", "sweeping", "done"}
    /\ pc = "walking" => Walks
    /\ pc \in {"sweeping", "done"} /\ BeginsBefore =>
          stopsAt = EarlierEnd(onFile, restated, Known, InForceNow)
    /\ pc = "sweeping" => Sweeps
    /\ pc = "done" => uncovered = AllGaps

(* A claim that holds some of the period holds it from an instant before   *)
(* its own end and before the end of the period.                           *)
LEMMA SpanIs ==
    ASSUME NEW S, NEW i, Dated(S, i), NEW stop \in Ends,
           NEW k \in Overlapped(S, i, DOMAIN S, stop)
    PROVE  /\ k \in DOMAIN S /\ S[k].to \in Nat /\ HoldsFrom(S[k], i) \in Nat
           /\ HoldsFrom(S[k], i) < S[k].to /\ HoldsFrom(S[k], i) < stop
           /\ i.from < S[k].to /\ HoldsFrom(S[k], i) \in Ends
  BY EndsAreNaturals DEF Dated, Overlapped, HoldsFrom, Earlier, IsAfter, Ends, Time

(* The instants no claim holds, and those that one does.                   *)
LEMMA UnheldIs ==
    ASSUME NEW S, NEW i, Dated(S, i), NEW stop \in Ends
    PROVE  LET O == Overlapped(S, i, DOMAIN S, stop)
               U == UnheldInstants(S, i, DOMAIN S, stop)
           IN  /\ \A v \in U : v \in Nat /\ i.from <= v /\ v < stop
               /\ \A v \in Nat : i.from <= v /\ v < stop
                     /\ (\A k \in O : ~ (HoldsFrom(S[k], i) <= v /\ v < S[k].to)) => v \in U
               /\ \A v \in Nat : \A k \in O : HoldsFrom(S[k], i) <= v /\ v < S[k].to => v \notin U
<1>. DEFINE O == Overlapped(S, i, DOMAIN S, stop)
            U == UnheldInstants(S, i, DOMAIN S, stop)
<1>1. i.from \in Nat /\ stop \in Nat
  BY EndsAreNaturals DEF Dated
<1>2. U = {v \in i.from .. (stop - 1) :
              \A k \in O : ~ (HoldsFrom(S[k], i) <= v /\ v < S[k].to)}
  BY DEF UnheldInstants
<1>. HIDE DEF O, U
<1>3. \A v : v \in i.from .. (stop - 1) <=> v \in Nat /\ i.from <= v /\ v < stop
  BY <1>1
<1>. QED
  BY <1>2, <1>3 DEF O, U

(* A part of the period is a gap if no instant of it is held, and it ends  *)
(* and begins where some instant is or the period does.                    *)
LEMMA GapIs ==
    ASSUME NEW S, NEW i, Dated(S, i), NEW stop \in Ends, i.from < stop,
           NEW U, U = UnheldInstants(S, i, DOMAIN S, stop)
    PROVE  /\ \A g \in Gaps(S, i, DOMAIN S, stop) :
                 /\ g = [lo |-> g.lo, hi |-> g.hi] /\ g.lo \in U /\ g.lo \in Nat /\ g.hi \in Nat
                 /\ g.lo < g.hi /\ g.hi <= stop /\ i.from <= g.lo
                 /\ \A v \in g.lo .. (g.hi - 1) : v \in U
                 /\ g.lo = i.from \/ g.lo - 1 \notin U
                 /\ g.hi \notin U
           /\ \A lo, hi \in Nat :
                 /\ lo < hi /\ hi \in Ends
                 /\ \A v \in lo .. (hi - 1) : v \in U
                 /\ lo = i.from \/ lo - 1 \notin U
                 /\ hi \notin U
                 => [lo |-> lo, hi |-> hi] \in Gaps(S, i, DOMAIN S, stop)
<1>1. /\ i.from \in Nat /\ stop \in Nat
      /\ \A v \in U : v \in Nat /\ i.from <= v /\ v < stop
  BY UnheldIs, EndsAreNaturals DEF Dated
<1>2. Gaps(S, i, DOMAIN S, stop) =
        {g \in [lo : U, hi : Ends] :
            /\ g.lo < g.hi
            /\ \A v \in g.lo .. (g.hi - 1) : v \in U
            /\ g.lo = i.from \/ g.lo - 1 \notin U
            /\ g.hi \notin U}
  BY <1>1 DEF Gaps
<1>3. ASSUME NEW g \in Gaps(S, i, DOMAIN S, stop)
      PROVE  /\ g = [lo |-> g.lo, hi |-> g.hi] /\ g.lo \in U /\ g.lo \in Nat /\ g.hi \in Nat
             /\ g.lo < g.hi /\ g.hi <= stop /\ i.from <= g.lo
             /\ \A v \in g.lo .. (g.hi - 1) : v \in U
             /\ g.lo = i.from \/ g.lo - 1 \notin U
             /\ g.hi \notin U
  <2>1. /\ g \in [lo : U, hi : Ends] /\ g.lo < g.hi
        /\ \A v \in g.lo .. (g.hi - 1) : v \in U
        /\ g.lo = i.from \/ g.lo - 1 \notin U
        /\ g.hi \notin U
    BY <1>2
  <2>2. g = [lo |-> g.lo, hi |-> g.hi] /\ g.lo \in U /\ g.hi \in Ends
    BY <2>1
  <2>3. g.lo \in Nat /\ g.hi \in Nat /\ i.from <= g.lo
    BY <1>1, <2>2, EndsAreNaturals
  <2>4. g.hi - 1 \in U
    BY <2>1, <2>3
  <2>5. g.hi <= stop
    BY <1>1, <2>3, <2>4
  <2>. QED
    BY <2>1, <2>2, <2>3, <2>5
<1>4. ASSUME NEW lo \in Nat, NEW hi \in Nat,
             /\ lo < hi /\ hi \in Ends
             /\ \A v \in lo .. (hi - 1) : v \in U
             /\ lo = i.from \/ lo - 1 \notin U
             /\ hi \notin U
      PROVE  [lo |-> lo, hi |-> hi] \in Gaps(S, i, DOMAIN S, stop)
  <2>1. lo \in lo .. (hi - 1)
    BY <1>4
  <2>2. lo \in U
    BY <1>4, <2>1
  <2>. QED
    BY <1>2, <1>4, <2>2
<1>. QED
  BY <1>3, <1>4

(* Gaps before hi all begin before lo, or one spans from lo to hi.         *)
LEMMA NextGap ==
    ASSUME NEW S, NEW i, Dated(S, i), NEW stop \in Ends, i.from < stop,
           NEW U, U = UnheldInstants(S, i, DOMAIN S, stop),
           NEW lo \in Nat, NEW hi \in Nat, lo < hi, hi \in Ends,
           \A v \in lo .. (hi - 1) : v \in U, hi \notin U,
           lo = i.from \/ lo - 1 \notin U
    PROVE  /\ [lo |-> lo, hi |-> hi] \in Gaps(S, i, DOMAIN S, stop)
           /\ \A g \in Gaps(S, i, DOMAIN S, stop) :
                 lo <= g.lo /\ g.lo < hi => g = [lo |-> lo, hi |-> hi]
<1>1. [lo |-> lo, hi |-> hi] \in Gaps(S, i, DOMAIN S, stop)
  BY GapIs
<1>2. ASSUME NEW g \in Gaps(S, i, DOMAIN S, stop), lo <= g.lo, g.lo < hi
      PROVE  g = [lo |-> lo, hi |-> hi]
  <2>1. /\ g = [lo |-> g.lo, hi |-> g.hi] /\ g.lo \in Nat /\ g.hi \in Nat /\ g.lo < g.hi
        /\ \A v \in g.lo .. (g.hi - 1) : v \in U
        /\ g.lo = i.from \/ g.lo - 1 \notin U
        /\ g.hi \notin U
    BY GapIs
  <2>2. i.from \in Nat /\ i.from <= lo
    <3>1. lo \in U
      OBVIOUS
    <3>. QED
      BY <3>1, UnheldIs, EndsAreNaturals DEF Dated
  <2>3. g.lo = lo
    <3>1. SUFFICES ASSUME lo < g.lo PROVE FALSE
      BY <1>2, <2>1
    <3>2. g.lo - 1 \in lo .. (hi - 1)
      BY <1>2, <2>1, <3>1
    <3>3. g.lo - 1 \in U /\ g.lo # i.from
      BY <2>1, <2>2, <3>1, <3>2
    <3>. QED
      BY <2>1, <3>3
  <2>4. ~ (g.hi < hi)
    <3>1. SUFFICES ASSUME g.hi < hi PROVE FALSE
      OBVIOUS
    <3>2. g.hi \in lo .. (hi - 1)
      BY <2>1, <2>3, <3>1
    <3>. QED
      BY <2>1, <3>2
  <2>5. ~ (hi < g.hi)
    <3>1. SUFFICES ASSUME hi < g.hi PROVE FALSE
      OBVIOUS
    <3>2. hi \in g.lo .. (g.hi - 1)
      BY <2>1, <2>3, <3>1
    <3>. QED
      BY <2>1, <3>2
  <2>6. g.hi = hi
    BY <2>1, <2>4, <2>5
  <2>. QED
    BY <2>1, <2>3, <2>6
<1>. QED
  BY <1>1, <1>2

(* Stored claims and the incoming one do not change under the loops.       *)
LEMMA FileStays ==
    ASSUME UNCHANGED <<onFile, restated, reconciledAt>>
    PROVE  /\ BeginsBefore' = BeginsBefore /\ FirstLive' = FirstLive /\ LaterStarts' = LaterStarts
           /\ InForceNow' = InForceNow /\ Known' = Known
  BY DEF BeginsBefore, FirstLive, LaterStarts, InForceNow, Known

LEMMA StartsAre ==
    ASSUME Dated(onFile, restated), BeginsBefore
    PROVE  /\ LaterStarts \subseteq Time /\ LaterStarts \subseteq Nat
           /\ FirstLive \in LaterStarts /\ FirstLive \in Time
<1>. DEFINE F == {onFile[k].from : k \in InForceNow}
<1>1. F \subseteq Nat /\ F \subseteq Time /\ F # {}
  BY EndsAreNaturals DEF Dated, BeginsBefore, InForceNow, Known
<1>2. FirstLive \in F
  <2>. HIDE DEF F
  <2>1. LeastOf(F) \in F
    BY <1>1, LeastOfIsLeast
  <2>. QED
    BY <2>1 DEF FirstLive, F
<1>3. FirstLive \in Time
  BY <1>1, <1>2
<1>4. LaterStarts \subseteq Time
  BY <1>3 DEF LaterStarts, Dated, Known
<1>. QED
  BY <1>3, <1>4, EndsAreNaturals DEF LaterStarts

LEMMA LoopInitInv == LoopInit => LoopInv
<1>. SUFFICES ASSUME LoopInit PROVE LoopInv
  OBVIOUS
<1>1. \A k \in DOMAIN onFile : onFile[k].from \in Time /\ onFile[k].to \in Ends
  BY DEF LoopInit, Period
<1>2. restated.from \in Time /\ restated.to \in Ends /\ restated.width \in Nat
  <2>1. restated \in [from : Time, width : Widths, to : 1 .. Forever]
    BY DEF LoopInit
  <2>2. restated.from \in Time /\ restated.width \in Widths /\ restated.to \in 1 .. Forever
    BY <2>1
  <2>3. 1 .. Forever \subseteq Ends
    BY ForeverAssumption DEF Ends
  <2>. QED
    BY <2>2, <2>3, WidthsAssumption
<1>. QED
  BY <1>1, <1>2 DEF LoopInit, LoopInv, Dated

(* The sweep starts with nothing covered and nothing found.                *)
LEMMA SweepingInv ==
    ASSUME NEW e \in Ends, Dated(onFile, restated), reconciledAt \in Time, Sweeping(e),
           UNCHANGED <<onFile, restated, reconciledAt>>,
           BeginsBefore => e = EarlierEnd(onFile, restated, Known, InForceNow)
    PROVE  LoopInv'
<1>0. restated.from \in Nat /\ e \in Nat
  BY EndsAreNaturals DEF Dated
<1>1. /\ Dated(onFile, restated)' /\ reconciledAt' \in Time /\ stopsAt' \in Ends
      /\ BeginsBefore' => stopsAt' = EarlierEnd(onFile, restated, Known, InForceNow)'
  <2>1. /\ Known' = Known /\ BeginsBefore' = BeginsBefore /\ InForceNow' = InForceNow
        /\ stopsAt' = e
    BY FileStays DEF Sweeping
  <2>2. EarlierEnd(onFile, restated, Known, InForceNow)'
          = EarlierEnd(onFile, restated, Known, InForceNow)
    BY <2>1 DEF EarlierEnd, Reaching
  <2>. QED
    BY <2>1, <2>2 DEF Dated
<1>2. CASE e <= restated.from
  <2>1. pc' = "done" /\ uncovered' = {[lo |-> restated.from, hi |-> e]} /\ stopsAt' = e
    BY <1>2 DEF Sweeping
  <2>2. AllGaps' = {[lo |-> restated.from, hi |-> e]}
    BY <1>2, <2>1 DEF AllGaps, Gaps
  <2>. QED
    BY <1>1, <2>1, <2>2 DEF LoopInv
<1>3. CASE restated.from < e
  <2>1. /\ pc' = "sweeping" /\ uncovered' = {} /\ stopsAt' = e /\ reached' = restated.from
        /\ spans' = Overlapped(onFile, restated, Known, e)
    BY <1>0, <1>3 DEF Sweeping
  <2>2. Overlapped(onFile, restated, Known, stopsAt)' = spans'
    BY <2>1, FileStays DEF Overlapped
  <2>3. AllGaps' = Gaps(onFile, restated, DOMAIN onFile, e)
    BY <2>1 DEF AllGaps, Gaps, UnheldInstants, Overlapped, Known
  <2>4. \A g \in AllGaps' : ~ (g.lo < restated.from)
    BY <1>0, <1>3, <2>3, GapIs
  <2>5. {g \in AllGaps : g.lo < reached}' = {}
    BY <2>1, <2>4
  <2>6. Sweeps'
    BY <1>0, <1>3, <2>1, <2>2, <2>5 DEF Sweeps
  <2>. QED
    BY <1>1, <2>1, <2>6 DEF LoopInv
<1>. QED
  BY <1>0, <1>2, <1>3

LEMMA StartInv == LoopInv /\ Start => LoopInv'
<1>. SUFFICES ASSUME LoopInv, Start PROVE LoopInv'
  OBVIOUS
<1>0. /\ UNCHANGED <<onFile, restated, reconciledAt>>
      /\ Dated(onFile, restated) /\ reconciledAt \in Time
  BY DEF Start, LoopInv
<1>1. CASE BeginsBefore
  <2>1. pc' = "walking" /\ stopsAt' = FirstLive
    BY <1>1 DEF Start, FirstLive
  <2>2. /\ LaterStarts \subseteq Nat
        /\ FirstLive \in LaterStarts /\ FirstLive \in Time /\ FirstLive \in Nat
    BY <1>0, <1>1, StartsAre
  <2>3. Walks'
    BY <1>0, <1>1, <2>1, <2>2, FileStays DEF Walks
  <2>. QED
    BY <1>0, <2>1, <2>2, <2>3, EndsAreNaturals DEF LoopInv, Dated
<1>2. CASE ~ BeginsBefore
  <2>1. Sweeping(restated.to) /\ restated.to \in Ends
    BY <1>0, <1>2 DEF Start, Dated
  <2>. QED
    BY <1>0, <1>2, <2>1, SweepingInv
<1>. QED
  BY <1>1, <1>2

(* A claim that reaches past where the walk stands begins before every     *)
(* start that none reaches past, but those the walk has passed.            *)
LEMMA StepBackInv == LoopInv /\ StepBack => LoopInv'
<1>. SUFFICES ASSUME LoopInv, StepBack PROVE LoopInv'
  OBVIOUS
<1>. DEFINE R(e) == Reaching(onFile, restated, Known, e)
            F == {onFile[k].from : k \in R(stopsAt)}
<1>0. /\ UNCHANGED <<onFile, restated, reconciledAt>> /\ pc = "walking" /\ pc' = "walking"
      /\ Dated(onFile, restated) /\ reconciledAt \in Time
      /\ R(stopsAt) # {} /\ stopsAt' = LeastOf(F) /\ Walks
  BY DEF StepBack, Back, LoopInv
<1>1. LaterStarts \subseteq Time /\ LaterStarts \subseteq Nat /\ FirstLive \in Nat /\ stopsAt \in Nat
  BY <1>0, StartsAre DEF Walks
<1>2. \A k \in R(stopsAt) : /\ k \in Known /\ onFile[k].from < stopsAt /\ onFile[k].to # Forever
                            /\ onFile[k].to >= stopsAt /\ IsAfter(onFile[k], restated)
                            /\ onFile[k].from \in Nat /\ onFile[k].to \in Nat
                            /\ onFile[k].from \in LaterStarts
  BY <1>0, EndsAreNaturals DEF Reaching, LaterStarts, Dated, Known
<1>3. stopsAt' \in F
  <2>1. F \subseteq Nat /\ F # {}
    BY <1>0, <1>2
  <2>. HIDE DEF F
  <2>. QED
    BY <1>0, <2>1, LeastOfIsLeast
<1>4. PICK k \in R(stopsAt) : stopsAt' = onFile[k].from
  BY <1>3
<1>. DEFINE b == onFile[k].from
<1>5. b \in LaterStarts /\ b < stopsAt /\ b <= FirstLive /\ b \in Nat
  BY <1>0, <1>1, <1>2 DEF Walks
<1>6. ASSUME NEW e \in LaterStarts, e <= FirstLive, R(e) = {}
      PROVE  e <= b
  <2>1. e \in Nat /\ e <= stopsAt
    BY <1>0, <1>1, <1>6 DEF Walks
  <2>2. SUFFICES ASSUME b < e PROVE FALSE
    BY <1>5, <2>1
  <2>3. onFile[k].to >= e
    BY <1>1, <1>2, <2>1
  <2>4. k \in R(e)
    BY <1>2, <2>2, <2>3 DEF Reaching
  <2>. QED
    BY <1>6, <2>4
<1>7. Walks'
  <2>1. /\ LaterStarts' = LaterStarts /\ FirstLive' = FirstLive /\ BeginsBefore' = BeginsBefore
    BY <1>0, FileStays
  <2>2. \A e : Reaching(onFile, restated, Known, e)' = R(e)'
    OBVIOUS
  <2>3. /\ BeginsBefore /\ b \in LaterStarts /\ b <= FirstLive
        /\ \A e \in LaterStarts : e <= FirstLive /\ R(e) = {} => e <= b
    BY <1>0, <1>5, <1>6 DEF Walks
  <2>. HIDE DEF b
  <2>4. stopsAt' = b
    BY <1>4 DEF b
  <2>. QED
    BY <1>0, <2>1, <2>3, <2>4 DEF Walks, Reaching, Known
<1>8. stopsAt' \in Ends
  BY <1>1, <1>4, <1>5, EndsAreNaturals
<1>. QED
  BY <1>0, <1>7, <1>8 DEF LoopInv, Dated

LEMMA SettleInv == LoopInv /\ Settle => LoopInv'
<1>. SUFFICES ASSUME LoopInv, Settle PROVE LoopInv'
  OBVIOUS
<1>0. /\ UNCHANGED <<onFile, restated, reconciledAt>> /\ Walks
      /\ Dated(onFile, restated) /\ reconciledAt \in Time
      /\ Reaching(onFile, restated, Known, stopsAt) = {}
      /\ Sweeping(Earlier(stopsAt, restated.to))
  BY DEF Settle, StopWalking, LoopInv
<1>1. /\ LaterStarts \subseteq Time /\ LaterStarts \subseteq Nat /\ FirstLive \in Nat
      /\ stopsAt \in LaterStarts /\ stopsAt \in Time
  BY <1>0, StartsAre DEF Walks
<1>. DEFINE E == {e \in LaterStarts : e <= FirstLive /\ Reaching(onFile, restated, Known, e) = {}}
<1>2. stopsAt \in E /\ \A e \in E : e <= stopsAt
  BY <1>0, <1>1 DEF Walks
<1>3. GreatestOf(E) = stopsAt
  <2>1. E \subseteq Nat /\ E # {} /\ \A e \in E : e <= FirstLive
    BY <1>1, <1>2
  <2>. HIDE DEF E
  <2>2. GreatestOf(E) \in E /\ \A e \in E : e <= GreatestOf(E)
    BY <1>1, <2>1, GreatestOfIsGreatest
  <2>3. GreatestOf(E) \in Nat /\ stopsAt \in Nat /\ GreatestOf(E) <= stopsAt
        /\ stopsAt <= GreatestOf(E)
    BY <1>2, <2>1, <2>2
  <2>. QED
    BY <2>3
<1>4. EarlierEnd(onFile, restated, Known, InForceNow) = Earlier(GreatestOf(E), restated.to)
  BY DEF EarlierEnd, LaterStarts, FirstLive
<1>5. Earlier(stopsAt, restated.to) \in Ends
  BY <1>0, <1>1, EndsAreNaturals DEF Earlier, Dated
<1>. HIDE DEF E
<1>. QED
  BY <1>0, <1>3, <1>4, <1>5, SweepingInv

(* One span more: it begins no earlier than those that are left, so what   *)
(* lies before it and past what is covered is a gap, and the only one.     *)
LEMMA VisitInv ==
    ASSUME LoopInv, NEW k \in spans, Visit(k)
    PROVE  LoopInv'
<1>. DEFINE O  == Overlapped(onFile, restated, DOMAIN onFile, stopsAt)
            U  == UnheldInstants(onFile, restated, DOMAIN onFile, stopsAt)
            lo == HoldsFrom(onFile[k], restated)
            to == onFile[k].to
<1>0. /\ UNCHANGED <<onFile, restated, reconciledAt, pc, stopsAt>> /\ pc = "sweeping" /\ Sweeps
      /\ Dated(onFile, restated) /\ reconciledAt \in Time /\ stopsAt \in Ends
      /\ BeginsBefore => stopsAt = EarlierEnd(onFile, restated, Known, InForceNow)
  BY DEF Visit, LoopInv
<1>1. /\ restated.from < stopsAt /\ restated.from <= reached /\ reached \in Nat
      /\ spans \subseteq O /\ \A j \in O \ spans : onFile[j].to <= reached
      /\ reached = restated.from \/ reached - 1 \notin U
      /\ uncovered = {g \in AllGaps : g.lo < reached}
      /\ AllGaps = Gaps(onFile, restated, DOMAIN onFile, stopsAt)
      /\ restated.from \in Nat /\ stopsAt \in Nat
  BY <1>0, EndsAreNaturals DEF Sweeps, AllGaps, Known, Dated
<1>2. /\ reached < stopsAt /\ \A j \in spans : lo <= HoldsFrom(onFile[j], restated)
      /\ reached' = Later(reached, to) /\ spans' = spans \ {k}
      /\ uncovered' = uncovered \cup (IF lo > reached THEN {[lo |-> reached, hi |-> lo]} ELSE {})
  BY DEF Visit, Reach
<1>3. \A j \in O : /\ onFile[j].to \in Nat /\ HoldsFrom(onFile[j], restated) \in Nat
                   /\ HoldsFrom(onFile[j], restated) < onFile[j].to
                   /\ HoldsFrom(onFile[j], restated) < stopsAt
                   /\ restated.from < onFile[j].to /\ HoldsFrom(onFile[j], restated) \in Ends
  BY <1>0, SpanIs
<1>4. /\ \A v \in U : v \in Nat /\ restated.from <= v /\ v < stopsAt
      /\ \A v \in Nat : restated.from <= v /\ v < stopsAt
            /\ (\A j \in O : ~ (HoldsFrom(onFile[j], restated) <= v /\ v < onFile[j].to)) => v \in U
      /\ \A v \in Nat : \A j \in O :
            HoldsFrom(onFile[j], restated) <= v /\ v < onFile[j].to => v \notin U
  BY <1>0, UnheldIs
<1>5. /\ AllGaps' = AllGaps /\ BeginsBefore' = BeginsBefore
      /\ Overlapped(onFile, restated, Known, stopsAt)' = O
      /\ UnheldInstants(onFile, restated, Known, stopsAt)' = U
      /\ EarlierEnd(onFile, restated, Known, InForceNow)'
            = EarlierEnd(onFile, restated, Known, InForceNow)
  BY <1>0, FileStays DEF AllGaps, Gaps, Overlapped, UnheldInstants, Known, EarlierEnd, Reaching
<1>. HIDE DEF O, U
<1>6. k \in O /\ lo \in Nat /\ to \in Nat /\ lo < to /\ lo < stopsAt /\ restated.from < to /\ lo \in Ends
  BY <1>1, <1>3
<1>7. \A v \in Nat : lo <= v /\ v < to => v \notin U
  BY <1>4, <1>6
<1>8. \A v \in Nat : reached <= v /\ v < lo => v \in U
  <2>. TAKE v \in Nat
  <2>. SUFFICES ASSUME reached <= v, v < lo
                PROVE  v \in U
    OBVIOUS
  <2>. HIDE DEF lo
  <2>1. \A j \in O : ~ (HoldsFrom(onFile[j], restated) <= v /\ v < onFile[j].to)
    <3>. TAKE j \in O
    <3>1. CASE j \in spans
      BY <1>2, <1>3, <1>6, <3>1
    <3>2. CASE j \notin spans
      BY <1>1, <1>3, <3>2
    <3>. QED
      BY <3>1, <3>2
  <2>. QED
    BY <1>1, <1>4, <1>6, <2>1
<1>. HIDE DEF lo, to
<1>9. reached' \in Nat /\ reached <= reached' /\ to <= reached' /\ (reached' = reached \/ reached' = to)
  BY <1>1, <1>2, <1>6 DEF Later
<1>10. reached' = restated.from \/ reached' - 1 \notin U
  <2>1. CASE reached' = reached
    BY <1>1, <2>1
  <2>2. CASE reached' = to
    <3>1. to - 1 \in Nat /\ lo <= to - 1 /\ to - 1 < to
      BY <1>6
    <3>. QED
      BY <1>7, <2>2, <3>1
  <2>. QED
    BY <1>9, <2>1, <2>2
<1>11. \A j \in O \ spans' : onFile[j].to <= reached'
  <2>. TAKE j \in O \ spans'
  <2>1. CASE j = k
    BY <1>9, <2>1 DEF to
  <2>2. CASE j # k
    BY <1>1, <1>2, <1>3, <1>9, <2>2
  <2>. QED
    BY <2>1, <2>2
<1>12. \A g \in AllGaps : g.lo \in U /\ g.lo \in Nat
  BY <1>0, <1>1, GapIs DEF U
<1>13. uncovered' = {g \in AllGaps : g.lo < reached'}
  <2>1. CASE ~ (lo > reached)
    <3>1. \A g \in AllGaps : g.lo < reached' => g.lo < reached
      BY <1>1, <1>6, <1>7, <1>9, <1>12, <2>1
    <3>2. \A g \in AllGaps : g.lo < reached => g.lo < reached'
      BY <1>1, <1>9, <1>12
    <3>. QED
      BY <1>1, <1>2, <2>1, <3>1, <3>2
  <2>2. CASE lo > reached
    <3>. DEFINE h == [lo |-> reached, hi |-> lo]
    <3>1. \A v \in reached .. (lo - 1) : v \in U
      BY <1>1, <1>6, <1>8
    <3>2. lo \notin U
      BY <1>6, <1>7
    <3>3. h \in AllGaps /\ \A g \in AllGaps : reached <= g.lo /\ g.lo < lo => g = h
      <4>1. U = UnheldInstants(onFile, restated, DOMAIN onFile, stopsAt)
        BY DEF U
      <4>2. /\ [lo |-> reached, hi |-> lo] \in Gaps(onFile, restated, DOMAIN onFile, stopsAt)
            /\ \A g \in Gaps(onFile, restated, DOMAIN onFile, stopsAt) :
                  reached <= g.lo /\ g.lo < lo => g = [lo |-> reached, hi |-> lo]
        BY ONLY <1>0, <1>1, <1>6, <2>2, <3>1, <3>2, <4>1, NextGap
      <4>. QED
        BY <1>1, <4>2
    <3>4. h.lo = reached
      OBVIOUS
    <3>. HIDE DEF h
    <3>5. reached' = to /\ reached < reached'
      BY <1>1, <1>6, <1>9, <2>2
    <3>6. \A g \in AllGaps : g.lo < reached' <=> g.lo < reached \/ g = h
      <4>. TAKE g \in AllGaps
      <4>1. g.lo < reached' /\ ~ (g.lo < reached) => g = h
        BY <1>1, <1>6, <1>7, <1>12, <3>3, <3>5
      <4>2. g.lo < reached => g.lo < reached'
        BY <1>1, <1>9, <1>12
      <4>. QED
        BY <3>4, <3>5, <4>1, <4>2
    <3>7. uncovered' = uncovered \cup {h}
      BY <1>2, <2>2 DEF h
    <3>. QED
      BY <1>1, <3>3, <3>6, <3>7
  <2>. QED
    BY <2>1, <2>2
<1>14. Sweeps'
  BY <1>0, <1>1, <1>2, <1>5, <1>9, <1>10, <1>11, <1>13 DEF Sweeps
<1>. QED
  BY <1>0, <1>5, <1>14 DEF LoopInv, Dated

(* With no span left, what is past what is covered is the last gap.        *)
LEMMA FinishInv == LoopInv /\ Finish => LoopInv'
<1>. SUFFICES ASSUME LoopInv, Finish PROVE LoopInv'
  OBVIOUS
<1>. DEFINE O == Overlapped(onFile, restated, DOMAIN onFile, stopsAt)
            U == UnheldInstants(onFile, restated, DOMAIN onFile, stopsAt)
<1>0. /\ UNCHANGED <<onFile, restated, reconciledAt, stopsAt>> /\ pc' = "done" /\ Sweeps
      /\ Dated(onFile, restated) /\ reconciledAt \in Time /\ stopsAt \in Ends
      /\ BeginsBefore => stopsAt = EarlierEnd(onFile, restated, Known, InForceNow)
      /\ spans = {} \/ reached >= stopsAt
      /\ uncovered' = uncovered \cup (IF reached < stopsAt THEN {[lo |-> reached, hi |-> stopsAt]} ELSE {})
  BY DEF Finish, LoopInv
<1>1. /\ restated.from < stopsAt /\ restated.from <= reached /\ reached \in Nat
      /\ spans \subseteq O /\ \A j \in O \ spans : onFile[j].to <= reached
      /\ reached = restated.from \/ reached - 1 \notin U
      /\ uncovered = {g \in AllGaps : g.lo < reached}
      /\ AllGaps = Gaps(onFile, restated, DOMAIN onFile, stopsAt)
      /\ restated.from \in Nat /\ stopsAt \in Nat
  BY <1>0, EndsAreNaturals DEF Sweeps, AllGaps, Known, Dated
<1>2. \A j \in O : onFile[j].to \in Nat /\ HoldsFrom(onFile[j], restated) \in Nat
  BY <1>0, SpanIs
<1>3. /\ \A v \in U : v \in Nat /\ restated.from <= v /\ v < stopsAt
      /\ \A v \in Nat : restated.from <= v /\ v < stopsAt
            /\ (\A j \in O : ~ (HoldsFrom(onFile[j], restated) <= v /\ v < onFile[j].to)) => v \in U
  BY <1>0, UnheldIs
<1>4. /\ AllGaps' = AllGaps /\ BeginsBefore' = BeginsBefore
      /\ EarlierEnd(onFile, restated, Known, InForceNow)'
            = EarlierEnd(onFile, restated, Known, InForceNow)
  BY <1>0, FileStays DEF AllGaps, Gaps, Overlapped, UnheldInstants, Known, EarlierEnd, Reaching
<1>5. \A g \in AllGaps : g.lo \in U /\ g.lo \in Nat /\ g.lo < stopsAt
  BY <1>0, <1>1, <1>3, GapIs
<1>. HIDE DEF O, U
<1>6. uncovered' = AllGaps
  <2>1. CASE ~ (reached < stopsAt)
    <3>1. uncovered' = uncovered
      BY <1>0, <2>1
    <3>2. \A g \in AllGaps : g.lo < reached
      BY <1>1, <1>5, <2>1
    <3>. QED
      BY <1>1, <3>1, <3>2
  <2>2. CASE reached < stopsAt
    <3>. DEFINE h == [lo |-> reached, hi |-> stopsAt]
    <3>0. \A j \in O : onFile[j].to <= reached
      BY <1>0, <1>1, <2>2
    <3>1. \A v \in reached .. (stopsAt - 1) : v \in U
      <4>. TAKE v \in reached .. (stopsAt - 1)
      <4>1. v \in Nat /\ reached <= v /\ v < stopsAt
        BY <1>1
      <4>2. \A j \in O : ~ (HoldsFrom(onFile[j], restated) <= v /\ v < onFile[j].to)
        BY <1>1, <1>2, <3>0, <4>1
      <4>. QED
        BY <1>1, <1>3, <4>1, <4>2
    <3>2. stopsAt \notin U
      BY <1>1, <1>3
    <3>3. h \in AllGaps /\ \A g \in AllGaps : reached <= g.lo /\ g.lo < stopsAt => g = h
      <4>1. U = UnheldInstants(onFile, restated, DOMAIN onFile, stopsAt)
        BY DEF U
      <4>2. /\ [lo |-> reached, hi |-> stopsAt] \in Gaps(onFile, restated, DOMAIN onFile, stopsAt)
            /\ \A g \in Gaps(onFile, restated, DOMAIN onFile, stopsAt) :
                  reached <= g.lo /\ g.lo < stopsAt => g = [lo |-> reached, hi |-> stopsAt]
        BY ONLY <1>0, <1>1, <2>2, <3>1, <3>2, <4>1, NextGap
      <4>. QED
        BY <1>1, <4>2
    <3>. HIDE DEF h
    <3>4. \A g \in AllGaps : g.lo < reached \/ g = h
      BY <1>1, <1>5, <3>3
    <3>5. uncovered' = uncovered \cup {h}
      BY <1>0, <2>2 DEF h
    <3>. QED
      BY <1>1, <3>3, <3>4, <3>5
  <2>. QED
    BY <2>1, <2>2
<1>. QED
  BY <1>0, <1>4, <1>6 DEF LoopInv, Dated

LEMMA LoopStays == LoopInv /\ UNCHANGED loops => LoopInv'
  BY DEF LoopInv, loops, Dated, Walks, Sweeps, BeginsBefore, InForceNow, Known, AllGaps, Gaps,
         UnheldInstants, Overlapped, FirstLive, LaterStarts, EarlierEnd, Reaching

(* However the stored claims of a value lie and overlap, the loops of      *)
(* _earlier_period and _uncovered end where EarlierEnd says and find the   *)
(* parts that Gaps says, of which every other theorem here speaks.         *)
THEOREM LoopsFindGapsAlways == LoopSpec => []LoopsFindGaps
<1>1. LoopInv /\ [LoopNext]_loops => LoopInv'
  <2>. SUFFICES ASSUME LoopInv, [LoopNext]_loops PROVE LoopInv'
    OBVIOUS
  <2>. QED
    BY StartInv, StepBackInv, SettleInv, VisitInv, FinishInv, LoopStays DEF LoopNext
<1>2. LoopInv => LoopsFindGaps
  BY DEF LoopInv, LoopsFindGaps, AllGaps
<1>. QED
  BY <1>1, <1>2, LoopInitInv, PTL DEF LoopSpec

=============================================================================
