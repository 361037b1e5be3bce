---------------------------- MODULE LedgerProofs ----------------------------
(***************************************************************************)
(* Theorems of Ledger and Reading, for every value of their constants.     *)
(***************************************************************************)
EXTENDS Reading, ReconcileProofs

-----------------------------------------------------------------------------
(* Every call is a step that keeps the table                               *)

LEMMA StampedIsClaim ==
    ASSUME NEW s \in Statements, NEW t \in Time
    PROVE  Stamped(s, t) \in Claim
<1>1. s \in Statement
  BY LedgerAssumption
<1>2. \A e \in Ends : e # Forever => e \in Time
  BY ForeverAssumption DEF Ends, Time
<1>. DEFINE rec  == IF s.rec = Forever THEN t ELSE s.rec
            from == CASE s.from # Forever -> s.from
                      [] s.from = Forever /\ s.rec # Forever -> s.rec
                      [] s.from = Forever /\ s.rec = Forever -> t
<1>3. rec \in Time /\ from \in Time
  BY <1>1, <1>2 DEF Statement
<1>4. Stamped(s, t) = [s EXCEPT !.rec = rec, !.from = from]
  BY DEF Stamped
<1>. HIDE DEF rec, from
<1>. QED
  BY <1>1, <1>3, <1>4, EndsAreNaturals DEF Statement, Claim

(* The table after a step, given the one kind of closure it made.          *)
Moved(close) ==
    /\ claims' \in [DOMAIN claims' -> Claim]
    /\ DOMAIN claims' \subseteq Ids
    /\ writes' \in Nat
    /\ \A k \in DOMAIN claims' : k[1] <= writes'
    /\ \A k \in DOMAIN claims \cap DOMAIN claims' : ClosedBy(claims[k], claims'[k], close)

LEMMA TypeOKIsTable ==
    ASSUME TypeOK
    PROVE  /\ Table(claims, writes) /\ writes \in Nat /\ now \in Time /\ now \in Nat
           /\ \A k \in DOMAIN claims : claims[k] \in Claim
  BY EndsAreNaturals DEF TypeOK, Table

LEMMA ReconciledMoves ==
    ASSUME TypeOK, NEW S, Table(S, writes), NEW i \in Claim, NEW t \in Time,
           NEW close \in Closures, Reconciled(S, i, t, close),
           DOMAIN S = DOMAIN claims, \A k \in DOMAIN S : ClosedBy(claims[k], S[k], close)
    PROVE  Moved(close)
<1>1. PICK o \in Apply(S, writes, i, t, now, close) : claims' = o.rows /\ writes' = o.writes
  BY DEF Reconciled
<1>2. writes \in Nat /\ \A k \in DOMAIN claims : claims[k] \in Claim
  BY TypeOKIsTable
<1>3. Kept(S, writes, o, close)
  BY <1>2, ApplyKeeps
<1>4. Table(claims', writes') /\ Updated(S, claims', writes, close) /\ writes' \in Nat
  BY <1>1, <1>3 DEF Kept
<1>5. ASSUME NEW k \in DOMAIN claims
      PROVE  ClosedBy(claims[k], claims'[k], close)
  <2>1. /\ claims[k] \in Claim /\ S[k] \in Claim /\ claims'[k] \in Claim
        /\ ClosedBy(claims[k], S[k], close) /\ ClosedBy(S[k], claims'[k], close)
    BY <1>2, <1>4 DEF Table, Updated
  <2>. QED
    BY <2>1, ClosedTwice
<1>. QED
  BY <1>4, <1>5 DEF Moved, Table

LEMMA ClosedMoves ==
    ASSUME TypeOK, NEW ids, NEW at \in Ends, NEW close \in Closures,
           claims' = Closed(ids, at, close), writes' = writes
    PROVE  Moved(close)
<1>1. DOMAIN claims' = DOMAIN claims
  BY DEF Closed
<1>2. ASSUME NEW k \in DOMAIN claims
      PROVE  claims'[k] \in Claim /\ ClosedBy(claims[k], claims'[k], close)
  <2>1. claims[k] \in Claim
    BY TypeOKIsTable
  <2>2. claims'[k] = IF k \in ids THEN CloseOut(claims[k], at, close) ELSE claims[k]
    BY DEF Closed
  <2>. QED
    BY <2>1, <2>2, CloseOutCloses, ClosedByItself
<1>3. claims' \in [DOMAIN claims' -> Claim]
  BY <1>1, <1>2 DEF Closed
<1>. QED
  BY <1>1, <1>2, <1>3 DEF Moved, TypeOK

LEMMA StillMoves ==
    ASSUME TypeOK, UNCHANGED <<claims, writes>>, NEW close \in Closures
    PROVE  Moved(close)
<1>1. \A k \in DOMAIN claims : ClosedBy(claims[k], claims[k], close)
  BY TypeOKIsTable, ClosedByItself
<1>. QED
  BY <1>1 DEF Moved, TypeOK

LEMMA RememberMoves ==
    ASSUME TypeOK, NEW s \in Statements, NEW close \in Closures, Remember(s, close)
    PROVE  Moved(close)
<1>1. \A k \in DOMAIN claims : ClosedBy(claims[k], claims[k], close)
  BY TypeOKIsTable, ClosedByItself
<1>2. Reconciled(claims, Stamped(s, now), now, close)
  BY DEF Remember
<1>. QED
  BY <1>1, <1>2, TypeOKIsTable, StampedIsClaim, ReconciledMoves

LEMMA SupersedeMoves ==
    ASSUME TypeOK, NEW k \in DOMAIN claims, NEW s \in Statements, NEW at \in Ats \cup {Forever},
           NEW close \in Closures, Supersede(k, s, at, close)
    PROVE  Moved(close)
<1>. DEFINE old == claims[k]
            i == [Stamped(s, now) EXCEPT !.scope = IF @ = AnyScope THEN old.scope ELSE @]
            shut == ClosingInstant(i, at, close)
            S == [claims EXCEPT ![k] = CloseOut(old, shut, close)]
<1>1. old \in Claim /\ now \in Time
  BY TypeOKIsTable
<1>2. i \in Claim
  BY <1>1, StampedIsClaim DEF Claim
<1>3. Reconciled(S, i, now, close)
  BY Zenon DEF Supersede
<1>. HIDE DEF i
<1>4. shut \in Ends
  BY <1>2, LedgerAssumption, EndsAreNaturals DEF ClosingInstant, Claim, Closures
<1>. HIDE DEF shut
<1>5. CloseOut(old, shut, close) \in Claim /\ ClosedBy(old, CloseOut(old, shut, close), close)
  BY <1>1, <1>4, CloseOutCloses
<1>6. DOMAIN S = DOMAIN claims /\ S \in [DOMAIN S -> Claim] /\ Table(S, writes)
  BY <1>5 DEF TypeOK, Table
<1>7. \A j \in DOMAIN claims : ClosedBy(claims[j], S[j], close)
  BY <1>5, TypeOKIsTable, ClosedByItself
<1>. HIDE DEF S, old
<1>. QED
  BY <1>1, <1>2, <1>3, <1>6, <1>7, ReconciledMoves

LEMMA CommitAddMoves ==
    ASSUME TypeOK, NEW w \in Writers, NEW s \in Statements, CommitAdd(w, s)
    PROVE  Moved("ended")
<1>. DEFINE t == began[w]
            i == [Stamped(s, t) EXCEPT !.rec = t]
<1>1. t \in Time
  BY ForeverAssumption DEF CommitAdd, TypeOK, Ends, Time
<1>2. i \in Claim
  BY <1>1, StampedIsClaim DEF Claim
<1>3. Reconciled(claims, i, t, "ended")
  BY DEF CommitAdd
<1>4. \A k \in DOMAIN claims : ClosedBy(claims[k], claims[k], "ended")
  BY TypeOKIsTable, ClosedByItself DEF Closures
<1>. HIDE DEF i, t
<1>. QED
  BY <1>1, <1>2, <1>3, <1>4, TypeOKIsTable, ReconciledMoves DEF Closures

LEMMA EraseMoves ==
    ASSUME TypeOK, NEW k \in DOMAIN claims, Erase(k), NEW close \in Closures
    PROVE  Moved(close)
<1>1. \A j \in DOMAIN claims : ClosedBy(claims[j], claims[j], close)
  BY TypeOKIsTable, ClosedByItself
<1>2. /\ DOMAIN claims' = DOMAIN claims \ {k}
      /\ \A j \in DOMAIN claims' : claims'[j] = claims[j]
      /\ writes' = writes
  BY DEF Erase
<1>3. claims' \in [DOMAIN claims' -> Claim]
  BY <1>2 DEF Erase, TypeOK
<1>. QED
  BY <1>1, <1>2, <1>3 DEF Moved, TypeOK

LEMMA PurgeMoves ==
    ASSUME TypeOK, NEW s, Purge(s), NEW close \in Closures
    PROVE  Moved(close)
<1>1. \A j \in DOMAIN claims : ClosedBy(claims[j], claims[j], close)
  BY TypeOKIsTable, ClosedByItself
<1>2. /\ DOMAIN claims' \subseteq DOMAIN claims
      /\ \A j \in DOMAIN claims' : claims'[j] = claims[j]
      /\ writes' = writes
  BY DEF Purge
<1>3. claims' \in [DOMAIN claims' -> Claim]
  BY <1>2 DEF Purge, TypeOK
<1>. QED
  BY <1>1, <1>2, <1>3 DEF Moved, TypeOK

(* Each step closes in one way or not at all.                              *)
LEMMA StepMoves ==
    ASSUME TypeOK, [Next]_vars
    PROVE  \E close \in Closures : Moved(close)
<1>. USE DEF Closures
<1>0. now \in Ends /\ Ats \cup {now} \subseteq Ends
  BY TypeOKIsTable, LedgerAssumption, EndsAreNaturals
<1>1. ASSUME NEW s \in Statements, NEW close \in Closures, Remember(s, close)
      PROVE  Moved(close)
  BY <1>1, RememberMoves
<1>2. ASSUME NEW k \in DOMAIN claims, NEW s \in Statements, NEW close \in Closures,
             NEW at \in Ats \cup {Forever}, Supersede(k, s, at, close)
      PROVE  Moved(close)
  BY <1>2, SupersedeMoves
<1>3. ASSUME NEW w \in Writers, BeginAdd(w)
      PROVE  Moved("ended")
  BY <1>3, StillMoves DEF BeginAdd
<1>4. ASSUME NEW w \in Writers, NEW s \in Statements, CommitAdd(w, s)
      PROVE  Moved("ended")
  BY <1>4, CommitAddMoves
<1>5. ASSUME NEW s \in CallScopes, NEW p \in Predicates, NEW close \in Closures,
             NEW at \in Ats \cup {now}, Forget(s, p, at, close)
      PROVE  Moved(close)
  BY <1>0, <1>5, ClosedMoves DEF Forget
<1>6. ASSUME NEW k \in DOMAIN claims, NEW close \in Closures,
             NEW at \in Ats \cup {now}, Delete(k, at, close)
      PROVE  Moved(close)
  BY <1>0, <1>6, ClosedMoves DEF Delete
<1>7. ASSUME NEW k \in DOMAIN claims, Erase(k)
      PROVE  Moved("ended")
  BY <1>7, EraseMoves
<1>8. ASSUME Tick
      PROVE  Moved("ended")
  BY <1>8, StillMoves DEF Tick
<1>9. ASSUME UNCHANGED vars
      PROVE  Moved("ended")
  BY <1>9, StillMoves DEF vars
<1>10. ASSUME NEW w \in Writers, Leave(w)
       PROVE  Moved("ended")
  BY <1>10, StillMoves DEF Leave
<1>11. ASSUME NEW ids \in SUBSET DOMAIN claims, NEW close \in Closures,
              ForgetMatching(ids, close)
       PROVE  Moved(close)
  BY <1>0, <1>11, ClosedMoves DEF ForgetMatching
<1>12. ASSUME NEW s \in CallScopes, Purge(s)
       PROVE  Moved("ended")
  BY <1>12, PurgeMoves
<1>. QED
  BY <1>1, <1>2, <1>3, <1>4, <1>5, <1>6, <1>7, <1>8, <1>9, <1>10, <1>11, <1>12 DEF Next

LEMMA StepTypes ==
    ASSUME TypeOK, [Next]_vars
    PROVE  TypeOK'
<1>1. PICK close \in Closures : Moved(close)
  BY StepMoves
<1>2. now' \in Time
  BY DEF TypeOK, Next, Remember, Supersede, BeginAdd, CommitAdd, Forget, Delete, Erase,
         Leave, ForgetMatching, Purge, Tick, vars
<1>3. began' \in [Writers -> Ends]
  BY EndsAreNaturals
     DEF TypeOK, Next, Remember, Supersede, BeginAdd, CommitAdd, Forget, Delete, Erase,
         Leave, ForgetMatching, Purge, Tick, vars
<1>. QED
  BY <1>1, <1>2, <1>3 DEF Moved, TypeOK

(* Whatever is said, of whatever instants, the table stays a table.        *)
THEOREM TypeCorrect == Spec => []TypeOK
<1>1. Init => TypeOK
  BY ForeverAssumption DEF Init, TypeOK, Time, Ends
<1>2. TypeOK /\ [Next]_vars => TypeOK'
  BY StepTypes
<1>. QED
  BY <1>1, <1>2, PTL DEF Spec

(* Every call, with any number of adds in flight and any closing instant,  *)
(* leaves one of a claim's two clocks alone and never extends the other.   *)
THEOREM OneClockMoves == Spec => ClosesOneClock
<1>1. TypeOK /\ [Next]_vars
        => [\A k \in DOMAIN claims \cap DOMAIN claims' :
              LET c == claims[k]
                  d == claims'[k]
              IN  /\ d.to <= c.to
                  /\ d.inv # c.inv => c.inv = Forever /\ d.to = c.to
                  /\ d.to # c.to => c.inv = Forever /\ d.from <= d.to]_vars
  <2>. SUFFICES ASSUME TypeOK, [Next]_vars, NEW k \in DOMAIN claims \cap DOMAIN claims'
                PROVE  /\ claims'[k].to <= claims[k].to
                       /\ claims'[k].inv # claims[k].inv
                            => claims[k].inv = Forever /\ claims'[k].to = claims[k].to
                       /\ claims'[k].to # claims[k].to
                            => claims[k].inv = Forever /\ claims'[k].from <= claims'[k].to
    BY Zenon
  <2>1. PICK close \in Closures : Moved(close)
    BY StepMoves
  <2>2. ClosedBy(claims[k], claims'[k], close)
    BY <2>1 DEF Moved
  <2>3. claims[k].to \in Nat /\ claims'[k].to \in Nat
    BY <2>1, TypeOKIsTable, EndsAreNaturals DEF Moved, Claim
  <2>4. CASE close = "retired"
    BY <2>2, <2>3, <2>4 DEF ClosedBy
  <2>5. CASE close # "retired"
    BY <2>2, <2>3, <2>5 DEF ClosedBy
  <2>. QED
    BY <2>4, <2>5
<1>. QED
  BY <1>1, TypeCorrect, PTL DEF Spec, ClosesOneClock

-----------------------------------------------------------------------------
(* What was believed, and what expires                                     *)

(* Nothing that is retired now is taken back for an earlier instant.       *)
Stands(c, d) == d.rec = c.rec /\ (d.inv # c.inv => c.inv = Forever /\ d.inv = now)

LEMMA StandsInThePast ==
    ASSUME now \in Time, NEW c, NEW d, Stands(c, d), NEW v \in Time, v < now
    PROVE  Believed(c, v) <=> Believed(d, v)
  BY EndsAreNaturals DEF Stands, Believed

LEMMA ClosedStands ==
    ASSUME TypeOK, NEW ids, NEW close \in Closures, claims' = Closed(ids, now, close),
           NEW k \in DOMAIN claims
    PROVE  Stands(claims[k], claims'[k])
<1>1. claims[k] \in Claim
  BY TypeOKIsTable
<1>2. claims'[k] = IF k \in ids THEN CloseOut(claims[k], now, close) ELSE claims[k]
  BY DEF Closed
<1>. QED
  BY <1>1, <1>2 DEF Stands, CloseOut, Claim

LEMMA ReconciledStands ==
    ASSUME TypeOK, NEW S, Table(S, writes), NEW i \in Claim, NEW close \in Closures,
           Reconciled(S, i, now, close),
           NEW k \in DOMAIN claims, k \in DOMAIN S, Stands(claims[k], S[k])
    PROVE  Stands(claims[k], claims'[k])
<1>1. PICK o \in Apply(S, writes, i, now, now, close) : claims' = o.rows
  BY DEF Reconciled
<1>2. writes \in Nat /\ now \in Time
  BY TypeOKIsTable
<1>3. Touched(S[k], claims'[k], Canonical(i, now), now)
  BY <1>1, <1>2, ApplyTouches
<1>4. ClosedBy(S[k], claims'[k], close)
  BY <1>1, <1>2, ApplyKeeps DEF Kept, Updated
<1>. QED
  BY <1>3, <1>4 DEF Touched, ClosedBy, Stands

(* A call that names no instant retires as of the clock.                   *)
LEMMA NamingNoneStands ==
    ASSUME TypeOK, NamesNoInstant, NEW k \in DOMAIN claims \cap DOMAIN claims'
    PROVE  Stands(claims[k], claims'[k])
<1>0. /\ Table(claims, writes) /\ now \in Time /\ \A j \in DOMAIN claims : claims[j] \in Claim
      /\ \A c : Stands(c, c)
  BY TypeOKIsTable DEF Stands
<1>1. ASSUME NEW s \in Statements, NEW close \in Closures, Remember(s, close)
      PROVE  Stands(claims[k], claims'[k])
  <2>1. Reconciled(claims, Stamped(s, now), now, close) /\ Stamped(s, now) \in Claim
    BY <1>0, <1>1, StampedIsClaim DEF Remember
  <2>. QED
    BY <1>0, <2>1, ReconciledStands
<1>2. ASSUME NEW j \in DOMAIN claims, NEW s \in Statements, NEW close \in Closures,
             s.rec = Forever, Supersede(j, s, Forever, close)
      PROVE  Stands(claims[k], claims'[k])
  <2>. DEFINE old == claims[j]
              i == [Stamped(s, now) EXCEPT !.scope = IF @ = AnyScope THEN old.scope ELSE @]
              shut == ClosingInstant(i, Forever, close)
              S == [claims EXCEPT ![j] = CloseOut(old, shut, close)]
  <2>1. i \in Claim /\ i.rec = now
    <3>1. Stamped(s, now) \in Claim
      BY <1>0, StampedIsClaim
    <3>2. Stamped(s, now).rec = now
      BY <1>2, LedgerAssumption DEF Stamped, Statement
    <3>. QED
      BY <1>0, <3>1, <3>2 DEF Claim
  <2>2. Reconciled(S, i, now, close)
    BY <1>2, Zenon DEF Supersede
  <2>. HIDE DEF i
  <2>3. shut \in Ends /\ (close = "retired" => shut = now)
    BY <2>1, EndsAreNaturals DEF ClosingInstant, Claim, Closures
  <2>. HIDE DEF shut
  <2>4. CloseOut(old, shut, close) \in Claim /\ Stands(old, CloseOut(old, shut, close))
    <3>1. CloseOut(old, shut, close) \in Claim
      BY <1>0, <2>3, CloseOutCloses
    <3>2. old \in Claim
      BY <1>0
    <3>. HIDE DEF old
    <3>. QED
      BY <2>3, <3>1, <3>2 DEF Stands, CloseOut, Claim
  <2>5. DOMAIN S = DOMAIN claims /\ Table(S, writes)
    BY <2>4 DEF TypeOK, Table
  <2>6. Stands(claims[k], S[k])
    BY <1>0, <2>4
  <2>. HIDE DEF S, old
  <2>. QED
    BY <2>1, <2>2, <2>5, <2>6, ReconciledStands
<1>3. ASSUME NEW w \in Writers, NEW s \in Statements, CommitAdd(w, s)
      PROVE  Stands(claims[k], claims'[k])
  <2>1. ClosedBy(claims[k], claims'[k], "ended")
    BY <1>3, CommitAddMoves DEF Moved
  <2>. QED
    BY <2>1 DEF ClosedBy, Stands
<1>4. ASSUME NEW s \in CallScopes, NEW p \in Predicates, NEW close \in Closures,
             Forget(s, p, now, close)
      PROVE  Stands(claims[k], claims'[k])
  BY <1>4, ClosedStands DEF Forget
<1>5. ASSUME NEW j \in DOMAIN claims, NEW close \in Closures, Delete(j, now, close)
      PROVE  Stands(claims[k], claims'[k])
  BY <1>5, ClosedStands DEF Delete
<1>6. ASSUME NEW ids \in SUBSET DOMAIN claims, NEW close \in Closures,
             ForgetMatching(ids, close)
      PROVE  Stands(claims[k], claims'[k])
  BY <1>6, ClosedStands DEF ForgetMatching
<1>. QED
  BY <1>1, <1>2, <1>3, <1>4, <1>5, <1>6 DEF NamesNoInstant

(* Unless a caller names an instant, what was believed before a call was   *)
(* believed: whatever is said, however far its record is backdated, a      *)
(* write retires as of the clock or not at all.                            *)
THEOREM PastBeliefStays == Spec => PastBeliefKept
<1>1. TypeOK /\ [Next]_vars
        => [\/ \A k \in DOMAIN claims \cap DOMAIN claims' :
                 \A v \in Time : v < now =>
                    (Believed(claims[k], v) <=> Believed(claims'[k], v))
            \/ ~ NamesNoInstant]_vars
  <2>. SUFFICES ASSUME TypeOK, NamesNoInstant, NEW k \in DOMAIN claims \cap DOMAIN claims',
                       NEW v \in Time, v < now
                PROVE  Believed(claims[k], v) <=> Believed(claims'[k], v)
    BY Zenon
  <2>1. now \in Time
    BY DEF TypeOK
  <2>. QED
    BY <2>1, NamingNoneStands, StandsInThePast
<1>. QED
  BY <1>1, TypeCorrect, PTL DEF Spec, PastBeliefKept

(* Saying something again with an expiry never makes a claim expire that   *)
(* another scope's reader relies on.                                       *)
THEOREM ExpiryStays == Spec => ExpiryStaysInScope
<1>1. TypeOK /\ [Next]_vars
        => [\A k \in DOMAIN claims \cap DOMAIN claims' :
              claims'[k].exp # claims[k].exp =>
                 \A s \in Statements, close \in Closures :
                    Remember(s, close) => SlotScope(s.pred, s.scope) = claims[k].scope]_vars
  <2>. SUFFICES ASSUME TypeOK, NEW k \in DOMAIN claims \cap DOMAIN claims',
                       claims'[k].exp # claims[k].exp,
                       NEW s \in Statements, NEW close \in Closures, Remember(s, close)
                PROVE  SlotScope(s.pred, s.scope) = claims[k].scope
    BY Zenon
  <2>. DEFINE i == Stamped(s, now)
  <2>1. Table(claims, writes) /\ now \in Time /\ writes \in Nat /\ i \in Claim
    BY TypeOKIsTable, StampedIsClaim
  <2>2. PICK o \in Apply(claims, writes, i, now, now, close) : claims' = o.rows
    BY DEF Remember, Reconciled
  <2>3. i.pred = s.pred /\ i.scope = s.scope
    BY LedgerAssumption DEF Stamped, Statement
  <2>. HIDE DEF i
  <2>4. Touched(claims[k], claims'[k], Canonical(i, now), now)
    BY <2>1, <2>2, ApplyTouches
  <2>5. Canonical(i, now).scope = SlotScope(i.pred, i.scope)
    BY <2>1 DEF Canonical, Claim
  <2>. QED
    BY <2>3, <2>4, <2>5 DEF Touched
<1>. QED
  BY <1>1, TypeCorrect, PTL DEF Spec, ExpiryStaysInScope

-----------------------------------------------------------------------------
(***************************************************************************)
(* One value.  That a slot holds one value, that a value is stored once,   *)
(* that what is forgotten stays so, that a reader is told one value, and   *)
(* that what is said is held.                                              *)
(*                                                                         *)
(* The invariant is about any two claims of which the later was stored     *)
(* after the earlier: something about them settles that they are not       *)
(* rivals, and do not repeat each other, and whatever settles it once      *)
(* settles it from then on.                                                *)
(***************************************************************************)

(* y came from turns read before x was recorded. *)
Unread(x, y) == Writers # {} /\ ~ y.user /\ y.rec < x.rec

(* Why x, and y stored after it, are not both true from instant v on.      *)
Resolved(x, y, v) ==
    \/ x.inv # Forever \/ y.inv # Forever
    \/ ~ Displaces(y, x)
    \/ x.to <= y.from \/ y.to <= x.from
    \/ x.to <= x.from \/ y.to <= y.from
    \/ x.to <= v \/ y.to <= v
    \/ ~ HasAuthorityOver(y, x)
    \/ Hidden(x, v) \/ Hidden(y, v)
    \/ Unread(x, y)

(* Why x, and y stored after it or by the same write, do not both hold one *)
(* value at one instant.                                                   *)
Apart(x, y, v) ==
    \/ x.inv # Forever \/ y.inv # Forever
    \/ ValueKey(x) # ValueKey(y)
    \/ ~ Sees(y.scope, x.scope)
    \/ y.exp # Forever /\ x.scope # y.scope
    \/ ~ Overlaps(x, y)
    \/ Hidden(x, v) \/ Hidden(y, v)
    \/ Unread(x, y)

(* d is what calls at instant v or before may make of c.                   *)
Follows(c, d, v) ==
    /\ d.pred = c.pred /\ d.val = c.val /\ d.neg = c.neg /\ d.scope = c.scope
    /\ d.from = c.from /\ d.rec = c.rec /\ d.conf = c.conf /\ d.user = c.user
    /\ d.to <= c.to
    /\ c.inv # Forever => d.inv # Forever
    /\ d.exp # c.exp => ~ Hidden(c, v) /\ d.exp # Forever

Followed(S, R, v) == \A k \in DOMAIN S : Follows(S[k], R[k], v)

LEMMA FollowsItself ==
    ASSUME NEW c \in Claim, NEW v
    PROVE  Follows(c, c, v)
<1>1. c.to \in Nat
  BY EndsAreNaturals DEF Claim
<1>. QED
  BY <1>1 DEF Follows

LEMMA FollowsTwice ==
    ASSUME NEW c \in Claim, NEW d \in Claim, NEW e \in Claim, NEW v,
           Follows(c, d, v), Follows(d, e, v)
    PROVE  Follows(c, e, v)
<1>1. c.to \in Nat /\ d.to \in Nat /\ e.to \in Nat
  BY EndsAreNaturals DEF Claim
<1>. QED
  BY <1>1 DEF Follows, Hidden, IsExpired

(* What is settled stays settled.                                          *)
LEMMA StaysResolved ==
    ASSUME NEW x \in Claim, NEW y \in Claim, NEW p \in Claim, NEW q \in Claim,
           NEW v \in Nat, NEW w \in Nat, v <= w,
           Resolved(x, y, v), Follows(x, p, v), Follows(y, q, v)
    PROVE  Resolved(p, q, w)
<1>1. /\ x.to \in Nat /\ y.to \in Nat /\ p.to \in Nat /\ q.to \in Nat
      /\ x.from \in Nat /\ y.from \in Nat
      /\ x.exp \in Nat /\ y.exp \in Nat
  BY EndsAreNaturals DEF Claim
<1>2. ASSUME NEW c \in Claim, NEW d, c.exp \in Nat, Follows(c, d, v), Hidden(c, v)
      PROVE  Hidden(d, w)
  BY <1>2 DEF Follows, Hidden, IsExpired
<1>3. Displaces(q, p) => Displaces(y, x)
  BY DEF Displaces, Follows
<1>4. Unread(x, y) => Unread(p, q)
  BY DEF Unread, Follows
<1>5. HasAuthorityOver(q, p) => HasAuthorityOver(y, x)
  BY DEF HasAuthorityOver, Follows
<1>6. CASE x.inv # Forever \/ y.inv # Forever
  BY <1>6 DEF Resolved, Follows
<1>7. CASE \/ x.to <= y.from \/ y.to <= x.from
           \/ x.to <= x.from \/ y.to <= y.from
           \/ x.to <= v \/ y.to <= v
  BY <1>1, <1>7 DEF Resolved, Follows
<1>8. CASE Hidden(x, v) \/ Hidden(y, v)
  BY <1>1, <1>2, <1>8, Zenon DEF Resolved
<1>9. CASE ~ Displaces(y, x) \/ ~ HasAuthorityOver(y, x) \/ Unread(x, y)
  BY <1>3, <1>4, <1>5, <1>9, Zenon DEF Resolved
<1>. QED
  BY <1>6, <1>7, <1>8, <1>9, Zenon DEF Resolved

(* What is apart stays apart.                                              *)
LEMMA StaysApart ==
    ASSUME NEW x \in Claim, NEW y \in Claim, NEW p \in Claim, NEW q \in Claim,
           NEW v \in Nat, NEW w \in Nat, v <= w,
           Apart(x, y, v), Follows(x, p, v), Follows(y, q, v)
    PROVE  Apart(p, q, w)
<1>1. /\ x.to \in Nat /\ y.to \in Nat /\ p.to \in Nat /\ q.to \in Nat
      /\ x.from \in Nat /\ y.from \in Nat
      /\ x.exp \in Nat /\ y.exp \in Nat
  BY EndsAreNaturals DEF Claim
<1>2. ValueKey(p) = ValueKey(x) /\ ValueKey(q) = ValueKey(y)
  BY DEF Follows, ValueKey
<1>3. Overlaps(p, q) => Overlaps(x, y)
  BY <1>1 DEF Follows, Overlaps
<1>4. (Hidden(x, v) => Hidden(p, w)) /\ (Hidden(y, v) => Hidden(q, w))
  BY <1>1 DEF Follows, Hidden, IsExpired
<1>5. Unread(x, y) => Unread(p, q)
  BY DEF Follows, Unread
<1>. QED
  BY <1>2, <1>3, <1>4, <1>5 DEF Apart, Follows

-----------------------------------------------------------------------------
(* What each effect of a call makes of a claim                             *)

LEMMA CloseOutFollows ==
    ASSUME NEW c \in Claim, NEW at \in Ends, NEW close \in Closures, NEW v
    PROVE  Follows(c, CloseOut(c, at, close), v)
<1>1. ClosedBy(c, CloseOut(c, at, close), close) /\ CloseOut(c, at, close) \in Claim
  BY CloseOutCloses
<1>2. CloseOut(c, at, close).exp = c.exp
  BY DEF CloseOut, Claim
<1>3. c.to \in Nat
  BY EndsAreNaturals DEF Claim
<1>. HIDE DEF CloseOut
<1>. QED
  BY <1>1, <1>2, <1>3 DEF Follows, ClosedBy

LEMMA RepeatFollows ==
    ASSUME NEW S, NEW n, Table(S, n), NEW i \in Claim, NEW ids, NEW v,
           ids \subseteq Unhidden(S, v) \/ ~ i.user
    PROVE  Followed(S, Repeat(S, i, ids), v)
<1>. SUFFICES ASSUME NEW k \in DOMAIN S
              PROVE  Follows(S[k], Repeat(S, i, ids)[k], v)
  BY DEF Followed
<1>1. S[k] \in Claim
  BY DEF Table
<1>2. Repeat(S, i, ids)[k] = IF k \in ids /\ i.user /\ i.exp # Forever
                             THEN [S[k] EXCEPT !.exp = i.exp] ELSE S[k]
  BY DEF Repeat
<1>3. CASE k \in ids /\ i.user /\ i.exp # Forever
  <2>1. ~ Hidden(S[k], v)
    BY <1>3 DEF Unhidden
  <2>2. S[k].to \in Nat
    BY <1>1, EndsAreNaturals DEF Claim
  <2>3. Repeat(S, i, ids)[k] = [S[k] EXCEPT !.exp = i.exp]
    BY <1>2, <1>3
  <2>. QED
    BY <1>1, <1>3, <2>1, <2>2, <2>3 DEF Follows, Claim
<1>4. CASE ~ (k \in ids /\ i.user /\ i.exp # Forever)
  BY <1>1, <1>2, <1>4, FollowsItself
<1>. QED
  BY <1>3, <1>4

LEMMA RetireFollows ==
    ASSUME NEW S, NEW n, Table(S, n), NEW ids, NEW i \in Claim, NEW t \in Time,
           NEW close \in Closures, NEW v
    PROVE  Followed(S, Retire(S, ids, i, t, close), v)
<1>. DEFINE at == IF close = "retired" THEN t ELSE i.from
<1>. SUFFICES ASSUME NEW k \in DOMAIN S
              PROVE  Follows(S[k], Retire(S, ids, i, t, close)[k], v)
  BY DEF Followed
<1>1. S[k] \in Claim
  BY DEF Table
<1>2. at \in Ends
  BY EndsAreNaturals DEF Claim
<1>3. Retire(S, ids, i, t, close)[k] = IF k \notin ids THEN S[k] ELSE CloseOut(S[k], at, close)
  BY DEF Retire
<1>. HIDE DEF at
<1>. QED
  BY <1>1, <1>2, <1>3, FollowsItself, CloseOutFollows

LEMMA StoreFollows ==
    ASSUME NEW S, NEW n, Table(S, n), NEW i \in Claim, NEW gaps, NEW overlapped, NEW v,
           overlapped \subseteq Unhidden(S, v) \/ ~ i.user
    PROVE  Followed(S, StoreInPieces(S, n, i, gaps, overlapped), v)
<1>1. \A k \in DOMAIN S :
        StoreInPieces(S, n, i, gaps, overlapped)[k] = Repeat(S, i, overlapped)[k]
  BY DEF StoreInPieces
<1>. QED
  BY <1>1, RepeatFollows DEF Followed

LEMMA FollowedTwice ==
    ASSUME NEW S, NEW R, NEW Q, NEW n, NEW m, NEW l, NEW v,
           Table(S, n), Table(R, m), Table(Q, l),
           DOMAIN S \subseteq DOMAIN R, DOMAIN R \subseteq DOMAIN Q,
           Followed(S, R, v), Followed(R, Q, v)
    PROVE  Followed(S, Q, v)
<1>1. \A k \in DOMAIN S : S[k] \in Claim /\ R[k] \in Claim /\ Q[k] \in Claim
  BY DEF Table
<1>. QED
  BY <1>1, FollowsTwice DEF Followed

-----------------------------------------------------------------------------
(* One call of the reconciler                                              *)

(* A caller's write is reconciled as of the clock, v, and has every claim  *)
(* in view; what turns yielded may be reconciled as of an earlier instant. *)
Reads(S, i, t, v) ==
    /\ t <= v
    /\ i.rec <= t
    /\ \/ t = v /\ \A k \in DOMAIN S : S[k].rec <= v
       \/ ~ i.user /\ Writers # {}

(* What o leaves is settled between what was stored and what is new.       *)
Settled(S, o, t, v) ==
    /\ Followed(S, o.rows, v)
    /\ \A b \in DOMAIN o.rows \ DOMAIN S : o.rows[b].rec <= t
    /\ \A a \in DOMAIN S, b \in DOMAIN o.rows \ DOMAIN S : Resolved(o.rows[a], o.rows[b], v)

(* A call that stores nothing new has only to follow.                      *)
LEMMA RepeatSettles ==
    ASSUME NEW S, NEW n, Table(S, n), NEW i \in Claim, NEW t \in Time, NEW v \in Nat,
           Reads(S, i, t, v), NEW ids \in SUBSET Unhidden(S, t)
    PROVE  Settled(S, Outcome(Repeat(S, i, ids), n), t, v)
<1>1. ids \subseteq Unhidden(S, v) \/ ~ i.user
  BY DEF Reads
<1>2. Followed(S, Repeat(S, i, ids), v)
  BY <1>1, RepeatFollows
<1>3. DOMAIN Repeat(S, i, ids) = DOMAIN S
  BY DEF Repeat
<1>4. Outcome(Repeat(S, i, ids), n).rows = Repeat(S, i, ids)
  BY DEF Outcome
<1>. QED
  BY <1>2, <1>3, <1>4 DEF Settled

(* A claim that the reconciler does not find among the occupants of its    *)
(* slot, or that does not overlap the incoming one, is settled with it;    *)
(* so is one that is found: the later ends what is stored, and the earlier *)
(* is closed unless it outranks the incoming claim.                        *)
LEMMA VictimsSettle ==
    ASSUME NEW S, NEW n \in Nat, Table(S, n), NEW i \in Claim, NEW t \in Time, NEW v \in Nat,
           NEW close \in Closures, Reads(S, i, t, v),
           NEW a \in DOMAIN S, NEW c \in Claim, Follows(S[a], c, v),
           S[a].exp # c.exp => ~ Hidden(S[a], t),
           NEW at, at = IF close = "retired" THEN t ELSE i.from,
           NEW d \in Claim, d = IF a \in Outranked(S, i, Older(S, i, t))
                                  THEN CloseOut(c, at, close) ELSE c,
           NEW b \in Claim, b.pred = i.pred, b.val = i.val, b.scope = i.scope,
           b.conf = i.conf, b.user = i.user, b.rec = i.rec,
           i.from <= b.from, b.to <= CompetesTo(S, i, t)
    PROVE  Resolved(d, b, v)
<1>. SUFFICES ASSUME ~ Resolved(d, b, v)
              PROVE  FALSE
  OBVIOUS
<1>. DEFINE x == S[a]
<1>1. /\ x \in Claim
      /\ x.from \in Nat /\ x.to \in Nat /\ c.to \in Nat /\ d.to \in Nat
      /\ b.from \in Nat /\ b.to \in Nat /\ i.from \in Nat /\ i.to \in Nat
      /\ x.exp \in Nat /\ c.exp \in Nat /\ x.rec \in Nat /\ i.rec \in Nat /\ t \in Nat
      /\ at \in Ends /\ at \in Nat /\ Forever \in Nat /\ CompetesTo(S, i, t) \in Nat
      /\ x.pred \in Predicates
  BY CompetesToType, EndsAreNaturals DEF Table, Claim
<1>2. Follows(c, d, v)
  BY <1>1, CloseOutFollows, FollowsItself
<1>3. Follows(x, d, v)
  BY <1>1, <1>2, FollowsTwice
<1>4. /\ d.inv = Forever /\ b.inv = Forever
      /\ Displaces(b, d) /\ HasAuthorityOver(b, d)
      /\ b.from < d.to /\ d.from < b.to /\ d.from < d.to /\ b.from < b.to
      /\ v < d.to /\ v < b.to
      /\ ~ Hidden(d, v) /\ ~ Hidden(b, v) /\ ~ Unread(d, b)
  <2>1. d.from \in Nat
    BY EndsAreNaturals DEF Claim
  <2>. QED
    BY <1>1, <2>1 DEF Resolved
<1>5. /\ x.scope = i.scope
      /\ \/ i.pred = x.pred /\ i.pred \in Functional /\ x.val # i.val
         \/ <<i.pred, x.pred>> \in Supersedes
  BY <1>3, <1>4 DEF Displaces, Follows
<1>6. x.rec <= t
  BY <1>1, <1>3, <1>4 DEF Reads, Unread, Follows
<1>7. x.inv = Forever /\ x.from < x.to /\ t < x.to /\ x.from = d.from /\ d.to <= x.to
  BY <1>1, <1>3, <1>4 DEF Follows, Reads
<1>8. ~ Hidden(x, t)
  <2>1. CASE x.exp # c.exp
    BY <2>1
  <2>2. CASE x.exp = c.exp
    <3>1. ~ Hidden(c, v)
      <4>1. d.exp = c.exp
        BY DEF CloseOut, Claim
      <4>. QED
        BY <1>4, <4>1 DEF Hidden, IsExpired
    <3>. QED
      BY <1>1, <2>2, <3>1 DEF Reads, Hidden, IsExpired
  <2>. QED
    BY <2>1, <2>2
<1>9. SlotOf(x) = FactKey(i.scope, x.pred) /\ SlotOf(i) = FactKey(i.scope, i.pred)
  BY <1>5 DEF SlotOf
<1>10. a \in Occupants(S, FactKey(i.scope, x.pred), t)
  BY <1>6, <1>7, <1>8, <1>9 DEF Occupants
<1>11. Overlaps(x, i)
  BY <1>1, <1>4, <1>7, CompetesToType DEF Overlaps
<1>12. a \in Victims(S, i, t)
  BY <1>1, <1>5, <1>9, <1>10, <1>11 DEF Victims
<1>13. CASE a \in Newer(S, i, t)
  <2>1. CompetesTo(S, i, t) <= x.from
    BY <1>13, CompetesToType
  <2>. QED
    BY <1>1, <1>4, <1>7, <2>1
<1>14. CASE a \in Older(S, i, t)
  <2>1. HasAuthorityOver(i, x)
    BY <1>3, <1>4 DEF HasAuthorityOver, Follows
  <2>2. d = CloseOut(c, at, close)
    BY <1>14, <2>1 DEF Outranked
  <2>3. CASE c.inv # Forever
    BY <1>2, <1>4, <2>3 DEF Follows
  <2>4. CASE c.inv = Forever /\ close = "retired"
    <3>1. d.inv = t
      BY <2>2, <2>4 DEF CloseOut, Claim
    <3>. QED
      BY <1>4, <3>1, EndsAreNaturals
  <2>5. CASE c.inv = Forever /\ close # "retired"
    <3>1. d.to = Earlier(c.to, Later(i.from, c.from))
      BY <2>2, <2>5 DEF CloseOut, Claim, NotBeforeStart
    <3>2. c.from = d.from /\ c.from \in Nat
      BY <1>2, EndsAreNaturals DEF Follows, Claim
    <3>. QED
      BY <1>1, <1>4, <3>1, <3>2 DEF Earlier, Later
  <2>. QED
    BY <2>3, <2>4, <2>5
<1>. QED
  BY <1>12, <1>13, <1>14 DEF Older

(* What is new in a table is a part of what was stored.                    *)
LEMMA StoredParts ==
    ASSUME NEW S, NEW n \in Nat, Table(S, n), NEW i \in Claim, NEW gaps, Parts(gaps),
           NEW overlapped
    PROVE  LET R == StoreInPieces(S, n, i, gaps, overlapped)
           IN  /\ Table(R, n + 1)
               /\ DOMAIN S \subseteq DOMAIN R
               /\ NewAreParts(S, R, n, i, gaps)
<1>. DEFINE R == StoreInPieces(S, n, i, gaps, overlapped)
<1>1. "ended" \in Closures
  BY DEF Closures
<1>2. Table(R, n + 1) /\ Updated(S, R, n, "ended") /\ NewAreParts(S, R, n, i, gaps)
  BY <1>1, StoreKeeps
<1>. HIDE DEF R
<1>3. DOMAIN S \subseteq DOMAIN R
  BY <1>2 DEF Updated
<1>. QED
  BY <1>2, <1>3, Zenon DEF R

LEMMA CompeteSettles ==
    ASSUME NEW S, NEW n \in Nat, Table(S, n), NEW i \in Claim, NEW t \in Time, NEW v \in Nat,
           NEW close \in Closures, Reads(S, i, t, v), NEW o \in Compete(S, n, i, t, close)
    PROVE  Settled(S, o, t, v)
<1>. DEFINE stop == CompetesTo(S, i, t)
            held == HeldFor(S, i, t)
            gaps == Gaps(S, i, held, stop)
            over == Overlapped(S, i, held, stop)
            shut == Outranked(S, i, Older(S, i, t))
            R    == StoreInPieces(S, n, i, gaps, over)
            Q    == Retire(R, shut, i, t, close)
            at   == IF close = "retired" THEN t ELSE i.from
<1>1. CASE \E ids \in SUBSET Unhidden(S, t) : o = Outcome(Repeat(S, i, ids), n)
  BY <1>1, RepeatSettles
<1>2. CASE o = Outcome(Q, n + 1)
  <2>1. Parts(gaps) /\ \A g \in gaps : i.from <= g.lo /\ g.hi <= stop
    BY CompetesToType, GapsAreParts
  <2>2. over \subseteq Unhidden(S, t) /\ (over \subseteq Unhidden(S, v) \/ ~ i.user)
    BY HeldIsUnhidden, LookupsAreAmong DEF Reads
  <2>3. shut \subseteq DOMAIN S
    BY DEF Outranked, Older, Victims
  <2>4. Followed(S, R, v) /\ Followed(S, R, t)
    BY <2>2, StoreFollows
  <2>. HIDE DEF over
  <2>5. /\ Table(R, n + 1) /\ DOMAIN S \subseteq DOMAIN R
        /\ \A b \in DOMAIN R \ DOMAIN S : \E g \in gaps : R[b] = Piece(i, g)
    BY <2>1, StoredParts DEF NewAreParts
  <2>. HIDE DEF R
  <2>6. Table(Q, n + 1) /\ DOMAIN Q = DOMAIN R
    BY <2>5, RetireKeeps
  <2>7. Followed(R, Q, v)
    BY <2>5, RetireFollows
  <2>8. Followed(S, Q, v)
    BY <2>4, <2>5, <2>6, <2>7, FollowedTwice
  <2>9. \A k \in DOMAIN R : Q[k] = IF k \notin shut THEN R[k] ELSE CloseOut(R[k], at, close)
    BY DEF Retire
  <2>. HIDE DEF Q, at, gaps
  <2>10. ASSUME NEW b \in DOMAIN Q \ DOMAIN S
         PROVE  \E g \in gaps : Q[b] = Piece(i, g)
    BY <2>3, <2>5, <2>6, <2>9
  <2>11. \A b \in DOMAIN Q \ DOMAIN S : Q[b].rec <= t
    BY <2>1, <2>10, PieceIsClaim DEF Parts, Reads
  <2>12. ASSUME NEW a \in DOMAIN S, NEW b \in DOMAIN Q \ DOMAIN S
         PROVE  Resolved(Q[a], Q[b], v)
    <3>1. PICK g \in gaps : Q[b] = Piece(i, g)
      BY <2>10
    <3>2. g.lo \in Time /\ g.hi \in Ends /\ i.from <= g.lo /\ g.hi <= stop
      BY <2>1, <3>1 DEF Parts
    <3>3. a \in DOMAIN R /\ R[a] \in Claim /\ Q[a] \in Claim /\ Q[b] \in Claim
      BY <2>5, <2>6 DEF Table
    <3>4. Follows(S[a], R[a], v) /\ (S[a].exp # R[a].exp => ~ Hidden(S[a], t))
      BY <2>4 DEF Followed, Follows
    <3>5. Q[a] = IF a \in shut THEN CloseOut(R[a], at, close) ELSE R[a]
      BY <2>9, <3>3
    <3>6. /\ Q[b].pred = i.pred /\ Q[b].val = i.val /\ Q[b].scope = i.scope
          /\ Q[b].conf = i.conf /\ Q[b].user = i.user /\ Q[b].rec = i.rec
          /\ i.from <= Q[b].from /\ Q[b].to <= stop
      BY <3>1, <3>2, PieceIsClaim
    <3>. QED
      BY <3>3, <3>4, <3>5, <3>6, VictimsSettle, Zenon DEF at
  <2>. QED
    BY <1>2, <2>8, <2>11, <2>12, Zenon DEF Settled, Outcome
<1>. QED
  BY <1>1, <1>2, CompeteForms

(* What is stored before the live claims of its value ends by t.           *)
LEMMA ExtendSettles ==
    ASSUME NEW S, NEW n \in Nat, Table(S, n), NEW i \in Claim, NEW t \in Time, NEW v \in Nat,
           NEW close \in Closures, Reads(S, i, t, v), LiveSame(S, i, t) # {},
           NEW o \in ExtendBackwards(S, n, i, t, LiveSame(S, i, t))
    PROVE  Settled(S, o, t, v)
<1>. DEFINE live == LiveSame(S, i, t)
            held == Held(S, i, t)
            stop == EarlierEnd(S, i, held, live)
            gaps == Gaps(S, i, held, stop)
            over == Overlapped(S, i, held, stop)
            R    == StoreInPieces(S, n, i, gaps, over)
<1>1. CASE \E ids \in SUBSET Unhidden(S, t) : o = Outcome(Repeat(S, i, ids), n)
  BY <1>1, RepeatSettles
<1>2. CASE o = Outcome(R, n + 1)
  <2>1. /\ held \subseteq DOMAIN S /\ live \subseteq DOMAIN S /\ live # {}
        /\ \A k \in live : S[k].from <= t
    BY DEF Held, LiveSame, FindByValue, IsLive, InForce
  <2>2. stop \in Ends /\ \A k \in live : stop <= S[k].from
    BY <2>1, EarlierEndType
  <2>3. Parts(gaps) /\ \A g \in gaps : i.from <= g.lo /\ g.hi <= stop
    BY <2>2, GapsAreParts
  <2>4. stop <= t /\ t <= v
    <3>1. PICK k \in live : TRUE
      BY <2>1
    <3>2. k \in DOMAIN S /\ S[k] \in Claim
      BY <2>1 DEF Table
    <3>3. S[k].from \in Nat /\ stop \in Nat /\ t \in Nat
      BY <2>2, <3>2, EndsAreNaturals DEF Claim
    <3>4. stop <= S[k].from /\ S[k].from <= t /\ t <= v
      BY <2>1, <2>2, Zenon DEF Reads
    <3>. HIDE DEF stop
    <3>. QED
      BY <3>3, <3>4
  <2>5. over \subseteq Unhidden(S, v) \/ ~ i.user
    BY HeldIsUnhidden, LookupsAreAmong DEF Reads
  <2>6. Followed(S, R, v)
    BY <2>5, StoreFollows
  <2>. HIDE DEF over, gaps, stop
  <2>7. /\ DOMAIN S \subseteq DOMAIN R
        /\ \A b \in DOMAIN R \ DOMAIN S : \E g \in gaps : R[b] = Piece(i, g)
    BY <2>3, StoredParts DEF NewAreParts
  <2>. HIDE DEF R
  <2>8. ASSUME NEW b \in DOMAIN R \ DOMAIN S
        PROVE  R[b].rec <= t /\ R[b].to <= v
    <3>1. PICK g \in gaps : R[b] = Piece(i, g)
      BY <2>7
    <3>2. g.lo \in Time /\ g.hi \in Ends /\ g.hi <= stop
      BY <2>3, <3>1 DEF Parts
    <3>3. R[b].rec = i.rec /\ R[b].to = g.hi
      BY <3>1, <3>2, PieceIsClaim
    <3>. QED
      BY <2>2, <2>4, <3>2, <3>3, EndsAreNaturals DEF Reads
  <2>. QED
    BY <1>2, <2>6, <2>8, Zenon DEF Settled, Outcome, Resolved
<1>. QED
  BY <1>1, <1>2, ExtendForms

(* A tombstone is closed when it is recorded.                              *)
LEMMA RetractionSettles ==
    ASSUME NEW S, NEW n \in Nat, Table(S, n), NEW i \in Claim, NEW t \in Time, NEW v \in Nat,
           NEW clock, NEW close \in Closures, Reads(S, i, t, v),
           NEW o \in ApplyRetraction(S, n, i, t, clock, close)
    PROVE  Settled(S, o, t, v)
<1>. DEFINE gaps   == {[lo |-> i.from, hi |-> i.to]}
            stored == StoreInPieces(S, n, i, gaps, {})
            new    == <<n + 1, i.from>>
            R      == Tombstoned(S, n, i)
<1>1. CASE o = Outcome(S, n)
  <2>1. Followed(S, S, v)
    BY FollowsItself DEF Followed, Table
  <2>. QED
    BY <1>1, <2>1 DEF Settled, Outcome
<1>2. CASE \E ids : o = Outcome(Retire(R, ids, i, t, close), n + 1)
  <2>1. PICK ids : o = Outcome(Retire(R, ids, i, t, close), n + 1)
    BY <1>2
  <2>. DEFINE Q == Retire(R, ids, i, t, close)
  <2>2. Parts(gaps) /\ \A g \in gaps : g.lo = i.from
    BY DEF Parts, Claim
  <2>3. R = [stored EXCEPT ![new] = Tombstone(i)]
    BY DEF Tombstoned
  <2>4. Followed(S, stored, v)
    BY StoreFollows
  <2>. HIDE DEF gaps
  <2>5. /\ Table(stored, n + 1) /\ DOMAIN S \subseteq DOMAIN stored
        /\ \A b \in DOMAIN stored \ DOMAIN S : b = new
    BY <2>2, StoredParts DEF NewAreParts
  <2>6. new \notin DOMAIN S
    BY DEF Table, Ids
  <2>. HIDE DEF stored, R, new
  <2>7. Tombstone(i) \in Claim
    BY TombstoneIsClaim
  <2>8. /\ DOMAIN R = DOMAIN stored
        /\ \A k \in DOMAIN S : R[k] = stored[k]
        /\ \A b \in DOMAIN R \ DOMAIN S : R[b] = Tombstone(i)
    BY <2>3, <2>5, <2>6
  <2>9. R \in [DOMAIN R -> Claim] /\ Table(R, n + 1)
    BY <2>3, <2>5, <2>7 DEF Table
  <2>10. Table(Q, n + 1) /\ DOMAIN Q = DOMAIN R
    <3>1. n + 1 \in Nat
      OBVIOUS
    <3>. QED
      BY <2>9, <3>1, RetireKeeps
  <2>11. Followed(R, Q, v)
    BY <2>9, RetireFollows
  <2>12. Followed(S, R, v)
    BY <2>4, <2>8 DEF Followed
  <2>. HIDE DEF Q
  <2>13. Followed(S, Q, v)
    BY <2>5, <2>8, <2>9, <2>10, <2>11, <2>12, FollowedTwice
  <2>14. Tombstone(i).inv # Forever /\ Tombstone(i).rec = i.rec
    BY EndsAreNaturals DEF Tombstone, Claim
  <2>15. ASSUME NEW b \in DOMAIN Q \ DOMAIN S
         PROVE  Q[b].inv # Forever /\ Q[b].rec <= t
    <3>1. Follows(Tombstone(i), Q[b], v)
      BY <2>8, <2>10, <2>11 DEF Followed
    <3>. QED
      BY <2>14, <3>1 DEF Follows, Reads
  <2>16. o.rows = Q
    BY <2>1 DEF Outcome, Q
  <2>. QED
    BY <2>13, <2>15, <2>16, Zenon DEF Settled, Resolved
<1>. QED
  BY <1>1, <1>2, RetractionForms DEF R

(* What Reconciler.apply leaves is settled, whatever it is told.           *)
LEMMA ApplySettles ==
    ASSUME NEW S, NEW n \in Nat, Table(S, n), NEW i \in Claim, NEW t \in Time, NEW v \in Nat,
           NEW clock, NEW close \in Closures, Reads(S, Canonical(i, t), t, v),
           NEW o \in Apply(S, n, i, t, clock, close)
    PROVE  Settled(S, o, t, v)
<1>. DEFINE c == Canonical(i, t)
<1>1. c \in Claim
  BY CanonicalIsClaim
<1>2. Apply(S, n, i, t, clock, close) =
        CASE c.neg -> ApplyRetraction(S, n, c, t, clock, close)
          [] ~ c.neg /\ c.val = NoValue -> {Outcome(S, n)}
          [] ~ c.neg /\ c.val # NoValue -> ApplyPositive(S, n, c, t, close)
  BY Zenon DEF Apply
<1>. HIDE DEF c
<1>3. c.neg \in BOOLEAN
  BY <1>1 DEF Claim
<1>4. CASE c.neg
  BY <1>1, <1>2, <1>4, RetractionSettles DEF c
<1>5. CASE ~ c.neg /\ c.val = NoValue
  <2>1. Followed(S, S, v)
    BY FollowsItself DEF Followed, Table
  <2>. QED
    BY <1>2, <1>5, <2>1 DEF Settled, Outcome
<1>6. CASE ~ c.neg /\ c.val # NoValue
  BY <1>1, <1>2, <1>6, PositiveForms, RepeatSettles, ExtendSettles, CompeteSettles DEF c
<1>. QED
  BY <1>3, <1>4, <1>5, <1>6

-----------------------------------------------------------------------------
(* One call stores no instant twice                                        *)

(* No part that _uncovered returns has an instant of a claim it looked at. *)
LEMMA GapsAreUnheld ==
    ASSUME NEW S, NEW i \in Claim, NEW held, NEW stop \in Ends,
           NEW g \in Gaps(S, i, held, stop), NEW a \in held, S[a] \in Claim,
           g.lo < g.hi, S[a].from < S[a].to, S[a].from < g.hi, g.lo < S[a].to
    PROVE  FALSE
<1>. DEFINE unheld == UnheldInstants(S, i, held, stop)
            m == Later(S[a].from, g.lo)
<1>1. /\ i.from \in Nat /\ stop \in Nat /\ g.lo \in Nat /\ g.hi \in Nat
      /\ i.from <= g.lo /\ g.hi <= stop
      /\ S[a].from \in Nat /\ S[a].to \in Nat
  BY GapsAreParts, EndsAreNaturals DEF Parts, Claim
<1>2. HoldsFrom(S[a], i) \in Nat /\ HoldsFrom(S[a], i) <= S[a].from
  BY <1>1 DEF HoldsFrom, Earlier
<1>3. a \in Overlapped(S, i, held, stop)
  BY <1>1, <1>2 DEF Overlapped
<1>4. \A v \in g.lo .. (g.hi - 1) : v \in unheld
  BY <1>1 DEF Gaps
<1>5. /\ m \in Nat /\ m \in g.lo .. (g.hi - 1)
      /\ HoldsFrom(S[a], i) <= m /\ m < S[a].to
  BY <1>1, <1>2 DEF Later
<1>6. m \in unheld
  BY <1>4, <1>5
<1>. QED
  BY <1>3, <1>5, <1>6 DEF UnheldInstants

(* Nor an instant of another part.                                         *)
LEMMA GapsAreDisjoint ==
    ASSUME NEW S, NEW i \in Claim, NEW held, NEW stop \in Ends,
           NEW g \in Gaps(S, i, held, stop), NEW h \in Gaps(S, i, held, stop),
           g.lo # h.lo, g.lo < g.hi, h.lo < h.hi, g.lo < h.hi, h.lo < g.hi
    PROVE  FALSE
<1>. DEFINE unheld == UnheldInstants(S, i, held, stop)
<1>1. /\ i.from \in Nat /\ stop \in Nat
      /\ \A f \in {g, h} : f.lo \in Nat /\ f.hi \in Nat /\ i.from <= f.lo /\ f.hi <= stop
  BY GapsAreParts, EndsAreNaturals DEF Parts, Claim
<1>2. \A f \in {g, h} : /\ \A v \in f.lo .. (f.hi - 1) : v \in unheld
                        /\ f.lo = i.from \/ f.lo - 1 \notin unheld
  BY <1>1 DEF Gaps
<1>. HIDE DEF unheld
<1>3. ASSUME NEW e \in {g, h}, NEW f \in {g, h}, e.lo < f.lo, f.lo < e.hi
      PROVE  FALSE
  <2>1. f.lo - 1 \in e.lo .. (e.hi - 1) /\ f.lo # i.from
    BY <1>1, <1>3
  <2>. QED
    BY <1>2, <2>1
<1>4. g.lo < h.lo \/ h.lo < g.lo
  BY <1>1
<1>. QED
  BY <1>3, <1>4

(* What o leaves new holds nothing that is held already.                   *)
Parted(S, o, v) ==
    \A a \in DOMAIN o.rows, b \in DOMAIN o.rows \ DOMAIN S :
        a # b => Apart(o.rows[a], o.rows[b], v)

(* A stored claim that shares the value and an instant with what is to be  *)
(* stored is among the claims the parts were cut around.                   *)
LEMMA SharedIsHeld ==
    ASSUME NEW S, NEW n, Table(S, n), NEW i \in Claim, NEW t \in Time, NEW v \in Nat,
           Reads(S, i, t, v),
           NEW a \in DOMAIN S, NEW d \in Claim, Follows(S[a], d, v),
           S[a].exp # d.exp => ~ Hidden(S[a], t),
           NEW b \in Claim, ValueKey(b) = ValueKey(i), b.scope = i.scope,
           b.rec = i.rec, b.exp = i.exp, b.user = i.user,
           ~ Apart(d, b, v)
    PROVE  a \in Held(S, i, t) /\ a \in HeldFor(S, i, t)
<1>. DEFINE x == S[a]
<1>1. /\ x \in Claim /\ x.rec \in Nat /\ i.rec \in Nat /\ t \in Nat /\ t < Forever
      /\ Forever \in Nat /\ x.exp \in Nat
  BY EndsAreNaturals DEF Table, Claim
<1>2. x.inv = Forever
  BY DEF Apart, Follows
<1>3. ValueKey(x) = ValueKey(i) /\ x.scope = d.scope
  BY DEF Apart, Follows, ValueKey
<1>4. Sees(i.scope, x.scope) /\ (i.exp # Forever => x.scope = i.scope)
  BY <1>3 DEF Apart
<1>5. x.rec <= t
  BY <1>1 DEF Apart, Unread, Follows, Reads
<1>6. ~ Hidden(x, t)
  <2>1. CASE x.exp # d.exp
    BY <2>1
  <2>2. CASE x.exp = d.exp
    BY <1>1, <2>2 DEF Apart, Hidden, IsExpired, Reads
  <2>. QED
    BY <2>1, <2>2
<1>7. Believed(x, t)
  BY <1>1, <1>2, <1>5 DEF Believed
<1>8. a \in Held(S, i, t)
  BY <1>3, <1>4, <1>6, <1>7 DEF Held, FindByValue
<1>. QED
  BY <1>4, <1>8 DEF HeldFor

LEMMA StoringParts ==
    ASSUME NEW S, NEW n \in Nat, Table(S, n), NEW i \in Claim, NEW t \in Time, NEW v \in Nat,
           NEW close \in Closures, Reads(S, i, t, v), NEW o, Stores(S, n, i, t, close, o)
    PROVE  Parted(S, o, v)
<1>1. PICK held \in {Held(S, i, t), HeldFor(S, i, t)}, stop \in Ends,
           over \in SUBSET Repeatable(S, i, t), shut \in SUBSET DOMAIN S :
             o = Outcome(Retire(StoreInPieces(S, n, i, Gaps(S, i, held, stop), over),
                                shut, i, t, close), n + 1)
  BY DEF Stores
<1>. DEFINE gaps == Gaps(S, i, held, stop)
            R == StoreInPieces(S, n, i, gaps, over)
            Q == Retire(R, shut, i, t, close)
<1>2. Parts(gaps)
  BY GapsAreParts
<1>3. over \subseteq Unhidden(S, t) /\ (over \subseteq Unhidden(S, v) \/ ~ i.user)
  BY DEF Repeatable, Reads
<1>4. Followed(S, R, v) /\ Followed(S, R, t)
  BY <1>3, StoreFollows
<1>. HIDE DEF gaps
<1>5. Table(R, n + 1) /\ DOMAIN S \subseteq DOMAIN R /\ NewAreParts(S, R, n, i, gaps)
  BY <1>2, StoredParts
<1>. HIDE DEF R
<1>6. Table(Q, n + 1) /\ DOMAIN Q = DOMAIN R
  BY <1>5, RetireKeeps
<1>7. Followed(R, Q, v)
  BY <1>5, RetireFollows
<1>8. \A k \in DOMAIN R : k \notin shut => Q[k] = R[k]
  BY DEF Retire
<1>. HIDE DEF Q
<1>9. ASSUME NEW b \in DOMAIN Q \ DOMAIN S
      PROVE  \E g \in gaps : b = <<n + 1, g.lo>> /\ Q[b] = Piece(i, g)
  BY <1>5, <1>6, <1>8 DEF NewAreParts
<1>10. ASSUME NEW g \in gaps
       PROVE  /\ g.lo \in Nat /\ g.hi \in Nat
              /\ Piece(i, g) \in Claim
              /\ Piece(i, g).from = g.lo /\ Piece(i, g).to = g.hi
              /\ ValueKey(Piece(i, g)) = ValueKey(i) /\ Piece(i, g).scope = i.scope
              /\ Piece(i, g).rec = i.rec /\ Piece(i, g).exp = i.exp
              /\ Piece(i, g).user = i.user
  <2>1. g.lo \in Time /\ g.hi \in Ends
    BY <1>2 DEF Parts
  <2>. QED
    BY <2>1, PieceIsClaim, EndsAreNaturals DEF ValueKey
<1>11. ASSUME NEW a \in DOMAIN S, NEW b \in DOMAIN Q \ DOMAIN S
       PROVE  Apart(Q[a], Q[b], v)
  <2>. SUFFICES ASSUME ~ Apart(Q[a], Q[b], v)
                PROVE  FALSE
    OBVIOUS
  <2>1. PICK g \in gaps : Q[b] = Piece(i, g)
    BY <1>9
  <2>2. a \in DOMAIN R /\ S[a] \in Claim /\ R[a] \in Claim /\ Q[a] \in Claim
    BY <1>5, <1>6 DEF Table
  <2>3. Follows(S[a], R[a], v) /\ Follows(R[a], Q[a], v) /\ Follows(S[a], R[a], t)
    BY <1>4, <1>7, <2>2 DEF Followed
  <2>4. Follows(S[a], Q[a], v)
    BY <2>2, <2>3, FollowsTwice
  <2>5. Q[a].exp = R[a].exp
    <3>1. Q[a] = R[a] \/ Q[a] = CloseOut(R[a], IF close = "retired" THEN t ELSE i.from, close)
      BY <2>2 DEF Q, Retire
    <3>. QED
      BY <2>2, <3>1 DEF CloseOut, Claim
  <2>6. S[a].exp # Q[a].exp => ~ Hidden(S[a], t)
    BY <2>3, <2>5 DEF Follows
  <2>7. a \in held
    BY <1>10, <2>1, <2>2, <2>4, <2>6, SharedIsHeld
  <2>8. Overlaps(Q[a], Q[b])
    BY DEF Apart
  <2>9. /\ Q[a].from = S[a].from /\ Q[a].to <= S[a].to
        /\ S[a].from \in Nat /\ S[a].to \in Nat /\ Q[a].to \in Nat
    BY <2>2, <2>4, EndsAreNaturals DEF Follows, Claim
  <2>10. /\ g.lo < g.hi /\ S[a].from < S[a].to
         /\ S[a].from < g.hi /\ g.lo < S[a].to
    BY <1>10, <2>1, <2>8, <2>9 DEF Overlaps
  <2>. QED
    BY <2>2, <2>7, <2>10, GapsAreUnheld DEF gaps
<1>12. ASSUME NEW a \in DOMAIN Q \ DOMAIN S, NEW b \in DOMAIN Q \ DOMAIN S, a # b
       PROVE  Apart(Q[a], Q[b], v)
  <2>1. PICK g \in gaps : a = <<n + 1, g.lo>> /\ Q[a] = Piece(i, g)
    BY <1>9
  <2>2. PICK h \in gaps : b = <<n + 1, h.lo>> /\ Q[b] = Piece(i, h)
    BY <1>9
  <2>3. g.lo # h.lo
    BY <1>12, <2>1, <2>2
  <2>4. ~ Overlaps(Q[a], Q[b])
    <3>. SUFFICES ASSUME Overlaps(Q[a], Q[b])
                  PROVE  FALSE
      OBVIOUS
    <3>1. g.lo < g.hi /\ h.lo < h.hi /\ g.lo < h.hi /\ h.lo < g.hi
      BY <1>10, <2>1, <2>2 DEF Overlaps
    <3>. QED
      BY <2>3, <3>1, GapsAreDisjoint DEF gaps
  <2>. QED
    BY <2>4 DEF Apart
<1>13. o.rows = Q
  BY <1>1 DEF Outcome, Q, R, gaps
<1>. QED
  BY <1>11, <1>12, <1>13 DEF Parted

(* A tombstone holds nothing.                                              *)
LEMMA RetractingParts ==
    ASSUME NEW S, NEW n \in Nat, Table(S, n), NEW i \in Claim, NEW t \in Time, NEW v \in Nat,
           NEW close \in Closures, NEW o, Retracts(S, n, i, t, close, o)
    PROVE  Parted(S, o, v)
<1>1. PICK ids : o = Outcome(Retire(Tombstoned(S, n, i), ids, i, t, close), n + 1)
  BY DEF Retracts
<1>. DEFINE gaps   == {[lo |-> i.from, hi |-> i.to]}
            stored == StoreInPieces(S, n, i, gaps, {})
            new    == <<n + 1, i.from>>
            R      == Tombstoned(S, n, i)
            Q      == Retire(R, ids, i, t, close)
<1>2. Parts(gaps) /\ \A g \in gaps : g.lo = i.from
  BY DEF Parts, Claim
<1>3. R = [stored EXCEPT ![new] = Tombstone(i)]
  BY DEF Tombstoned
<1>. HIDE DEF gaps
<1>4. /\ Table(stored, n + 1) /\ DOMAIN S \subseteq DOMAIN stored
      /\ \A b \in DOMAIN stored \ DOMAIN S : b = new
  BY <1>2, StoredParts DEF NewAreParts
<1>. HIDE DEF stored, R, new
<1>5. /\ DOMAIN R = DOMAIN stored /\ R \in [DOMAIN R -> Claim]
      /\ Table(R, n + 1)
      /\ \A b \in DOMAIN R \ DOMAIN S : R[b] = Tombstone(i)
  BY <1>3, <1>4, TombstoneIsClaim DEF Table
<1>6. DOMAIN Q = DOMAIN R
  BY DEF Retire
<1>7. Followed(R, Q, v)
  BY <1>5, RetireFollows
<1>. HIDE DEF Q
<1>8. Tombstone(i).inv # Forever
  BY EndsAreNaturals DEF Tombstone, Claim
<1>9. ASSUME NEW b \in DOMAIN Q \ DOMAIN S
      PROVE  Q[b].inv # Forever
  BY <1>5, <1>6, <1>7, <1>8 DEF Followed, Follows
<1>10. o.rows = Q
  BY <1>1 DEF Outcome, Q, R
<1>. QED
  BY <1>9, <1>10 DEF Parted, Apart

(* What Reconciler.apply stores holds nothing that is held already, and no *)
(* instant twice.                                                          *)
LEMMA ApplyParts ==
    ASSUME NEW S, NEW n \in Nat, Table(S, n), NEW i \in Claim, NEW t \in Time, NEW v \in Nat,
           NEW clock, NEW close \in Closures, Reads(S, Canonical(i, t), t, v),
           NEW o \in Apply(S, n, i, t, clock, close)
    PROVE  Parted(S, o, v)
<1>. DEFINE c == Canonical(i, t)
<1>1. c \in Claim
  BY CanonicalIsClaim
<1>2. Repeats(S, n, c, t, o) \/ Stores(S, n, c, t, close, o) \/ Retracts(S, n, c, t, close, o)
  BY ApplyTakesForm
<1>3. CASE Repeats(S, n, c, t, o)
  BY <1>3 DEF Repeats, Outcome, Repeat, Parted
<1>4. CASE Stores(S, n, c, t, close, o)
  BY <1>1, <1>4, StoringParts
<1>5. CASE Retracts(S, n, c, t, close, o)
  BY <1>1, <1>5, RetractingParts
<1>. QED
  BY <1>2, <1>3, <1>4, <1>5

-----------------------------------------------------------------------------
(* The invariant                                                           *)

NothingRecordedAhead == \A k \in DOMAIN claims : claims[k].rec <= now

NothingBegunAhead == \A w \in Writers : began[w] # Forever => began[w] <= now

EachPairResolved ==
    \A a, b \in DOMAIN claims : a[1] < b[1] => Resolved(claims[a], claims[b], now)

EachPairApart ==
    \A a, b \in DOMAIN claims :
        a[1] <= b[1] /\ a # b => Apart(claims[a], claims[b], now)

EachPairSettled == EachPairResolved /\ EachPairApart

PairsInv == NothingRecordedAhead /\ NothingBegunAhead /\ EachPairSettled

(* A call that stores nothing new, or the clock, leaves each pair settled. *)
LEMMA FollowingKeepsPairs ==
    ASSUME TypeOK, TypeOK', NothingRecordedAhead, EachPairSettled,
           DOMAIN claims' \subseteq DOMAIN claims, now <= now',
           \A k \in DOMAIN claims' : Follows(claims[k], claims'[k], now)
    PROVE  NothingRecordedAhead' /\ EachPairSettled'
<1>1. /\ \A k \in DOMAIN claims : claims[k] \in Claim /\ claims[k].rec \in Nat
      /\ \A k \in DOMAIN claims' : claims'[k] \in Claim
      /\ now \in Nat /\ now' \in Nat
  BY EndsAreNaturals DEF TypeOK, Claim
<1>2. ASSUME NEW k \in DOMAIN claims'
      PROVE  claims'[k].rec <= now'
  <2>1. k \in DOMAIN claims /\ claims'[k].rec = claims[k].rec
    BY <1>2 DEF Follows
  <2>. QED
    BY <1>1, <2>1 DEF NothingRecordedAhead
<1>3. ASSUME NEW a \in DOMAIN claims', NEW b \in DOMAIN claims', a[1] < b[1]
      PROVE  Resolved(claims'[a], claims'[b], now')
  <2>1. a \in DOMAIN claims /\ b \in DOMAIN claims /\ Resolved(claims[a], claims[b], now)
    BY <1>3 DEF EachPairSettled, EachPairResolved
  <2>. QED
    BY <1>1, <2>1, StaysResolved
<1>6. ASSUME NEW a \in DOMAIN claims', NEW b \in DOMAIN claims', a[1] <= b[1], a # b
      PROVE  Apart(claims'[a], claims'[b], now')
  <2>1. a \in DOMAIN claims /\ b \in DOMAIN claims /\ Apart(claims[a], claims[b], now)
    BY <1>6 DEF EachPairSettled, EachPairApart
  <2>. QED
    BY <1>1, <2>1, StaysApart
<1>4. NothingRecordedAhead'
  BY <1>2 DEF NothingRecordedAhead
<1>5. EachPairResolved'
  BY <1>3 DEF EachPairResolved, Resolved, Displaces, HasAuthorityOver, Hidden, IsExpired, Unread
<1>7. EachPairApart'
  BY <1>6 DEF EachPairApart, Apart, Overlaps, ValueKey, SlotOf, Hidden, IsExpired, Unread
<1>. QED
  BY <1>4, <1>5, <1>7 DEF EachPairSettled

(* So does one that reconciles: what is old follows, what is new is settled *)
(* with it, and the parts one write stores come after nothing of their own. *)
LEMMA ReconcilingKeepsPairs ==
    ASSUME TypeOK, TypeOK', NothingRecordedAhead, EachPairSettled, now' = now,
           NEW S, Table(S, writes), DOMAIN S = DOMAIN claims, Followed(claims, S, now),
           NEW i \in Claim, NEW t \in Time, NEW close \in Closures,
           Reads(S, Canonical(i, t), t, now), Reconciled(S, i, t, close)
    PROVE  NothingRecordedAhead' /\ EachPairSettled'
<1>1. PICK o \in Apply(S, writes, i, t, now, close) : claims' = o.rows /\ writes' = o.writes
  BY DEF Reconciled
<1>2. /\ Table(claims, writes) /\ writes \in Nat /\ now \in Nat
      /\ \A k \in DOMAIN claims : claims[k] \in Claim
  BY TypeOKIsTable
<1>3. Settled(S, o, t, now) /\ Kept(S, writes, o, close)
  BY <1>2, ApplySettles, ApplyKeeps
<1>4. /\ Table(claims', writes')
      /\ DOMAIN claims \subseteq DOMAIN claims'
      /\ \A k \in DOMAIN claims' \ DOMAIN claims : k[1] = writes + 1
  BY <1>1, <1>3 DEF Kept, Updated
<1>5. /\ Followed(S, claims', now)
      /\ \A b \in DOMAIN claims' \ DOMAIN claims : claims'[b].rec <= t
      /\ \A a \in DOMAIN claims, b \in DOMAIN claims' \ DOMAIN claims :
            Resolved(claims'[a], claims'[b], now)
  BY <1>1, <1>3 DEF Settled
<1>6. Followed(claims, claims', now)
  BY <1>2, <1>4, <1>5, FollowedTwice
<1>7. ASSUME NEW k \in DOMAIN claims'
      PROVE  claims'[k].rec <= now
  <2>1. claims'[k].rec \in Nat /\ t \in Nat /\ t <= now
    BY <1>4, EndsAreNaturals DEF Table, Claim, Reads
  <2>2. CASE k \in DOMAIN claims
    BY <1>6, <2>2 DEF Followed, Follows, NothingRecordedAhead
  <2>3. CASE k \notin DOMAIN claims
    BY <1>2, <1>5, <2>1, <2>3
  <2>. QED
    BY <2>2, <2>3
<1>8. ASSUME NEW a \in DOMAIN claims', NEW b \in DOMAIN claims', a[1] < b[1]
      PROVE  Resolved(claims'[a], claims'[b], now)
  <2>1. /\ \A k \in DOMAIN claims : k[1] \in Nat /\ k[1] <= writes
        /\ a[1] \in Nat /\ b[1] \in Nat
    BY <1>2, <1>4 DEF Table, Ids
  <2>2. a \in DOMAIN claims
    <3>. SUFFICES ASSUME a \notin DOMAIN claims
                  PROVE  FALSE
      OBVIOUS
    <3>1. a[1] = writes + 1
      BY <1>4
    <3>2. b[1] <= writes + 1
      BY <1>2, <1>4, <2>1
    <3>. QED
      BY <1>2, <1>8, <2>1, <3>1, <3>2
  <2>3. CASE b \in DOMAIN claims
    <3>1. Resolved(claims[a], claims[b], now)
      BY <1>8, <2>2, <2>3 DEF EachPairSettled, EachPairResolved
    <3>2. claims'[a] \in Claim /\ claims'[b] \in Claim /\ now <= now
      BY <1>2, <1>4 DEF Table
    <3>3. Follows(claims[a], claims'[a], now) /\ Follows(claims[b], claims'[b], now)
      BY <1>6, <2>2, <2>3 DEF Followed
    <3>. QED
      BY <1>2, <2>2, <2>3, <3>1, <3>2, <3>3, StaysResolved
  <2>4. CASE b \notin DOMAIN claims
    BY <1>5, <2>2, <2>4
  <2>. QED
    BY <2>3, <2>4
<1>9. NothingRecordedAhead'
  BY <1>7 DEF NothingRecordedAhead
<1>10. EachPairResolved'
  BY <1>8 DEF EachPairResolved, Resolved, Displaces, HasAuthorityOver, Hidden, IsExpired, Unread
<1>11. ASSUME NEW a \in DOMAIN claims', NEW b \in DOMAIN claims', a[1] <= b[1], a # b
       PROVE  Apart(claims'[a], claims'[b], now)
  <2>1. Parted(S, o, now)
    BY <1>2, ApplyParts
  <2>2. CASE b \notin DOMAIN claims
    BY <1>1, <1>11, <2>1, <2>2 DEF Parted
  <2>3. CASE b \in DOMAIN claims
    <3>1. a \in DOMAIN claims
      <4>1. \A k \in DOMAIN claims : k[1] \in Nat /\ k[1] <= writes
        BY <1>2 DEF Table, Ids
      <4>. QED
        BY <1>2, <1>4, <1>11, <2>3, <4>1
    <3>2. Apart(claims[a], claims[b], now)
      BY <1>11, <2>3, <3>1 DEF EachPairSettled, EachPairApart
    <3>3. claims'[a] \in Claim /\ claims'[b] \in Claim /\ now <= now
      BY <1>2, <1>4, <1>11 DEF Table
    <3>4. Follows(claims[a], claims'[a], now) /\ Follows(claims[b], claims'[b], now)
      BY <1>6, <2>3, <3>1 DEF Followed
    <3>. QED
      BY <1>2, <2>3, <3>1, <3>2, <3>3, <3>4, StaysApart
  <2>. QED
    BY <2>2, <2>3
<1>12. EachPairApart'
  BY <1>11 DEF EachPairApart, Apart, Overlaps, ValueKey, SlotOf, Hidden, IsExpired, Unread
<1>. QED
  BY <1>9, <1>10, <1>12 DEF EachPairSettled

(* What a call told now sees.                                              *)
LEMMA ToldNowReads ==
    ASSUME NEW S, NEW n, Table(S, n), NEW i \in Claim, now \in Time,
           \A k \in DOMAIN S : S[k].rec <= now
    PROVE  Reads(S, Canonical(i, now), now, now)
<1>1. now \in Nat /\ i.rec \in Nat
  BY EndsAreNaturals DEF Claim
<1>2. Canonical(i, now).rec = Earlier(i.rec, now)
  BY DEF Canonical, Claim
<1>. QED
  BY <1>1, <1>2 DEF Reads, Earlier

LEMMA RememberKeepsPairs ==
    ASSUME TypeOK, TypeOK', PairsInv, NEW s \in Statements, NEW close \in Closures,
           Remember(s, close)
    PROVE  NothingRecordedAhead' /\ EachPairSettled'
<1>1. /\ Table(claims, writes) /\ now \in Time
      /\ Followed(claims, claims, now)
  BY TypeOKIsTable, FollowsItself DEF Followed
<1>2. Stamped(s, now) \in Claim
  BY <1>1, StampedIsClaim
<1>3. Reads(claims, Canonical(Stamped(s, now), now), now, now)
  BY <1>1, <1>2, ToldNowReads DEF PairsInv, NothingRecordedAhead
<1>4. Reconciled(claims, Stamped(s, now), now, close) /\ now' = now
  BY DEF Remember
<1>. QED
  BY <1>1, <1>2, <1>3, <1>4, ReconcilingKeepsPairs DEF PairsInv

LEMMA SupersedeKeepsPairs ==
    ASSUME TypeOK, TypeOK', PairsInv, NEW k \in DOMAIN claims, NEW s \in Statements,
           NEW at \in Ats \cup {Forever}, NEW close \in Closures, Supersede(k, s, at, close)
    PROVE  NothingRecordedAhead' /\ EachPairSettled'
<1>. DEFINE old == claims[k]
            i == [Stamped(s, now) EXCEPT !.scope = IF @ = AnyScope THEN old.scope ELSE @]
            shut == ClosingInstant(i, at, close)
            S == [claims EXCEPT ![k] = CloseOut(old, shut, close)]
<1>1. old \in Claim /\ now \in Time
  BY TypeOKIsTable
<1>2. i \in Claim
  BY <1>1, StampedIsClaim DEF Claim
<1>3. Reconciled(S, i, now, close) /\ now' = now
  BY Zenon DEF Supersede
<1>. HIDE DEF i
<1>4. shut \in Ends
  BY <1>2, LedgerAssumption, EndsAreNaturals DEF ClosingInstant, Claim, Closures
<1>. HIDE DEF shut
<1>5. CloseOut(old, shut, close) \in Claim /\ Follows(old, CloseOut(old, shut, close), now)
  BY <1>1, <1>4, CloseOutCloses, CloseOutFollows
<1>6. DOMAIN S = DOMAIN claims /\ S \in [DOMAIN S -> Claim] /\ Table(S, writes)
  BY <1>5 DEF TypeOK, Table
<1>7. Followed(claims, S, now)
  BY <1>5, TypeOKIsTable, FollowsItself DEF Followed
<1>. HIDE DEF S, old
<1>8. \A j \in DOMAIN S : S[j].rec <= now
  BY <1>6, <1>7 DEF Followed, Follows, PairsInv, NothingRecordedAhead
<1>9. Reads(S, Canonical(i, now), now, now)
  BY <1>1, <1>2, <1>6, <1>8, ToldNowReads
<1>. QED
  BY <1>1, <1>2, <1>3, <1>6, <1>7, <1>9, ReconcilingKeepsPairs DEF PairsInv

LEMMA CommitAddKeepsPairs ==
    ASSUME TypeOK, TypeOK', PairsInv, NEW w \in Writers, NEW s \in Statements, CommitAdd(w, s)
    PROVE  NothingRecordedAhead' /\ EachPairSettled'
<1>. DEFINE t == began[w]
            i == [Stamped(s, t) EXCEPT !.rec = t]
<1>1. t \in Time /\ t <= now
  BY ForeverAssumption DEF CommitAdd, TypeOK, Ends, Time, PairsInv, NothingBegunAhead
<1>2. i \in Claim
  BY <1>1, StampedIsClaim DEF Claim
<1>3. i.rec = t /\ ~ i.user
  <2>1. Stamped(s, t) \in Claim
    BY <1>1, StampedIsClaim
  <2>2. s \in Statement
    BY LedgerAssumption
  <2>3. Stamped(s, t).user = s.user
    BY <2>2 DEF Stamped, Statement
  <2>. QED
    BY <2>1, <2>3 DEF CommitAdd, Claim
<1>4. Reconciled(claims, i, t, "ended") /\ now' = now
  BY DEF CommitAdd
<1>. HIDE DEF i, t
<1>5. Canonical(i, t).rec = t /\ Canonical(i, t).user = i.user
  BY <1>1, <1>2, <1>3, EndsAreNaturals DEF Canonical, Claim, Earlier
<1>6. t \in Nat
  BY <1>1, EndsAreNaturals
<1>7. Reads(claims, Canonical(i, t), t, now)
  BY <1>1, <1>3, <1>5, <1>6 DEF Reads
<1>8. Followed(claims, claims, now) /\ "ended" \in Closures
  BY TypeOKIsTable, FollowsItself DEF Followed, Closures
<1>. QED
  BY <1>1, <1>2, <1>4, <1>7, <1>8, TypeOKIsTable, ReconcilingKeepsPairs DEF PairsInv

LEMMA ClosedKeepsPairs ==
    ASSUME TypeOK, TypeOK', PairsInv, NEW ids, NEW at \in Ends, NEW close \in Closures,
           claims' = Closed(ids, at, close), now' = now
    PROVE  NothingRecordedAhead' /\ EachPairSettled'
<1>1. DOMAIN claims' = DOMAIN claims
  BY DEF Closed
<1>2. \A k \in DOMAIN claims :
        claims'[k] = IF k \in ids THEN CloseOut(claims[k], at, close) ELSE claims[k]
  BY DEF Closed
<1>3. \A k \in DOMAIN claims' : Follows(claims[k], claims'[k], now)
  BY <1>1, <1>2, TypeOKIsTable, FollowsItself, CloseOutFollows
<1>4. now <= now'
  BY TypeOKIsTable
<1>. QED
  BY <1>1, <1>3, <1>4, FollowingKeepsPairs DEF PairsInv

LEMMA StillKeepsPairs ==
    ASSUME TypeOK, TypeOK', PairsInv, DOMAIN claims' \subseteq DOMAIN claims,
           \A k \in DOMAIN claims' : claims'[k] = claims[k], now <= now'
    PROVE  NothingRecordedAhead' /\ EachPairSettled'
<1>1. \A k \in DOMAIN claims' : Follows(claims[k], claims'[k], now)
  BY TypeOKIsTable, FollowsItself
<1>. QED
  BY <1>1, FollowingKeepsPairs DEF PairsInv

LEMMA StepKeepsPairs ==
    ASSUME TypeOK, PairsInv, [Next]_vars
    PROVE  PairsInv'
<1>0. /\ TypeOK' /\ now \in Nat /\ now <= now
      /\ now \in Ends /\ Ats \cup {now} \subseteq Ends
  <2>1. TypeOK'
    BY StepTypes
  <2>2. now \in Nat /\ now \in Ends
    BY TypeOKIsTable, EndsAreNaturals
  <2>3. Ats \cup {now} \subseteq Ends
    BY <2>2, LedgerAssumption, EndsAreNaturals
  <2>. QED
    BY <2>1, <2>2, <2>3
<1>. DEFINE Pairs == NothingRecordedAhead' /\ EachPairSettled'
<1>1. ASSUME NEW s \in Statements, NEW close \in Closures, Remember(s, close)
      PROVE  Pairs
  BY <1>0, <1>1, RememberKeepsPairs
<1>2. ASSUME NEW k \in DOMAIN claims, NEW s \in Statements, NEW close \in Closures,
             NEW at \in Ats \cup {Forever}, Supersede(k, s, at, close)
      PROVE  Pairs
  BY <1>0, <1>2, SupersedeKeepsPairs
<1>3. ASSUME NEW w \in Writers, BeginAdd(w)
      PROVE  Pairs
  BY <1>0, <1>3, StillKeepsPairs DEF BeginAdd
<1>4. ASSUME NEW w \in Writers, NEW s \in Statements, CommitAdd(w, s)
      PROVE  Pairs
  BY <1>0, <1>4, CommitAddKeepsPairs
<1>5. ASSUME NEW s \in CallScopes, NEW p \in Predicates, NEW close \in Closures,
             NEW at \in Ats \cup {now}, Forget(s, p, at, close)
      PROVE  Pairs
  BY <1>0, <1>5, ClosedKeepsPairs DEF Forget
<1>6. ASSUME NEW k \in DOMAIN claims, NEW close \in Closures,
             NEW at \in Ats \cup {now}, Delete(k, at, close)
      PROVE  Pairs
  BY <1>0, <1>6, ClosedKeepsPairs DEF Delete
<1>7. ASSUME NEW k \in DOMAIN claims, Erase(k)
      PROVE  Pairs
  BY <1>0, <1>7, StillKeepsPairs DEF Erase
<1>8. ASSUME Tick
      PROVE  Pairs
  BY <1>0, <1>8, StillKeepsPairs DEF Tick
<1>9. ASSUME UNCHANGED vars
      PROVE  Pairs
  BY <1>0, <1>9, StillKeepsPairs DEF vars
<1>12. ASSUME NEW w \in Writers, Leave(w)
       PROVE  Pairs
  BY <1>0, <1>12, StillKeepsPairs DEF Leave
<1>13. ASSUME NEW ids \in SUBSET DOMAIN claims, NEW close \in Closures,
              ForgetMatching(ids, close)
       PROVE  Pairs
  BY <1>0, <1>13, ClosedKeepsPairs DEF ForgetMatching
<1>14. ASSUME NEW s \in CallScopes, Purge(s)
       PROVE  Pairs
  BY <1>0, <1>14, StillKeepsPairs DEF Purge
<1>10. Pairs
  BY <1>1, <1>2, <1>3, <1>4, <1>5, <1>6, <1>7, <1>8, <1>9, <1>12, <1>13, <1>14 DEF Next
<1>11. NothingBegunAhead'
  <2>1. now \in Nat /\ began \in [Writers -> Ends] /\ \A w \in Writers : began[w] \in Nat
    BY EndsAreNaturals DEF TypeOK
  <2>2. CASE UNCHANGED began /\ now <= now' /\ now' \in Nat
    BY <2>1, <2>2 DEF PairsInv, NothingBegunAhead
  <2>3. ASSUME NEW w \in Writers, began' = [began EXCEPT ![w] = now] \/
                                  began' = [began EXCEPT ![w] = Forever],
               now' = now
        PROVE  NothingBegunAhead'
    BY <2>1, <2>3 DEF PairsInv, NothingBegunAhead
  <2>. DEFINE Calm == UNCHANGED began /\ now <= now' /\ now' \in Nat
  <2>4. now' = now /\ UNCHANGED began => Calm
    BY <2>1
  <2>5. ASSUME NEW s \in Statements, NEW close \in Closures, Remember(s, close)
        PROVE  Calm
    BY <2>4, <2>5, Zenon DEF Remember
  <2>6. ASSUME NEW k \in DOMAIN claims, NEW s \in Statements, NEW close \in Closures,
               NEW at \in Ats \cup {Forever}, Supersede(k, s, at, close)
        PROVE  Calm
    BY <2>4, <2>6, Zenon DEF Supersede
  <2>7. ASSUME NEW s \in CallScopes, NEW p \in Predicates, NEW close \in Closures,
               NEW at \in Ats \cup {now}, Forget(s, p, at, close)
        PROVE  Calm
    BY <2>4, <2>7, Zenon DEF Forget
  <2>8. ASSUME NEW k \in DOMAIN claims, NEW close \in Closures,
               NEW at \in Ats \cup {now}, Delete(k, at, close)
        PROVE  Calm
    BY <2>4, <2>8, Zenon DEF Delete
  <2>9. ASSUME NEW k \in DOMAIN claims, Erase(k)
        PROVE  Calm
    BY <2>4, <2>9, Zenon DEF Erase
  <2>10. ASSUME Tick
         PROVE  Calm
    BY <2>1, <2>10 DEF Tick
  <2>11. ASSUME UNCHANGED vars
         PROVE  Calm
    BY <2>4, <2>11 DEF vars
  <2>12. ASSUME NEW w \in Writers, BeginAdd(w)
         PROVE  NothingBegunAhead'
    BY <2>3, <2>12 DEF BeginAdd
  <2>13. ASSUME NEW w \in Writers, NEW s \in Statements, CommitAdd(w, s)
         PROVE  NothingBegunAhead'
    BY <2>3, <2>13 DEF CommitAdd
  <2>14. Calm => NothingBegunAhead'
    BY <2>2
  <2>15. ASSUME NEW w \in Writers, Leave(w)
         PROVE  NothingBegunAhead'
    BY <2>3, <2>15 DEF Leave
  <2>16. ASSUME NEW ids \in SUBSET DOMAIN claims, NEW close \in Closures,
                ForgetMatching(ids, close)
         PROVE  Calm
    BY <2>4, <2>16, Zenon DEF ForgetMatching
  <2>17. ASSUME NEW s \in CallScopes, Purge(s)
         PROVE  Calm
    BY <2>4, <2>17, Zenon DEF Purge
  <2>. HIDE DEF Calm
  <2>. QED
    BY <2>5, <2>6, <2>7, <2>8, <2>9, <2>10, <2>11, <2>12, <2>13, <2>14,
       <2>15, <2>16, <2>17 DEF Next
<1>. QED
  BY <1>10, <1>11 DEF PairsInv

LEMMA PairsInvHolds == Spec => [](TypeOK /\ PairsInv)
<1>1. Init => PairsInv
  BY DEF Init, PairsInv, NothingRecordedAhead, NothingBegunAhead, EachPairSettled,
         EachPairResolved, EachPairApart
<1>2. TypeOK /\ PairsInv /\ [Next]_vars => PairsInv'
  BY StepKeepsPairs
<1>. QED
  BY <1>1, <1>2, TypeCorrect, PTL DEF Spec

(* Rivals that are settled are disputed, or the later came from turns read *)
(* before the earlier was recorded.                                        *)
LEMMA ResolvedRivals ==
    ASSUME TypeOK, PairsInv, NEW a \in DOMAIN claims, NEW b \in DOMAIN claims, Rivals(a, b)
    PROVE  Disputed(a, b) \/ (ReadBefore(b, a) /\ Writers # {})
<1>1. Resolved(claims[a], claims[b], now)
  BY DEF PairsInv, EachPairSettled, EachPairResolved, Rivals
<1>2. /\ claims[a].from \in Nat /\ claims[a].to \in Nat
      /\ claims[b].from \in Nat /\ claims[b].to \in Nat /\ now \in Nat
  BY TypeOKIsTable, EndsAreNaturals DEF Claim
<1>. QED
  BY <1>1, <1>2 DEF Rivals, Overlaps, Resolved, Disputed, ReadBefore, Unread

(* However many adds are in flight, whatever callers say and of whatever   *)
(* instants, a functional slot holds one value and disputes of it, but for *)
(* what was read before the other value was recorded.                      *)
THEOREM OneValueSeenAlways == Spec => []OneValueSeen
<1>1. TypeOK /\ PairsInv => OneValueSeen
  BY ResolvedRivals DEF OneValueSeen
<1>. QED
  BY <1>1, PairsInvHolds, PTL

(* With no add in flight, callers that write one at a time leave a slot    *)
(* with one value and disputes of it, and nothing else.                    *)
THEOREM OneValueAlways == Writers = {} => (Spec => []OneValue)
<1>1. Writers = {} /\ TypeOK /\ PairsInv => OneValue
  BY ResolvedRivals DEF OneValue
<1>. SUFFICES ASSUME Writers = {}
              PROVE  Spec => []OneValue
  OBVIOUS
<1>2. TypeOK /\ PairsInv => OneValue
  BY <1>1
<1>. QED
  BY <1>2, PairsInvHolds, PTL

(* However a value is repeated, in whatever pieces, from whatever instants *)
(* and by however many adds in flight, it is stored once for each instant, *)
(* but for what was read before it was recorded.                           *)
THEOREM HeldOnceAlways == Spec => []HeldOnce
<1>1. ASSUME TypeOK, PairsInv, NEW a \in DOMAIN claims, NEW b \in DOMAIN claims,
             a[1] <= b[1], a # b, ValueKey(claims[a]) = ValueKey(claims[b]),
             Sees(claims[b].scope, claims[a].scope),
             claims[b].exp = Forever \/ claims[a].scope = claims[b].scope,
             claims[a].inv = Forever, claims[b].inv = Forever,
             ~ Hidden(claims[a], now), ~ Hidden(claims[b], now),
             Overlaps(claims[a], claims[b])
      PROVE  ReadBefore(b, a)
  <2>1. Apart(claims[a], claims[b], now)
    BY <1>1 DEF PairsInv, EachPairSettled, EachPairApart
  <2>. QED
    BY <1>1, <2>1 DEF Apart, Unread, ReadBefore
<1>2. TypeOK /\ PairsInv => HeldOnce
  BY <1>1, Zenon DEF HeldOnce
<1>. QED
  BY <1>2, PairsInvHolds, PTL

-----------------------------------------------------------------------------
(* Forgetting                                                              *)

(* What forget() closes is not live from now on, and what it leaves in the *)
(* slot had ended, or was hidden or retired: nothing is recorded ahead of  *)
(* the clock, so nothing escapes it for being unknown yet.                 *)
THEOREM ForgottenAlways == Spec => []ForgottenForGood
<1>1. ASSUME TypeOK, PairsInv, NEW s \in CallScopes, NEW p \in Predicates,
             NEW close \in Closures, NEW k \in DOMAIN claims, NEW v \in Time,
             SlotOf(claims[k]) = FactKey(SlotScope(p, s), p),
             Contains(SlotScope(p, s), claims[k].scope),
             claims[k].inv = Forever, ~ Hidden(claims[k], now), v >= now
      PROVE  ~ IsLive(Closed(UnendedInSlot(s, p), now, close)[k], v, v)
  <2>. DEFINE c == claims[k]
              d == Closed(UnendedInSlot(s, p), now, close)[k]
  <2>0. c \in Claim /\ now \in Time /\ c.rec <= now
    BY <1>1, TypeOKIsTable DEF PairsInv, NothingRecordedAhead
  <2>1. /\ c \in Claim /\ now \in Nat /\ v \in Nat /\ now < Forever
        /\ c.from \in Nat /\ c.to \in Nat /\ c.rec \in Nat /\ Forever \in Nat
    BY <2>0, EndsAreNaturals DEF Claim
  <2>2. c.rec <= now
    BY <2>0
  <2>3. CASE k \in UnendedInSlot(s, p)
    <3>1. d = CloseOut(c, now, close)
      BY <2>3 DEF Closed
    <3>. HIDE DEF d
    <3>2. CASE close = "retired"
      <4>1. d.inv = now
        BY <1>1, <2>1, <3>1, <3>2 DEF CloseOut, Claim
      <4>. QED
        BY <1>1, <2>1, <4>1 DEF IsLive, Believed, d
    <3>3. CASE close # "retired"
      <4>1. d.to = Earlier(c.to, Later(now, c.from)) /\ d.from = c.from
        BY <1>1, <2>1, <3>1, <3>3 DEF CloseOut, NotBeforeStart, Claim
      <4>. QED
        BY <1>1, <2>1, <4>1 DEF IsLive, InForce, Earlier, Later, d
    <3>. QED
      BY <3>2, <3>3
  <2>4. CASE k \notin UnendedInSlot(s, p)
    <3>1. ~ IsUnended(c, now, now)
      BY <1>1, <2>4 DEF UnendedInSlot
    <3>2. c.to <= now
      BY <1>1, <2>1, <2>2, <3>1 DEF IsUnended, Believed
    <3>3. d = c
      BY <2>4 DEF Closed
    <3>. HIDE DEF d
    <3>. QED
      BY <1>1, <2>1, <3>2, <3>3 DEF IsLive, InForce, d
  <2>. QED
    BY <2>3, <2>4
<1>2. TypeOK /\ PairsInv => ForgottenForGood
  BY <1>1, Zenon DEF ForgottenForGood
<1>. QED
  BY <1>2, PairsInvHolds, PTL

-----------------------------------------------------------------------------
(* Reading                                                                 *)

(* A claim is filed at its slot's scope: of a global predicate, with no    *)
(* project.                                                                *)
FiledAtSlot == \A k \in DOMAIN claims : SlotScope(claims[k].pred, claims[k].scope) = claims[k].scope

LEMMA ReconciledFiles ==
    ASSUME TypeOK, FiledAtSlot, NEW S, Table(S, writes), NEW i \in Claim, NEW t \in Time,
           NEW close \in Closures, Reconciled(S, i, t, close), DOMAIN S = DOMAIN claims,
           \A k \in DOMAIN S : S[k].pred = claims[k].pred /\ S[k].scope = claims[k].scope
    PROVE  FiledAtSlot'
<1>1. PICK o \in Apply(S, writes, i, t, now, close) : claims' = o.rows
  BY DEF Reconciled
<1>2. writes \in Nat
  BY TypeOKIsTable
<1>3. Kept(S, writes, o, close) /\ Stems(S, writes, o, Canonical(i, t))
  BY <1>2, ApplyKeeps, ApplyStems
<1>4. ASSUME NEW k \in DOMAIN claims'
      PROVE  SlotScope(claims'[k].pred, claims'[k].scope) = claims'[k].scope
  <2>1. CASE k \in DOMAIN S
    <3>1. claims'[k].pred = claims[k].pred /\ claims'[k].scope = claims[k].scope
      BY <1>1, <1>3, <2>1 DEF Kept, Updated, ClosedBy
    <3>. QED
      BY <2>1, <3>1 DEF FiledAtSlot
  <2>2. CASE k \notin DOMAIN S
    <3>1. claims'[k].pred = Canonical(i, t).pred /\ claims'[k].scope = Canonical(i, t).scope
      BY <1>1, <1>3, <1>4, <2>2 DEF Stems, StemsFrom, SaidBy
    <3>2. Canonical(i, t).pred = i.pred /\ Canonical(i, t).scope = SlotScope(i.pred, i.scope)
      BY DEF Canonical, Claim
    <3>3. SlotScope(i.pred, SlotScope(i.pred, i.scope)) = SlotScope(i.pred, i.scope)
      BY DEF SlotScope, Claim, Scope
    <3>. QED
      BY <3>1, <3>2, <3>3
  <2>. QED
    BY <2>1, <2>2
<1>. QED
  BY <1>4 DEF FiledAtSlot, SlotScope

LEMMA MovedFiles ==
    ASSUME FiledAtSlot, NEW close, Moved(close), DOMAIN claims' \subseteq DOMAIN claims
    PROVE  FiledAtSlot'
<1>1. ASSUME NEW k \in DOMAIN claims'
      PROVE  claims'[k].pred = claims[k].pred /\ claims'[k].scope = claims[k].scope
  BY <1>1 DEF Moved, ClosedBy
<1>. QED
  BY <1>1 DEF FiledAtSlot, SlotScope

LEMMA StepFiles ==
    ASSUME TypeOK, FiledAtSlot, [Next]_vars
    PROVE  FiledAtSlot'
<1>0. Table(claims, writes) /\ now \in Time /\ \A j \in DOMAIN claims : claims[j] \in Claim
  BY TypeOKIsTable
<1>1. ASSUME NEW s \in Statements, NEW close \in Closures, Remember(s, close)
      PROVE  FiledAtSlot'
  <2>1. Reconciled(claims, Stamped(s, now), now, close) /\ Stamped(s, now) \in Claim
    BY <1>0, <1>1, StampedIsClaim DEF Remember
  <2>. QED
    BY <1>0, <2>1, ReconciledFiles
<1>2. ASSUME NEW k \in DOMAIN claims, NEW s \in Statements, NEW close \in Closures,
             NEW at \in Ats \cup {Forever}, Supersede(k, s, at, close)
      PROVE  FiledAtSlot'
  <2>. DEFINE old == claims[k]
              i == [Stamped(s, now) EXCEPT !.scope = IF @ = AnyScope THEN old.scope ELSE @]
              shut == ClosingInstant(i, at, close)
              S == [claims EXCEPT ![k] = CloseOut(old, shut, close)]
  <2>1. i \in Claim
    BY <1>0, StampedIsClaim DEF Claim
  <2>2. Reconciled(S, i, now, close)
    BY <1>2, Zenon DEF Supersede
  <2>. HIDE DEF i
  <2>3. shut \in Ends
    BY <2>1, LedgerAssumption, EndsAreNaturals DEF ClosingInstant, Claim, Closures
  <2>. HIDE DEF shut
  <2>4. /\ CloseOut(old, shut, close) \in Claim
        /\ CloseOut(old, shut, close).pred = old.pred /\ CloseOut(old, shut, close).scope = old.scope
    BY <1>0, <2>3, CloseOutCloses DEF ClosedBy
  <2>5. DOMAIN S = DOMAIN claims /\ Table(S, writes)
    BY <2>4 DEF TypeOK, Table
  <2>6. \A j \in DOMAIN S : S[j].pred = claims[j].pred /\ S[j].scope = claims[j].scope
    BY <2>4
  <2>. HIDE DEF S, old
  <2>. QED
    BY <1>0, <2>1, <2>2, <2>5, <2>6, ReconciledFiles
<1>3. ASSUME NEW w \in Writers, NEW s \in Statements, CommitAdd(w, s)
      PROVE  FiledAtSlot'
  <2>. DEFINE t == began[w]
              i == [Stamped(s, t) EXCEPT !.rec = t]
  <2>1. t \in Time
    BY <1>3, ForeverAssumption DEF CommitAdd, TypeOK, Ends, Time
  <2>2. i \in Claim
    BY <2>1, StampedIsClaim DEF Claim
  <2>3. Reconciled(claims, i, t, "ended") /\ "ended" \in Closures
    BY <1>3 DEF CommitAdd, Closures
  <2>. HIDE DEF i, t
  <2>. QED
    BY <1>0, <2>1, <2>2, <2>3, ReconciledFiles
<1>4. ASSUME NEW close \in Closures, Moved(close), DOMAIN claims' \subseteq DOMAIN claims
      PROVE  FiledAtSlot'
  BY <1>4, MovedFiles
<1>5. now \in Ends /\ Ats \cup {now} \subseteq Ends /\ "ended" \in Closures
  BY <1>0, LedgerAssumption, EndsAreNaturals DEF Closures
<1>6. ASSUME NEW s \in CallScopes, NEW p \in Predicates, NEW close \in Closures,
             NEW at \in Ats \cup {now}, Forget(s, p, at, close)
      PROVE  FiledAtSlot'
  BY <1>4, <1>5, <1>6, ClosedMoves DEF Forget, Closed
<1>7. ASSUME NEW k \in DOMAIN claims, NEW close \in Closures,
             NEW at \in Ats \cup {now}, Delete(k, at, close)
      PROVE  FiledAtSlot'
  BY <1>4, <1>5, <1>7, ClosedMoves DEF Delete, Closed
<1>8. ASSUME NEW ids \in SUBSET DOMAIN claims, NEW close \in Closures, ForgetMatching(ids, close)
      PROVE  FiledAtSlot'
  BY <1>4, <1>5, <1>8, ClosedMoves DEF ForgetMatching, Closed
<1>9. ASSUME NEW k \in DOMAIN claims, Erase(k)
      PROVE  FiledAtSlot'
  BY <1>4, <1>5, <1>9, EraseMoves DEF Erase
<1>10. ASSUME NEW s \in CallScopes, Purge(s)
       PROVE  FiledAtSlot'
  BY <1>4, <1>5, <1>10, PurgeMoves DEF Purge
<1>11. ASSUME UNCHANGED claims
       PROVE  FiledAtSlot'
  BY <1>11 DEF FiledAtSlot, SlotScope
<1>12. ASSUME NEW w \in Writers, BeginAdd(w) \/ Leave(w)
       PROVE  FiledAtSlot'
  BY <1>11, <1>12 DEF BeginAdd, Leave
<1>13. CASE Tick \/ UNCHANGED vars
  BY <1>11, <1>13 DEF Tick, vars
<1>. QED
  BY <1>1, <1>2, <1>3, <1>6, <1>7, <1>8, <1>9, <1>10, <1>12, <1>13 DEF Next

LEMMA FiledHolds == Spec => [](TypeOK /\ FiledAtSlot)
<1>1. Init => FiledAtSlot
  BY DEF Init, FiledAtSlot
<1>2. TypeOK /\ FiledAtSlot /\ [Next]_vars => FiledAtSlot'
  BY StepFiles
<1>. QED
  BY <1>1, <1>2, TypeCorrect, PTL DEF Spec

(* The levels of a reader's chain are its owner's, and it sees them all.   *)
LEMMA ChainLevels ==
    ASSUME NEW r \in Scope
    PROVE  /\ DOMAIN Chain(r) = 1 .. 6
           /\ \A j \in 1 .. 6 : Chain(r)[j].user = r.user /\ Sees(r, Chain(r)[j])
<1>1. DOMAIN Chain(r) = 1 .. 6
  BY DEF Chain
<1>. DEFINE agent == [r EXCEPT !.session = Unset]
            own   == [agent EXCEPT !.agent = Unset]
            Off(l) == [l EXCEPT !.project = Unset]
<1>2. /\ Chain(r)[1] = r /\ Chain(r)[2] = agent /\ Chain(r)[3] = own
      /\ Chain(r)[4] = Off(r) /\ Chain(r)[5] = Off(agent) /\ Chain(r)[6] = Off(own)
  BY DEF Chain
<1>3. \A l \in {r, agent, own, Off(r), Off(agent), Off(own)} : l = r \/ l \in Ancestors(r)
  BY Zenon DEF Ancestors
<1>4. \A l \in {r, agent, own, Off(r), Off(agent), Off(own)} : l.user = r.user
  BY DEF Scope
<1>. HIDE DEF agent, own, Off
<1>5. ASSUME NEW j \in 1 .. 6
      PROVE  Chain(r)[j] \in {r, agent, own, Off(r), Off(agent), Off(own)}
  <2>1. j = 1 \/ j = 2 \/ j = 3 \/ j = 4 \/ j = 5 \/ j = 6
    OBVIOUS
  <2>. QED
    BY <1>2, <2>1
<1>. QED
  BY <1>1, <1>3, <1>4, <1>5 DEF Sees

InChain(r, l) == \E j \in 1 .. 6 : Chain(r)[j] = l

(* What a reader sees is of its chain, or the tenant's.                    *)
LEMMA SeenLevels ==
    ASSUME NEW r \in Scope, NEW l, Sees(r, l)
    PROVE  InChain(r, l) \/ l = AnyScope
<1>1. /\ Chain(r)[1] = r
      /\ Chain(r)[2] = [r EXCEPT !.session = Unset]
      /\ Chain(r)[3] = [Chain(r)[2] EXCEPT !.agent = Unset]
      /\ Chain(r)[4] = [r EXCEPT !.project = Unset]
      /\ Chain(r)[5] = [Chain(r)[2] EXCEPT !.project = Unset]
      /\ Chain(r)[6] = [Chain(r)[3] EXCEPT !.project = Unset]
  BY DEF Chain
<1>2. l \in {Chain(r)[1], Chain(r)[2], Chain(r)[3], Chain(r)[4], Chain(r)[5], Chain(r)[6], AnyScope}
  BY <1>1 DEF Sees, Ancestors, AnyScope
<1>3. 1 \in 1 .. 6 /\ 2 \in 1 .. 6 /\ 3 \in 1 .. 6 /\ 4 \in 1 .. 6 /\ 5 \in 1 .. 6 /\ 6 \in 1 .. 6
  OBVIOUS
<1>. QED
  BY <1>2, <1>3 DEF InChain

(* Of two levels that one owner keeps, both are of the chain.              *)
LEMMA SameOwnerInChain ==
    ASSUME NEW r \in Scope, NEW x \in Scope, NEW y \in Scope, Sees(r, x), Sees(r, y),
           Owner(x) = Owner(y), x # y
    PROVE  InChain(r, x) /\ InChain(r, y)
<1>1. ASSUME NEW l \in Scope, Sees(r, l), ~ InChain(r, l), NEW m \in Scope, Sees(r, m),
             Owner(l) = Owner(m), l # m
      PROVE  FALSE
  <2>1. l = AnyScope /\ InChain(r, m)
    BY <1>1, SeenLevels
  <2>2. r.user = Unset
    BY <1>1, <2>1, ChainLevels DEF InChain, Owner, AnyScope
  <2>3. Chain(r)[6] = AnyScope
    BY <2>2 DEF Chain, AnyScope, Scope
  <2>. QED
    BY <1>1, <2>1, <2>3 DEF InChain
<1>. QED
  BY <1>1

(* And one of them comes first.                                            *)
LEMMA OneComesFirst ==
    ASSUME NEW r \in Scope, NEW x, NEW y, InChain(r, x), InChain(r, y), x # y
    PROVE  x \in Narrower(r, y) \/ y \in Narrower(r, x)
<1>. DEFINE At(l) == {j \in 1 .. 6 : Chain(r)[j] = l}
<1>1. At(x) # {} /\ At(y) # {} /\ At(x) \subseteq Nat /\ At(y) \subseteq Nat
  BY DEF InChain
<1>2. PICK i \in At(x) : \A h \in At(x) : i <= h
  <2>. HIDE DEF At
  <2>. QED
    BY <1>1, LeastExists
<1>3. PICK j \in At(y) : \A h \in At(y) : j <= h
  <2>. HIDE DEF At
  <2>. QED
    BY <1>1, LeastExists
<1>4. i \in 1 .. 6 /\ j \in 1 .. 6 /\ Chain(r)[i] = x /\ Chain(r)[j] = y
  OBVIOUS
<1>5. /\ \A h \in DOMAIN Chain(r) : Chain(r)[h] = x => i <= h
      /\ \A h \in DOMAIN Chain(r) : Chain(r)[h] = y => j <= h
      /\ DOMAIN Chain(r) = 1 .. 6
  BY <1>2, <1>3, ChainLevels
<1>. HIDE DEF At
<1>6. i < j \/ j < i
  BY <1>4
<1>7. CASE i < j
  <2>1. \A h \in DOMAIN Chain(r) : Chain(r)[h] = y => i < h
    BY <1>4, <1>5, <1>7
  <2>. QED
    BY <1>4, <1>5, <2>1 DEF Narrower
<1>8. CASE j < i
  <2>1. \A h \in DOMAIN Chain(r) : Chain(r)[h] = x => j < h
    BY <1>4, <1>5, <1>8
  <2>. QED
    BY <1>4, <1>5, <2>1 DEF Narrower
<1>. QED
  BY <1>6, <1>7, <1>8

(* An open claim of a level is shadowed by a narrower level's.             *)
LEMMA NarrowerShadows ==
    ASSUME TypeOK, FiledAtSlot, NEW r \in Scope, NEW a \in Live(claims, r), NEW b \in Live(claims, r),
           claims[a].pred \in Functional, claims[a].pred = claims[b].pred,
           InChain(r, claims[b].scope), claims[a].scope \in Narrower(r, claims[b].scope),
           StateIsLive(claims[b])
    PROVE  b \in Shadowed(claims, r)
<1>. DEFINE p == claims[b].pred
            levels == Narrower(r, claims[b].scope)
            keys == SlotKeys(r, p, levels)
<1>1. a \in DOMAIN claims /\ IsLive(claims[a], now, now) /\ ~ Hidden(claims[a], now)
  BY DEF Live
<1>2. claims[a] \in Claim
  BY <1>1, TypeOKIsTable
<1>3. p \notin Global \/ claims[a].scope.project = Unset
  BY <1>1, <1>2 DEF FiledAtSlot, SlotScope, Claim, Scope
<1>4. SlotOf(claims[a]) = FactKey(claims[a].scope, p)
  BY DEF SlotOf
<1>5. SlotOf(claims[a]) \in keys
  BY <1>3, <1>4 DEF SlotKeys
<1>. HIDE DEF keys, levels
<1>6. SlotOf(claims[a]) \in Occupied(claims, keys, levels)
  BY <1>1, <1>5 DEF Occupied, levels
<1>7. \E j \in DOMAIN Chain(r) : Chain(r)[j] = claims[b].scope
  BY ChainLevels DEF InChain
<1>. QED
  BY <1>6, <1>7 DEF Shadowed, keys, levels

(* What shadows a claim is read from a narrower level.                     *)
LEMMA ShadowedByNarrower ==
    ASSUME NEW r \in Scope, NEW b \in Shadowed(claims, r)
    PROVE  \E a \in Live(claims, r) : /\ claims[a].pred = claims[b].pred
                              /\ Owner(claims[a].scope) = Owner(claims[b].scope)
                              /\ claims[a].scope \in Narrower(r, claims[b].scope)
<1>. DEFINE p == claims[b].pred
            levels == Narrower(r, claims[b].scope)
            keys == SlotKeys(r, p, levels)
<1>1. /\ \E i \in DOMAIN Chain(r) : Chain(r)[i] = claims[b].scope
      /\ Occupied(claims, keys, levels) # {}
  BY DEF Shadowed
<1>2. \A l \in levels : l.user = r.user /\ Sees(r, l)
  BY ChainLevels DEF Narrower
<1>3. claims[b].scope.user = r.user
  BY <1>1, ChainLevels
<1>. HIDE DEF keys, levels
<1>4. PICK a \in DOMAIN claims : /\ IsLive(claims[a], now, now) /\ ~ Hidden(claims[a], now)
                                 /\ claims[a].scope \in levels
                                 /\ SlotOf(claims[a]) \in keys
  BY <1>1 DEF Occupied
<1>5. claims[a].pred = p
  BY <1>4 DEF keys, SlotKeys, SlotOf, FactKey
<1>6. a \in Live(claims, r) /\ Owner(claims[a].scope) = Owner(claims[b].scope)
  BY <1>2, <1>3, <1>4 DEF Live, Owner
<1>. QED
  BY <1>4, <1>5, <1>6 DEF levels

LEMMA ReadersAreScopes == CallScopes \subseteq Scope
  BY LedgerAssumption DEF CallScopes, Statement

(* Of the claims with no end to come, a reader at any level of any chain   *)
(* is told those of one level, the narrowest.                              *)
THEOREM OneLevelRead == Spec => []ReadsOneOpenLevel
<1>1. ASSUME TypeOK, FiledAtSlot, NEW r \in CallScopes, NEW a \in Read(claims, r), NEW b \in Read(claims, r),
             claims[a].pred \in Functional, claims[a].pred = claims[b].pred,
             Owner(claims[a].scope) = Owner(claims[b].scope),
             claims[a].scope # claims[b].scope, ~ EndsLater(a), ~ EndsLater(b)
      PROVE  FALSE
  <2>1. r \in Scope /\ a \in Live(claims, r) /\ b \in Live(claims, r) /\ a \notin Shadowed(claims, r) /\ b \notin Shadowed(claims, r)
    BY <1>1, ReadersAreScopes DEF Read
  <2>2. /\ claims[a].scope \in Scope /\ claims[b].scope \in Scope
        /\ Sees(r, claims[a].scope) /\ Sees(r, claims[b].scope)
    BY <1>1, <2>1, TypeOKIsTable DEF Live, Claim
  <2>3. InChain(r, claims[a].scope) /\ InChain(r, claims[b].scope)
    BY <1>1, <2>1, <2>2, SameOwnerInChain
  <2>4. StateIsLive(claims[a]) /\ StateIsLive(claims[b])
    BY <1>1 DEF EndsLater
  <2>5. \/ claims[a].scope \in Narrower(r, claims[b].scope)
        \/ claims[b].scope \in Narrower(r, claims[a].scope)
    BY <1>1, <2>1, <2>3, OneComesFirst
  <2>. QED
    BY <1>1, <2>1, <2>3, <2>4, <2>5, NarrowerShadows
<1>2. TypeOK /\ FiledAtSlot => ReadsOneOpenLevel
  BY <1>1, Zenon DEF ReadsOneOpenLevel
<1>. QED
  BY <1>2, FiledHolds, PTL

(* Whatever is shadowed, a reader who could be given a value of a          *)
(* predicate of an owner is given one.                                     *)
THEOREM AnsweredAlways == Spec => []StillAnswered
<1>1. ASSUME TypeOK, NEW r \in CallScopes, NEW k \in Live(claims, r)
      PROVE  \E j \in Read(claims, r) : /\ claims[j].pred = claims[k].pred
                                /\ Owner(claims[j].scope) = Owner(claims[k].scope)
  <2>. DEFINE Same(j) == /\ claims[j].pred = claims[k].pred
                         /\ Owner(claims[j].scope) = Owner(claims[k].scope)
              Places == {n \in 1 .. 6 : \E j \in Live(claims, r) : Same(j) /\ Chain(r)[n] = claims[j].scope}
  <2>1. r \in Scope
    BY ReadersAreScopes
  <2>2. CASE k \notin Shadowed(claims, r)
    BY <2>2 DEF Read
  <2>3. CASE k \in Shadowed(claims, r)
    <3>1. Places # {} /\ Places \subseteq Nat
      <4>1. \E n \in 1 .. 6 : Chain(r)[n] = claims[k].scope
        BY <2>1, <2>3, ChainLevels DEF Shadowed
      <4>. QED
        BY <4>1
    <3>2. PICK n \in Places : \A h \in Places : n <= h
      <4>. HIDE DEF Places
      <4>. QED
        BY <3>1, LeastExists
    <3>3. PICK j \in Live(claims, r) : Same(j) /\ Chain(r)[n] = claims[j].scope
      BY <3>2
    <3>4. CASE j \in Shadowed(claims, r)
      <4>1. PICK a \in Live(claims, r) : /\ claims[a].pred = claims[j].pred
                                 /\ Owner(claims[a].scope) = Owner(claims[j].scope)
                                 /\ claims[a].scope \in Narrower(r, claims[j].scope)
        BY <2>1, <3>4, ShadowedByNarrower
      <4>2. PICK i \in 1 .. 6 : Chain(r)[i] = claims[a].scope /\ i < n
        BY <2>1, <3>2, <3>3, <4>1, ChainLevels DEF Narrower
      <4>3. i \in Places
        BY <3>3, <4>1, <4>2
      <4>. HIDE DEF Places
      <4>. QED
        BY <3>1, <3>2, <4>2, <4>3
    <3>5. CASE j \notin Shadowed(claims, r)
      BY <3>3, <3>5 DEF Read
    <3>. QED
      BY <3>4, <3>5
  <2>. QED
    BY <2>2, <2>3
<1>2. TypeOK => StillAnswered
  BY <1>1, Zenon DEF StillAnswered
<1>. QED
  BY <1>2, TypeCorrect, PTL

-----------------------------------------------------------------------------
(* What is said is held                                                    *)

(* The claims of i's value that hold v for a writer at i's scope, as of t. *)
Holds(S, i, t, v) == {k \in Held(S, i, t) : HoldsFrom(S[k], i) <= v /\ v < S[k].to}

(* Every instant before stop is held or is in a part: _uncovered leaves    *)
(* out nothing.                                                            *)
LEMMA HeldOrInPart ==
    ASSUME NEW S, NEW i \in Claim, NEW ids, NEW stop \in Ends,
           NEW v \in Nat, i.from <= v, v < stop,
           ~ \E k \in ids : HoldsFrom(S[k], i) <= v /\ v < S[k].to
    PROVE  \E g \in Gaps(S, i, ids, stop) : g.lo <= v /\ v < g.hi
<1>0. i.from \in Nat /\ stop \in Nat
  BY EndsAreNaturals DEF Claim
<1>1. i.from \in Nat /\ stop \in Nat /\ ~ (stop <= i.from)
  BY <1>0
<1>. DEFINE unheld == UnheldInstants(S, i, ids, stop)
            los == {u \in i.from .. v : \A w \in u .. v : w \in unheld}
            his == {u \in Nat : v < u /\ u \notin unheld}
<1>2. v \in unheld /\ stop \notin unheld /\ unheld \subseteq Nat
  BY <1>1 DEF UnheldInstants, Overlapped
<1>3. Gaps(S, i, ids, stop) =
        {g \in [lo : unheld, hi : Ends] :
              /\ g.lo < g.hi
              /\ \A w \in g.lo .. (g.hi - 1) : w \in unheld
              /\ g.lo = i.from \/ g.lo - 1 \notin unheld
              /\ g.hi \notin unheld}
  BY <1>1 DEF Gaps
<1>4. PICK lo \in los : \A u \in los : lo <= u
  <2>1. v \in los /\ los \subseteq Nat
    BY <1>1, <1>2
  <2>. HIDE DEF los
  <2>. QED
    BY <2>1, LeastExists
<1>5. PICK hi \in his : \A u \in his : hi <= u
  <2>1. stop \in his /\ his \subseteq Nat
    BY <1>1, <1>2
  <2>. HIDE DEF his
  <2>. QED
    BY <2>1, LeastExists
<1>6. hi <= stop /\ stop \in his
  BY <1>1, <1>2, <1>5
<1>. HIDE DEF unheld
<1>7. /\ lo \in Nat /\ i.from <= lo /\ lo <= v /\ \A w \in lo .. v : w \in unheld
      /\ hi \in Nat /\ v < hi /\ hi \notin unheld
  BY <1>1, <1>4, <1>5
<1>8. \A w \in lo .. (hi - 1) : w \in unheld
  <2>. SUFFICES ASSUME NEW w \in lo .. (hi - 1), w \notin unheld
                PROVE  FALSE
    OBVIOUS
  <2>1. w \in Nat /\ v < w /\ w < hi
    BY <1>7
  <2>2. w \in his
    BY <2>1
  <2>. QED
    BY <1>5, <2>1, <2>2
<1>9. lo = i.from \/ lo - 1 \notin unheld
  <2>. SUFFICES ASSUME lo # i.from, lo - 1 \in unheld
                PROVE  FALSE
    OBVIOUS
  <2>1. lo - 1 \in i.from .. v /\ lo - 1 \in Nat
    BY <1>1, <1>7
  <2>2. \A w \in (lo - 1) .. v : w \in unheld
    BY <1>7
  <2>3. lo - 1 \in los
    BY <2>1, <2>2
  <2>. QED
    BY <1>4, <1>7, <2>3
<1>10. hi \in Ends /\ lo \in unheld /\ lo < hi
  BY <1>1, <1>6, <1>7, EndsAreNaturals DEF Ends
<1>. DEFINE g == [lo |-> lo, hi |-> hi]
<1>11. g \in [lo : unheld, hi : Ends] /\ g.lo = lo /\ g.hi = hi
  BY <1>10
<1>. HIDE DEF g
<1>12. g \in Gaps(S, i, ids, stop)
  BY <1>3, <1>7, <1>8, <1>9, <1>10, <1>11
<1>. QED
  BY <1>7, <1>11, <1>12

(* A call that names no expiry leaves what it repeats as it was.           *)
LEMMA RepeatLeaves ==
    ASSUME NEW S, NEW n, Table(S, n), NEW i, i.exp = Forever, NEW ids
    PROVE  Repeat(S, i, ids) = S
<1>1. \A k \in DOMAIN S : Repeat(S, i, ids)[k] = S[k]
  BY DEF Repeat
<1>2. DOMAIN Repeat(S, i, ids) = DOMAIN S /\ Repeat(S, i, ids) = [k \in DOMAIN S |-> Repeat(S, i, ids)[k]]
  BY DEF Repeat
<1>3. S = [k \in DOMAIN S |-> S[k]]
  BY DEF Table
<1>. QED
  BY <1>1, <1>2, <1>3

(* A claim that one call tells, for as long as it says: it is not recorded *)
(* ahead of t, is not retired and does not expire.                         *)
Told(i, t) == i \in Claim /\ i.exp = Forever /\ i.inv = Forever /\ i.rec <= t

(* The same, of a claim that may expire later. *)
Tells(i, t) == i \in Claim /\ t < i.exp /\ i.inv = Forever /\ i.rec <= t

LEMMA PieceHolds ==
    ASSUME NEW S, NEW n \in Nat, Table(S, n), NEW t \in Time, NEW i, Tells(i, t),
           NEW gaps, Parts(gaps), NEW over, NEW v \in Nat,
           NEW g \in gaps, g.lo <= v, v < g.hi
    PROVE  LET R == StoreInPieces(S, n, i, gaps, over)
               k == <<n + 1, g.lo>>
           IN  /\ k \in Holds(R, i, t, v) /\ k \notin DOMAIN S
               /\ R[k].from = g.lo /\ R[k].scope = i.scope
<1>. DEFINE R == StoreInPieces(S, n, i, gaps, over)
            k == <<n + 1, g.lo>>
            c == Piece(i, g)
<1>1. k \notin DOMAIN S
  BY DEF Table, Ids
<1>2. (CHOOSE h \in gaps : h.lo = g.lo) = g
  BY Zenon DEF Parts
<1>3. k \in DOMAIN R /\ R[k] = Piece(i, CHOOSE h \in gaps : h.lo = k[2])
  BY <1>1 DEF StoreInPieces
<1>4. R[k] = c
  BY <1>2, <1>3
<1>5. i \in Claim /\ g.lo \in Time /\ g.hi \in Ends
  BY DEF Tells, Parts
<1>6. /\ c \in Claim /\ c.from = g.lo /\ c.to = g.hi /\ c.inv = i.inv /\ c.rec = i.rec
      /\ c.pred = i.pred /\ c.val = i.val /\ c.scope = i.scope /\ c.neg = i.neg
      /\ c.exp = i.exp
  BY <1>5, PieceIsClaim
<1>. HIDE DEF c, R, k
<1>7. ValueKey(c) = ValueKey(i) /\ Sees(i.scope, c.scope)
  BY <1>6 DEF ValueKey, Sees
<1>8. /\ t \in Nat /\ t < Forever /\ Forever \in Nat /\ i.rec \in Nat
      /\ g.lo \in Nat /\ i.from \in Nat /\ i.exp \in Nat
  BY <1>5, EndsAreNaturals, ForeverAssumption DEF Claim, Time
<1>9. Believed(c, t) /\ ~ Hidden(c, t)
  BY <1>6, <1>8 DEF Tells, Believed, Hidden, IsExpired
<1>10. k \in Held(R, i, t)
  BY <1>3, <1>4, <1>7, <1>9 DEF Held, FindByValue
<1>11. HoldsFrom(c, i) <= v /\ v < c.to
  BY <1>6, <1>8 DEF HoldsFrom, Earlier
<1>. QED
  BY <1>1, <1>4, <1>6, <1>10, <1>11 DEF Holds, R, k

(* What held an instant holds it in any table that left it as it was.      *)
LEMMA HoldsStill ==
    ASSUME NEW S, NEW R, NEW i, NEW t, NEW v, NEW k \in Holds(S, i, t, v),
           k \in DOMAIN R, R[k] = S[k]
    PROVE  k \in Holds(R, i, t, v)
  BY DEF Holds, Held, FindByValue

LEMMA StoreLeaves ==
    ASSUME NEW S, NEW n, Table(S, n), NEW i, i.exp = Forever, NEW gaps, NEW over,
           NEW k \in DOMAIN S
    PROVE  /\ k \in DOMAIN StoreInPieces(S, n, i, gaps, over)
           /\ StoreInPieces(S, n, i, gaps, over)[k] = S[k]
  BY RepeatLeaves DEF StoreInPieces

(* No predicate supersedes itself.                                         *)
NoneSupersedesItself == \A p \in Predicates : <<p, p>> \notin Supersedes

(* What a claim displaces is another value.                                *)
LEMMA VictimsDiffer ==
    ASSUME NoneSupersedesItself, NEW S, NEW i, NEW t, NEW k \in Victims(S, i, t)
    PROVE  ValueKey(S[k]) # ValueKey(i)
<1>1. CASE S[k].val # i.val
  BY <1>1 DEF ValueKey
<1>2. ASSUME NEW p \in Predicates, <<i.pred, p>> \in Supersedes, k \in Occupants(S, FactKey(i.scope, p), t)
      PROVE  S[k].pred # i.pred
  <2>1. S[k].pred = p
    BY <1>2 DEF Occupants, SlotOf, FactKey
  <2>. QED
    BY <1>2, <2>1 DEF NoneSupersedesItself
<1>3. CASE S[k].pred # i.pred
  BY <1>3 DEF ValueKey
<1>. QED
  BY <1>1, <1>2, <1>3, Zenon DEF Victims

LEMMA CoveringHolds ==
    ASSUME NEW S, NEW n, Table(S, n), NEW t, NEW i \in Claim, NEW stop \in Ends,
           NEW v \in Nat, i.from <= v, v < stop, NEW k \in Covering(S, i, Held(S, i, t), stop)
    PROVE  k \in Holds(S, i, t, v)
<1>1. k \in Held(S, i, t) /\ ~ IsAfter(S[k], i)
  BY DEF Covering
<1>2. /\ S[k].to \in Nat /\ S[k].from \in Nat /\ i.from \in Nat /\ stop \in Nat
      /\ stop <= Forever /\ Forever \in Nat
  BY <1>1, EndsAreNaturals DEF Held, FindByValue, Table, Claim, Ends
<1>3. v < S[k].to
  BY <1>2 DEF Covering
<1>4. HoldsFrom(S[k], i) <= v
  BY <1>1, <1>2 DEF HoldsFrom, Earlier
<1>. QED
  BY <1>1, <1>3, <1>4 DEF Holds

(* What the two ways to store have in common: up to stop, each instant is  *)
(* held by a claim that covers the whole, by those that hold it between    *)
(* them, or by a part.                                                     *)
LEMMA PartsHold ==
    ASSUME NEW S, NEW n \in Nat, Table(S, n), NEW t \in Time, NEW i, Told(i, t),
           NEW stop \in Ends, NEW v \in Nat, i.from <= v, v < stop,
           NEW over
    PROVE  LET held == Held(S, i, t)
               gaps == Gaps(S, i, held, stop)
               R    == StoreInPieces(S, n, i, gaps, over)
           IN  \/ Holds(S, i, t, v) # {}
               \/ /\ gaps # {}
                  /\ \E k \in Holds(R, i, t, v) : k \notin DOMAIN S
<1>. DEFINE held == Held(S, i, t)
            gaps == Gaps(S, i, held, stop)
<1>1. i \in Claim
  BY DEF Told
<1>2. CASE \E k \in held : HoldsFrom(S[k], i) <= v /\ v < S[k].to
  BY <1>2 DEF Holds
<1>3. CASE ~ \E k \in held : HoldsFrom(S[k], i) <= v /\ v < S[k].to
  <2>. HIDE DEF held
  <2>1. PICK g \in gaps : g.lo <= v /\ v < g.hi
    BY <1>1, <1>3, HeldOrInPart
  <2>2. Parts(gaps) /\ Tells(i, t)
    BY <1>1, GapsAreParts, EndsAreNaturals DEF Told, Tells
  <2>. HIDE DEF gaps
  <2>3. /\ <<n + 1, g.lo>> \in Holds(StoreInPieces(S, n, i, gaps, over), i, t, v)
        /\ <<n + 1, g.lo>> \notin DOMAIN S
    BY <2>1, <2>2, PieceHolds
  <2>. QED
    BY <2>1, <2>3 DEF gaps, held
<1>. QED
  BY <1>2, <1>3

(* A value competes up to where a later one begins.                        *)
LEMMA StopIsNewer ==
    ASSUME NEW S, NEW n \in Nat, Table(S, n), NEW t \in Time, NEW i \in Claim,
           NEW v \in Nat, v < i.to, ~ (v < CompetesTo(S, i, t))
    PROVE  \E k \in Newer(S, i, t) : S[k].from <= v
<1>. DEFINE stop == CompetesTo(S, i, t)
            starts == {Forever} \cup {S[k].from : k \in Newer(S, i, t)}
<1>0. stop \in Ends /\ stop \in Nat
  BY CompetesToType, EndsAreNaturals
<1>1. \A k \in Newer(S, i, t) : S[k].from \in Nat
  BY EndsAreNaturals DEF Newer, Victims, Table, Claim
<1>2. starts \subseteq Nat /\ starts # {}
  BY <1>1, EndsAreNaturals, ForeverAssumption
<1>3. stop = Earlier(i.to, LeastOf(starts)) /\ ~ (v < stop)
  BY DEF CompetesTo
<1>. HIDE DEF starts, stop
<1>4. LeastOf(starts) \in starts
  BY <1>2, LeastOfIsLeast
<1>5. /\ i.to \in Nat /\ LeastOf(starts) \in Nat /\ Forever \in Nat /\ i.to <= Forever
  BY <1>2, <1>4, EndsAreNaturals, ForeverAssumption DEF Claim, Ends
<1>6. LeastOf(starts) <= v /\ LeastOf(starts) # Forever
  BY <1>0, <1>3, <1>5 DEF Earlier
<1>. QED
  BY <1>4, <1>6 DEF starts

LEMMA CompeteHolds ==
    ASSUME NoneSupersedesItself,
           NEW S, NEW n \in Nat, Table(S, n), NEW t \in Time, NEW i, Told(i, t), NEW close,
           NEW o \in Compete(S, n, i, t, close), NEW v \in Nat, i.from <= v, v < i.to
    PROVE  Holds(o.rows, i, t, v) # {} \/ \E k \in Newer(S, i, t) : S[k].from <= v
<1>. DEFINE stop == CompetesTo(S, i, t)
            held == HeldFor(S, i, t)
            cover == Covering(S, i, held, stop)
            gaps == Gaps(S, i, held, stop)
            over == Overlapped(S, i, held, stop)
            shut == Outranked(S, i, Older(S, i, t))
            R == StoreInPieces(S, n, i, gaps, over)
<1>1. Compete(S, n, i, t, close) =
        CASE cover # {} -> {Outcome(Repeat(S, i, {k}), n) : k \in Oldest(S, cover)}
          [] cover = {} /\ gaps = {} -> {Outcome(Repeat(S, i, over), n)}
          [] cover = {} /\ gaps # {} ->
                {Outcome(Retire(R, shut, i, t, close), n + 1)}
  BY Zenon DEF Compete, CompetesTo
<1>2. i \in Claim /\ i.exp = Forever /\ held = Held(S, i, t)
  BY DEF Told, HeldFor
<1>3. stop \in Ends /\ stop \in Nat
  BY <1>2, CompetesToType, EndsAreNaturals
<1>4. CASE ~ (v < stop)
  <2>. HIDE DEF stop
  <2>. QED
    BY <1>2, <1>4, StopIsNewer DEF stop
<1>5. CASE v < stop
  <2>1. \/ Holds(S, i, t, v) # {}
        \/ gaps # {} /\ \E k \in Holds(R, i, t, v) : k \notin DOMAIN S
    <3>. HIDE DEF stop, over
    <3>. QED
      BY <1>2, <1>3, <1>5, PartsHold
  <2>2. \A k \in cover : k \in Holds(S, i, t, v)
    <3>. HIDE DEF stop
    <3>. QED
      BY <1>2, <1>3, <1>5, CoveringHolds
  <2>3. \A ids : Repeat(S, i, ids) = S
    BY <1>2, RepeatLeaves
  <2>4. \A k \in DOMAIN S : k \in DOMAIN R /\ R[k] = S[k]
    BY <1>2, StoreLeaves
  <2>5. shut \subseteq DOMAIN S /\ \A k \in shut : ValueKey(S[k]) # ValueKey(i)
    BY VictimsDiffer DEF Outranked, Older, Victims
  <2>. HIDE DEF stop, held, cover, gaps, over, shut, R
  <2>6. CASE cover # {}
    <3>1. PICK k \in Oldest(S, cover) : o = Outcome(Repeat(S, i, {k}), n)
      BY <1>1, <2>6
    <3>2. o = Outcome(S, n)
      BY <2>3, <3>1
    <3>3. o.rows = S
      BY <3>2 DEF Outcome
    <3>. QED
      BY <2>2, <2>6, <3>3
  <2>7. CASE cover = {} /\ gaps = {}
    <3>1. o.rows = S
      BY <1>1, <2>3, <2>7 DEF Outcome
    <3>. QED
      BY <2>1, <2>7, <3>1
  <2>8. CASE cover = {} /\ gaps # {}
    <3>. DEFINE Q == Retire(R, shut, i, t, close)
    <3>1. o.rows = Q
      BY <1>1, <2>8 DEF Outcome
    <3>2. \A k \in DOMAIN R \ shut : k \in DOMAIN Q /\ Q[k] = R[k]
      BY DEF Retire
    <3>. HIDE DEF Q
    <3>3. CASE Holds(S, i, t, v) # {}
      <4>1. PICK k \in Holds(S, i, t, v) : TRUE
        BY <3>3
      <4>2. k \in DOMAIN S /\ ValueKey(S[k]) = ValueKey(i)
        BY DEF Holds, Held, FindByValue
      <4>3. k \in DOMAIN Q /\ Q[k] = S[k]
        BY <2>4, <2>5, <3>2, <4>2
      <4>. QED
        BY <3>1, <4>1, <4>3, HoldsStill
    <3>4. CASE \E k \in Holds(R, i, t, v) : k \notin DOMAIN S
      <4>1. PICK k \in Holds(R, i, t, v) : k \notin DOMAIN S
        BY <3>4
      <4>2. k \in DOMAIN R
        BY DEF Holds, Held, FindByValue
      <4>3. k \in DOMAIN Q /\ Q[k] = R[k]
        BY <2>5, <3>2, <4>1, <4>2
      <4>. QED
        BY <3>1, <4>3, HoldsStill
    <3>. QED
      BY <2>1, <3>3, <3>4
  <2>. QED
    BY <2>6, <2>7, <2>8
<1>. QED
  BY <1>4, <1>5

(* _earlier_period stops where stored claims take over: from there to the  *)
(* first live start each instant is held.                                  *)
LEMMA TakenOver ==
    ASSUME NEW S, NEW n \in Nat, Table(S, n), NEW t \in Time, NEW i \in Claim,
           NEW seen, seen \subseteq Held(S, i, t), seen # {},
           \A k \in seen : IsAfter(S[k], i),
           NEW v \in Nat, v < i.to, EarlierEnd(S, i, Held(S, i, t), seen) <= v
    PROVE  Holds(S, i, t, v) # {} \/ \E k \in seen : S[k].to <= v
<1>. DEFINE held   == Held(S, i, t)
            lives  == {S[k].from : k \in seen}
            first  == LeastOf(lives)
            starts == {first} \cup {S[k].from : k \in {j \in held : IsAfter(S[j], i)}}
            stops  == {e \in starts : e <= first /\ Reaching(S, i, held, e) = {}}
            beyond == {e \in starts : v < e /\ e <= first}
            end    == GreatestOf(stops)
<1>1. \A k \in held : k \in DOMAIN S /\ S[k].from \in Nat /\ S[k].to \in Nat
  BY EndsAreNaturals DEF Held, FindByValue, Table, Claim
<1>2. lives \subseteq Nat /\ lives # {}
  BY <1>1
<1>3. first \in lives /\ \A e \in lives : first <= e
  <2>. HIDE DEF lives
  <2>. QED
    BY <1>2, LeastOfIsLeast
<1>4. PICK a \in seen : first = S[a].from
  BY <1>3
<1>5. first \in Nat
  BY <1>2, <1>3
<1>6. EarlierEnd(S, i, held, seen) = Earlier(end, i.to)
  BY Zenon DEF EarlierEnd
<1>. HIDE DEF lives, first
<1>7. CASE first <= v
  <2>1. a \in held /\ IsAfter(S[a], i)
    BY <1>4
  <2>2. CASE v < S[a].to
    BY <1>4, <1>7, <2>1, <2>2 DEF Holds, HoldsFrom
  <2>3. CASE ~ (v < S[a].to)
    BY <1>1, <2>1, <2>3
  <2>. QED
    BY <2>2, <2>3
<1>8. CASE ~ (first <= v)
  <2>1. starts \subseteq Nat /\ first \in starts
    BY <1>1, <1>5
  <2>2. beyond \subseteq Nat /\ first \in beyond
    BY <1>5, <1>8, <2>1
  <2>3. PICK e \in beyond : \A f \in beyond : e <= f
    <3>. HIDE DEF beyond
    <3>. QED
      BY <2>2, LeastExists
  <2>4. e \in starts /\ e \in Nat /\ v < e /\ e <= first
    BY <2>2, <2>3
  <2>5. Reaching(S, i, held, e) # {}
    <3>. SUFFICES ASSUME Reaching(S, i, held, e) = {}
                  PROVE  FALSE
      OBVIOUS
    <3>1. e \in stops /\ stops \subseteq Nat /\ \A f \in stops : f <= first
      BY <2>1, <2>4
    <3>. HIDE DEF stops
    <3>2. end \in Nat /\ e <= end
      BY <1>5, <3>1, GreatestOfIsGreatest
    <3>. HIDE DEF end
    <3>3. Earlier(end, i.to) <= v /\ i.to \in Nat
      BY <1>6, EndsAreNaturals DEF Claim
    <3>. QED
      BY <2>4, <3>2, <3>3 DEF Earlier
  <2>6. PICK k \in held : /\ S[k].from < e /\ S[k].to # Forever /\ S[k].to >= e
                          /\ IsAfter(S[k], i)
    BY <2>5 DEF Reaching
  <2>7. S[k].from \in starts /\ S[k].from \in Nat /\ S[k].to \in Nat
    BY <1>1, <2>6
  <2>8. S[k].from <= v
    <3>. SUFFICES ASSUME v < S[k].from
                  PROVE  FALSE
      BY <2>7
    <3>1. S[k].from \in beyond
      BY <1>5, <2>4, <2>6, <2>7
    <3>. QED
      BY <2>3, <2>4, <2>6, <2>7, <3>1
  <2>9. v < S[k].to
    BY <2>4, <2>6, <2>7
  <2>. QED
    BY <2>6, <2>8, <2>9 DEF Holds, HoldsFrom
<1>. QED
  BY <1>7, <1>8

LEMMA ExtendHolds ==
    ASSUME NEW S, NEW n \in Nat, Table(S, n), NEW t \in Time, NEW i, Told(i, t),
           NEW seen, seen \subseteq Held(S, i, t), seen # {}, \A k \in seen : IsAfter(S[k], i),
           NEW o \in ExtendBackwards(S, n, i, t, seen), NEW v \in Nat, i.from <= v, v < i.to
    PROVE  Holds(o.rows, i, t, v) # {} \/ \E k \in seen : S[k].to <= v
<1>. DEFINE held == Held(S, i, t)
            stop == EarlierEnd(S, i, held, seen)
            cover == Covering(S, i, held, stop)
            gaps == Gaps(S, i, held, stop)
            over == Overlapped(S, i, held, stop)
            R == StoreInPieces(S, n, i, gaps, over)
<1>1. ExtendBackwards(S, n, i, t, seen) =
        CASE cover # {} -> {Outcome(Repeat(S, i, {k}), n) : k \in Oldest(S, cover)}
          [] cover = {} /\ gaps = {} -> {Outcome(Repeat(S, i, over), n)}
          [] cover = {} /\ gaps # {} -> {Outcome(R, n + 1)}
  BY Zenon DEF ExtendBackwards
<1>2. i \in Claim /\ i.exp = Forever /\ held \subseteq DOMAIN S
  BY DEF Told, Held, FindByValue
<1>3. stop \in Ends /\ stop \in Nat
  <2>. HIDE DEF held
  <2>1. seen \subseteq DOMAIN S /\ seen \subseteq held
    BY <1>2 DEF held
  <2>. QED
    BY <1>2, <2>1, EarlierEndType, EndsAreNaturals
<1>4. \/ Holds(S, i, t, v) # {} \/ \E k \in seen : S[k].to <= v
      \/ gaps # {} /\ \E k \in Holds(R, i, t, v) : k \notin DOMAIN S
  <2>1. CASE stop <= v
    BY <1>2, <2>1, TakenOver
  <2>2. CASE v < stop
    <3>. HIDE DEF stop, over
    <3>. QED
      BY <1>2, <1>3, <2>2, PartsHold
  <2>. QED
    BY <1>3, <2>1, <2>2
<1>5. \A ids : Repeat(S, i, ids) = S
  BY <1>2, RepeatLeaves
<1>6. \A k \in DOMAIN S : k \in DOMAIN R /\ R[k] = S[k]
  BY <1>2, StoreLeaves
<1>7. \A k \in Holds(S, i, t, v) : k \in Holds(R, i, t, v)
  <2>. TAKE k \in Holds(S, i, t, v)
  <2>1. k \in DOMAIN S
    BY DEF Holds, Held, FindByValue
  <2>. HIDE DEF R
  <2>. QED
    BY <1>6, <2>1, HoldsStill
<1>8. \A k \in cover : v < stop => k \in Holds(S, i, t, v)
  <2>. HIDE DEF stop
  <2>. QED
    BY <1>2, <1>3, CoveringHolds
<1>9. stop <= v => Holds(S, i, t, v) # {} \/ \E k \in seen : S[k].to <= v
  BY <1>2, TakenOver
<1>. HIDE DEF stop, held, cover, gaps, over, R
<1>10. CASE cover # {}
  <2>1. PICK k \in Oldest(S, cover) : o = Outcome(Repeat(S, i, {k}), n)
    BY <1>1, <1>10
  <2>2. o = Outcome(S, n)
    BY <1>5, <2>1
  <2>3. o.rows = S
    BY <2>2 DEF Outcome
  <2>. QED
    BY <1>3, <1>8, <1>9, <1>10, <2>3
<1>11. CASE cover = {} /\ gaps = {}
  <2>1. o.rows = S
    BY <1>1, <1>5, <1>11 DEF Outcome
  <2>. QED
    BY <1>4, <1>11, <2>1
<1>12. CASE cover = {} /\ gaps # {}
  <2>1. o.rows = R
    BY <1>1, <1>12 DEF Outcome
  <2>. QED
    BY <1>4, <1>7, <2>1
<1>. QED
  BY <1>10, <1>11, <1>12

LEMMA PositiveHolds ==
    ASSUME NoneSupersedesItself,
           NEW S, NEW n \in Nat, Table(S, n), NEW t \in Time, NEW i, Told(i, t), NEW close,
           NEW o \in ApplyPositive(S, n, i, t, close), NEW v \in Nat, i.from <= v, v < i.to
    PROVE  \/ Holds(o.rows, i, t, v) # {}
           \/ \E k \in Newer(S, i, t) : S[k].from <= v
           \/ \E k \in LiveSame(S, i, t) : IsAfter(S[k], i) /\ S[k].to <= v
<1>. DEFINE live     == LiveSame(S, i, t)
            expiring == i.exp # Forever /\ i.user
            before   == \A k \in live : IsAfter(S[k], i)
            whole    == Gaps(S, i, HeldFor(S, i, t), i.to) = {}
<1>1. ApplyPositive(S, n, i, t, close) =
        CASE live # {} /\ before /\ ~ expiring -> ExtendBackwards(S, n, i, t, live)
          [] live # {} /\ (expiring \/ (~ before /\ whole)) ->
                {Outcome(Repeat(S, i, {k}), n) : k \in Oldest(S, live)}
          [] live = {} \/ (~ before /\ ~ expiring /\ ~ whole) ->
                Compete(S, n, i, t, close)
  BY Zenon DEF ApplyPositive
<1>2. before \in BOOLEAN /\ whole \in BOOLEAN /\ ~ expiring
  BY DEF Told
<1>3. i \in Claim /\ i.exp = Forever /\ i.to \in Ends /\ HeldFor(S, i, t) = Held(S, i, t)
  BY DEF Told, HeldFor, Claim
<1>4. CASE live # {} /\ before
  <2>1. o \in ExtendBackwards(S, n, i, t, live)
    <3>. HIDE DEF live, expiring, before, whole
    <3>. QED
      BY <1>1, <1>2, <1>4
  <2>2. live \subseteq Held(S, i, t)
    BY <1>3 DEF LiveSame, Held, IsLive
  <2>3. Holds(o.rows, i, t, v) # {} \/ \E k \in live : S[k].to <= v
    <3>. HIDE DEF live
    <3>. QED
      BY <1>4, <2>1, <2>2, ExtendHolds DEF before
  <2>. QED
    BY <1>4, <2>3
<1>5. CASE live # {} /\ ~ before /\ whole
  <2>1. \E k : o = Outcome(Repeat(S, i, {k}), n)
    <3>. HIDE DEF live, expiring, before, whole
    <3>. QED
      BY <1>1, <1>2, <1>5
  <2>2. o.rows = S
    BY <1>3, <2>1, RepeatLeaves DEF Outcome
  <2>3. Holds(S, i, t, v) # {}
    BY <1>3, <1>5, PartsHold
  <2>. QED
    BY <2>2, <2>3
<1>6. CASE live = {} \/ (~ before /\ ~ whole)
  <2>1. o \in Compete(S, n, i, t, close)
    <3>. HIDE DEF live, expiring, before, whole
    <3>. QED
      BY <1>1, <1>2, <1>6
  <2>. QED
    BY <2>1, CompeteHolds
<1>. HIDE DEF live, expiring, before, whole
<1>. QED
  BY <1>2, <1>4, <1>5, <1>6

(* What remember() is told is on record when it returns, for every period, *)
(* date and history: where no predicate supersedes itself, each instant of *)
(* the period is held, up to where a later value ends it, or to live       *)
(* claims that it begins before.                                           *)
THEOREM SaidIsHeld == NoneSupersedesItself => (Spec => []SaidIsHeldUntilKnown)
<1>. SUFFICES ASSUME NoneSupersedesItself
              PROVE  Spec => []SaidIsHeldUntilKnown
  OBVIOUS
<1>1. ASSUME TypeOK, NEW s \in Sayable
      PROVE  LET i == Canonical(Stamped(s, now), now)
             IN  \A o \in Apply(claims, writes, i, now, now, "ended") :
                    \A v \in i.from .. (i.to - 1) :
                       Holding(o.rows, i, v) # {} \/ EndedBy(i, v) # {} \/ Restating(i, v) # {}
  <2>. DEFINE d == Stamped(s, now)
              i == Canonical(d, now)
  <2>1. /\ s \in Statements /\ s \in Statement /\ ~ s.neg /\ s.val # NoValue
        /\ s.exp = Forever /\ s.inv = Forever
    BY LedgerAssumption DEF Sayable, Statement
  <2>2. now \in Time /\ writes \in Nat /\ Table(claims, writes)
    BY <1>1, TypeOKIsTable DEF TypeOK
  <2>3. /\ d \in Claim /\ d.neg = s.neg /\ d.val = s.val /\ d.exp = s.exp /\ d.inv = s.inv
    BY <2>1, <2>2, StampedIsClaim DEF Stamped, Statement
  <2>. HIDE DEF d
  <2>4. /\ i \in Claim /\ i.neg = d.neg /\ i.val = d.val /\ i.exp = d.exp /\ i.inv = d.inv
        /\ i.rec = Earlier(d.rec, now) /\ i.scope = SlotScope(d.pred, d.scope) /\ i.pred = d.pred
    BY <2>2, <2>3, CanonicalIsClaim DEF Canonical, Claim
  <2>5. now \in Nat /\ d.rec \in Nat
    BY <2>2, <2>3, EndsAreNaturals DEF Claim
  <2>. HIDE DEF i
  <2>6. Told(i, now)
    BY <2>1, <2>3, <2>4, <2>5 DEF Told, Earlier
  <2>7. Canonical(i, now) = i
    <3>1. SlotScope(i.pred, i.scope) = i.scope
      BY <2>3, <2>4 DEF SlotScope, Claim, Scope
    <3>2. Earlier(i.rec, now) = i.rec
      BY <2>4, <2>5 DEF Earlier
    <3>. QED
      BY <2>4, <3>1, <3>2 DEF Canonical, Claim
  <2>8. Apply(claims, writes, i, now, now, "ended") = ApplyPositive(claims, writes, i, now, "ended")
    BY <2>1, <2>3, <2>4, <2>7 DEF Apply
  <2>9. ASSUME NEW o \in ApplyPositive(claims, writes, i, now, "ended"), NEW v \in i.from .. (i.to - 1)
        PROVE  Holding(o.rows, i, v) # {} \/ EndedBy(i, v) # {} \/ Restating(i, v) # {}
    <3>1. i.from \in Nat /\ i.to \in Nat
      BY <2>4, EndsAreNaturals DEF Claim
    <3>2. v \in Nat /\ i.from <= v /\ v < i.to
      BY <3>1
    <3>3. Holding(o.rows, i, v) = Holds(o.rows, i, now, v)
      BY DEF Holding, Holds, Held, FindByValue
    <3>4. \/ Holds(o.rows, i, now, v) # {}
          \/ \E k \in Newer(claims, i, now) : claims[k].from <= v
          \/ \E k \in LiveSame(claims, i, now) : IsAfter(claims[k], i) /\ claims[k].to <= v
      BY <2>2, <2>6, <3>2, PositiveHolds
    <3>. QED
      BY <3>3, <3>4 DEF EndedBy, Restating
  <2>. QED
    BY <2>8, <2>9 DEF i, d
<1>2. TypeOK => SaidIsHeldUntilKnown
  BY <1>1, Zenon DEF SaidIsHeldUntilKnown
<1>. QED
  BY <1>2, TypeCorrect, PTL

-----------------------------------------------------------------------------
(* What is said is read                                                    *)

(* The claims that say what i says, to a writer at its scope and at t. *)
Answering(S, i, t) ==
    {k \in FindByValue(S, i) :
        Sees(i.scope, S[k].scope) /\ IsLive(S[k], t, t) /\ ~ Hidden(S[k], t)}

(* A claim whose expiry alone was moved, onto a later instant, answers still. *)
LEMMA AnswersStill ==
    ASSUME NEW S, NEW R, NEW i, NEW t \in Time, Tells(i, t), NEW k \in Answering(S, i, t), S[k] \in Claim,
           k \in DOMAIN R, R[k] = S[k] \/ R[k] = [S[k] EXCEPT !.exp = i.exp]
    PROVE  k \in Answering(R, i, t)
<1>1. CASE R[k] = S[k]
  BY <1>1 DEF Answering, FindByValue
<1>2. CASE R[k] = [S[k] EXCEPT !.exp = i.exp]
  <2>. DEFINE c == S[k]
              d == R[k]
  <2>1. /\ d.pred = c.pred /\ d.val = c.val /\ d.neg = c.neg /\ d.scope = c.scope
        /\ d.from = c.from /\ d.to = c.to /\ d.rec = c.rec /\ d.inv = c.inv /\ d.exp = i.exp
    BY <1>2 DEF Claim
  <2>2. ValueKey(c) = ValueKey(i) /\ Sees(i.scope, c.scope) /\ IsLive(c, t, t)
    BY DEF Answering, FindByValue
  <2>3. t \in Nat /\ i.exp \in Nat
    BY EndsAreNaturals DEF Tells, Claim
  <2>. HIDE DEF c, d
  <2>4. ValueKey(d) = ValueKey(i) /\ Sees(i.scope, d.scope) /\ IsLive(d, t, t)
    BY <2>1, <2>2 DEF ValueKey, IsLive, Believed, InForce
  <2>5. ~ Hidden(d, t)
    BY <2>1, <2>3 DEF Hidden, IsExpired, Tells
  <2>. QED
    BY <2>4, <2>5 DEF Answering, FindByValue, d
<1>. QED
  BY <1>1, <1>2

LEMMA RepeatAnswers ==
    ASSUME NEW S, NEW n, Table(S, n), NEW i, NEW t \in Time, Tells(i, t), NEW ids,
           NEW k \in Answering(S, i, t)
    PROVE  k \in Answering(Repeat(S, i, ids), i, t)
<1>. DEFINE R == Repeat(S, i, ids)
<1>1. k \in DOMAIN S /\ S[k] \in Claim
  BY DEF Answering, FindByValue, Table
<1>2. k \in DOMAIN R /\ (R[k] = S[k] \/ R[k] = [S[k] EXCEPT !.exp = i.exp])
  BY <1>1 DEF Repeat
<1>. HIDE DEF R
<1>. QED
  BY <1>1, <1>2, AnswersStill DEF R

LEMMA StoreAnswers ==
    ASSUME NEW S, NEW n, Table(S, n), NEW i, NEW t \in Time, Tells(i, t), NEW gaps, NEW over,
           NEW k \in Answering(S, i, t)
    PROVE  k \in Answering(StoreInPieces(S, n, i, gaps, over), i, t)
<1>. DEFINE R == StoreInPieces(S, n, i, gaps, over)
<1>1. k \in DOMAIN S /\ S[k] \in Claim
  BY DEF Answering, FindByValue, Table
<1>2. k \in DOMAIN R /\ R[k] = Repeat(S, i, over)[k]
  BY <1>1 DEF StoreInPieces
<1>3. R[k] = S[k] \/ R[k] = [S[k] EXCEPT !.exp = i.exp]
  BY <1>1, <1>2 DEF Repeat
<1>. HIDE DEF R
<1>. QED
  BY <1>1, <1>2, <1>3, AnswersStill DEF R

(* What i displaces, when it is stored, is another value. *)
LEMMA RetireAnswers ==
    ASSUME NoneSupersedesItself, NEW S, NEW n, Table(S, n), NEW i, NEW t \in Time, Tells(i, t),
           NEW gaps, NEW over, NEW close, NEW k,
           k \in Answering(StoreInPieces(S, n, i, gaps, over), i, t),
           k \in DOMAIN S => k \in Answering(S, i, t)
    PROVE  LET R == StoreInPieces(S, n, i, gaps, over)
               Q == Retire(R, Outranked(S, i, Older(S, i, t)), i, t, close)
           IN  k \in Answering(Q, i, t) /\ Q[k] = R[k]
<1>. DEFINE R == StoreInPieces(S, n, i, gaps, over)
            shut == Outranked(S, i, Older(S, i, t))
            Q == Retire(R, shut, i, t, close)
<1>1. k \in DOMAIN R
  BY DEF Answering, FindByValue
<1>2. k \notin shut
  <2>1. \A j \in shut : j \in DOMAIN S /\ ValueKey(S[j]) # ValueKey(i)
    BY VictimsDiffer DEF Outranked, Older, Victims
  <2>. HIDE DEF shut
  <2>. QED
    BY <2>1 DEF Answering, FindByValue
<1>. HIDE DEF R, shut
<1>3. k \in DOMAIN Q /\ Q[k] = R[k]
  BY <1>1, <1>2 DEF Retire
<1>. HIDE DEF Q
<1>4. k \in Answering(Q, i, t)
  BY <1>3 DEF Answering, FindByValue, R
<1>. QED
  BY <1>3, <1>4 DEF Q, R, shut

(* What answered before a value was told answers after it. *)
LEMMA PositiveAnswers ==
    ASSUME NoneSupersedesItself, NEW S, NEW n \in Nat, Table(S, n), NEW i, NEW t \in Time, Tells(i, t),
           NEW close, NEW o \in ApplyPositive(S, n, i, t, close), NEW k \in Answering(S, i, t)
    PROVE  k \in Answering(o.rows, i, t)
<1>. DEFINE Kept1 == \E ids : o.rows = Repeat(S, i, ids)
            Kept2 == \E gaps, over : o.rows = StoreInPieces(S, n, i, gaps, over)
            Kept3 == \E gaps, over : o.rows = Retire(StoreInPieces(S, n, i, gaps, over),
                                                     Outranked(S, i, Older(S, i, t)), i, t, close)
<1>1. Kept1 \/ Kept2 \/ Kept3
  <2>0. ASSUME NEW live, o \in {Outcome(Repeat(S, i, {j}), n) : j \in Oldest(S, live)}
        PROVE  Kept1
    <3>1. PICK j : o = Outcome(Repeat(S, i, {j}), n)
      BY <2>0
    <3>2. o.rows = Repeat(S, i, {j})
      BY <3>1 DEF Outcome
    <3>. QED
      BY <3>2
  <2>1. ASSUME o \in Compete(S, n, i, t, close)
        PROVE  Kept1 \/ Kept2 \/ Kept3
    <3>. DEFINE stop == Earlier(i.to, LeastOf({Forever} \cup {S[k1].from : k1 \in Newer(S, i, t)}))
                held == HeldFor(S, i, t)
                cover == Covering(S, i, held, stop)
                gaps == Gaps(S, i, held, stop)
                over == Overlapped(S, i, held, stop)
                shut == Outranked(S, i, Older(S, i, t))
                rest == Repeat(S, i, over)
                Q == Retire(StoreInPieces(S, n, i, gaps, over), shut, i, t, close)
    <3>1. Compete(S, n, i, t, close) =
            CASE cover # {} -> {Outcome(Repeat(S, i, {j}), n) : j \in Oldest(S, cover)}
              [] cover = {} /\ gaps = {} -> {Outcome(rest, n)}
              [] cover = {} /\ gaps # {} -> {Outcome(Q, n + 1)}
      BY Zenon DEF Compete
    <3>2. \/ o \in {Outcome(Repeat(S, i, {j}), n) : j \in Oldest(S, cover)}
          \/ o = Outcome(rest, n) \/ o = Outcome(Q, n + 1)
      <4>. HIDE DEF cover, gaps, rest, Q, Kept1, Kept2, Kept3
      <4>. QED
        BY <2>1, <3>1
    <3>3. o = Outcome(rest, n) => Kept1
      <4>1. Outcome(rest, n).rows = rest
        BY DEF Outcome
      <4>. QED
        BY <4>1, Zenon
    <3>4. o = Outcome(Q, n + 1) => Kept3
      <4>1. Outcome(Q, n + 1).rows = Q
        BY DEF Outcome
      <4>. QED
        BY <4>1, Zenon
    <3>. HIDE DEF cover, rest, Q, Kept1, Kept2, Kept3
    <3>. QED
      BY <2>0, <3>2, <3>3, <3>4
  <2>2. ASSUME NEW seen, o \in ExtendBackwards(S, n, i, t, seen)
        PROVE  Kept1 \/ Kept2 \/ Kept3
    <3>. DEFINE held == Held(S, i, t)
                stop == EarlierEnd(S, i, held, seen)
                cover == Covering(S, i, held, stop)
                gaps == Gaps(S, i, held, stop)
                over == Overlapped(S, i, held, stop)
                rest == Repeat(S, i, over)
                R == StoreInPieces(S, n, i, gaps, over)
    <3>1. ExtendBackwards(S, n, i, t, seen) =
            CASE cover # {} -> {Outcome(Repeat(S, i, {j}), n) : j \in Oldest(S, cover)}
              [] cover = {} /\ gaps = {} -> {Outcome(rest, n)}
              [] cover = {} /\ gaps # {} -> {Outcome(R, n + 1)}
      BY Zenon DEF ExtendBackwards
    <3>2. \/ o \in {Outcome(Repeat(S, i, {j}), n) : j \in Oldest(S, cover)}
          \/ o = Outcome(rest, n) \/ o = Outcome(R, n + 1)
      <4>. HIDE DEF cover, gaps, rest, R, Kept1, Kept2, Kept3
      <4>. QED
        BY <2>2, <3>1
    <3>3. o = Outcome(rest, n) => Kept1
      <4>1. Outcome(rest, n).rows = rest
        BY DEF Outcome
      <4>. QED
        BY <4>1, Zenon
    <3>4. o = Outcome(R, n + 1) => Kept2
      <4>1. Outcome(R, n + 1).rows = R
        BY DEF Outcome
      <4>. QED
        BY <4>1, Zenon
    <3>. HIDE DEF cover, rest, R, Kept1, Kept2, Kept3
    <3>. QED
      BY <2>0, <3>2, <3>3, <3>4
  <2>3. \/ o \in Compete(S, n, i, t, close)
        \/ \E seen : o \in ExtendBackwards(S, n, i, t, seen)
        \/ \E live : o \in {Outcome(Repeat(S, i, {j}), n) : j \in Oldest(S, live)}
    <3>. DEFINE live     == LiveSame(S, i, t)
                expiring == i.exp # Forever /\ i.user
                before   == \A j \in live : IsAfter(S[j], i)
                whole    == Gaps(S, i, HeldFor(S, i, t), i.to) = {}
    <3>1. ApplyPositive(S, n, i, t, close) =
            CASE live # {} /\ before /\ ~ expiring -> ExtendBackwards(S, n, i, t, live)
              [] live # {} /\ (expiring \/ (~ before /\ whole)) ->
                    {Outcome(Repeat(S, i, {j}), n) : j \in Oldest(S, live)}
              [] live = {} \/ (~ before /\ ~ expiring /\ ~ whole) ->
                    Compete(S, n, i, t, close)
      BY Zenon DEF ApplyPositive
    <3>2. before \in BOOLEAN /\ whole \in BOOLEAN
      OBVIOUS
    <3>. HIDE DEF live, expiring, before, whole
    <3>. QED
      BY <3>1, <3>2
  <2>. HIDE DEF Kept1, Kept2, Kept3
  <2>. QED
    BY <2>0, <2>1, <2>2, <2>3
<1>2. CASE Kept1
  BY <1>2, RepeatAnswers
<1>3. CASE Kept2
  BY <1>3, StoreAnswers
<1>4. CASE Kept3
  <2>1. PICK gaps, over : o.rows = Retire(StoreInPieces(S, n, i, gaps, over),
                                          Outranked(S, i, Older(S, i, t)), i, t, close)
    BY <1>4
  <2>2. k \in Answering(StoreInPieces(S, n, i, gaps, over), i, t)
    BY StoreAnswers
  <2>. QED
    BY <2>1, <2>2, RetireAnswers
<1>. HIDE DEF Kept1, Kept2, Kept3
<1>. QED
  BY <1>1, <1>2, <1>3, <1>4

(* What nothing answers competes: it is stored where its writer stands, or *)
(* the value is held from an instant to come that its date may mean.       *)
LEMMA CompeteAnswers ==
    ASSUME NoneSupersedesItself, NEW S, NEW n \in Nat, Table(S, n), NEW i, NEW t \in Time, Tells(i, t),
           i.from <= t, t < i.to, Answering(S, i, t) = {},
           NEW close, NEW o \in Compete(S, n, i, t, close)
    PROVE  \/ \E k \in Answering(o.rows, i, t) : k \notin DOMAIN S /\ o.rows[k].scope = i.scope
           \/ \E k \in Newer(S, i, t) : S[k].from <= t
           \/ \E k \in HeldFor(S, i, t) : t < S[k].from /\ ~ IsAfter(S[k], i)
<1>. DEFINE stop == CompetesTo(S, i, t)
            held == HeldFor(S, i, t)
            cover == Covering(S, i, held, stop)
            gaps == Gaps(S, i, held, stop)
            over == Overlapped(S, i, held, stop)
            shut == Outranked(S, i, Older(S, i, t))
            R == StoreInPieces(S, n, i, gaps, over)
<1>1. Compete(S, n, i, t, close) =
        CASE cover # {} -> {Outcome(Repeat(S, i, {k}), n) : k \in Oldest(S, cover)}
          [] cover = {} /\ gaps = {} -> {Outcome(Repeat(S, i, over), n)}
          [] cover = {} /\ gaps # {} ->
                {Outcome(Retire(R, shut, i, t, close), n + 1)}
  BY Zenon DEF Compete, CompetesTo
<1>2. i \in Claim /\ t \in Nat /\ stop \in Ends /\ stop \in Nat /\ stop <= Forever
  BY CompetesToType, EndsAreNaturals DEF Tells
<1>3. CASE ~ (t < stop)
  <2>. HIDE DEF stop
  <2>. QED
    BY <1>2, <1>3, StopIsNewer DEF stop
<1>4. ASSUME NEW k \in held, HoldsFrom(S[k], i) <= t, t < S[k].to
      PROVE  t < S[k].from /\ ~ IsAfter(S[k], i)
  <2>1. k \in FindByValue(S, i) /\ Sees(i.scope, S[k].scope) /\ Believed(S[k], t) /\ ~ Hidden(S[k], t)
    BY DEF HeldFor, Held
  <2>2. ~ (S[k].from <= t)
    BY <1>4, <2>1 DEF Answering, IsLive, InForce
  <2>3. S[k].from \in Nat
    BY <2>1, EndsAreNaturals DEF FindByValue, Table, Claim
  <2>. QED
    BY <1>2, <1>4, <2>2, <2>3 DEF HoldsFrom
<1>5. CASE t < stop /\ cover # {}
  <2>1. PICK k \in cover : TRUE
    BY <1>5
  <2>2. k \in held /\ ~ IsAfter(S[k], i) /\ (S[k].to = Forever \/ S[k].to >= stop)
    BY DEF Covering
  <2>3. S[k].from \in Nat /\ S[k].to \in Nat /\ i.from \in Nat /\ Forever \in Nat
    BY <1>2, <2>2, EndsAreNaturals DEF HeldFor, Held, FindByValue, Table, Claim
  <2>4. t < S[k].to /\ HoldsFrom(S[k], i) <= t
    BY <1>2, <1>5, <2>2, <2>3 DEF HoldsFrom, Earlier
  <2>. QED
    BY <1>4, <2>2, <2>4
<1>6. CASE t < stop /\ cover = {} /\ \E k \in held : HoldsFrom(S[k], i) <= t /\ t < S[k].to
  BY <1>4, <1>6
<1>7. CASE t < stop /\ cover = {} /\ ~ \E k \in held : HoldsFrom(S[k], i) <= t /\ t < S[k].to
  <2>1. PICK g \in gaps : g.lo <= t /\ t < g.hi
    <3>. HIDE DEF held, stop
    <3>. QED
      BY <1>2, <1>7, HeldOrInPart
  <2>2. Parts(gaps)
    <3>. HIDE DEF held, stop
    <3>. QED
      BY <1>2, GapsAreParts
  <2>. DEFINE k == <<n + 1, g.lo>>
              Q == Retire(R, shut, i, t, close)
  <2>3. /\ k \in Holds(R, i, t, t) /\ k \notin DOMAIN S
        /\ R[k].from = g.lo /\ R[k].scope = i.scope
    <3>. HIDE DEF held, stop, cover, gaps, over
    <3>. QED
      BY <1>2, <2>1, <2>2, PieceHolds
  <2>4. k \in Answering(R, i, t)
    <3>. HIDE DEF R, k
    <3>1. k \in Held(R, i, t) /\ t < R[k].to
      BY <2>3 DEF Holds
    <3>. QED
      BY <2>1, <2>3, <3>1 DEF Held, Answering, IsLive, InForce
  <2>5. k \in Answering(Q, i, t) /\ Q[k] = R[k]
    <3>. HIDE DEF held, stop, cover, gaps, over, k
    <3>. QED
      BY <2>3, <2>4, RetireAnswers
  <2>6. o.rows = Q
    <3>. HIDE DEF held, stop, cover, over, shut, R, Q
    <3>1. gaps # {}
      BY <2>1
    <3>. HIDE DEF gaps
    <3>2. o = Outcome(Q, n + 1)
      BY <1>1, <1>7, <3>1 DEF Q
    <3>. QED
      BY <3>2 DEF Outcome
  <2>. HIDE DEF Q, R, k
  <2>. QED
    BY <2>3, <2>5, <2>6
<1>. HIDE DEF stop, cover
<1>. QED
  BY <1>3, <1>5, <1>6, <1>7

(* A reader sees what the slot it writes to sees. *)
LEMMA SlotSees ==
    ASSUME NEW s \in Scope, NEW p, NEW l, Sees(SlotScope(p, s), l)
    PROVE  Sees(s, l)
<1>1. CASE SlotScope(p, s) = s
  BY <1>1
<1>2. CASE SlotScope(p, s) # s
  <2>. DEFINE u == [s EXCEPT !.project = Unset]
  <2>1. Sees(u, l)
    BY <1>2 DEF SlotScope
  <2>2. u \in Ancestors(s)
    BY DEF Ancestors
  <2>3. Ancestors(u) \subseteq Ancestors(s)
    BY DEF Ancestors, Scope
  <2>. QED
    BY <2>1, <2>2, <2>3 DEF Sees
<1>. QED
  BY <1>1, <1>2

(* Nothing shadows what is filed where its writer stands. *)
LEMMA OwnIsRead ==
    ASSUME NEW S, NEW s \in Scope, NEW p, NEW k \in Live(S, s),
           S[k].pred = p, S[k].scope = SlotScope(p, s)
    PROVE  k \in Read(S, s)
<1>. DEFINE level  == SlotScope(p, s)
            levels == Narrower(s, level)
<1>1. SlotKeys(s, p, levels) = {}
  <2>1. DOMAIN Chain(s) = 1 .. 6
    BY ChainLevels
  <2>2. Chain(s)[1] = s
    BY DEF Chain
  <2>3. CASE level = s
    <3>1. \A j \in DOMAIN Chain(s) : ~ (j < 1)
      BY <2>1
    <3>2. 1 \in DOMAIN Chain(s)
      BY <2>1
    <3>3. levels = {}
      BY <2>2, <2>3, <3>1, <3>2 DEF Narrower
    <3>. QED
      BY <3>3 DEF SlotKeys
  <2>4. CASE level # s
    <3>1. p \in Global /\ level = [s EXCEPT !.project = Unset] /\ s.project # Unset
      BY <2>4 DEF SlotScope, Scope
    <3>2. /\ Chain(s)[4] = level
          /\ Chain(s)[1].project = s.project
          /\ Chain(s)[2].project = s.project
          /\ Chain(s)[3].project = s.project
      BY <3>1 DEF Chain, Scope
    <3>3. 4 \in DOMAIN Chain(s)
      BY <2>1
    <3>4. \A m \in levels : \E j \in 1 .. 6 : Chain(s)[j] = m /\ j < 4
      <4>. HIDE DEF level
      <4>. QED
        BY <2>1, <3>2, <3>3 DEF Narrower
    <3>5. \A m \in levels : m.project # Unset
      <4>. SUFFICES ASSUME NEW m \in levels
                    PROVE  m.project # Unset
        OBVIOUS
      <4>1. PICK j \in 1 .. 6 : Chain(s)[j] = m /\ j < 4
        BY <3>4
      <4>2. j = 1 \/ j = 2 \/ j = 3
        BY <4>1
      <4>. QED
        BY <3>1, <3>2, <4>1, <4>2
    <3>. HIDE DEF levels
    <3>. QED
      BY <3>1, <3>5 DEF SlotKeys
  <2>. QED
    BY <2>3, <2>4
<1>2. Occupied(S, SlotKeys(s, p, levels), levels) = {}
  BY <1>1 DEF Occupied
<1>. HIDE DEF levels
<1>3. k \notin Shadowed(S, s)
  BY <1>2 DEF Shadowed, levels
<1>. QED
  BY <1>3 DEF Read

(* What remember() is told of the present is what a read at its scope      *)
(* answers, whatever the table holds and however often it was said before: *)
(* where no predicate supersedes itself, and but for a repeat of what a    *)
(* narrower level overrides, a later value that has begun, and a value on  *)
(* record from an instant to come that the date given may mean.            *)
THEOREM SaidIsRead == NoneSupersedesItself => (Spec => []ReadsWhatWasSaid)
<1>. SUFFICES ASSUME NoneSupersedesItself
              PROVE  Spec => []ReadsWhatWasSaid
  OBVIOUS
<1>1. ASSUME TypeOK, NEW s \in Asserted, NEW close \in Closures
      PROVE  LET i == Canonical(Stamped(s, now), now)
             IN  \A o \in Apply(claims, writes, i, now, now, close) :
                    \/ \E k \in Read(o.rows, s.scope) : Says(o.rows[k], s)
                    \/ \E k \in Shadowed(o.rows, s.scope) \cap DOMAIN claims : Says(claims[k], s)
                    \/ \E k \in Newer(claims, i, now) : claims[k].from <= now
                    \/ \E k \in HeldFor(claims, i, now) :
                          now < claims[k].from /\ ~ IsAfter(claims[k], i)
  <2>. DEFINE d == Stamped(s, now)
              i == Canonical(d, now)
  <2>0. /\ s \in Statements /\ ~ s.neg /\ s.val # NoValue
        /\ now < d.exp /\ d.from <= now /\ now < d.to
    BY DEF Asserted
  <2>1. s \in Statement /\ s.inv = Forever /\ s.scope \in Scope
    BY <2>0, LedgerAssumption DEF Statement
  <2>2. now \in Time /\ now \in Nat /\ writes \in Nat /\ Table(claims, writes)
    BY <1>1, TypeOKIsTable DEF TypeOK
  <2>3. /\ d \in Claim /\ d.neg = s.neg /\ d.val = s.val /\ d.exp = s.exp /\ d.inv = s.inv
        /\ d.pred = s.pred /\ d.scope = s.scope /\ d.to = s.to
    BY <2>0, <2>1, <2>2, StampedIsClaim DEF Stamped, Statement
  <2>. HIDE DEF d
  <2>4. /\ i \in Claim /\ i.neg = d.neg /\ i.val = d.val /\ i.exp = d.exp /\ i.inv = d.inv
        /\ i.rec = Earlier(d.rec, now) /\ i.scope = SlotScope(d.pred, d.scope) /\ i.pred = d.pred
        /\ i.from = d.from /\ i.to = d.to
    BY <2>2, <2>3, CanonicalIsClaim DEF Canonical, Claim
  <2>5. d.rec \in Nat
    BY <2>3, EndsAreNaturals DEF Claim
  <2>. HIDE DEF i
  <2>6. Tells(i, now) /\ i.from <= now /\ now < i.to
    BY <2>0, <2>1, <2>2, <2>3, <2>4, <2>5 DEF Tells, Earlier
  <2>7. Canonical(i, now) = i
    <3>1. SlotScope(i.pred, i.scope) = i.scope
      BY <2>3, <2>4 DEF SlotScope, Claim, Scope
    <3>2. Earlier(i.rec, now) = i.rec
      BY <2>2, <2>4, <2>5 DEF Earlier
    <3>. QED
      BY <2>4, <3>1, <3>2 DEF Canonical, Claim
  <2>8. Apply(claims, writes, i, now, now, close) = ApplyPositive(claims, writes, i, now, close)
    BY <2>0, <2>3, <2>4, <2>7 DEF Apply
  <2>9. ASSUME NEW S, NEW k \in Answering(S, i, now)
        PROVE  k \in Live(S, s.scope) /\ Says(S[k], s)
    <3>1. /\ k \in DOMAIN S /\ ValueKey(S[k]) = ValueKey(i) /\ Sees(i.scope, S[k].scope)
          /\ IsLive(S[k], now, now) /\ ~ Hidden(S[k], now)
      BY DEF Answering, FindByValue
    <3>2. Sees(s.scope, S[k].scope)
      BY <2>1, <2>3, <2>4, <3>1, SlotSees
    <3>3. Says(S[k], s)
      BY <2>3, <2>4, <3>1 DEF Says, ValueKey
    <3>. QED
      BY <3>1, <3>2, <3>3 DEF Live
  <2>10. ASSUME NEW o \in ApplyPositive(claims, writes, i, now, close)
         PROVE  \/ \E k \in Read(o.rows, s.scope) : Says(o.rows[k], s)
                \/ \E k \in Shadowed(o.rows, s.scope) \cap DOMAIN claims : Says(claims[k], s)
                \/ \E k \in Newer(claims, i, now) : claims[k].from <= now
                \/ \E k \in HeldFor(claims, i, now) :
                      now < claims[k].from /\ ~ IsAfter(claims[k], i)
    <3>1. CASE Answering(claims, i, now) # {}
      <4>1. PICK k \in Answering(claims, i, now) : TRUE
        BY <3>1
      <4>2. k \in Answering(o.rows, i, now)
        BY <2>2, <2>6, PositiveAnswers
      <4>3. /\ k \in Live(o.rows, s.scope) /\ Says(o.rows[k], s)
            /\ k \in DOMAIN claims /\ Says(claims[k], s)
        BY <2>9, <4>2 DEF Answering, FindByValue
      <4>. QED
        BY <4>3 DEF Read
    <3>2. CASE Answering(claims, i, now) = {}
      <4>1. LiveSame(claims, i, now) = {}
        BY <3>2 DEF LiveSame, Answering
      <4>2. o \in Compete(claims, writes, i, now, close)
        BY <4>1 DEF ApplyPositive
      <4>3. CASE \E k \in Answering(o.rows, i, now) : o.rows[k].scope = i.scope
        <5>1. PICK k \in Answering(o.rows, i, now) : o.rows[k].scope = i.scope
          BY <4>3
        <5>2. k \in Live(o.rows, s.scope) /\ Says(o.rows[k], s)
          BY <2>9
        <5>3. o.rows[k].pred = s.pred /\ o.rows[k].scope = SlotScope(s.pred, s.scope)
          BY <2>3, <2>4, <5>1, <5>2 DEF Says
        <5>4. k \in Read(o.rows, s.scope)
          BY <2>1, <5>2, <5>3, OwnIsRead
        <5>. QED
          BY <5>2, <5>4
      <4>. QED
        BY <2>2, <2>6, <3>2, <4>2, <4>3, CompeteAnswers
    <3>. QED
      BY <3>1, <3>2
  <2>. QED
    BY <2>8, <2>10 DEF i, d
<1>2. TypeOK => ReadsWhatWasSaid
  BY <1>1, Zenon DEF ReadsWhatWasSaid
<1>. QED
  BY <1>2, TypeCorrect, PTL

=============================================================================
