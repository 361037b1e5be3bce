----------------------------- MODULE TurnsProofs -----------------------------
(***************************************************************************)
(* Theorems of Turns, for every value of its constants: what a claim cites *)
(* and how often, what is not undone, that the calls write the book of     *)
(* Ledger, and what a turn that is said again finds.                       *)
(***************************************************************************)
EXTENDS Turns, ReconcileProofs, FiniteSetTheorems

-----------------------------------------------------------------------------
(* The invariant                                                           *)

(* What may be said of the one slot there is.                              *)
Vals == Values \cup {Says[x].val : x \in Texts}

Filed(c) == /\ c.pred = Topic /\ c.scope = Here /\ c.conf = 1
            /\ c.exp = Forever /\ c.val \in Vals

Queues == UNION {[X -> Claim] : X \in SUBSET Ids}

InFlight ==
    [stage  : {"found", "stored", "read"},
     turn   : Nat,
     text   : Texts,
     ts     : Time,
     t      : Time,
     again  : BOOLEAN,
     queued : Queues,
     says   : SUBSET {SaidAs(v, b, ts, Forever) : v \in Vals, b \in BOOLEAN, ts \in Time},
     ends   : SUBSET Ids]

Typed ==
    /\ writes \in Nat /\ Table(claims, writes)
    /\ \A k \in DOMAIN claims : Filed(claims[k])
    /\ DOMAIN heard = DOMAIN claims /\ \A k \in DOMAIN heard : IsABag(heard[k])
    /\ saved \in Nat /\ DOMAIN turns \subseteq 1 .. saved /\ turns \in [DOMAIN turns -> Turn]
    /\ now \in Time
    /\ call \in [Calls -> {Idle} \cup InFlight]
    /\ \A c \in Calls : call[c] # Idle => call[c].turn <= saved

(* How often a bag has a turn.                                            *)
Copied(e, B) == IF BagIn(e, B) THEN B[e] ELSE 0

(* The calls that are at a turn, whether they will count it or not.        *)
AtTurn(e) == {c \in Calls : call[c] # Idle /\ call[c].turn = e}

(* Every call at a turn was told it, and so was every count of it, unless  *)
(* it was read again while another call was at it.                         *)
Counting ==
    \A e \in DOMAIN turns : ~ turns[e].raced =>
        /\ Cardinality(AtTurn(e)) <= turns[e].told
        /\ \A k \in DOMAIN claims :
              Copied(e, heard[k]) + Cardinality(AtTurn(e)) <= turns[e].told

IInv == Typed /\ CitesStored /\ Counting

-----------------------------------------------------------------------------
(* Bags                                                                    *)

(* One turn more.                                                          *)
LEMMA OneMore ==
    ASSUME NEW B, IsABag(B), NEW e
    PROVE  /\ IsABag(B (+) SetToBag({e}))
           /\ DOMAIN (B (+) SetToBag({e})) = DOMAIN B \cup {e}
           /\ \A d : Copied(d, B (+) SetToBag({e})) = Copied(d, B) + IF d = e THEN 1 ELSE 0
<1>. DEFINE C == B (+) SetToBag({e})
<1>1. DOMAIN SetToBag({e}) = {e} /\ SetToBag({e})[e] = 1
  BY DEF SetToBag
<1>2. \A d \in DOMAIN B : B[d] \in Nat /\ B[d] > 0
  BY DEF IsABag
<1>3. DOMAIN C = DOMAIN B \cup {e}
  BY <1>1 DEF (+)
<1>4. \A d \in DOMAIN C : C[d] = (IF d \in DOMAIN B THEN B[d] ELSE 0) + IF d = e THEN 1 ELSE 0
  BY <1>1 DEF (+)
<1>5. C = [d \in DOMAIN C |-> C[d]]
  BY DEF (+)
<1>. HIDE DEF C
<1>6. IsABag(C)
  BY <1>2, <1>3, <1>4, <1>5 DEF IsABag
<1>7. ASSUME NEW d
      PROVE  Copied(d, C) = Copied(d, B) + IF d = e THEN 1 ELSE 0
  BY <1>2, <1>3, <1>4 DEF Copied, BagIn, BagToSet
<1>. QED
  BY <1>3, <1>6, <1>7 DEF C

LEMMA SingleBag ==
    ASSUME NEW e
    PROVE  /\ IsABag(SetToBag({e})) /\ DOMAIN SetToBag({e}) = {e}
           /\ \A d : Copied(d, SetToBag({e})) = IF d = e THEN 1 ELSE 0
  BY DEF SetToBag, IsABag, Copied, BagIn, BagToSet

LEMMA NoBag == /\ IsABag(EmptyBag) /\ DOMAIN EmptyBag = {}
               /\ \A d : Copied(d, EmptyBag) = 0
  BY DEF EmptyBag, SetToBag, IsABag, Copied, BagIn, BagToSet

LEMMA CopiesAreMany ==
    ASSUME NEW B, IsABag(B), NEW e
    PROVE  Copied(e, B) \in Nat
  BY DEF IsABag, Copied, BagIn, BagToSet

-----------------------------------------------------------------------------
(* What is said, and the table it leaves                                   *)

LEMMA ConstantsAre ==
    /\ Topic \in Predicates /\ Here \in Scope /\ SlotScope(Topic, Here) = Here
    /\ Vals \subseteq Values \cup {NoValue}
    /\ \A x \in Texts : Says[x].val \in Vals /\ Says[x].neg \in BOOLEAN
    /\ \A v \in Values : v \in Vals
    /\ IsFiniteSet(Calls)
  BY TurnsAssumption DEF TurnsAssumption, Vals

LEMMA SaidIsClaim ==
    ASSUME NEW v \in Vals, NEW b \in BOOLEAN, NEW ts \in Time, NEW t \in Time
    PROVE  SaidAs(v, b, ts, t) \in Claim /\ Filed(SaidAs(v, b, ts, t))
<1>1. Forever \in Ends /\ 0 \in Nat /\ 1 \in Nat /\ v \in Values \cup {NoValue}
  BY EndsAreNaturals, ConstantsAre
<1>. QED
  BY <1>1, ConstantsAre DEF SaidAs, Claim, Filed

LEMMA StatementIs ==
    \A x, ts : Statement(x, ts) = SaidAs(Says[x].val, Says[x].neg, ts, Forever)
  BY Zenon DEF Statement

(* A claim of another instant is otherwise the same.                       *)
LEMMA AsOfIs ==
    ASSUME NEW v, NEW b, NEW ts, NEW r, NEW t
    PROVE  AsOf(SaidAs(v, b, ts, r), t) = SaidAs(v, b, ts, t)
<1>. DEFINE no   == FALSE
            one  == 1
            zero == 0
            s    == SaidAs(v, b, ts, r)
            q    == [pred |-> Topic, val |-> v, neg |-> b, scope |-> Here, from |-> ts,
                     width |-> zero, to |-> Forever, rec |-> t, inv |-> Forever,
                     conf |-> one, exp |-> Forever, user |-> no]
<1>1. s = [pred |-> Topic, val |-> v, neg |-> b, scope |-> Here, from |-> ts, width |-> zero,
           to |-> Forever, rec |-> r, inv |-> Forever, conf |-> one, exp |-> Forever,
           user |-> no]
  BY Zenon DEF SaidAs
<1>2. q = SaidAs(v, b, ts, t)
  BY Zenon DEF SaidAs
<1>. HIDE DEF s, no, one, zero
<1>3. [s EXCEPT !.rec = t] = q
  BY <1>1
<1>. QED
  BY <1>2, <1>3, Zenon DEF AsOf, s

LEMMA EndingIs ==
    ASSUME NEW k \in DOMAIN claims, claims[k] \in Claim, Filed(claims[k]), NEW ts, NEW t
    PROVE  Ending(k, ts, t) = SaidAs(claims[k].val, TRUE, ts, t)
<1>. DEFINE c == claims[k]
            d == AsOf(c, t)
<1>1. d = [pred |-> c.pred, val |-> c.val, neg |-> c.neg, scope |-> c.scope, from |-> c.from,
           width |-> c.width, to |-> c.to, rec |-> t, inv |-> c.inv, conf |-> c.conf,
           exp |-> c.exp, user |-> c.user]
  BY DEF AsOf, Claim
<1>2. Ending(k, ts, t) = [d EXCEPT !.neg = TRUE, !.from = ts, !.width = 0,
                                   !.to = Forever, !.inv = Forever, !.user = FALSE]
  BY DEF Ending
<1>. HIDE DEF d
<1>3. Ending(k, ts, t) = [pred |-> c.pred, val |-> c.val, neg |-> TRUE, scope |-> c.scope,
           from |-> ts, width |-> 0, to |-> Forever, rec |-> t, inv |-> Forever,
           conf |-> c.conf, exp |-> c.exp, user |-> FALSE]
  BY <1>1, <1>2
<1>. QED
  BY <1>3 DEF SaidAs, Filed

(* What a call brings is said of the slot, from a turn that is stored.     *)
LEMMA CandidatesAre ==
    ASSUME Typed, NEW c \in Calls, call[c] # Idle, NEW i \in Candidates(c)
    PROVE  /\ StillStored(c)
           /\ \E v \in Vals, b \in BOOLEAN, ts \in Time : i = SaidAs(v, b, ts, call[c].t)
<1>. DEFINE p == call[c]
<1>1. p \in InFlight
  BY DEF Typed
<1>. HIDE DEF p
<1>2. p.ts \in Time /\ p.says \in SUBSET {SaidAs(v, b, ts, Forever) : v \in Vals, b \in BOOLEAN, ts \in Time}
  BY <1>1 DEF InFlight
<1>3. /\ StillStored(c)
      /\ \/ \E s \in p.says : i = AsOf(s, p.t)
         \/ \E k \in DOMAIN claims : i = Ending(k, p.ts, p.t)
  BY DEF Candidates, LiveAt, p
<1>4. ASSUME NEW s \in p.says, i = AsOf(s, p.t)
      PROVE  \E v \in Vals, b \in BOOLEAN, ts \in Time : i = SaidAs(v, b, ts, p.t)
  <2>1. PICK v \in Vals, b \in BOOLEAN, ts \in Time : s = SaidAs(v, b, ts, Forever)
    BY <1>2
  <2>2. i = SaidAs(v, b, ts, p.t)
    <3>1. AsOf(SaidAs(v, b, ts, Forever), p.t) = SaidAs(v, b, ts, p.t)
      BY AsOfIs
    <3>. QED
      BY <1>4, <2>1, <3>1, Zenon
  <2>. QED
    BY <2>2
<1>5. ASSUME NEW k \in DOMAIN claims, i = Ending(k, p.ts, p.t)
      PROVE  \E v \in Vals, b \in BOOLEAN, ts \in Time : i = SaidAs(v, b, ts, p.t)
  <2>1. claims[k] \in Claim /\ Filed(claims[k])
    BY DEF Typed, Table
  <2>2. claims[k].val \in Vals
    BY <2>1 DEF Filed
  <2>3. i = SaidAs(claims[k].val, TRUE, p.ts, p.t)
    BY <1>5, <2>1, EndingIs
  <2>4. PICK b \in BOOLEAN : b = TRUE
    OBVIOUS
  <2>5. i = SaidAs(claims[k].val, b, p.ts, p.t)
    BY <2>3, <2>4
  <2>. QED
    BY <1>2, <2>2, <2>5
<1>. QED
  BY <1>3, <1>4, <1>5 DEF p

(* The table after a write, told by a user or not.                         *)
Grown(rows, n, user) ==
    /\ n \in Nat /\ Table(rows, n)
    /\ \A k \in DOMAIN rows : Filed(rows[k])
    /\ DOMAIN claims \subseteq DOMAIN rows
    /\ \A k \in DOMAIN claims :
          /\ rows[k].user = claims[k].user
          /\ rows[k].to <= claims[k].to
          /\ rows[k].inv = claims[k].inv
    /\ \A k \in DOMAIN rows \ DOMAIN claims : k[1] > writes /\ rows[k].user = user

LEMMA ApplyGrows ==
    ASSUME Typed, NEW i \in Claim, Filed(i), NEW t \in Time,
           NEW o \in Apply(claims, writes, i, t, now, "ended")
    PROVE  Grown(o.rows, o.writes, i.user)
<1>. DEFINE c == Canonical(i, t)
<1>1. "ended" \in Closures /\ writes \in Nat /\ Table(claims, writes)
  BY DEF Closures, Typed
<1>2. Kept(claims, writes, o, "ended")
  BY <1>1, ApplyKeeps
<1>3. Stems(claims, writes, o, c)
  BY <1>1, ApplyStems
<1>4. c = [i EXCEPT !.scope = Here, !.rec = Earlier(i.rec, t)]
  BY ConstantsAre DEF Canonical, Filed
<1>5. Filed(c) /\ c.user = i.user
  BY <1>4 DEF Filed, Claim
<1>. HIDE DEF c
<1>6. /\ o.writes \in Nat /\ Table(o.rows, o.writes)
      /\ Updated(claims, o.rows, writes, "ended")
  BY <1>2 DEF Kept
<1>7. \A k \in DOMAIN claims : ClosedBy(claims[k], o.rows[k], "ended") /\ k \in DOMAIN o.rows
  BY <1>6 DEF Updated
<1>8. \A k \in DOMAIN o.rows \ DOMAIN claims : SaidBy(o.rows[k], c) /\ k[1] = writes + 1
  BY <1>3, <1>6 DEF Stems, StemsFrom, Updated
<1>9. ASSUME NEW k \in DOMAIN claims
      PROVE  /\ Filed(o.rows[k]) /\ o.rows[k].user = claims[k].user
             /\ o.rows[k].to <= claims[k].to /\ o.rows[k].inv = claims[k].inv
  <2>1. ClosedBy(claims[k], o.rows[k], "ended") /\ k \in DOMAIN o.rows /\ Filed(claims[k])
    BY <1>7 DEF Typed
  <2>2. o.rows[k].exp = claims[k].exp
    BY <1>3, <1>5, <2>1 DEF Stems, StemsFrom, Filed
  <2>. QED
    BY <2>1, <2>2 DEF ClosedBy, Filed
<1>10. ASSUME NEW k \in DOMAIN o.rows \ DOMAIN claims
       PROVE  Filed(o.rows[k]) /\ o.rows[k].user = i.user /\ k[1] > writes
  BY <1>1, <1>5, <1>8 DEF SaidBy, Filed
<1>. QED
  BY <1>6, <1>7, <1>9, <1>10 DEF Grown

-----------------------------------------------------------------------------
(* The calls                                                               *)

LEMMA NotIdle == \A q \in InFlight : q # Idle
<1>. TAKE q \in InFlight
<1>1. q.stage # "idle"
  BY DEF InFlight
<1>2. Idle.stage = "idle"
  BY DEF Idle
<1>. QED
  BY <1>1, <1>2

LEMMA RowsAreQueue ==
    ASSUME Typed, NEW ids \in SUBSET DOMAIN claims
    PROVE  Rows(ids) \in Queues
<1>1. ids \in SUBSET Ids /\ \A k \in ids : claims[k] \in Claim
  BY DEF Typed, Table
<1>2. Rows(ids) \in [ids -> Claim]
  BY <1>1 DEF Rows
<1>. QED
  BY <1>1, <1>2 DEF Queues

LEMMA HeardIs ==
    ASSUME Typed, NEW stage \in {"found", "stored", "read"}, NEW e \in Nat, NEW x \in Texts,
           NEW ts \in Time, NEW again \in BOOLEAN
    PROVE  Heard(stage, e, x, ts, again) \in InFlight /\ Heard(stage, e, x, ts, again).turn = e
<1>1. Rows({}) \in Queues /\ now \in Time
  BY RowsAreQueue DEF Typed
<1>. QED
  BY <1>1 DEF Heard, InFlight

(* A call that changes is the only one that does.                          *)
LEMMA OneCallChanges ==
    ASSUME Typed, NEW c \in Calls, NEW q \in {Idle} \cup InFlight, call' = [call EXCEPT ![c] = q]
    PROVE  /\ call' \in [Calls -> {Idle} \cup InFlight]
           /\ call'[c] = q
           /\ \A d \in Calls : d # c => call'[d] = call[d]
  BY DEF Typed

LEMMA AtTurnChanges ==
    ASSUME Typed, NEW c \in Calls, NEW q \in {Idle} \cup InFlight, call' = [call EXCEPT ![c] = q],
           NEW e
    PROVE  /\ q # Idle /\ q.turn = e => AtTurn(e)' = AtTurn(e) \cup {c}
           /\ q = Idle \/ q.turn # e => AtTurn(e)' = AtTurn(e) \ {c}
  BY OneCallChanges DEF AtTurn

LEMMA AtTurnIsFinite == \A e : IsFiniteSet(AtTurn(e)) /\ Cardinality(AtTurn(e)) \in Nat
<1>. TAKE e
<1>1. AtTurn(e) \in SUBSET Calls
  BY DEF AtTurn
<1>2. IsFiniteSet(AtTurn(e))
  BY <1>1, ConstantsAre, FS_Subset, Zenon
<1>. QED
  BY <1>2, FS_CardinalityType

(* As many calls, and no more counted: nothing changes that was counted.   *)
LEMMA CountingStays ==
    ASSUME Counting,
           \A e \in DOMAIN turns' : e \in DOMAIN turns /\ turns'[e] = turns[e],
           turns \in [DOMAIN turns -> Turn],
           \A e \in DOMAIN turns' : AtTurn(e)' \in SUBSET AtTurn(e),
           \A e, k : k \in DOMAIN claims' =>
                \/ Copied(e, heard'[k]) = 0
                \/ k \in DOMAIN claims /\ Copied(e, heard'[k]) = Copied(e, heard[k]),
           \A k \in DOMAIN claims : IsABag(heard[k])
    PROVE  Counting'
<1>1. ASSUME NEW e \in DOMAIN turns', ~ turns'[e].raced
      PROVE  /\ Cardinality(AtTurn(e)') <= turns'[e].told
             /\ \A k \in DOMAIN claims' :
                   Copied(e, heard'[k]) + Cardinality(AtTurn(e)') <= turns'[e].told
  <2>. DEFINE m == Cardinality(AtTurn(e))
              n == Cardinality(AtTurn(e)')
              told == turns[e].told
  <2>1. e \in DOMAIN turns /\ turns'[e] = turns[e] /\ told \in Nat
    BY DEF Turn
  <2>2. m <= told /\ \A k \in DOMAIN claims : Copied(e, heard[k]) + m <= told
    BY <1>1, <2>1 DEF Counting
  <2>3. m \in Nat /\ n \in Nat /\ n <= m
    <3>1. IsFiniteSet(AtTurn(e)) /\ m \in Nat /\ AtTurn(e)' \in SUBSET AtTurn(e)
      BY AtTurnIsFinite
    <3>2. IsFiniteSet(AtTurn(e)') /\ n <= m
      BY <3>1, FS_Subset
    <3>. QED
      BY <3>1, <3>2, FS_CardinalityType
  <2>. HIDE DEF m, n, told
  <2>4. ASSUME NEW k \in DOMAIN claims'
        PROVE  Copied(e, heard'[k]) + n <= told
    <3>1. CASE Copied(e, heard'[k]) = 0
      BY <2>1, <2>2, <2>3, <3>1
    <3>2. CASE k \in DOMAIN claims /\ Copied(e, heard'[k]) = Copied(e, heard[k])
      <4>1. Copied(e, heard[k]) \in Nat
        BY <3>2, CopiesAreMany
      <4>. QED
        BY <2>1, <2>2, <2>3, <3>2, <4>1
    <3>. QED
      BY <3>1, <3>2
  <2>. QED
    BY <2>1, <2>2, <2>3, <2>4 DEF n, told
<1>2. \A e : Copied(e, heard)' = Copied(e, heard')
  BY DEF Copied, BagIn, BagToSet
<1>. QED
  BY <1>1 DEF Counting, Copied, BagIn, BagToSet

(* A call goes on at its turn, or gives up.                                *)
LEMMA CallKeeps ==
    ASSUME IInv, NEW c \in Calls, NEW q \in {Idle} \cup InFlight, call' = [call EXCEPT ![c] = q],
           q # Idle => call[c] # Idle /\ q.turn = call[c].turn,
           UNCHANGED <<claims, writes, now, turns, saved, heard>>
    PROVE  IInv'
<1>1. Typed
  BY DEF IInv
<1>2. Typed'
  <2>1. \A d \in Calls : call'[d] # Idle => call'[d].turn <= saved
    BY <1>1, OneCallChanges DEF Typed
  <2>. QED
    BY <1>1, <2>1, OneCallChanges DEF Typed, Table
<1>3. \A e : AtTurn(e)' \in SUBSET AtTurn(e)
  BY <1>1, AtTurnChanges DEF AtTurn
<1>4. Counting'
  BY <1>1, <1>3, CountingStays DEF IInv, Typed
<1>5. CitesStored'
  BY DEF IInv, CitesStored
<1>. QED
  BY <1>2, <1>4, <1>5 DEF IInv

(* A call that is in flight, changed in what it read.                      *)
LEMMA InFlightChanges ==
    ASSUME NEW p \in InFlight, NEW stage \in {"found", "stored", "read"}
    PROVE  /\ [p EXCEPT !.stage = stage] \in InFlight
           /\ [p EXCEPT !.stage = stage].turn = p.turn
           /\ \A Q \in Queues : /\ [p EXCEPT !.stage = stage, !.queued = Q] \in InFlight
                                /\ [p EXCEPT !.stage = stage, !.queued = Q].turn = p.turn
           /\ \A x \in Texts :
                 LET q == [p EXCEPT !.stage = stage, !.says = {Statement(x, p.ts)}]
                 IN  q \in InFlight /\ q.turn = p.turn
           /\ \A k \in Ids :
                 LET q == [p EXCEPT !.stage = stage, !.ends = {k}]
                 IN  q \in InFlight /\ q.turn = p.turn
           /\ \A e \in Nat :
                 LET q == [p EXCEPT !.stage = stage, !.turn = e]
                 IN  q \in InFlight /\ q.turn = e
<1>1. ASSUME NEW x \in Texts
      PROVE  {Statement(x, p.ts)} \in
                 SUBSET {SaidAs(v, b, ts, Forever) : v \in Vals, b \in BOOLEAN, ts \in Time}
  <2>1. Says[x].val \in Vals /\ Says[x].neg \in BOOLEAN /\ p.ts \in Time
    BY ConstantsAre DEF InFlight
  <2>2. Statement(x, p.ts) = SaidAs(Says[x].val, Says[x].neg, p.ts, Forever)
    BY StatementIs
  <2>. QED
    BY <2>1, <2>2
<1>. DEFINE r == [p EXCEPT !.stage = stage]
<1>2. r \in InFlight /\ r.turn = p.turn
  BY DEF InFlight
<1>3. /\ \A Q : [p EXCEPT !.stage = stage, !.queued = Q] = [r EXCEPT !.queued = Q]
      /\ \A E : [p EXCEPT !.stage = stage, !.ends = E] = [r EXCEPT !.ends = E]
      /\ \A S : [p EXCEPT !.stage = stage, !.says = S] = [r EXCEPT !.says = S]
      /\ \A e : [p EXCEPT !.stage = stage, !.turn = e] = [r EXCEPT !.turn = e]
  OBVIOUS
<1>. HIDE DEF r
<1>4. \A Q \in Queues : [r EXCEPT !.queued = Q] \in InFlight /\ [r EXCEPT !.queued = Q].turn = r.turn
  BY <1>2 DEF InFlight
<1>5. \A k \in Ids : [r EXCEPT !.ends = {k}] \in InFlight /\ [r EXCEPT !.ends = {k}].turn = r.turn
  BY <1>2 DEF InFlight
<1>6. \A e \in Nat : [r EXCEPT !.turn = e] \in InFlight /\ [r EXCEPT !.turn = e].turn = e
  BY <1>2 DEF InFlight
<1>7. ASSUME NEW x \in Texts
      PROVE  LET q == [r EXCEPT !.says = {Statement(x, p.ts)}]
             IN  q \in InFlight /\ q.turn = r.turn
  <2>. DEFINE said == {Statement(x, p.ts)}
  <2>1. said \in SUBSET {SaidAs(v, b, ts, Forever) : v \in Vals, b \in BOOLEAN, ts \in Time}
    BY <1>1
  <2>. HIDE DEF said
  <2>2. [r EXCEPT !.says = said] \in InFlight /\ [r EXCEPT !.says = said].turn = r.turn
    BY <1>2, <2>1 DEF InFlight
  <2>. QED
    BY <2>2 DEF said
<1>. QED
  BY <1>2, <1>3, <1>4, <1>5, <1>6, <1>7 DEF r

LEMMA RunningIs ==
    ASSUME Typed, NEW c \in Calls, call[c].stage # "idle"
    PROVE  call[c] # Idle /\ call[c] \in InFlight
<1>1. Idle.stage = "idle"
  BY DEF Idle
<1>. QED
  BY <1>1 DEF Typed

LEMMA RestatesKeeps ==
    ASSUME IInv, NEW c \in Calls, NEW k \in DOMAIN claims, Restates(c, k)
    PROVE  IInv'
<1>. DEFINE p == call[c]
            Q == Rows({k})
<1>1. Typed /\ p.stage = "stored"
  BY DEF IInv, Restates
<1>2. p # Idle /\ p \in InFlight
  BY <1>1, RunningIs
<1>3. Q \in Queues
  BY <1>1, RowsAreQueue
<1>4. \/ call' = [call EXCEPT ![c] = [p EXCEPT !.stage = "read", !.says = {Statement(p.text, p.ts)}]]
      \/ call' = [call EXCEPT ![c] = [p EXCEPT !.stage = "read", !.queued = Q]]
  BY DEF Restates
<1>5. UNCHANGED <<claims, writes, now, turns, saved, heard>>
  BY DEF Restates
<1>. HIDE DEF Q
<1>6. CASE call' = [call EXCEPT ![c] = [p EXCEPT !.stage = "read", !.says = {Statement(p.text, p.ts)}]]
  <2>. DEFINE q == [p EXCEPT !.stage = "read", !.says = {Statement(p.text, p.ts)}]
  <2>1. p.text \in Texts
    BY <1>2 DEF InFlight
  <2>2. q \in InFlight /\ q.turn = p.turn
    BY <1>2, <2>1, InFlightChanges
  <2>3. call' = [call EXCEPT ![c] = q]
    BY <1>6
  <2>. HIDE DEF q
  <2>. QED
    BY <1>2, <1>5, <2>2, <2>3, CallKeeps
<1>7. CASE call' = [call EXCEPT ![c] = [p EXCEPT !.stage = "read", !.queued = Q]]
  <2>. DEFINE q == [p EXCEPT !.stage = "read", !.queued = Q]
  <2>1. q \in InFlight /\ q.turn = p.turn
    BY <1>2, <1>3, InFlightChanges
  <2>2. call' = [call EXCEPT ![c] = q]
    BY <1>7
  <2>. HIDE DEF q
  <2>. QED
    BY <1>2, <1>5, <2>1, <2>2, CallKeeps
<1>. QED
  BY <1>4, <1>6, <1>7

LEMMA ExtractKeeps ==
    ASSUME IInv, NEW c \in Calls, Extract(c)
    PROVE  IInv'
<1>. DEFINE p == call[c]
            q == [p EXCEPT !.stage = "read", !.says = {Statement(p.text, p.ts)}]
<1>1. Typed /\ p.stage = "stored" /\ UNCHANGED <<claims, writes, now, turns, saved, heard>>
  BY DEF IInv, Extract
<1>2. p # Idle /\ p \in InFlight
  BY <1>1, RunningIs
<1>3. p.text \in Texts
  BY <1>2 DEF InFlight
<1>4. q \in InFlight /\ q.turn = p.turn
  BY <1>2, <1>3, InFlightChanges
<1>5. call' = [call EXCEPT ![c] = q]
  BY DEF Extract
<1>. HIDE DEF q
<1>. QED
  BY <1>1, <1>2, <1>4, <1>5, CallKeeps

LEMMA ModelFailsKeeps ==
    ASSUME IInv, NEW c \in Calls, ModelFails(c)
    PROVE  IInv'
<1>. DEFINE p == call[c]
            q == [p EXCEPT !.stage = "read"]
<1>1. Typed /\ p.stage = "stored" /\ UNCHANGED <<claims, writes, now, turns, saved, heard>>
  BY DEF IInv, ModelFails
<1>2. p # Idle /\ p \in InFlight
  BY <1>1, RunningIs
<1>3. q \in InFlight /\ q.turn = p.turn
  BY <1>2, InFlightChanges
<1>4. call' = [call EXCEPT ![c] = q]
  BY DEF ModelFails
<1>. HIDE DEF q
<1>. QED
  BY <1>1, <1>2, <1>3, <1>4, CallKeeps

LEMMA ProposesEndKeeps ==
    ASSUME IInv, NEW c \in Calls, NEW k \in DOMAIN claims, ProposesEnd(c, k)
    PROVE  IInv'
<1>. DEFINE p == call[c]
            q == [p EXCEPT !.stage = "read", !.ends = {k}]
<1>1. Typed /\ p.stage = "stored" /\ UNCHANGED <<claims, writes, now, turns, saved, heard>>
  BY DEF IInv, ProposesEnd
<1>2. p # Idle /\ p \in InFlight
  BY <1>1, RunningIs
<1>3. k \in Ids
  BY <1>1 DEF Typed, Table
<1>4. q \in InFlight /\ q.turn = p.turn
  BY <1>2, <1>3, InFlightChanges
<1>5. call' = [call EXCEPT ![c] = q]
  BY DEF ProposesEnd
<1>. HIDE DEF q
<1>. QED
  BY <1>1, <1>2, <1>4, <1>5, CallKeeps

LEMMA CrashKeeps ==
    ASSUME IInv, NEW c \in Calls, Crash(c)
    PROVE  IInv'
<1>1. Idle \in {Idle} \cup InFlight
  OBVIOUS
<1>2. /\ call' = [call EXCEPT ![c] = Idle]
      /\ UNCHANGED <<claims, writes, now, turns, saved, heard>>
  BY DEF Crash
<1>. QED
  BY <1>1, <1>2, CallKeeps

-----------------------------------------------------------------------------
(* The turns                                                               *)

(* A call at one turn more is counted there, if it was at none.            *)
LEMMA OneMoreAtTurn ==
    ASSUME Typed, NEW c \in Calls, NEW q \in InFlight, call' = [call EXCEPT ![c] = q], NEW e
    PROVE  /\ q.turn = e => Cardinality(AtTurn(e)') <= Cardinality(AtTurn(e)) + 1
           /\ q.turn # e => Cardinality(AtTurn(e)') <= Cardinality(AtTurn(e))
           /\ Cardinality(AtTurn(e)') \in Nat
<1>1. q # Idle
  BY NotIdle
<1>2. IsFiniteSet(AtTurn(e)) /\ Cardinality(AtTurn(e)) \in Nat
  BY AtTurnIsFinite
<1>3. CASE q.turn = e
  <2>1. AtTurn(e)' = AtTurn(e) \cup {c}
    BY <1>1, <1>3, AtTurnChanges
  <2>. DEFINE S == AtTurn(e)
  <2>2. Cardinality(S \cup {c}) = IF c \in S THEN Cardinality(S) ELSE Cardinality(S) + 1
    BY <1>2, FS_AddElement
  <2>3. Cardinality(S) \in Nat
    BY <1>2
  <2>. HIDE DEF S
  <2>4. Cardinality(S \cup {c}) <= Cardinality(S) + 1 /\ Cardinality(S \cup {c}) \in Nat
    BY <2>2, <2>3
  <2>. QED
    BY <1>3, <2>1, <2>4 DEF S
<1>4. CASE q.turn # e
  <2>1. AtTurn(e)' = AtTurn(e) \ {c}
    BY <1>1, <1>4, AtTurnChanges
  <2>. DEFINE S == AtTurn(e)
              T == AtTurn(e) \ {c}
  <2>2. IsFiniteSet(T) /\ Cardinality(T) <= Cardinality(S)
    BY <1>2, FS_Subset
  <2>3. Cardinality(T) \in Nat
    BY <2>2, FS_CardinalityType
  <2>. QED
    BY <1>4, <2>1, <2>2, <2>3
<1>. QED
  BY <1>3, <1>4

(* What a call at one more turn may still be told is told.                 *)
LEMMA CountingGrows ==
    ASSUME Typed, Counting, NEW c \in Calls, NEW q \in InFlight, call' = [call EXCEPT ![c] = q],
           UNCHANGED <<claims, heard>>,
           \A e \in DOMAIN turns' : ~ turns'[e].raced => turns'[e].told \in Nat,
           \A e \in DOMAIN turns' : ~ turns'[e].raced /\ q.turn # e =>
                e \in DOMAIN turns /\ ~ turns[e].raced /\ turns'[e].told = turns[e].told,
           \A e \in DOMAIN turns' : ~ turns'[e].raced /\ q.turn = e =>
                \/ /\ e \in DOMAIN turns /\ ~ turns[e].raced
                   /\ turns'[e].told = turns[e].told + 1
                \/ /\ turns'[e].told >= 1 /\ AtTurn(e) = {}
                   /\ \A k \in DOMAIN claims : Copied(e, heard[k]) = 0
    PROVE  Counting'
<1>1. ASSUME NEW e \in DOMAIN turns', ~ turns'[e].raced
      PROVE  /\ Cardinality(AtTurn(e)') <= turns'[e].told
             /\ \A k \in DOMAIN claims :
                   Copied(e, heard[k]) + Cardinality(AtTurn(e)') <= turns'[e].told
  <2>. DEFINE m == Cardinality(AtTurn(e))
              n == Cardinality(AtTurn(e)')
              told == turns'[e].told
  <2>1. /\ m \in Nat /\ n \in Nat /\ told \in Nat
        /\ q.turn = e => n <= m + 1
        /\ q.turn # e => n <= m
    BY <1>1, OneMoreAtTurn, AtTurnIsFinite
  <2>2. \A k \in DOMAIN claims : Copied(e, heard[k]) \in Nat
    BY CopiesAreMany DEF Typed
  <2>3. AtTurn(e) = {} => m = 0
    BY FS_EmptySet
  <2>4. e \in DOMAIN turns /\ ~ turns[e].raced =>
            m <= turns[e].told /\ \A k \in DOMAIN claims : Copied(e, heard[k]) + m <= turns[e].told
    BY DEF Counting
  <2>5. e \in DOMAIN turns => turns[e].told \in Nat
    BY DEF Typed, Turn
  <2>6. CASE q.turn # e
    <3>1. e \in DOMAIN turns /\ ~ turns[e].raced /\ told = turns[e].told
      BY <1>1, <2>6
    <3>. HIDE DEF m, n, told
    <3>. QED
      BY <2>1, <2>2, <2>4, <2>6, <3>1 DEF n, told
  <2>7. CASE q.turn = e /\ e \in DOMAIN turns /\ ~ turns[e].raced /\ told = turns[e].told + 1
    <3>. HIDE DEF m, n, told
    <3>. QED
      BY <2>1, <2>2, <2>4, <2>5, <2>7 DEF n, told
  <2>8. CASE q.turn = e /\ told >= 1 /\ AtTurn(e) = {} /\ \A k \in DOMAIN claims : Copied(e, heard[k]) = 0
    <3>. HIDE DEF m, n, told
    <3>. QED
      BY <2>1, <2>2, <2>3, <2>8 DEF n, told
  <2>. QED
    BY <1>1, <2>6, <2>7, <2>8
<1>. QED
  BY <1>1 DEF Counting, Copied, BagIn, BagToSet

(* A call begins at a turn that is stored, or at none.                     *)
LEMMA BeginTypes ==
    ASSUME Typed, NEW c \in Calls, NEW q \in InFlight, call' = [call EXCEPT ![c] = q],
           q.turn <= saved', UNCHANGED <<claims, writes, now, heard>>,
           saved' \in Nat, saved <= saved', DOMAIN turns' \subseteq 1 .. saved',
           turns' \in [DOMAIN turns' -> Turn]
    PROVE  Typed'
<1>1. ASSUME NEW d \in Calls, call'[d] # Idle
      PROVE  call'[d].turn <= saved'
  <2>1. CASE d = c
    BY <2>1, OneCallChanges
  <2>2. CASE d # c
    <3>1. call'[d] = call[d] /\ call[d] # Idle
      BY <1>1, <2>2, OneCallChanges
    <3>2. call[d].turn <= saved /\ saved \in Nat /\ call[d] \in InFlight
      BY <3>1 DEF Typed
    <3>3. call[d].turn \in Nat
      BY <3>2 DEF InFlight
    <3>. QED
      BY <3>1, <3>2, <3>3
  <2>. QED
    BY <2>1, <2>2
<1>. QED
  BY <1>1, OneCallChanges DEF Typed, Table

LEMMA ToldIs ==
    ASSUME Typed, NEW e \in DOMAIN turns
    PROVE  turns[e] \in Turn /\ turns[e].told \in Nat /\ turns[e].told >= 1 /\ e \in Nat /\ e <= saved
  BY DEF Typed, Turn

LEMMA RepeatAddKeeps ==
    ASSUME IInv, NEW c \in Calls, NEW q \in InFlight, NEW e \in DOMAIN turns, q.turn = e,
           call' = [call EXCEPT ![c] = q],
           turns' = [turns EXCEPT ![e].told = @ + 1],
           UNCHANGED <<claims, writes, now, saved, heard>>
    PROVE  IInv'
<1>1. Typed /\ CitesStored /\ Counting
  BY DEF IInv
<1>2. turns[e] \in Turn /\ turns[e].told \in Nat /\ turns[e].told >= 1 /\ e \in Nat /\ e <= saved
  BY <1>1, ToldIs
<1>3. /\ DOMAIN turns' = DOMAIN turns
      /\ turns'[e] = [turns[e] EXCEPT !.told = @ + 1]
      /\ \A d \in DOMAIN turns : d # e => turns'[d] = turns[d]
  BY <1>1 DEF Typed
<1>4. turns'[e] \in Turn /\ turns'[e].told = turns[e].told + 1 /\ turns'[e].raced = turns[e].raced
  BY <1>2, <1>3 DEF Turn
<1>5. turns' \in [DOMAIN turns' -> Turn]
  BY <1>1, <1>3, <1>4 DEF Typed
<1>6. saved \in Nat /\ DOMAIN turns \subseteq 1 .. saved
  BY <1>1 DEF Typed
<1>7. UNCHANGED <<claims, writes, now, heard>> /\ UNCHANGED <<claims, heard>>
  OBVIOUS
<1>8. Typed'
  <2>1. q.turn <= saved' /\ saved' \in Nat /\ saved <= saved' /\ DOMAIN turns' \subseteq 1 .. saved'
    BY <1>2, <1>3, <1>6
  <2>. QED
    BY <1>1, <1>5, <1>7, <2>1, BeginTypes
<1>9. Counting'
  <2>1. \A d \in DOMAIN turns' : ~ turns'[d].raced => turns'[d].told \in Nat
    BY <1>5 DEF Turn
  <2>2. \A d \in DOMAIN turns' : ~ turns'[d].raced /\ q.turn # d =>
            d \in DOMAIN turns /\ ~ turns[d].raced /\ turns'[d].told = turns[d].told
    BY <1>3
  <2>3. \A d \in DOMAIN turns' : ~ turns'[d].raced /\ q.turn = d =>
            d \in DOMAIN turns /\ ~ turns[d].raced /\ turns'[d].told = turns[d].told + 1
    BY <1>3, <1>4
  <2>4. \A d \in DOMAIN turns' : ~ turns'[d].raced /\ q.turn = d =>
            \/ /\ d \in DOMAIN turns /\ ~ turns[d].raced
               /\ turns'[d].told = turns[d].told + 1
            \/ /\ turns'[d].told >= 1 /\ AtTurn(d) = {}
               /\ \A k \in DOMAIN claims : Copied(d, heard[k]) = 0
    BY <2>3
  <2>. QED
    BY <1>1, <1>7, <2>1, <2>2, <2>4, CountingGrows, ZenonT(40)
<1>10. CitesStored'
  BY <1>1, <1>3 DEF CitesStored
<1>. QED
  BY <1>8, <1>9, <1>10 DEF IInv

LEMMA FirstAddKeeps ==
    ASSUME IInv, NEW c \in Calls, NEW q \in InFlight, q.turn = 0,
           call' = [call EXCEPT ![c] = q],
           UNCHANGED <<claims, writes, now, turns, saved, heard>>
    PROVE  IInv'
<1>1. Typed /\ CitesStored /\ Counting
  BY DEF IInv
<1>2. UNCHANGED <<claims, writes, now, heard>> /\ UNCHANGED <<claims, heard>>
  OBVIOUS
<1>3. saved \in Nat /\ DOMAIN turns \subseteq 1 .. saved /\ turns \in [DOMAIN turns -> Turn]
  BY <1>1 DEF Typed
<1>4. Typed'
  <2>1. /\ q.turn <= saved' /\ saved' \in Nat /\ saved <= saved' /\ DOMAIN turns' \subseteq 1 .. saved'
        /\ turns' \in [DOMAIN turns' -> Turn]
    BY <1>3
  <2>. QED
    BY <1>1, <1>2, <2>1, BeginTypes
<1>5. Counting'
  <2>1. \A e \in DOMAIN turns : q.turn # e
    BY <1>3
  <2>2. \A e \in DOMAIN turns : AtTurn(e)' \in SUBSET AtTurn(e)
    BY <1>1, <2>1, AtTurnChanges
  <2>3. \A e \in DOMAIN turns' : e \in DOMAIN turns /\ turns'[e] = turns[e]
    OBVIOUS
  <2>4. \A e \in DOMAIN turns' : AtTurn(e)' \in SUBSET AtTurn(e)
    BY <2>2
  <2>5. \A e, k : k \in DOMAIN claims' =>
            \/ Copied(e, heard'[k]) = 0
            \/ k \in DOMAIN claims /\ Copied(e, heard'[k]) = Copied(e, heard[k])
    OBVIOUS
  <2>6. \A k \in DOMAIN claims : IsABag(heard[k])
    BY <1>1 DEF Typed
  <2>. QED
    BY <1>1, <1>3, <2>3, <2>4, <2>5, <2>6, CountingStays
<1>6. CitesStored'
  BY <1>1 DEF CitesStored
<1>. QED
  BY <1>4, <1>5, <1>6 DEF IInv

LEMMA BeginAddKeeps ==
    ASSUME IInv, NEW c \in Calls, NEW x \in Texts, NEW ts \in 0 .. now, BeginAdd(c, x, ts)
    PROVE  IInv'
<1>1. Typed /\ ts \in Time /\ UNCHANGED <<claims, writes, now, saved, heard>>
  BY EndsAreNaturals DEF IInv, Typed, Time, BeginAdd
<1>2. PICK no \in BOOLEAN : no = FALSE
  OBVIOUS
<1>3. ASSUME NEW e \in Repeated(x, ts, now),
             call' = [call EXCEPT ![c] = [Heard("read", e, x, ts, no) EXCEPT
                                             !.queued = Rows(LiveAt(Citing(e), now))]],
             turns' = [turns EXCEPT ![e].told = @ + 1]
      PROVE  IInv'
  <2>. DEFINE h == Heard("read", e, x, ts, no)
              Q == Rows(LiveAt(Citing(e), now))
              q == [h EXCEPT !.queued = Q]
  <2>1. e \in DOMAIN turns
    BY DEF Repeated, EarlierOccurrence, Copies
  <2>2. e \in Nat
    BY <1>1, <2>1, ToldIs
  <2>3. h \in InFlight /\ h.turn = e
    BY <1>1, <2>2, HeardIs
  <2>4. LiveAt(Citing(e), now) \in SUBSET DOMAIN claims
    BY DEF LiveAt, Citing
  <2>5. Q \in Queues
    BY <1>1, <2>4, RowsAreQueue
  <2>6. call' = [call EXCEPT ![c] = q]
    BY <1>3
  <2>. HIDE DEF Q, h
  <2>7. q \in InFlight /\ q.turn = e
    BY <2>3, <2>5 DEF InFlight
  <2>. HIDE DEF q
  <2>. QED
    BY <1>1, <1>3, <2>1, <2>6, <2>7, RepeatAddKeeps
<1>4. ASSUME call' = [call EXCEPT ![c] = Heard("found", 0, x, ts, no)], UNCHANGED turns
      PROVE  IInv'
  <2>. DEFINE q == Heard("found", 0, x, ts, no)
  <2>1. q \in InFlight /\ q.turn = 0
    BY <1>1, HeardIs
  <2>2. call' = [call EXCEPT ![c] = q]
    BY <1>4
  <2>. HIDE DEF q
  <2>. QED
    BY <1>1, <1>4, <2>1, <2>2, FirstAddKeeps
<1>. QED
  BY <1>2, <1>3, <1>4 DEF BeginAdd

(* A turn that is new has no call, and no claim that cites it.             *)
LEMMA SaveKeeps ==
    ASSUME IInv, NEW c \in Calls, Save(c)
    PROVE  IInv'
<1>. DEFINE p == call[c]
            e == saved + 1
            q == [p EXCEPT !.stage = "stored", !.turn = e]
<1>1. Typed /\ CitesStored /\ Counting /\ UNCHANGED <<claims, writes, now, heard>>
  BY DEF IInv, Save
<1>2. p \in InFlight
  BY <1>1, RunningIs DEF Save
<1>3. saved \in Nat /\ DOMAIN turns \subseteq 1 .. saved /\ turns \in [DOMAIN turns -> Turn]
  BY <1>1 DEF Typed
<1>4. e \in Nat /\ e \notin DOMAIN turns /\ saved' = e
  BY <1>3 DEF Save
<1>5. q \in InFlight /\ q.turn = e
  BY <1>2, <1>4, InFlightChanges
<1>6. call' = [call EXCEPT ![c] = q]
  BY DEF Save
<1>7. PICK no \in BOOLEAN : no = FALSE
  OBVIOUS
<1>8. turns' = [d \in DOMAIN turns \cup {e} |->
                  IF d \in DOMAIN turns THEN turns[d]
                  ELSE [text |-> p.text, ts |-> p.ts, told |-> 1, raced |-> no]]
  BY <1>7 DEF Save
<1>. HIDE DEF q
<1>9. /\ DOMAIN turns' = DOMAIN turns \cup {e}
      /\ \A d \in DOMAIN turns : turns'[d] = turns[d]
      /\ turns'[e] \in Turn /\ turns'[e].told = 1
  <2>1. /\ DOMAIN turns' = DOMAIN turns \cup {e}
        /\ \A d \in DOMAIN turns : turns'[d] = turns[d]
        /\ turns'[e] = [text |-> p.text, ts |-> p.ts, told |-> 1, raced |-> no]
    BY <1>4, <1>8
  <2>2. p.text \in Texts /\ p.ts \in Time
    BY <1>2 DEF InFlight
  <2>3. turns'[e] \in Turn /\ turns'[e].told = 1
    BY <2>1, <2>2 DEF Turn
  <2>. QED
    BY <2>1, <2>3
<1>10. turns' \in [DOMAIN turns' -> Turn]
  <2>1. turns' = [d \in DOMAIN turns' |-> turns'[d]]
    BY <1>8
  <2>2. \A d \in DOMAIN turns' : turns'[d] \in Turn
    BY <1>3, <1>9
  <2>. QED
    BY <2>1, <2>2
<1>11. Typed'
  <2>1. q.turn <= saved' /\ saved' \in Nat /\ saved <= saved' /\ DOMAIN turns' \subseteq 1 .. saved'
    BY <1>3, <1>4, <1>5, <1>9
  <2>. QED
    BY <1>1, <1>5, <1>6, <1>10, <2>1, BeginTypes
<1>12. AtTurn(e) = {}
  <2>1. \A d \in Calls : call[d] # Idle => call[d].turn <= saved /\ call[d].turn \in Nat
    BY <1>1 DEF Typed, InFlight
  <2>2. \A d \in Calls : call[d] # Idle => call[d].turn # e
    BY <1>3, <2>1
  <2>. HIDE DEF e
  <2>. QED
    BY <2>2 DEF AtTurn
<1>13. \A k \in DOMAIN claims : Copied(e, heard[k]) = 0
  BY <1>1, <1>4 DEF CitesStored, Copied, BagIn
<1>14. UNCHANGED <<claims, heard>>
  BY <1>1
<1>. HIDE DEF e
<1>15. Counting'
  <2>1. \A d \in DOMAIN turns' : ~ turns'[d].raced => turns'[d].told \in Nat
    BY <1>10 DEF Turn
  <2>2. \A d \in DOMAIN turns' : ~ turns'[d].raced /\ q.turn # d =>
            d \in DOMAIN turns /\ ~ turns[d].raced /\ turns'[d].told = turns[d].told
    BY <1>5, <1>9
  <2>3. \A d \in DOMAIN turns' : ~ turns'[d].raced /\ q.turn = d =>
            \/ /\ d \in DOMAIN turns /\ ~ turns[d].raced
               /\ turns'[d].told = turns[d].told + 1
            \/ /\ turns'[d].told >= 1 /\ AtTurn(d) = {}
               /\ \A k \in DOMAIN claims : Copied(d, heard[k]) = 0
    BY <1>5, <1>9, <1>12, <1>13
  <2>. QED
    BY <1>1, <1>5, <1>6, <1>14, <2>1, <2>2, <2>3, CountingGrows, ZenonT(40)
<1>16. CitesStored'
  BY <1>1, <1>9 DEF CitesStored
<1>. QED
  BY <1>11, <1>15, <1>16 DEF IInv

(* Only a turn that no claim cites is read again; if another call is at    *)
(* it, the turn is marked.                                                 *)
LEMMA RereadKeeps ==
    ASSUME IInv, NEW c \in Calls, NEW e \in DOMAIN turns, Reread(c, e)
    PROVE  IInv'
<1>1. Typed /\ CitesStored /\ Counting /\ UNCHANGED <<claims, writes, now, saved, heard>>
  BY DEF IInv, Reread
<1>2. turns[e] \in Turn /\ turns[e].told \in Nat /\ turns[e].told >= 1 /\ e \in Nat /\ e <= saved
  BY <1>1, ToldIs
<1>3. PICK yes \in BOOLEAN : yes = TRUE
  OBVIOUS
<1>. DEFINE q == Heard("stored", e, turns[e].text, turns[e].ts, yes)
            busy == \E d \in Calls : call[d] # Idle /\ call[d].turn = e
<1>4. q \in InFlight /\ q.turn = e
  <2>1. turns[e].text \in Texts /\ turns[e].ts \in Time
    BY <1>2 DEF Turn
  <2>. QED
    BY <1>1, <1>2, <2>1, HeardIs
<1>5. call' = [call EXCEPT ![c] = q]
  BY <1>3 DEF Reread
<1>6. turns' = [turns EXCEPT ![e].raced = @ \/ busy] /\ Citing(e) = {}
  BY DEF Reread
<1>7. busy \in BOOLEAN /\ (~ busy => AtTurn(e) = {})
  BY DEF AtTurn
<1>. HIDE DEF q, busy
<1>8. turns[e].raced \in BOOLEAN
  BY <1>2 DEF Turn
<1>9. PICK r \in BOOLEAN : r = (turns[e].raced \/ busy)
  BY <1>7, <1>8
<1>10. /\ DOMAIN turns' = DOMAIN turns
       /\ turns'[e] = [turns[e] EXCEPT !.raced = r]
       /\ \A d \in DOMAIN turns : d # e => turns'[d] = turns[d]
  BY <1>1, <1>6, <1>9 DEF Typed
<1>11. turns'[e] \in Turn /\ turns'[e].told = turns[e].told /\ turns'[e].raced = r
  BY <1>2, <1>10 DEF Turn
<1>12. turns' \in [DOMAIN turns' -> Turn]
  <2>1. turns' = [d \in DOMAIN turns' |-> turns'[d]]
    BY <1>6
  <2>2. \A d \in DOMAIN turns' : turns'[d] \in Turn
    BY <1>1, <1>10, <1>11 DEF Typed
  <2>. QED
    BY <2>1, <2>2
<1>13. saved \in Nat /\ DOMAIN turns \subseteq 1 .. saved
  BY <1>1 DEF Typed
<1>14. UNCHANGED <<claims, writes, now, heard>> /\ UNCHANGED <<claims, heard>>
  BY <1>1
<1>15. Typed'
  <2>1. q.turn <= saved' /\ saved' \in Nat /\ saved <= saved' /\ DOMAIN turns' \subseteq 1 .. saved'
    BY <1>1, <1>2, <1>4, <1>10, <1>13
  <2>. QED
    BY <1>1, <1>4, <1>5, <1>12, <1>14, <2>1, BeginTypes
<1>16. Counting'
  <2>1. \A d \in DOMAIN turns' : ~ turns'[d].raced => turns'[d].told \in Nat
    BY <1>12 DEF Turn
  <2>2. \A d \in DOMAIN turns' : ~ turns'[d].raced /\ q.turn # d =>
            d \in DOMAIN turns /\ ~ turns[d].raced /\ turns'[d].told = turns[d].told
    BY <1>4, <1>10
  <2>3. \A k \in DOMAIN claims : Copied(e, heard[k]) = 0
    BY <1>6 DEF Citing, Copied
  <2>4. ~ turns'[e].raced => AtTurn(e) = {}
    BY <1>7, <1>9, <1>11
  <2>5. \A d \in DOMAIN turns' : ~ turns'[d].raced /\ q.turn = d =>
            \/ /\ d \in DOMAIN turns /\ ~ turns[d].raced
               /\ turns'[d].told = turns[d].told + 1
            \/ /\ turns'[d].told >= 1 /\ AtTurn(d) = {}
               /\ \A k \in DOMAIN claims : Copied(d, heard[k]) = 0
    BY <1>2, <1>4, <1>11, <2>3, <2>4
  <2>. QED
    BY <1>1, <1>4, <1>5, <1>14, <2>1, <2>2, <2>5, CountingGrows, ZenonT(40)
<1>17. CitesStored'
  BY <1>1, <1>10 DEF CitesStored
<1>. QED
  BY <1>15, <1>16, <1>17 DEF IInv

-----------------------------------------------------------------------------
(* The claims                                                              *)

(* The calls are where they were, and a turn that is stored still is.      *)
LEMMA SameCalls ==
    ASSUME Typed, UNCHANGED <<saved, call>>, now' \in Time,
           \A e \in DOMAIN turns' : e \in DOMAIN turns /\ turns'[e] = turns[e],
           turns' = [e \in DOMAIN turns' |-> turns'[e]],
           writes' \in Nat, Table(claims', writes'),
           \A k \in DOMAIN claims' : Filed(claims'[k]),
           DOMAIN heard' = DOMAIN claims', \A k \in DOMAIN heard' : IsABag(heard'[k])
    PROVE  Typed'
<1>1. saved \in Nat /\ DOMAIN turns \subseteq 1 .. saved /\ turns \in [DOMAIN turns -> Turn]
  BY DEF Typed
<1>2. saved' \in Nat /\ DOMAIN turns' \subseteq 1 .. saved'
  BY <1>1
<1>3. \A e \in DOMAIN turns' : turns'[e] \in Turn
  BY <1>1
<1>4. turns' \in [DOMAIN turns' -> Turn]
  BY <1>3
<1>5. /\ call' \in [Calls -> {Idle} \cup InFlight]
      /\ \A c \in Calls : call'[c] # Idle => call'[c].turn <= saved'
  BY DEF Typed
<1>. QED
  BY <1>2, <1>4, <1>5 DEF Typed

LEMMA TickKeeps ==
    ASSUME IInv, Tick
    PROVE  IInv'
<1>1. Typed /\ now' \in Time /\ UNCHANGED <<claims, writes, turns, saved, heard, call>>
  BY DEF IInv, Tick
<1>2. Typed'
  BY <1>1 DEF Typed
<1>3. Counting'
  BY <1>1 DEF IInv, Counting, AtTurn, Copied
<1>4. CitesStored'
  BY <1>1 DEF IInv, CitesStored
<1>. QED
  BY <1>2, <1>3, <1>4 DEF IInv

LEMMA DeleteKeeps ==
    ASSUME IInv, NEW k \in DOMAIN claims, NEW close \in Closures, Delete(k, close)
    PROVE  IInv'
<1>. DEFINE c == claims[k]
            d == CloseOut(c, now, close)
<1>1. /\ Typed /\ Counting /\ CitesStored
      /\ UNCHANGED <<writes, now, turns, saved, heard, call>>
      /\ claims' = [claims EXCEPT ![k] = d]
  BY DEF IInv, Delete
<1>2. Table(claims, writes) /\ writes \in Nat /\ c \in Claim /\ Filed(c) /\ now \in Ends
  BY <1>1, EndsAreNaturals DEF Typed, Table
<1>3. d \in Claim /\ SaidBy(d, c)
  BY <1>2, CloseOutCloses, CloseOutSays
<1>. HIDE DEF d
<1>4. Filed(d) /\ d.user = c.user
  BY <1>2, <1>3 DEF Filed, SaidBy
<1>5. DOMAIN claims' = DOMAIN claims /\ \A j \in DOMAIN claims : claims'[j] = IF j = k THEN d ELSE claims[j]
  BY <1>1
<1>6. Table(claims', writes')
  BY <1>1, <1>2, <1>3, <1>5 DEF Table
<1>7. \A j \in DOMAIN claims' : Filed(claims'[j])
  BY <1>1, <1>4, <1>5 DEF Typed
<1>8. Typed'
  <2>1. /\ UNCHANGED <<saved, call>> /\ now' \in Time /\ writes' \in Nat
        /\ \A e \in DOMAIN turns' : e \in DOMAIN turns /\ turns'[e] = turns[e]
        /\ turns' = [e \in DOMAIN turns' |-> turns'[e]]
        /\ DOMAIN heard' = DOMAIN claims' /\ \A j \in DOMAIN heard' : IsABag(heard'[j])
    BY <1>1, <1>5 DEF Typed
  <2>. QED
    BY <1>1, <1>6, <1>7, <2>1, SameCalls
<1>9. Counting'
  BY <1>1, <1>5 DEF Counting, AtTurn, Copied
<1>10. CitesStored'
  BY <1>1, <1>4, <1>5 DEF CitesStored
<1>. QED
  BY <1>8, <1>9, <1>10 DEF IInv

LEMMA PurgeKeeps ==
    ASSUME IInv, Purge
    PROVE  IInv'
<1>1. /\ Typed /\ UNCHANGED <<writes, now, saved, call>>
      /\ DOMAIN claims' = {} /\ DOMAIN heard' = {} /\ DOMAIN turns' = {}
      /\ turns' = [e \in {} |-> {}]
  BY DEF IInv, Purge, Rows
<1>2. Typed'
  <2>1. /\ UNCHANGED <<saved, call>> /\ now' \in Time /\ writes' \in Nat
        /\ \A e \in DOMAIN turns' : e \in DOMAIN turns /\ turns'[e] = turns[e]
        /\ turns' = [e \in DOMAIN turns' |-> turns'[e]]
        /\ DOMAIN heard' = DOMAIN claims' /\ \A j \in DOMAIN heard' : IsABag(heard'[j])
        /\ \A j \in DOMAIN claims' : Filed(claims'[j])
    BY <1>1 DEF Typed
  <2>2. Table(claims', writes')
    BY <1>1 DEF Table
  <2>. QED
    BY <1>1, <2>1, <2>2, SameCalls
<1>3. Counting' /\ CitesStored'
  BY <1>1 DEF Counting, CitesStored
<1>. QED
  BY <1>2, <1>3 DEF IInv

(* What goes with an erased claim is what no other claim cites.            *)
LEMMA EraseKeeps ==
    ASSUME IInv, NEW k \in DOMAIN claims, NEW sources \in BOOLEAN, Erase(k, sources)
    PROVE  IInv'
<1>. DEFINE left    == DOMAIN claims \ {k}
            orphans == {e \in BagToSet(heard[k]) : \A j \in left : ~ BagIn(e, heard[j])}
<1>1. /\ Typed /\ Counting /\ CitesStored /\ UNCHANGED <<writes, now, saved, call>>
      /\ claims' = [j \in left |-> claims[j]] /\ heard' = [j \in left |-> heard[j]]
  BY DEF IInv, Erase
<1>2. PICK gone \in SUBSET orphans : turns' = [e \in DOMAIN turns \ gone |-> turns[e]]
  BY DEF Erase
<1>3. /\ DOMAIN claims' = left /\ DOMAIN heard' = left
      /\ \A j \in left : claims'[j] = claims[j] /\ heard'[j] = heard[j]
      /\ DOMAIN turns' = DOMAIN turns \ gone
      /\ \A e \in DOMAIN turns' : e \in DOMAIN turns /\ turns'[e] = turns[e]
      /\ left \subseteq DOMAIN claims
  BY <1>1, <1>2
<1>4. \A j \in left : BagToSet(heard[j]) \cap gone = {}
  BY <1>2 DEF BagIn
<1>. HIDE DEF left, orphans
<1>5. Typed'
  <2>1. /\ UNCHANGED <<saved, call>> /\ now' \in Time /\ writes' \in Nat
        /\ \A j \in DOMAIN claims' : Filed(claims'[j])
        /\ DOMAIN heard' = DOMAIN claims' /\ \A j \in DOMAIN heard' : IsABag(heard'[j])
    BY <1>1, <1>3 DEF Typed
  <2>2. turns' = [e \in DOMAIN turns' |-> turns'[e]]
    BY <1>2
  <2>3. Table(claims', writes')
    BY <1>1, <1>3 DEF Typed, Table
  <2>. QED
    BY <1>1, <1>3, <2>1, <2>2, <2>3, SameCalls
<1>6. Counting'
  <2>1. \A e \in DOMAIN turns' : AtTurn(e)' \in SUBSET AtTurn(e)
    BY <1>1 DEF AtTurn
  <2>2. \A e, j : j \in DOMAIN claims' =>
            \/ Copied(e, heard'[j]) = 0
            \/ j \in DOMAIN claims /\ Copied(e, heard'[j]) = Copied(e, heard[j])
    BY <1>3
  <2>3. turns \in [DOMAIN turns -> Turn] /\ \A j \in DOMAIN claims : IsABag(heard[j])
    BY <1>1 DEF Typed
  <2>. QED
    BY <1>1, <1>3, <2>1, <2>2, <2>3, CountingStays
<1>7. CitesStored'
  BY <1>1, <1>3, <1>4 DEF CitesStored, BagToSet
<1>. QED
  BY <1>5, <1>6, <1>7 DEF IInv

(* What the user tells is a claim of the slot.                             *)
LEMMA ToldIsClaim ==
    ASSUME NEW v \in Values, NEW t \in Time
    PROVE  LET i == [Told(v) EXCEPT !.from = t, !.rec = t]
           IN  i \in Claim /\ Filed(i) /\ i.user
<1>. DEFINE i    == [Told(v) EXCEPT !.from = t, !.rec = t]
            one  == 1
            zero == 0
            u    == Told(v)
<1>1. PICK yes \in BOOLEAN, no \in BOOLEAN : yes = TRUE /\ no = FALSE
  OBVIOUS
<1>2. u = [pred |-> Topic, val |-> v, neg |-> no, scope |-> Here, from |-> Forever,
           width |-> zero, to |-> Forever, rec |-> Forever, inv |-> Forever, conf |-> one,
           exp |-> Forever, user |-> yes]
  BY <1>1 DEF Told
<1>3. Forever \in Ends /\ zero \in Nat /\ one \in Nat /\ v \in Values \cup {NoValue} /\ v \in Vals
  BY EndsAreNaturals, ConstantsAre
<1>4. i = [u EXCEPT !.from = t, !.rec = t] /\ one = 1
  OBVIOUS
<1>. HIDE DEF u, one, zero, i
<1>5. i = [pred |-> Topic, val |-> v, neg |-> no, scope |-> Here, from |-> t, width |-> zero,
           to |-> Forever, rec |-> t, inv |-> Forever, conf |-> one, exp |-> Forever,
           user |-> yes]
  BY <1>2, <1>4
<1>6. i \in Claim /\ Filed(i) /\ i.user
  <2>1. i \in Claim
    BY <1>3, <1>5, ConstantsAre DEF Claim
  <2>2. Filed(i)
    <3>1. /\ i.pred = Topic /\ i.scope = Here /\ i.conf = one
          /\ i.exp = Forever /\ i.val = v
      BY <1>5
    <3>2. one = 1 /\ v \in Vals
      BY <1>3, <1>4
    <3>. QED
      BY <3>1, <3>2, Zenon DEF Filed
  <2>3. i.user = yes
    BY <1>5
  <2>4. i.user
    BY <1>1, <2>3, Zenon
  <2>. QED
    BY <2>1, <2>2, <2>4
<1>. QED
  BY <1>6 DEF i

LEMMA ToldGrows ==
    ASSUME Typed, NEW v \in Values, Remember(v)
    PROVE  \E user \in BOOLEAN : user /\ Grown(claims', writes', user)
<1>. DEFINE i == [Told(v) EXCEPT !.from = now, !.rec = now]
<1>1. now \in Time
  BY DEF Typed
<1>2. i \in Claim /\ Filed(i) /\ i.user
  BY <1>1, ToldIsClaim
<1>3. PICK o \in Apply(claims, writes, i, now, now, "ended") : claims' = o.rows /\ writes' = o.writes
  BY DEF Remember
<1>. HIDE DEF i
<1>4. Grown(o.rows, o.writes, i.user)
  BY <1>1, <1>2, <1>3, ApplyGrows
<1>5. i.user \in BOOLEAN
  BY <1>2 DEF Claim
<1>. QED
  BY <1>2, <1>3, <1>4, <1>5

(* A claim told by the user cites no turn.                                 *)
LEMMA RememberKeeps ==
    ASSUME IInv, NEW v \in Values, Remember(v)
    PROVE  IInv'
<1>1. Typed /\ Counting /\ CitesStored /\ UNCHANGED <<now, turns, saved, call>>
  BY DEF IInv, Remember
<1>2. PICK user \in BOOLEAN : user /\ Grown(claims', writes', user)
  BY <1>1, ToldGrows
<1>3. heard' = [k \in DOMAIN claims' |-> IF k \in DOMAIN heard THEN heard[k] ELSE EmptyBag]
  BY DEF Remember
<1>4. /\ DOMAIN heard = DOMAIN claims /\ DOMAIN heard' = DOMAIN claims'
      /\ DOMAIN claims \subseteq DOMAIN claims'
      /\ \A k \in DOMAIN claims : heard'[k] = heard[k] /\ claims'[k].user = claims[k].user
      /\ \A k \in DOMAIN claims' \ DOMAIN claims : heard'[k] = EmptyBag /\ claims'[k].user
  BY <1>1, <1>2, <1>3 DEF Grown, Typed
<1>5. Typed'
  <2>1. /\ UNCHANGED <<saved, call>> /\ now' \in Time /\ writes' \in Nat
        /\ \A e \in DOMAIN turns' : e \in DOMAIN turns /\ turns'[e] = turns[e]
        /\ turns' = [e \in DOMAIN turns' |-> turns'[e]]
    BY <1>1, <1>2 DEF Typed, Grown
  <2>2. Table(claims', writes') /\ \A k \in DOMAIN claims' : Filed(claims'[k])
    BY <1>2 DEF Grown
  <2>3. DOMAIN heard' = DOMAIN claims' /\ \A k \in DOMAIN heard' : IsABag(heard'[k])
    BY <1>1, <1>4, NoBag DEF Typed
  <2>. QED
    BY <1>1, <2>1, <2>2, <2>3, SameCalls
<1>6. Counting'
  <2>1. \A e \in DOMAIN turns' : AtTurn(e)' \in SUBSET AtTurn(e)
    BY <1>1 DEF AtTurn
  <2>2. \A e, k : k \in DOMAIN claims' =>
            \/ Copied(e, heard'[k]) = 0
            \/ k \in DOMAIN claims /\ Copied(e, heard'[k]) = Copied(e, heard[k])
    BY <1>4, NoBag
  <2>3. turns \in [DOMAIN turns -> Turn] /\ \A k \in DOMAIN claims : IsABag(heard[k])
    BY <1>1 DEF Typed
  <2>4. \A e \in DOMAIN turns' : e \in DOMAIN turns /\ turns'[e] = turns[e]
    BY <1>1
  <2>. QED
    BY <1>1, <2>1, <2>2, <2>3, <2>4, CountingStays
<1>7. CitesStored'
  BY <1>1, <1>4, NoBag DEF CitesStored, BagToSet
<1>. QED
  BY <1>5, <1>6, <1>7 DEF IInv

(* A batch counts its turn once on each claim, and is at the turn no more. *)
LEMMA BatchCounts ==
    ASSUME Typed, Counting, CitesStored, NEW c \in Calls, call[c] # Idle,
           call' = [call EXCEPT ![c] = Idle], UNCHANGED <<now, turns, saved>>,
           NEW rows, NEW n, NEW user, Grown(rows, n, user), NEW ids,
           claims' = rows, writes' = n, heard' = Counted(rows, ids, call[c].turn),
           call[c].turn \in DOMAIN turns \/ (ids = {} /\ DOMAIN rows = DOMAIN claims)
    PROVE  IInv'
<1>. DEFINE e   == call[c].turn
            one == SetToBag({e})
<1>1. /\ DOMAIN heard = DOMAIN claims /\ DOMAIN heard' = DOMAIN claims' /\ DOMAIN claims' = DOMAIN rows
      /\ \A k \in DOMAIN rows \ DOMAIN claims : heard'[k] = one
      /\ \A k \in DOMAIN claims : heard'[k] = heard[k] \/ (k \in ids /\ heard'[k] = heard[k] (+) one)
      /\ DOMAIN claims \subseteq DOMAIN claims'
  BY DEF Typed, Counted, Grown
<1>2. \A k \in DOMAIN claims : claims'[k].user = claims[k].user /\ IsABag(heard[k])
  BY DEF Typed, Grown
<1>. HIDE DEF one
<1>3. ASSUME NEW k \in DOMAIN claims'
      PROVE  /\ IsABag(heard'[k])
             /\ DOMAIN heard'[k] \subseteq DOMAIN turns
             /\ claims'[k].user \/ heard'[k] # EmptyBag
             /\ \A d : \/ Copied(d, heard'[k]) <= IF d = e THEN 1 ELSE 0
                       \/ /\ k \in DOMAIN claims
                          /\ Copied(d, heard'[k]) <= Copied(d, heard[k]) + IF d = e THEN 1 ELSE 0
  <2>1. CASE k \notin DOMAIN claims
    <3>1. heard'[k] = one /\ e \in DOMAIN turns
      BY <1>1, <2>1
    <3>2. IsABag(one) /\ DOMAIN one = {e} /\ \A d : Copied(d, one) = IF d = e THEN 1 ELSE 0
      BY SingleBag DEF one
    <3>3. one # EmptyBag
      BY <3>2, NoBag
    <3>. QED
      BY <3>1, <3>2, <3>3
  <2>2. CASE k \in DOMAIN claims /\ heard'[k] = heard[k]
    <3>1. DOMAIN heard[k] \subseteq DOMAIN turns /\ (claims[k].user \/ heard[k] # EmptyBag)
      BY <2>2 DEF CitesStored, BagToSet
    <3>2. \A d : Copied(d, heard[k]) \in Nat
      BY <1>2, <2>2, CopiesAreMany
    <3>3. \A d : Copied(d, heard[k]) <= Copied(d, heard[k]) + IF d = e THEN 1 ELSE 0
      BY <3>2
    <3>. QED
      BY <1>2, <2>2, <3>1, <3>3
  <2>3. CASE k \in DOMAIN claims /\ k \in ids /\ heard'[k] = heard[k] (+) one
    <3>1. e \in DOMAIN turns
      BY <2>3
    <3>2. DOMAIN heard[k] \subseteq DOMAIN turns
      BY <2>3 DEF CitesStored, BagToSet
    <3>3. /\ IsABag(heard[k] (+) one) /\ DOMAIN (heard[k] (+) one) = DOMAIN heard[k] \cup {e}
          /\ \A d : Copied(d, heard[k] (+) one) = Copied(d, heard[k]) + IF d = e THEN 1 ELSE 0
      BY <1>2, <2>3, OneMore DEF one
    <3>4. heard[k] (+) one # EmptyBag
      BY <3>3, NoBag
    <3>5. \A d : Copied(d, heard[k]) \in Nat
      BY <1>2, <2>3, CopiesAreMany
    <3>6. \A d : Copied(d, heard'[k]) <= Copied(d, heard[k]) + IF d = e THEN 1 ELSE 0
      BY <2>3, <3>3, <3>5
    <3>. QED
      BY <2>3, <3>1, <3>2, <3>3, <3>4, <3>6
  <2>. QED
    BY <1>1, <2>1, <2>2, <2>3
<1>4. Typed'
  <2>1. \A d \in Calls : call'[d] # Idle => call'[d] = call[d]
    BY OneCallChanges
  <2>2. call' \in [Calls -> {Idle} \cup InFlight]
    BY OneCallChanges
  <2>3. \A d \in Calls : call'[d] # Idle => call'[d].turn <= saved'
    BY <2>1 DEF Typed
  <2>4. writes' \in Nat /\ Table(claims', writes') /\ \A k \in DOMAIN claims' : Filed(claims'[k])
    BY DEF Grown
  <2>5. DOMAIN heard' = DOMAIN claims' /\ \A k \in DOMAIN heard' : IsABag(heard'[k])
    BY <1>1, <1>3
  <2>6. /\ saved' \in Nat /\ DOMAIN turns' \subseteq 1 .. saved' /\ turns' \in [DOMAIN turns' -> Turn]
        /\ now' \in Time
    BY DEF Typed
  <2>. QED
    BY <2>2, <2>3, <2>4, <2>5, <2>6 DEF Typed
<1>5. CitesStored'
  BY <1>3 DEF CitesStored, BagToSet
<1>6. ASSUME NEW d \in DOMAIN turns, ~ turns[d].raced
      PROVE  /\ Cardinality(AtTurn(d)') <= turns[d].told
             /\ \A k \in DOMAIN claims' : Copied(d, heard'[k]) + Cardinality(AtTurn(d)') <= turns[d].told
  <2>. DEFINE S    == AtTurn(d)
              m    == Cardinality(S)
              l    == Cardinality(AtTurn(d)')
              told == turns[d].told
              r    == IF d = e THEN 1 ELSE 0
  <2>1. AtTurn(d)' = S \ {c} /\ (d = e => c \in S)
    <3>1. Idle \in {Idle} \cup InFlight
      OBVIOUS
    <3>2. AtTurn(d)' = AtTurn(d) \ {c}
      BY <3>1, AtTurnChanges
    <3>3. d = e => c \in AtTurn(d)
      BY DEF AtTurn
    <3>. QED
      BY <3>2, <3>3
  <2>2. IsFiniteSet(S) /\ m \in Nat
    BY AtTurnIsFinite
  <2>3. Cardinality(S \ {c}) = IF c \in S THEN Cardinality(S) - 1 ELSE Cardinality(S)
    BY <2>2, FS_RemoveElement
  <2>4. IsFiniteSet(S \ {c}) /\ Cardinality(S \ {c}) \in Nat
    BY <2>2, FS_Subset, FS_CardinalityType
  <2>5. l \in Nat /\ l + r <= m
    BY <2>1, <2>2, <2>3, <2>4
  <2>6. m <= told /\ \A k \in DOMAIN claims : Copied(d, heard[k]) + m <= told
    BY <1>6 DEF Counting
  <2>7. told \in Nat /\ r \in Nat
    BY ToldIs
  <2>8. \A k \in DOMAIN claims : Copied(d, heard[k]) \in Nat
    BY <1>2, CopiesAreMany
  <2>9. \A k \in DOMAIN claims' : Copied(d, heard'[k]) \in Nat
    BY <1>3, CopiesAreMany
  <2>10. \A k \in DOMAIN claims' : \/ Copied(d, heard'[k]) <= r
                                   \/ k \in DOMAIN claims /\ Copied(d, heard'[k]) <= Copied(d, heard[k]) + r
    BY <1>3
  <2>. HIDE DEF m, l, told, r
  <2>11. l <= told
    BY <2>2, <2>5, <2>6, <2>7
  <2>12. ASSUME NEW k \in DOMAIN claims'
         PROVE  Copied(d, heard'[k]) + l <= told
    <3>1. CASE Copied(d, heard'[k]) <= r
      BY <2>2, <2>5, <2>6, <2>7, <2>9, <3>1
    <3>2. CASE k \in DOMAIN claims /\ Copied(d, heard'[k]) <= Copied(d, heard[k]) + r
      BY <2>2, <2>5, <2>6, <2>7, <2>8, <2>9, <3>2
    <3>. QED
      BY <2>10, <3>1, <3>2
  <2>. QED
    BY <2>11, <2>12 DEF l, told
<1>7. Counting'
  BY <1>6 DEF Counting, Copied, BagIn, BagToSet
<1>. QED
  BY <1>4, <1>5, <1>7 DEF IInv

LEMMA CommitKeeps ==
    ASSUME IInv, NEW c \in Calls, Commit(c)
    PROVE  IInv'
<1>. DEFINE p == call[c]
<1>1. /\ Typed /\ Counting /\ CitesStored /\ p # Idle /\ p \in InFlight
      /\ call' = [call EXCEPT ![c] = Idle] /\ UNCHANGED <<now, turns, saved>>
  BY RunningIs DEF IInv, Commit
<1>2. ASSUME claims' = claims, heard' = Counted(claims, Bumped(c), p.turn), UNCHANGED writes
      PROVE  IInv'
  <2>1. PICK user : TRUE
    OBVIOUS
  <2>2. \A k \in DOMAIN claims : claims[k].to <= claims[k].to
    BY <1>1, EndsAreNaturals DEF Typed, Table, Claim
  <2>3. Grown(claims, writes, user)
    BY <1>1, <2>2 DEF Grown, Typed
  <2>4. p.turn \in DOMAIN turns \/ (Bumped(c) = {} /\ DOMAIN claims = DOMAIN claims)
    BY DEF Bumped, StillStored
  <2>. QED
    BY <1>1, <1>2, <2>3, <2>4, BatchCounts
<1>3. ASSUME NEW i \in Candidates(c), NEW o \in Apply(claims, writes, i, p.t, now, "ended"),
             claims' = o.rows, writes' = o.writes, NEW ids,
             heard' = Counted(o.rows, ids, p.turn)
      PROVE  IInv'
  <2>1. StillStored(c) /\ \E v \in Vals, b \in BOOLEAN, ts \in Time : i = SaidAs(v, b, ts, p.t)
    BY <1>1, CandidatesAre
  <2>2. p.t \in Time
    BY <1>1 DEF InFlight
  <2>3. i \in Claim /\ Filed(i)
    BY <2>1, <2>2, SaidIsClaim
  <2>4. Grown(o.rows, o.writes, i.user)
    BY <1>1, <2>2, <2>3, ApplyGrows
  <2>5. p.turn \in DOMAIN turns
    BY <2>1 DEF StillStored
  <2>. QED
    BY <1>1, <1>3, <2>4, <2>5, BatchCounts
<1>. QED
  BY <1>2, <1>3 DEF Commit, Current

-----------------------------------------------------------------------------
(* The theorems                                                            *)

LEMMA InitHolds == Init => IInv
<1>. SUFFICES ASSUME Init PROVE IInv
  OBVIOUS
<1>1. /\ DOMAIN claims = {} /\ DOMAIN heard = {} /\ DOMAIN turns = {}
      /\ claims = [k \in {} |-> {}] /\ turns = [e \in {} |-> {}]
      /\ writes = 0 /\ saved = 0 /\ now = 0 /\ call = [c \in Calls |-> Idle]
  BY DEF Init
<1>2. Table(claims, writes)
  BY <1>1 DEF Table
<1>3. 0 \in Time
  BY ForeverAssumption DEF Time
<1>4. Typed
  BY <1>1, <1>2, <1>3 DEF Typed
<1>5. CitesStored /\ Counting
  BY <1>1 DEF CitesStored, Counting
<1>. QED
  BY <1>4, <1>5 DEF IInv

LEMMA StutterKeeps ==
    ASSUME IInv, UNCHANGED vars
    PROVE  IInv'
<1>1. UNCHANGED <<claims, writes, now, turns, saved, heard, call>>
  BY DEF vars
<1>2. Typed'
  BY <1>1 DEF IInv, Typed
<1>3. Counting' /\ CitesStored'
  BY <1>1 DEF IInv, Counting, CitesStored, AtTurn, Copied
<1>. QED
  BY <1>2, <1>3 DEF IInv

LEMMA MishapKeeps ==
    ASSUME IInv, Mishap
    PROVE  IInv'
<1>1. ASSUME NEW c \in Calls, Crash(c)
      PROVE  IInv'
  BY <1>1, CrashKeeps
<1>2. ASSUME NEW v \in Values, Remember(v)
      PROVE  IInv'
  BY <1>2, RememberKeeps
<1>3. ASSUME NEW k \in DOMAIN claims, NEW close \in Closures, Delete(k, close)
      PROVE  IInv'
  BY <1>3, DeleteKeeps
<1>4. ASSUME NEW k \in DOMAIN claims, NEW sources \in BOOLEAN, Erase(k, sources)
      PROVE  IInv'
  BY <1>4, EraseKeeps
<1>5. ASSUME Purge
      PROVE  IInv'
  BY <1>5, PurgeKeeps
<1>. QED
  BY <1>1, <1>2, <1>3, <1>4, <1>5 DEF Mishap

LEMMA NextKeeps == IInv /\ [Next]_vars => IInv'
<1>. SUFFICES ASSUME IInv, [Next]_vars PROVE IInv'
  OBVIOUS
<1>1. ASSUME NEW c \in Calls, NEW x \in Texts, NEW ts \in 0 .. now, BeginAdd(c, x, ts)
      PROVE  IInv'
  BY <1>1, BeginAddKeeps
<1>2. ASSUME NEW c \in Calls, Save(c)
      PROVE  IInv'
  BY <1>2, SaveKeeps
<1>3. ASSUME NEW c \in Calls, NEW k \in DOMAIN claims, Restates(c, k)
      PROVE  IInv'
  BY <1>3, RestatesKeeps
<1>4. ASSUME NEW c \in Calls, Extract(c)
      PROVE  IInv'
  BY <1>4, ExtractKeeps
<1>5. ASSUME NEW c \in Calls, ModelFails(c)
      PROVE  IInv'
  BY <1>5, ModelFailsKeeps
<1>6. ASSUME NEW c \in Calls, NEW k \in DOMAIN claims, ProposesEnd(c, k)
      PROVE  IInv'
  BY <1>6, ProposesEndKeeps
<1>7. ASSUME NEW c \in Calls, NEW e \in DOMAIN turns, Reread(c, e)
      PROVE  IInv'
  BY <1>7, RereadKeeps
<1>8. ASSUME NEW c \in Calls, Commit(c)
      PROVE  IInv'
  BY <1>8, CommitKeeps
<1>9. CASE Mishap
  BY <1>9, MishapKeeps
<1>10. CASE Tick
  BY <1>10, TickKeeps
<1>11. CASE UNCHANGED vars
  BY <1>11, StutterKeeps
<1>. QED
  BY <1>1, <1>2, <1>3, <1>4, <1>5, <1>6, <1>7, <1>8, <1>9, <1>10, <1>11 DEF Next

(* Whatever happens while a turn is read, the claims, the turns they cite  *)
(* and the calls in flight stay as the parts of IInv say.                  *)
THEOREM Invariance == Spec => []IInv
  BY InitHolds, NextKeeps, PTL DEF Spec

(* Every table keeps its type: claims and turns are well formed, every     *)
(* claim has a list of turns, and every turn was stored once.              *)
THEOREM TypeCorrect == Spec => []TypeOK
<1>1. IInv => TypeOK
  <2>. SUFFICES ASSUME IInv PROVE TypeOK
    OBVIOUS
  <2>1. Typed
    BY DEF IInv
  <2>2. ASSUME NEW c \in Calls
        PROVE  call[c].stage \in {"idle", "found", "stored", "read"}
    <3>1. call[c] \in InFlight \/ call[c] = Idle
      BY <2>1 DEF Typed
    <3>. QED
      BY <3>1 DEF InFlight, Idle
  <2>3. claims \in [DOMAIN claims -> Claim] /\ DOMAIN heard = DOMAIN claims
    BY <2>1 DEF Typed, Table
  <2>4. turns \in [DOMAIN turns -> Turn] /\ DOMAIN turns \subseteq 1 .. saved /\ now \in Time
    BY <2>1 DEF Typed
  <2>. QED
    BY <2>2, <2>3, <2>4 DEF TypeOK
<1>. QED
  BY Invariance, <1>1, PTL

(* A claim a model read in a turn cites one, and every turn a claim cites  *)
(* is stored: the batch reads again under the lock which of its turns are  *)
(* (_erased), and an erasure leaves the turns that another claim cites.    *)
THEOREM CitesAlways == Spec => []CitesStored
<1>1. IInv => CitesStored
  BY DEF IInv
<1>. QED
  BY Invariance, <1>1, PTL

(* A turn is not counted more often than it was said, repeats included,    *)
(* unless reextract() read it while another call was at it.                *)
THEOREM HeardAlways == Spec => []HeardAsSaid
<1>1. IInv => HeardAsSaid
  <2>. SUFFICES ASSUME IInv, NEW k \in DOMAIN claims, NEW e \in DOMAIN heard[k], ~ turns[e].raced
                PROVE  heard[k][e] <= turns[e].told
    BY DEF HeardAsSaid, BagToSet
  <2>. DEFINE m == Cardinality(AtTurn(e))
              h == Copied(e, heard[k])
  <2>1. e \in DOMAIN turns /\ Typed
    BY DEF IInv, CitesStored, BagToSet
  <2>2. h + m <= turns[e].told
    BY <2>1 DEF IInv, Counting
  <2>3. m \in Nat /\ turns[e].told \in Nat
    BY <2>1, AtTurnIsFinite, ToldIs
  <2>4. h \in Nat /\ h = heard[k][e]
    <3>1. IsABag(heard[k])
      BY <2>1 DEF Typed
    <3>2. h = heard[k][e]
      BY DEF Copied, BagIn, BagToSet
    <3>. QED
      BY <3>1, <3>2, CopiesAreMany
  <2>. HIDE DEF m, h
  <2>. QED
    BY <2>2, <2>3, <2>4
<1>. QED
  BY Invariance, <1>1, PTL

(* What is stored keeps its ends, or has them moved closer.                *)
LEMMA StandsWhereGrown ==
    ASSUME IInv, NEW user, Grown(claims', writes', user)
    PROVE  /\ \A k \in DOMAIN claims \cap DOMAIN claims' :
                 /\ claims'[k].to <= claims[k].to
                 /\ claims[k].inv # Forever => claims'[k].inv = claims[k].inv
           /\ \A k \in DOMAIN claims' \ DOMAIN claims : k[1] > writes
  BY DEF Grown

LEMMA StandsWhereLeft ==
    ASSUME IInv, DOMAIN claims' \subseteq DOMAIN claims, \A k \in DOMAIN claims' : claims'[k] = claims[k]
    PROVE  /\ \A k \in DOMAIN claims \cap DOMAIN claims' :
                 /\ claims'[k].to <= claims[k].to
                 /\ claims[k].inv # Forever => claims'[k].inv = claims[k].inv
           /\ \A k \in DOMAIN claims' \ DOMAIN claims : k[1] > writes
<1>1. \A k \in DOMAIN claims : claims[k].to \in Nat
  BY EndsAreNaturals DEF IInv, Typed, Table, Claim
<1>. QED
  BY <1>1

(* A batch decides on the rows as they are under the lock: whatever tier 0 *)
(* read, no step of any call moves an end away or takes a retirement back, *)
(* and what appears in the table is of a later write, never an erased row. *)
THEOREM ClosuresAlways == Spec => ClosuresStand
<1>. DEFINE Stand == /\ \A k \in DOMAIN claims \cap DOMAIN claims' :
                           /\ claims'[k].to <= claims[k].to
                           /\ claims[k].inv # Forever => claims'[k].inv = claims[k].inv
                     /\ \A k \in DOMAIN claims' \ DOMAIN claims : k[1] > writes
<1>1. IInv /\ [Next]_vars => [Stand]_vars
  <2>. SUFFICES ASSUME IInv, Next PROVE Stand
    OBVIOUS
  <2>1. Typed
    BY DEF IInv
  <2>2. CASE UNCHANGED claims
    BY <2>2, StandsWhereLeft
  <2>3. ASSUME NEW c \in Calls, Commit(c)
        PROVE  Stand
    <3>. DEFINE p == call[c]
    <3>1. p \in InFlight /\ p # Idle
      BY <2>1, <2>3, RunningIs DEF Commit
    <3>2. CASE claims' = claims
      BY <3>2, StandsWhereLeft
    <3>3. ASSUME NEW i \in Candidates(c), NEW o \in Apply(claims, writes, i, p.t, now, "ended"),
                 claims' = o.rows, writes' = o.writes
          PROVE  Stand
      <4>1. \E v \in Vals, b \in BOOLEAN, ts \in Time : i = SaidAs(v, b, ts, p.t)
        BY <2>1, <3>1, CandidatesAre
      <4>2. p.t \in Time
        BY <3>1 DEF InFlight
      <4>3. i \in Claim /\ Filed(i)
        BY <4>1, <4>2, SaidIsClaim
      <4>4. Grown(o.rows, o.writes, i.user)
        BY <2>1, <4>2, <4>3, ApplyGrows
      <4>5. Grown(claims', writes', i.user)
        BY <3>3, <4>4
      <4>. QED
        BY <4>5, StandsWhereGrown
    <3>. QED
      BY <2>3, <3>2, <3>3 DEF Commit, Current
  <2>4. ASSUME NEW v \in Values, Remember(v)
        PROVE  Stand
    <3>1. PICK user \in BOOLEAN : user /\ Grown(claims', writes', user)
      BY <2>1, <2>4, ToldGrows
    <3>. QED
      BY <3>1, StandsWhereGrown
  <2>5. ASSUME NEW k \in DOMAIN claims, NEW close \in Closures, Delete(k, close)
        PROVE  Stand
    <3>. DEFINE d == CloseOut(claims[k], now, close)
    <3>1. claims' = [claims EXCEPT ![k] = d]
      BY <2>5 DEF Delete
    <3>2. claims[k] \in Claim /\ now \in Ends /\ \A j \in DOMAIN claims : claims[j].to \in Nat
      BY <2>1, EndsAreNaturals DEF Typed, Table, Claim
    <3>3. d \in Claim /\ ClosedBy(claims[k], d, close)
      BY <3>2, CloseOutCloses
    <3>. HIDE DEF d
    <3>4. d.to <= claims[k].to /\ (claims[k].inv # Forever => d.inv = claims[k].inv)
      BY <3>2, <3>3 DEF ClosedBy
    <3>5. DOMAIN claims' = DOMAIN claims /\ \A j \in DOMAIN claims : claims'[j] = IF j = k THEN d ELSE claims[j]
      BY <3>1
    <3>. QED
      BY <3>2, <3>4, <3>5
  <2>6. ASSUME NEW k \in DOMAIN claims, NEW sources \in BOOLEAN, Erase(k, sources)
        PROVE  Stand
    <3>1. claims' = [j \in DOMAIN claims \ {k} |-> claims[j]]
      BY <2>6 DEF Erase
    <3>. QED
      BY <3>1, StandsWhereLeft
  <2>7. CASE Purge
    <3>1. DOMAIN claims' = {}
      BY <2>7 DEF Purge, Rows
    <3>. QED
      BY <3>1
  <2>8. CASE Mishap
    <3>1. ASSUME NEW c \in Calls, Crash(c)
          PROVE  UNCHANGED claims
      BY <3>1 DEF Crash
    <3>. QED
      BY <2>2, <2>4, <2>5, <2>6, <2>7, <2>8, <3>1 DEF Mishap
  <2>9. \/ UNCHANGED claims \/ Mishap \/ \E c \in Calls : Commit(c)
    BY DEF Next, BeginAdd, Save, Restates, Extract, ModelFails, ProposesEnd, Reread, Tick
  <2>. QED
    BY <2>2, <2>3, <2>8, <2>9
<1>. QED
  BY Invariance, <1>1, PTL DEF Spec, ClosuresStand

-----------------------------------------------------------------------------
(* The book the turns write is the Ledger's.  Reconcile reads the same     *)
(* there as here: its parts are equal once their definitions are expanded, *)
(* and its longest are put together from parts that are.                   *)

LEMMA BookLooks ==
    ASSUME NEW S, NEW i, NEW t
    PROVE  /\ Book!Newer(S, i, t) = Newer(S, i, t)
           /\ Book!Older(S, i, t) = Older(S, i, t)
           /\ Book!HeldFor(S, i, t) = HeldFor(S, i, t)
           /\ Book!LiveSame(S, i, t) = LiveSame(S, i, t)
<1>1. Book!Newer(S, i, t) = Newer(S, i, t)
  BY Zenon DEF Newer, Book!Newer, Victims, Book!Victims, Overlaps, Book!Overlaps, Occupants,
     Book!Occupants, SlotOf, Book!SlotOf, FactKey, Book!FactKey, Owner, Book!Owner, Hidden,
     Book!Hidden, IsExpired, Book!IsExpired, IsAfter, Book!IsAfter
<1>2. Book!Older(S, i, t) = Older(S, i, t)
  BY Zenon DEF Older, Book!Older, Victims, Book!Victims, Overlaps, Book!Overlaps, Occupants,
     Book!Occupants, SlotOf, Book!SlotOf, FactKey, Book!FactKey, Owner, Book!Owner, Hidden,
     Book!Hidden, IsExpired, Book!IsExpired, Newer, Book!Newer, IsAfter, Book!IsAfter
<1>3. Book!HeldFor(S, i, t) = HeldFor(S, i, t)
  BY Zenon DEF HeldFor, Book!HeldFor, Held, Book!Held, FindByValue, Book!FindByValue, ValueKey,
     Book!ValueKey, Owner, Book!Owner, Sees, Book!Sees, Ancestors, Book!Ancestors, Believed,
     Book!Believed, Hidden, Book!Hidden, IsExpired, Book!IsExpired
<1>4. Book!LiveSame(S, i, t) = LiveSame(S, i, t)
  BY Zenon DEF LiveSame, Book!LiveSame, FindByValue, Book!FindByValue, ValueKey, Book!ValueKey,
     Owner, Book!Owner, IsLive, Book!IsLive, Believed, Book!Believed, InForce, Book!InForce,
     Hidden, Book!Hidden, IsExpired, Book!IsExpired, Sees, Book!Sees, Ancestors, Book!Ancestors
<1>. QED
  BY <1>1, <1>2, <1>3, <1>4

LEMMA BookGaps ==
    ASSUME NEW S, NEW i, NEW ids, NEW stop
    PROVE  Book!Gaps(S, i, ids, stop) = Gaps(S, i, ids, stop)
  BY Zenon DEF Gaps, Book!Gaps, UnheldInstants, Book!UnheldInstants, Overlapped,
     Book!Overlapped, HoldsFrom, Book!HoldsFrom, IsAfter, Book!IsAfter, Earlier, Book!Earlier,
     Ends, Book!Ends

LEMMA BookExtends ==
    ASSUME NEW S, NEW n, NEW i, NEW t, NEW seen
    PROVE  Book!ExtendBackwards(S, n, i, t, seen) = ExtendBackwards(S, n, i, t, seen)
<1>. DEFINE
  Expanded(stop, held) ==
      CASE Covering(S, i, held, stop) # {} ->
            {Outcome(Repeat(S, i, {k}), n) :
                k \in Oldest(S, Covering(S, i, held, stop))}
      [] Covering(S, i, held, stop) = {} /\ Gaps(S, i, held, stop) = {} ->
            {Outcome(Repeat(S, i, Overlapped(S, i, held, stop)), n)}
      [] Covering(S, i, held, stop) = {} /\ Gaps(S, i, held, stop) # {} ->
            {Outcome(
                 StoreInPieces(S, n, i, Gaps(S, i, held, stop), Overlapped(S, i, held, stop)),
                 n + 1)}
  BookExpanded(stop, held) ==
      CASE Book!Covering(S, i, held, stop) # {} ->
            {Book!Outcome(Book!Repeat(S, i, {k}), n) :
                k \in Book!Oldest(S, Book!Covering(S, i, held, stop))}
      [] Book!Covering(S, i, held, stop) = {} /\ Book!Gaps(S, i, held, stop) = {} ->
            {Book!Outcome(Book!Repeat(S, i, Book!Overlapped(S, i, held, stop)), n)}
      [] Book!Covering(S, i, held, stop) = {} /\ Book!Gaps(S, i, held, stop) # {} ->
            {Book!Outcome(
                 Book!StoreInPieces(S, n, i, Book!Gaps(S, i, held, stop), Book!Overlapped(S, i, held, stop)),
                 n + 1)}
<1>1. ASSUME NEW stop, NEW held
      PROVE  BookExpanded(stop, held) = Expanded(stop, held)
  BY Zenon DEF Covering, Book!Covering, IsAfter, Book!IsAfter, Gaps, Book!Gaps, UnheldInstants,
     Book!UnheldInstants, Overlapped, Book!Overlapped, HoldsFrom, Book!HoldsFrom, Earlier,
     Book!Earlier, Ends, Book!Ends, Outcome, Book!Outcome, Repeat, Book!Repeat, Oldest,
     Book!Oldest, StoreInPieces, Book!StoreInPieces, Piece, Book!Piece
<1>2. ExtendBackwards(S, n, i, t, seen) =
          Expanded(EarlierEnd(S, i, Held(S, i, t), seen), Held(S, i, t))
  BY Zenon DEF ExtendBackwards
<1>3. Book!ExtendBackwards(S, n, i, t, seen) =
          BookExpanded(Book!EarlierEnd(S, i, Book!Held(S, i, t), seen), Book!Held(S, i, t))
  BY Zenon DEF Book!ExtendBackwards
<1>. HIDE DEF Expanded, BookExpanded
<1>4. Book!Held(S, i, t) = Held(S, i, t)
  BY Zenon DEF Held, Book!Held, FindByValue, Book!FindByValue, ValueKey, Book!ValueKey, Owner,
     Book!Owner, Sees, Book!Sees, Ancestors, Book!Ancestors, Believed, Book!Believed, Hidden,
     Book!Hidden, IsExpired, Book!IsExpired
<1>5. ASSUME NEW held
      PROVE  Book!EarlierEnd(S, i, held, seen) = EarlierEnd(S, i, held, seen)
  BY Zenon DEF EarlierEnd, Book!EarlierEnd, LeastOf, Book!LeastOf, IsAfter, Book!IsAfter,
     GreatestOf, Book!GreatestOf, Reaching, Book!Reaching, Earlier, Book!Earlier
<1>. QED
  BY <1>1, <1>2, <1>3, <1>4, <1>5

LEMMA BookRetracts ==
    ASSUME NEW S, NEW n, NEW i, NEW t, NEW clock, NEW close
    PROVE  Book!ApplyRetraction(S, n, i, t, clock, close) = ApplyRetraction(S, n, i, t, clock, close)
  BY Zenon DEF ApplyRetraction, Book!ApplyRetraction, Retracted, Book!Retracted, SlotOf,
     Book!SlotOf, FactKey, Book!FactKey, Owner, Book!Owner, Sees, Book!Sees, Ancestors,
     Book!Ancestors, IsLive, Book!IsLive, Believed, Book!Believed, InForce, Book!InForce,
     Hidden, Book!Hidden, IsExpired, Book!IsExpired, NotBeforeStart, Book!NotBeforeStart, Later,
     Book!Later, Outranked, Book!Outranked, HasAuthorityOver, Book!HasAuthorityOver,
     FindByValue, Book!FindByValue, ValueKey, Book!ValueKey, StoreInPieces, Book!StoreInPieces,
     Repeat, Book!Repeat, Piece, Book!Piece, Outcome, Book!Outcome, Retire, Book!Retire,
     CloseOut, Book!CloseOut, Earlier, Book!Earlier, Tombstone, Book!Tombstone

LEMMA BookFiles ==
    ASSUME NEW S, NEW n, NEW i, NEW t
    PROVE  Book!Canonical(i, t) = Canonical(i, t) /\ Book!Outcome(S, n) = Outcome(S, n)
  BY Zenon DEF Canonical, Book!Canonical, SlotScope, Book!SlotScope, Earlier, Book!Earlier,
     Outcome, Book!Outcome

LEMMA BookCompetes ==
    ASSUME NEW S, NEW n, NEW i, NEW t, NEW close
    PROVE  Book!Compete(S, n, i, t, close) = Compete(S, n, i, t, close)
<1>. DEFINE
  Stop(newer) == Earlier(i.to, LeastOf({Forever} \cup {S[k].from : k \in newer}))
  BookStop(newer) == Book!Earlier(i.to, Book!LeastOf({Forever} \cup {S[k].from : k \in newer}))
  Expanded(stop, older, held) ==
      CASE Covering(S, i, held, stop) # {} ->
            {Outcome(Repeat(S, i, {k}), n) :
                k \in Oldest(S, Covering(S, i, held, stop))}
      [] Covering(S, i, held, stop) = {} /\ Gaps(S, i, held, stop) = {} ->
            {Outcome(Repeat(S, i, Overlapped(S, i, held, stop)), n)}
      [] Covering(S, i, held, stop) = {} /\ Gaps(S, i, held, stop) # {} ->
            {Outcome(Retire(
                 StoreInPieces(S, n, i, Gaps(S, i, held, stop), Overlapped(S, i, held, stop)),
                 Outranked(S, i, older), i, t, close), n + 1)}
  BookExpanded(stop, older, held) ==
      CASE Book!Covering(S, i, held, stop) # {} ->
            {Book!Outcome(Book!Repeat(S, i, {k}), n) :
                k \in Book!Oldest(S, Book!Covering(S, i, held, stop))}
      [] Book!Covering(S, i, held, stop) = {} /\ Book!Gaps(S, i, held, stop) = {} ->
            {Book!Outcome(Book!Repeat(S, i, Book!Overlapped(S, i, held, stop)), n)}
      [] Book!Covering(S, i, held, stop) = {} /\ Book!Gaps(S, i, held, stop) # {} ->
            {Book!Outcome(Book!Retire(
                 Book!StoreInPieces(S, n, i, Book!Gaps(S, i, held, stop), Book!Overlapped(S, i, held, stop)),
                 Book!Outranked(S, i, older), i, t, close), n + 1)}
<1>1. ASSUME NEW stop, NEW older, NEW held
      PROVE  BookExpanded(stop, older, held) = Expanded(stop, older, held)
  BY Zenon DEF Covering, Book!Covering, IsAfter, Book!IsAfter, Gaps, Book!Gaps, UnheldInstants,
     Book!UnheldInstants, Overlapped, Book!Overlapped, HoldsFrom, Book!HoldsFrom, Earlier,
     Book!Earlier, Ends, Book!Ends, Outranked, Book!Outranked, HasAuthorityOver,
     Book!HasAuthorityOver, Outcome, Book!Outcome, Repeat, Book!Repeat, Oldest, Book!Oldest,
     Retire, Book!Retire, CloseOut, Book!CloseOut, NotBeforeStart, Book!NotBeforeStart, Later,
     Book!Later, StoreInPieces, Book!StoreInPieces, Piece, Book!Piece
<1>2. Compete(S, n, i, t, close) = Expanded(Stop(Newer(S, i, t)), Older(S, i, t), HeldFor(S, i, t))
  BY Zenon DEF Compete
<1>3. Book!Compete(S, n, i, t, close) =
          BookExpanded(BookStop(Book!Newer(S, i, t)), Book!Older(S, i, t), Book!HeldFor(S, i, t))
  BY Zenon DEF Book!Compete
<1>4. \A newer : BookStop(newer) = Stop(newer)
  BY Zenon DEF Earlier, LeastOf, Book!Earlier, Book!LeastOf
<1>. HIDE DEF Expanded, BookExpanded, Stop, BookStop
<1>. QED
  BY <1>1, <1>2, <1>3, <1>4, BookLooks

LEMMA BookAppliesPositive ==
    ASSUME NEW S, NEW n, NEW i, NEW t, NEW close
    PROVE  Book!ApplyPositive(S, n, i, t, close) = ApplyPositive(S, n, i, t, close)
<1>. DEFINE
  expiring == i.exp # Forever /\ i.user
  Expanded(live, whole, extended, competing) ==
      CASE live # {} /\ (\A k \in live : IsAfter(S[k], i)) /\ ~ expiring -> extended
      [] live # {} /\ (expiring \/ (~ (\A k \in live : IsAfter(S[k], i)) /\ whole)) ->
            {Outcome(Repeat(S, i, {k}), n) : k \in Oldest(S, live)}
      [] live = {} \/ (~ (\A k \in live : IsAfter(S[k], i)) /\ ~ expiring /\ ~ whole) -> competing
  BookExpanded(live, whole, extended, competing) ==
      CASE live # {} /\ (\A k \in live : Book!IsAfter(S[k], i)) /\ ~ expiring -> extended
      [] live # {} /\ (expiring \/ (~ (\A k \in live : Book!IsAfter(S[k], i)) /\ whole)) ->
            {Book!Outcome(Book!Repeat(S, i, {k}), n) : k \in Book!Oldest(S, live)}
      [] live = {} \/ (~ (\A k \in live : Book!IsAfter(S[k], i)) /\ ~ expiring /\ ~ whole) -> competing
<1>1. ASSUME NEW live, NEW whole, NEW extended, NEW competing
      PROVE  BookExpanded(live, whole, extended, competing) = Expanded(live, whole, extended, competing)
  BY Zenon DEF IsAfter, Book!IsAfter, Outcome, Book!Outcome, Repeat, Book!Repeat, Oldest,
     Book!Oldest
<1>2. ApplyPositive(S, n, i, t, close) =
          Expanded(LiveSame(S, i, t), Gaps(S, i, HeldFor(S, i, t), i.to) = {},
                   ExtendBackwards(S, n, i, t, LiveSame(S, i, t)), Compete(S, n, i, t, close))
  BY Zenon DEF ApplyPositive
<1>3. Book!ApplyPositive(S, n, i, t, close) =
          BookExpanded(Book!LiveSame(S, i, t),
                       Book!Gaps(S, i, Book!HeldFor(S, i, t), i.to) = {},
                       Book!ExtendBackwards(S, n, i, t, Book!LiveSame(S, i, t)),
                       Book!Compete(S, n, i, t, close))
  BY Zenon DEF Book!ApplyPositive
<1>. HIDE DEF Expanded, BookExpanded
<1>4. /\ Book!LiveSame(S, i, t) = LiveSame(S, i, t) /\ Book!HeldFor(S, i, t) = HeldFor(S, i, t)
      /\ Book!Compete(S, n, i, t, close) = Compete(S, n, i, t, close)
  BY BookLooks, BookCompetes
<1>5. Book!Gaps(S, i, Book!HeldFor(S, i, t), i.to) = Gaps(S, i, HeldFor(S, i, t), i.to)
  BY <1>4, BookGaps, Zenon
<1>6. Book!ExtendBackwards(S, n, i, t, Book!LiveSame(S, i, t)) =
          ExtendBackwards(S, n, i, t, LiveSame(S, i, t))
  BY <1>4, BookExtends, Zenon
<1>. QED
  BY <1>1, <1>2, <1>3, <1>4, <1>5, <1>6, Zenon

(* Reconciler.apply of the book is the one that the batches call.          *)
LEMMA BookApplies ==
    ASSUME NEW S, NEW n, NEW i, NEW t, NEW clock, NEW close
    PROVE  Book!Apply(S, n, i, t, clock, close) = Apply(S, n, i, t, clock, close)
<1>. DEFINE Chosen(c, nothing, positive, retraction) ==
                CASE c.neg -> retraction
                  [] ~ c.neg /\ c.val = NoValue -> nothing
                  [] ~ c.neg /\ c.val # NoValue -> positive
<1>1. Apply(S, n, i, t, clock, close) =
          Chosen(Canonical(i, t), {Outcome(S, n)}, ApplyPositive(S, n, Canonical(i, t), t, close),
                 ApplyRetraction(S, n, Canonical(i, t), t, clock, close))
  BY Zenon DEF Apply
<1>2. Book!Apply(S, n, i, t, clock, close) =
          Chosen(Book!Canonical(i, t), {Book!Outcome(S, n)},
                 Book!ApplyPositive(S, n, Book!Canonical(i, t), t, close),
                 Book!ApplyRetraction(S, n, Book!Canonical(i, t), t, clock, close))
  BY Zenon DEF Book!Apply
<1>. HIDE DEF Chosen
<1>3. Book!Canonical(i, t) = Canonical(i, t) /\ Book!Outcome(S, n) = Outcome(S, n)
  BY BookFiles
<1>4. \A c : /\ Book!ApplyPositive(S, n, c, t, close) = ApplyPositive(S, n, c, t, close)
            /\ Book!ApplyRetraction(S, n, c, t, clock, close) = ApplyRetraction(S, n, c, t, clock, close)
  BY BookAppliesPositive, BookRetracts
<1>. QED
  BY <1>1, <1>2, <1>3, <1>4, Zenon

(* When each call in flight began.                                         *)
Began == [c \in Calls |-> IF call[c] = Idle THEN Forever ELSE call[c].t]

LEMMA BeganIs ==
    ASSUME Typed, NEW c \in Calls
    PROVE  /\ call[c] = Idle => Began[c] = Forever
           /\ call[c] # Idle => Began[c] = call[c].t /\ Began[c] \in Time /\ Began[c] # Forever
<1>1. \A v \in Time : v # Forever
  BY EndsAreNaturals
<1>. QED
  BY <1>1 DEF Began, Typed, InFlight

(* A call that goes on began when it did.                                  *)
LEMMA GoesOn ==
    ASSUME Typed, NEW c \in Calls, NEW q \in InFlight, call[c] # Idle, q.t = call[c].t,
           call' = [call EXCEPT ![c] = q]
    PROVE  Began' = Began
<1>1. q # Idle
  BY NotIdle
<1>2. \A d \in Calls : (IF call'[d] = Idle THEN Forever ELSE call'[d].t) =
                       (IF call[d] = Idle THEN Forever ELSE call[d].t)
  BY <1>1, OneCallChanges
<1>. QED
  BY <1>2 DEF Began

LEMMA BookBegins ==
    ASSUME Typed, NEW c \in Calls, NEW q \in InFlight, call[c] = Idle, q.t = now,
           call' = [call EXCEPT ![c] = q], UNCHANGED <<claims, writes, now>>
    PROVE  Book!BeginAdd(c)
<1>1. q # Idle /\ writes + 1 \in Nat
  BY NotIdle DEF Typed
<1>2. \A d \in Calls : (IF call'[d] = Idle THEN Forever ELSE call'[d].t) =
                       IF d = c THEN now ELSE Began[d]
  BY <1>1, OneCallChanges DEF Began
<1>3. Began' = [Began EXCEPT ![c] = now]
  BY <1>2 DEF Began
<1>4. Began[c] = Forever
  BY BeganIs
<1>. QED
  BY <1>1, <1>3, <1>4 DEF Book!BeginAdd, Began

LEMMA LeavesAre ==
    ASSUME Typed, NEW c \in Calls, call[c] # Idle, call' = [call EXCEPT ![c] = Idle]
    PROVE  Began' = [Began EXCEPT ![c] = Forever]
<1>1. Idle \in {Idle} \cup InFlight
  OBVIOUS
<1>2. \A d \in Calls : (IF call'[d] = Idle THEN Forever ELSE call'[d].t) =
                       IF d = c THEN Forever ELSE Began[d]
  BY <1>1, OneCallChanges DEF Began
<1>. QED
  BY <1>2 DEF Began

LEMMA BookLeaves ==
    ASSUME Typed, NEW c \in Calls, call[c] # Idle, call' = [call EXCEPT ![c] = Idle],
           UNCHANGED <<claims, writes, now>>
    PROVE  Book!Leave(c)
<1>1. Began' = [Began EXCEPT ![c] = Forever] /\ Began[c] # Forever
  BY LeavesAre, BeganIs
<1>. QED
  BY <1>1 DEF Book!Leave, Began

(* A statement of a turn, stamped when the call began.                     *)
LEMMA StampedIs ==
    ASSUME NEW v, NEW b, NEW ts \in Time, NEW t \in Time
    PROVE  [Book!Stamped(SaidAs(v, b, ts, Forever), t) EXCEPT !.rec = t] = SaidAs(v, b, ts, t)
<1>. DEFINE s == SaidAs(v, b, ts, Forever)
            m == Book!Stamped(s, t)
<1>1. ts # Forever /\ s.from = ts /\ s.rec = Forever
  BY EndsAreNaturals DEF SaidAs
<1>2. m = [s EXCEPT !.rec = t, !.from = ts]
  BY <1>1 DEF Book!Stamped
<1>3. s = [s EXCEPT !.from = ts]
  <2>. DEFINE no   == FALSE
              one  == 1
              zero == 0
              r    == s
  <2>1. r = [pred |-> Topic, val |-> v, neg |-> b, scope |-> Here, from |-> ts, width |-> zero,
             to |-> Forever, rec |-> Forever, inv |-> Forever, conf |-> one, exp |-> Forever,
             user |-> no]
    BY Zenon DEF SaidAs
  <2>. HIDE DEF r, no, one, zero
  <2>2. r = [r EXCEPT !.from = ts]
    BY <2>1
  <2>. QED
    BY <2>2 DEF r
<1>4. SaidAs(v, b, ts, t) = [s EXCEPT !.rec = t]
  BY AsOfIs DEF AsOf
<1>. HIDE DEF s, m
<1>5. [m EXCEPT !.rec = t] = [s EXCEPT !.rec = t]
  BY <1>2, <1>3
<1>. QED
  BY <1>4, <1>5 DEF s, m

LEMMA YieldsAre ==
    /\ \A v \in Vals, b \in BOOLEAN, ts \in Time : SaidAs(v, b, ts, Forever) \in Yields
    /\ \A v \in Values : Told(v) \in Yields
  BY DEF Yields, Vals

LEMMA BookCommits ==
    ASSUME Typed, NEW c \in Calls, call[c] # Idle, call' = [call EXCEPT ![c] = Idle], now' = now,
           NEW i \in Candidates(c),
           NEW o \in Apply(claims, writes, i, call[c].t, now, "ended"),
           claims' = o.rows, writes' = o.writes
    PROVE  \E s \in Yields : Book!CommitAdd(c, s)
<1>. DEFINE t == call[c].t
<1>1. PICK v \in Vals, b \in BOOLEAN, ts \in Time : i = SaidAs(v, b, ts, t)
  BY CandidatesAre
<1>. DEFINE s == SaidAs(v, b, ts, Forever)
            I == [Book!Stamped(s, t) EXCEPT !.rec = t]
<1>2. s \in Yields
  BY YieldsAre
<1>3. Began' = [Began EXCEPT ![c] = Forever] /\ Began[c] = t /\ t # Forever /\ t \in Time
  BY LeavesAre, BeganIs
<1>4. I = i
  BY <1>1, <1>3, StampedIs
<1>5. ~ s.user
  BY DEF SaidAs
<1>6. writes + 1 \in Nat
  BY DEF Typed
<1>7. Book!Reconciled(claims, I, t, "ended")
  <2>1. o \in Book!Apply(claims, writes, i, t, now, "ended")
    BY BookApplies, Zenon
  <2>. QED
    BY <1>4, <1>6, <2>1 DEF Book!Reconciled
<1>. HIDE DEF s, t
<1>8. Book!CommitAdd(c, s)
  BY <1>3, <1>5, <1>7 DEF Book!CommitAdd, Began
<1>. QED
  BY <1>2, <1>8

LEMMA BookRemembers ==
    ASSUME Typed, NEW v \in Values, Remember(v)
    PROVE  \E s \in Yields, close \in Closures : Book!Remember(s, close)
<1>. DEFINE s == Told(v)
            i == [s EXCEPT !.from = now, !.rec = now]
            I == Book!Stamped(s, now)
<1>1. PICK o \in Apply(claims, writes, i, now, now, "ended") : claims' = o.rows /\ writes' = o.writes
  BY DEF Remember
<1>2. now' = now /\ Began' = Began
  BY DEF Remember, Began
<1>3. s \in Yields /\ "ended" \in Closures
  BY YieldsAre DEF Closures
<1>4. s.user /\ s.from = Forever /\ s.rec = Forever /\ s.to = Forever /\ s.exp = Forever
  BY DEF Told
<1>5. I = [s EXCEPT !.rec = now, !.from = now]
  BY <1>4 DEF Book!Stamped
<1>. HIDE DEF s, I
<1>6. I = i
  BY <1>5
<1>7. i.exp = Forever /\ i.to = Forever /\ i.from = now
  <2>1. s = [pred |-> s.pred, val |-> s.val, neg |-> s.neg, scope |-> s.scope, from |-> s.from,
             width |-> s.width, to |-> s.to, rec |-> s.rec, inv |-> s.inv, conf |-> s.conf,
             exp |-> s.exp, user |-> s.user]
    BY DEF s, Told
  <2>. QED
    BY <1>4, <2>1
<1>8. now < Forever /\ writes + 1 \in Nat
  BY EndsAreNaturals DEF Typed
<1>9. I.exp > now /\ I.from < I.to
  BY <1>6, <1>7, <1>8, EndsAreNaturals DEF Typed
<1>10. Book!Reconciled(claims, I, now, "ended")
  <2>1. o \in Book!Apply(claims, writes, i, now, now, "ended")
    BY <1>1, BookApplies, Zenon
  <2>. QED
    BY <1>1, <1>6, <1>8, <2>1 DEF Book!Reconciled
<1>11. Book!Remember(s, "ended")
  BY <1>2, <1>4, <1>9, <1>10 DEF Book!Remember, Began, I
<1>. QED
  BY <1>3, <1>11

LEMMA BookDeletes ==
    ASSUME Typed, NEW k \in DOMAIN claims, NEW close \in Closures, Delete(k, close)
    PROVE  Book!Delete(k, now, close)
<1>1. Book!CloseOut(claims[k], now, close) = CloseOut(claims[k], now, close)
  BY Zenon DEF CloseOut, Book!CloseOut, NotBeforeStart, Book!NotBeforeStart, Later, Book!Later,
               Earlier, Book!Earlier
<1>2. claims' = [j \in DOMAIN claims |-> IF j \in {k} THEN CloseOut(claims[j], now, close) ELSE claims[j]]
  BY DEF Delete
<1>3. \A j \in DOMAIN claims : (IF j \in {k} THEN Book!CloseOut(claims[j], now, close) ELSE claims[j])
                             = (IF j \in {k} THEN CloseOut(claims[j], now, close) ELSE claims[j])
  BY <1>1
<1>4. claims' = Book!Closed({k}, now, close)
  BY <1>2, <1>3 DEF Book!Closed
<1>5. ~ Book!Hidden(claims[k], now)
  <2>1. claims[k].exp = Forever /\ ~ (Forever <= now)
    BY EndsAreNaturals DEF Typed, Filed
  <2>. QED
    BY <2>1 DEF Book!Hidden, Book!IsExpired
<1>. QED
  BY <1>4, <1>5 DEF Book!Delete, Delete

LEMMA BookPurges ==
    ASSUME Typed, turns # [e \in {} |-> {}], Purge
    PROVE  Book!Purge(Here) /\ Here \in Book!CallScopes
<1>1. PICK x \in Texts : TRUE
  <2>1. turns = [e \in DOMAIN turns |-> turns[e]] /\ \A e \in DOMAIN turns : turns[e] \in Turn
    BY DEF Typed
  <2>2. DOMAIN turns # {}
    <3>1. SUFFICES ASSUME DOMAIN turns = {} PROVE FALSE
      OBVIOUS
    <3>2. turns = [e \in {} |-> turns[e]] /\ [e \in {} |-> turns[e]] = [e \in {} |-> {}]
      BY <2>1, <3>1
    <3>. QED
      BY <3>2
  <2>. QED
    BY <2>1, <2>2 DEF Turn
<1>2. Here \in Book!CallScopes
  <2>. DEFINE s == SaidAs(Says[x].val, Says[x].neg, 0, Forever)
  <2>1. 0 \in Time /\ Says[x].neg \in BOOLEAN /\ Says[x].val \in Vals
    BY ForeverAssumption, ConstantsAre DEF Time
  <2>2. s \in Yields
    BY <2>1, YieldsAre
  <2>3. s.scope = Here
    BY DEF SaidAs
  <2>. QED
    BY <2>2, <2>3 DEF Book!CallScopes
<1>3. {k \in DOMAIN claims : ~ Book!Contains(Here, claims[k].scope)} = {}
  BY DEF Typed, Filed, Book!Contains
<1>4. claims' = [j \in {k \in DOMAIN claims : ~ Book!Contains(Here, claims[k].scope)} |-> claims[j]]
  BY <1>3 DEF Purge, Rows
<1>5. writes' = writes /\ now' = now /\ Began' = Began
  BY DEF Purge, Began
<1>. QED
  BY <1>2, <1>4, <1>5 DEF Book!Purge, Began

LEMMA BookMishaps ==
    ASSUME Typed, Mishap
    PROVE  Book!Next
<1>1. ASSUME NEW c \in Calls, Crash(c)
      PROVE  Book!Next
  <2>1. Book!Leave(c)
    BY <1>1, BookLeaves DEF Crash
  <2>. QED
    BY <2>1 DEF Book!Next
<1>2. ASSUME NEW v \in Values, Remember(v)
      PROVE  Book!Next
  <2>1. \E s \in Yields, close \in Closures : Book!Remember(s, close)
    BY <1>2, BookRemembers
  <2>. QED
    BY <2>1 DEF Book!Next, Closures, Book!Closures
<1>3. ASSUME NEW k \in DOMAIN claims, NEW close \in Closures, Delete(k, close)
      PROVE  Book!Next
  <2>1. Book!Delete(k, now, close)
    BY <1>3, BookDeletes
  <2>. QED
    BY <2>1 DEF Book!Next, Closures, Book!Closures
<1>4. ASSUME NEW k \in DOMAIN claims, NEW sources \in BOOLEAN, Erase(k, sources)
      PROVE  Book!Next
  <2>1. Book!Erase(k)
    BY <1>4 DEF Erase, Book!Erase
  <2>. QED
    BY <2>1 DEF Book!Next
<1>5. ASSUME turns # [e \in {} |-> {}], Purge
      PROVE  Book!Next
  <2>1. Book!Purge(Here) /\ Here \in Book!CallScopes
    BY <1>5, BookPurges
  <2>. QED
    BY <2>1 DEF Book!Next
<1>. QED
  BY <1>1, <1>2, <1>3, <1>4, <1>5 DEF Mishap

(* A call begins at its instant.                                           *)
LEMMA HeardNow ==
    ASSUME Typed, NEW e \in Nat, NEW x \in Texts, NEW ts \in Time, NEW again \in BOOLEAN,
           NEW stage \in {"found", "stored", "read"}, NEW Q \in Queues
    PROVE  LET h == Heard(stage, e, x, ts, again)
           IN  /\ h \in InFlight /\ h.t = now
               /\ [h EXCEPT !.queued = Q] \in InFlight /\ [h EXCEPT !.queued = Q].t = now
<1>. DEFINE h == Heard(stage, e, x, ts, again)
<1>1. h \in InFlight
  BY HeardIs
<1>2. h.t = now
  BY DEF Heard
<1>. HIDE DEF h
<1>3. [h EXCEPT !.queued = Q] \in InFlight /\ [h EXCEPT !.queued = Q].t = now
  BY <1>1, <1>2 DEF InFlight
<1>. QED
  BY <1>1, <1>2, <1>3 DEF h

LEMMA BeginsInFlight ==
    ASSUME Typed, NEW c \in Calls, NEW x \in Texts, NEW ts \in 0 .. now, BeginAdd(c, x, ts)
    PROVE  \E q \in InFlight : q.t = now /\ call' = [call EXCEPT ![c] = q]
<1>1. ts \in Time
  BY EndsAreNaturals DEF Typed, Time
<1>2. PICK no \in BOOLEAN : no = FALSE
  OBVIOUS
<1>3. ASSUME NEW e \in Repeated(x, ts, now),
             call' = [call EXCEPT ![c] = [Heard("read", e, x, ts, no) EXCEPT
                                             !.queued = Rows(LiveAt(Citing(e), now))]]
      PROVE  \E q \in InFlight : q.t = now /\ call' = [call EXCEPT ![c] = q]
  <2>. DEFINE h == Heard("read", e, x, ts, no)
              Q == Rows(LiveAt(Citing(e), now))
  <2>1. e \in Nat
    BY ToldIs DEF Repeated, EarlierOccurrence, Copies
  <2>2. LiveAt(Citing(e), now) \in SUBSET DOMAIN claims
    BY DEF LiveAt, Citing
  <2>3. Q \in Queues
    BY <2>2, RowsAreQueue
  <2>. HIDE DEF Q
  <2>4. [h EXCEPT !.queued = Q] \in InFlight /\ [h EXCEPT !.queued = Q].t = now
    BY <1>1, <2>1, <2>3, HeardNow
  <2>. QED
    BY <1>3, <2>4 DEF Q
<1>4. ASSUME call' = [call EXCEPT ![c] = Heard("found", 0, x, ts, no)]
      PROVE  \E q \in InFlight : q.t = now /\ call' = [call EXCEPT ![c] = q]
  <2>1. Heard("found", 0, x, ts, no) \in InFlight
    BY <1>1, HeardIs
  <2>2. Heard("found", 0, x, ts, no).t = now
    BY DEF Heard
  <2>. QED
    BY <1>4, <2>1, <2>2
<1>. QED
  BY <1>2, <1>3, <1>4 DEF BeginAdd

LEMMA RereadsInFlight ==
    ASSUME Typed, NEW c \in Calls, NEW e \in DOMAIN turns, Reread(c, e)
    PROVE  \E q \in InFlight : q.t = now /\ call' = [call EXCEPT ![c] = q]
<1>1. PICK yes \in BOOLEAN : yes = TRUE
  OBVIOUS
<1>. DEFINE q == Heard("stored", e, turns[e].text, turns[e].ts, yes)
<1>2. q \in InFlight
  <2>1. turns[e].text \in Texts /\ turns[e].ts \in Time /\ e \in Nat
    BY ToldIs DEF Turn
  <2>. QED
    BY <2>1, HeardIs
<1>3. q.t = now
  BY DEF Heard
<1>4. call' = [call EXCEPT ![c] = q]
  BY <1>1 DEF Reread
<1>. QED
  BY <1>2, <1>3, <1>4

(* A step of the calls is a call of the book, or writes nothing there.     *)
LEMMA BookSteps ==
    ASSUME Typed, [Next]_vars
    PROVE  UNCHANGED Book!vars \/ Book!Next
<1>1. UNCHANGED <<claims, writes, now>> /\ Began' = Began => UNCHANGED Book!vars
  BY DEF Book!vars, Began
<1>. DEFINE Goes(c) == /\ UNCHANGED <<claims, writes, now>>
                       /\ call[c] # Idle
                       /\ \E q \in InFlight : q.t = call[c].t /\ call' = [call EXCEPT ![c] = q]
<1>2. ASSUME NEW c \in Calls, Goes(c)
      PROVE  UNCHANGED Book!vars
  BY <1>1, <1>2, GoesOn
<1>3. ASSUME NEW c \in Calls, NEW x \in Texts, NEW ts \in 0 .. now, BeginAdd(c, x, ts)
      PROVE  Book!Next
  <2>1. PICK q \in InFlight : q.t = now /\ call' = [call EXCEPT ![c] = q]
    BY <1>3, BeginsInFlight
  <2>2. Book!BeginAdd(c)
    BY <1>3, <2>1, BookBegins DEF BeginAdd
  <2>. QED
    BY <2>2 DEF Book!Next
<1>4. ASSUME NEW c \in Calls, Save(c)
      PROVE  Goes(c)
  <2>. DEFINE p == call[c]
              e == saved + 1
              q == [p EXCEPT !.stage = "stored", !.turn = e]
  <2>1. p \in InFlight /\ p # Idle /\ e \in Nat
    BY <1>4, RunningIs DEF Save, Typed
  <2>2. call' = [call EXCEPT ![c] = q] /\ UNCHANGED <<claims, writes, now>>
    BY <1>4 DEF Save
  <2>3. q \in InFlight
    BY <2>1, InFlightChanges
  <2>4. q.t = p.t
    BY <2>1 DEF InFlight
  <2>. HIDE DEF q
  <2>. QED
    BY <2>1, <2>2, <2>3, <2>4
<1>5. ASSUME NEW c \in Calls, NEW k \in DOMAIN claims, Restates(c, k)
      PROVE  Goes(c)
  <2>. DEFINE p == call[c]
              Q == Rows({k})
              r == [p EXCEPT !.stage = "read", !.says = {Statement(p.text, p.ts)}]
              q == [p EXCEPT !.stage = "read", !.queued = Q]
  <2>1. p \in InFlight /\ p # Idle /\ p.text \in Texts
    BY <1>5, RunningIs DEF Restates, InFlight
  <2>2. Q \in Queues
    BY RowsAreQueue
  <2>3. (call' = [call EXCEPT ![c] = r] \/ call' = [call EXCEPT ![c] = q]) /\ UNCHANGED <<claims, writes, now>>
    BY <1>5 DEF Restates
  <2>. HIDE DEF Q
  <2>4. q \in InFlight /\ r \in InFlight
    BY <2>1, <2>2, InFlightChanges
  <2>5. q.t = p.t /\ r.t = p.t
    BY <2>1 DEF InFlight
  <2>. HIDE DEF q, r
  <2>. QED
    BY <2>1, <2>3, <2>4, <2>5
<1>6. ASSUME NEW c \in Calls, Extract(c)
      PROVE  Goes(c)
  <2>. DEFINE p == call[c]
              q == [p EXCEPT !.stage = "read", !.says = {Statement(p.text, p.ts)}]
  <2>1. p \in InFlight /\ p # Idle /\ p.text \in Texts
    BY <1>6, RunningIs DEF Extract, InFlight
  <2>2. call' = [call EXCEPT ![c] = q] /\ UNCHANGED <<claims, writes, now>>
    BY <1>6 DEF Extract
  <2>3. q \in InFlight
    BY <2>1, InFlightChanges
  <2>4. q.t = p.t
    BY <2>1 DEF InFlight
  <2>. HIDE DEF q
  <2>. QED
    BY <2>1, <2>2, <2>3, <2>4
<1>7. ASSUME NEW c \in Calls, ModelFails(c)
      PROVE  Goes(c)
  <2>. DEFINE p == call[c]
              q == [p EXCEPT !.stage = "read"]
  <2>1. p \in InFlight /\ p # Idle
    BY <1>7, RunningIs DEF ModelFails
  <2>2. call' = [call EXCEPT ![c] = q] /\ UNCHANGED <<claims, writes, now>>
    BY <1>7 DEF ModelFails
  <2>3. q \in InFlight /\ q.t = p.t
    BY <2>1 DEF InFlight
  <2>. HIDE DEF q
  <2>. QED
    BY <2>1, <2>2, <2>3
<1>8. ASSUME NEW c \in Calls, NEW k \in DOMAIN claims, ProposesEnd(c, k)
      PROVE  Goes(c)
  <2>. DEFINE p == call[c]
              q == [p EXCEPT !.stage = "read", !.ends = {k}]
  <2>1. p \in InFlight /\ p # Idle /\ k \in Ids
    BY <1>8, RunningIs DEF ProposesEnd, Typed, Table
  <2>2. call' = [call EXCEPT ![c] = q] /\ UNCHANGED <<claims, writes, now>>
    BY <1>8 DEF ProposesEnd
  <2>3. q \in InFlight
    BY <2>1, InFlightChanges
  <2>4. q.t = p.t
    BY <2>1 DEF InFlight
  <2>. HIDE DEF q
  <2>. QED
    BY <2>1, <2>2, <2>3, <2>4
<1>9. ASSUME NEW c \in Calls, NEW e \in DOMAIN turns, Reread(c, e)
      PROVE  Book!Next
  <2>1. PICK q \in InFlight : q.t = now /\ call' = [call EXCEPT ![c] = q]
    BY <1>9, RereadsInFlight
  <2>2. Book!BeginAdd(c)
    BY <1>9, <2>1, BookBegins DEF Reread
  <2>. QED
    BY <2>2 DEF Book!Next
<1>10. ASSUME NEW c \in Calls, Commit(c)
       PROVE  Book!Next
  <2>1. call[c] # Idle /\ call' = [call EXCEPT ![c] = Idle] /\ now' = now
    BY <1>10, RunningIs DEF Commit
  <2>2. CASE claims' = claims /\ writes' = writes
    <3>1. Book!Leave(c)
      BY <2>1, <2>2, BookLeaves
    <3>. QED
      BY <3>1 DEF Book!Next
  <2>3. ASSUME NEW i \in Candidates(c), NEW o \in Apply(claims, writes, i, call[c].t, now, "ended"),
               claims' = o.rows, writes' = o.writes
        PROVE  Book!Next
    <3>1. \E s \in Yields : Book!CommitAdd(c, s)
      BY <2>1, <2>3, BookCommits
    <3>. QED
      BY <3>1 DEF Book!Next
  <2>. QED
    BY <1>10, <2>2, <2>3 DEF Commit, Current
<1>11. CASE Mishap
  BY <1>11, BookMishaps
<1>12. CASE Tick
  <2>1. Book!Tick
    BY <1>12 DEF Tick, Book!Tick, Time, Book!Time
  <2>. QED
    BY <2>1 DEF Book!Next
<1>13. CASE UNCHANGED vars
  BY <1>13 DEF vars, Book!vars
<1>. HIDE DEF Goes
<1>. QED
  BY <1>2, <1>3, <1>4, <1>5, <1>6, <1>7, <1>8, <1>9, <1>10, <1>11, <1>12, <1>13 DEF Next

(* Turns writes the Ledger's book: a batch commits what one add() of the   *)
(* Ledger would, as of the instant the call began, whatever else was       *)
(* written, erased or lost while its model was reading.                    *)
THEOREM Refinement == Spec => WritesTheLedger
<1>1. Init => Book!Init
  <2>. SUFFICES ASSUME Init PROVE Book!Init
    OBVIOUS
  <2>1. \A c \in Calls : (IF call[c] = Idle THEN Forever ELSE call[c].t) = Forever
    BY DEF Init
  <2>. QED
    BY <2>1 DEF Init, Book!Init
<1>2. IInv /\ [Next]_vars => [UNCHANGED Book!vars \/ Book!Next]_(Book!vars)
  BY BookSteps DEF IInv
<1>. QED
  BY Invariance, <1>1, <1>2, PTL DEF Spec, WritesTheLedger

-----------------------------------------------------------------------------
(* What is said again is believed, and a retry converges                   *)

(* The call reads what its turn says, and does not just count it.          *)
Reads(p) == p.stage # "read" \/ p.says # {}

(* The call has nothing to commit.                                         *)
EmptyHanded(p) == ~ Reads(p) /\ p.ends = {} /\ DOMAIN p.queued = {}

(* A call brings what its turn says, from when it was said, and counts the *)
(* turn on claims that say the same.                                       *)
Tells(p, S, n, T, m) ==
    /\ p.ts <= p.t /\ p.t <= m
    /\ p.turn \in DOMAIN T => /\ T[p.turn].text = p.text
                              /\ Reads(p) => T[p.turn].ts = p.ts
    /\ p.says \in {{}, {Statement(p.text, p.ts)}}
    /\ Reads(p) => p.ends = {}
    /\ p.stage # "read" => p.says = {}
    /\ \A k \in DOMAIN p.queued :
          /\ k[1] <= n
          /\ k \in DOMAIN S /\ ~ S[k].neg => S[k].val = Says[p.text].val

Telling == \A c \in Calls : call[c] # Idle => Tells(call[c], claims, writes, turns, now)

(* Nothing begins or ends after now, and what is taken back is over.       *)
Placed == /\ \A k \in DOMAIN claims : PlacedBy(claims[k], now)
          /\ \A e \in DOMAIN turns : turns[e].ts <= now

(* A claim states what the turns it cites say.                             *)
Rendered ==
    \A k \in DOMAIN claims : \A e \in BagToSet(heard[k]) :
        ~ claims[k].neg => claims[k].val = Says[turns[e].text].val

(* While one call alone reads a turn, no claim cites it, and no other call *)
(* has anything to count it on.                                            *)
Alone ==
    \A c \in Calls :
        /\ call[c] # Idle /\ call[c].turn \in DOMAIN turns
        /\ ~ turns[call[c].turn].raced /\ Reads(call[c])
        => /\ Citing(call[c].turn) = {}
           /\ \A d \in Calls \ {c} :
                 call[d] # Idle /\ call[d].turn = call[c].turn => EmptyHanded(call[d])

SInv == IInv /\ Telling /\ Placed /\ Rendered /\ Alone

-----------------------------------------------------------------------------
(* What the invariant is for                                               *)

LEMMA SaidAgainHolds ==
    ASSUME IInv, Placed, Rendered
    PROVE  SaidAgainIsBelieved
<1>. SUFFICES ASSUME NEW x \in Texts, NEW e \in Repeated(x, now, now), ~ Says[x].neg,
                     NEW j \in Citing(e), Believed(claims[j], now)
              PROVE  \E k \in LiveAt(DOMAIN claims, now) :
                         ~ claims[k].neg /\ claims[k].val = Says[x].val
  BY DEF SaidAgainIsBelieved
<1>1. Typed /\ now \in Nat /\ now # Forever
  BY EndsAreNaturals, ForeverAssumption DEF IInv, Typed, Time
<1>2. e \in DOMAIN turns /\ turns[e].text = x
  BY DEF Repeated, EarlierOccurrence, Copies
<1>3. ~ EndedBy(Citing(e), now, now)
  BY DEF Repeated
<1>4. PICK k \in Citing(e) : Believed(claims[k], now) /\ ~ (claims[k].to <= now)
  BY <1>3 DEF EndedBy
<1>5. k \in DOMAIN claims /\ e \in BagToSet(heard[k])
  BY <1>4 DEF Citing, BagIn
<1>6. claims[k] \in Claim /\ PlacedBy(claims[k], now)
  BY <1>1, <1>5 DEF Typed, Table, Placed
<1>7. claims[k].from <= now /\ claims[k].to = Forever
  BY <1>4, <1>6 DEF PlacedBy
<1>8. now < claims[k].inv /\ claims[k].inv \in Nat
  BY <1>4, <1>6, EndsAreNaturals DEF Believed, Claim
<1>9. ~ claims[k].neg
  BY <1>1, <1>6, <1>8 DEF PlacedBy
<1>10. claims[k].val = Says[x].val
  BY <1>2, <1>5, <1>9 DEF Rendered
<1>11. now < Forever
  BY <1>1, ForeverAssumption DEF IInv, Typed, Time
<1>12. IsLive(claims[k], now, now)
  BY <1>4, <1>7, <1>11 DEF IsLive, InForce
<1>. QED
  BY <1>5, <1>9, <1>10, <1>12 DEF LiveAt

-----------------------------------------------------------------------------
(* The calls                                                               *)

(* The turns as the calls see them: none changes what it says, and what is *)
(* new was stored last.                                                    *)
TurnsSay ==
    /\ \A e \in DOMAIN turns' : e <= saved =>
          /\ e \in DOMAIN turns
          /\ turns'[e].text = turns[e].text /\ turns'[e].ts = turns[e].ts
    /\ \A e \in DOMAIN turns :
          /\ e \in DOMAIN turns'
          /\ turns'[e].text = turns[e].text /\ turns'[e].ts = turns[e].ts

LEMMA OthersTell ==
    ASSUME Typed, Telling, NEW c \in Calls, NEW q \in {Idle} \cup InFlight,
           call' = [call EXCEPT ![c] = q], UNCHANGED <<claims, writes, now>>, TurnsSay,
           q # Idle => Tells(q, claims, writes, turns', now)
    PROVE  Telling'
<1>. SUFFICES ASSUME NEW d \in Calls, call'[d] # Idle
              PROVE  Tells(call'[d], claims, writes, turns', now)
  BY DEF Telling
<1>1. CASE d = c
  BY <1>1, OneCallChanges
<1>2. CASE d # c
  <2>1. call'[d] = call[d]
    BY <1>2, OneCallChanges
  <2>. DEFINE p == call[d]
  <2>2. Tells(p, claims, writes, turns, now) /\ p.turn <= saved
    BY <2>1 DEF Telling, Typed
  <2>3. p.turn \in DOMAIN turns' =>
            /\ p.turn \in DOMAIN turns
            /\ turns'[p.turn].text = turns[p.turn].text /\ turns'[p.turn].ts = turns[p.turn].ts
    BY <2>2 DEF TurnsSay
  <2>. HIDE DEF p
  <2>4. Tells(p, claims, writes, turns', now)
    BY <2>2, <2>3 DEF Tells
  <2>. QED
    BY <2>1, <2>4 DEF p
<1>. QED
  BY <1>1, <1>2

LEMMA SameBook ==
    ASSUME IInv, Placed, Rendered, UNCHANGED <<claims, heard, now>>, TurnsSay,
           \A e \in DOMAIN turns' : turns'[e].ts <= now
    PROVE  Placed' /\ Rendered'
<1>1. Placed'
  BY DEF Placed
<1>2. ASSUME NEW k \in DOMAIN claims, NEW e \in BagToSet(heard[k]), ~ claims[k].neg
      PROVE  claims[k].val = Says[turns'[e].text].val
  <2>1. e \in DOMAIN turns
    BY DEF IInv, CitesStored
  <2>. QED
    BY <1>2, <2>1 DEF Rendered, TurnsSay
<1>. QED
  BY <1>1, <1>2 DEF Rendered

(* A call that reads its turn does so alone, whatever it reads there.      *)
LEMMA CallMoves ==
    ASSUME SInv, NEW c \in Calls, call[c] # Idle, Reads(call[c]), NEW q \in InFlight,
           call' = [call EXCEPT ![c] = q], IInv',
           UNCHANGED <<claims, writes, now, turns, saved, heard>>,
           q.turn = call[c].turn, q.text = call[c].text, q.ts = call[c].ts, q.t = call[c].t,
           q.says \in {{}, {Statement(q.text, q.ts)}}, Reads(q) => q.ends = {}, q.stage = "read",
           \A k \in DOMAIN q.queued :
               \/ k \in DOMAIN call[c].queued
               \/ k \in DOMAIN claims /\ claims[k].val = Says[q.text].val
    PROVE  SInv'
<1>. DEFINE p == call[c]
<1>1. Typed /\ TurnsSay /\ q # Idle
  BY NotIdle DEF SInv, IInv, Typed, TurnsSay
<1>2. Tells(p, claims, writes, turns, now)
  BY DEF SInv, Telling
<1>3. \A k \in DOMAIN claims : k[1] <= writes
  BY <1>1 DEF Typed, Table
<1>4. Tells(q, claims, writes, turns, now)
  <2>. HIDE DEF p
  <2>0. Reads(p) /\ q.turn = p.turn /\ q.text = p.text /\ q.ts = p.ts /\ q.t = p.t
    BY DEF p
  <2>1. \A k \in DOMAIN q.queued :
          \/ k \in DOMAIN p.queued
          \/ k \in DOMAIN claims /\ claims[k].val = Says[q.text].val
    BY DEF p
  <2>2. \A k \in DOMAIN q.queued :
          /\ k[1] <= writes
          /\ k \in DOMAIN claims /\ ~ claims[k].neg => claims[k].val = Says[q.text].val
    BY <1>2, <1>3, <2>0, <2>1 DEF Tells
  <2>. QED
    BY <1>2, <2>0, <2>2 DEF Tells
<1>5. Telling'
  BY <1>1, <1>4, OthersTell DEF SInv
<1>6. Placed' /\ Rendered'
  BY <1>1, SameBook DEF SInv, Placed
<1>7. /\ call'[c] = q
      /\ \A d \in Calls : d # c => call'[d] = call[d]
  BY <1>1, OneCallChanges
<1>8. ASSUME NEW d \in Calls, call'[d] # Idle, call'[d].turn \in DOMAIN turns,
             ~ turns[call'[d].turn].raced, Reads(call'[d])
      PROVE  /\ Citing(call'[d].turn) = {}
             /\ \A b \in Calls \ {d} :
                   call'[b] # Idle /\ call'[b].turn = call'[d].turn => EmptyHanded(call'[b])
  <2>1. CASE d = c
    BY <1>7, <1>8, <2>1 DEF SInv, Alone
  <2>2. CASE d # c
    <3>1. call'[d] = call[d]
      BY <1>7, <2>2
    <3>2. /\ Citing(call[d].turn) = {}
          /\ \A b \in Calls \ {d} :
                call[b] # Idle /\ call[b].turn = call[d].turn => EmptyHanded(call[b])
      BY <1>8, <3>1 DEF SInv, Alone
    <3>3. call[c].turn # call[d].turn
      BY <2>2, <3>2 DEF EmptyHanded
    <3>. QED
      BY <1>7, <3>1, <3>2, <3>3
  <2>. QED
    BY <2>1, <2>2
<1>9. Alone'
  BY <1>8 DEF Alone, Citing
<1>. QED
  BY <1>5, <1>6, <1>9 DEF SInv

(* What a call in flight becomes, field by field.                          *)
LEMMA StageFields ==
    ASSUME NEW p \in InFlight, NEW stage
    PROVE  LET q == [p EXCEPT !.stage = stage]
           IN  /\ q.stage = stage /\ q.turn = p.turn /\ q.text = p.text /\ q.ts = p.ts
               /\ q.t = p.t /\ q.queued = p.queued /\ q.says = p.says /\ q.ends = p.ends
  BY DEF InFlight

LEMMA SaysFields ==
    ASSUME NEW p \in InFlight, NEW stage, NEW S
    PROVE  LET q == [p EXCEPT !.stage = stage, !.says = S]
           IN  /\ q.stage = stage /\ q.turn = p.turn /\ q.text = p.text /\ q.ts = p.ts
               /\ q.t = p.t /\ q.queued = p.queued /\ q.says = S /\ q.ends = p.ends
  BY DEF InFlight

LEMMA QueuedFields ==
    ASSUME NEW p \in InFlight, NEW stage, NEW Q
    PROVE  LET q == [p EXCEPT !.stage = stage, !.queued = Q]
           IN  /\ q.stage = stage /\ q.turn = p.turn /\ q.text = p.text /\ q.ts = p.ts
               /\ q.t = p.t /\ q.queued = Q /\ q.says = p.says /\ q.ends = p.ends
  BY DEF InFlight

LEMMA EndsFields ==
    ASSUME NEW p \in InFlight, NEW stage, NEW E
    PROVE  LET q == [p EXCEPT !.stage = stage, !.ends = E]
           IN  /\ q.stage = stage /\ q.turn = p.turn /\ q.text = p.text /\ q.ts = p.ts
               /\ q.t = p.t /\ q.queued = p.queued /\ q.says = p.says /\ q.ends = E
  BY DEF InFlight

LEMMA StoredReads ==
    ASSUME SInv, NEW c \in Calls, call[c].stage = "stored"
    PROVE  /\ call[c] # Idle /\ call[c] \in InFlight /\ Reads(call[c])
           /\ call[c].says = {} /\ call[c].ends = {}
<1>1. Typed /\ call[c].stage # "idle"
  BY DEF SInv, IInv
<1>2. call[c] # Idle /\ call[c] \in InFlight
  BY <1>1, RunningIs
<1>3. Reads(call[c])
  BY DEF Reads
<1>4. Tells(call[c], claims, writes, turns, now)
  BY <1>2 DEF SInv, Telling
<1>. QED
  BY <1>2, <1>3, <1>4 DEF Tells

LEMMA RestatesTells ==
    ASSUME SInv, NEW c \in Calls, NEW k \in DOMAIN claims, Restates(c, k)
    PROVE  SInv'
<1>. DEFINE p == call[c]
            Q == Rows({k})
<1>1. /\ Typed /\ p.stage = "stored" /\ claims[k].val = Says[p.text].val
      /\ UNCHANGED <<claims, writes, now, turns, saved, heard>>
  BY DEF SInv, IInv, Restates
<1>2. p # Idle /\ p \in InFlight /\ Reads(p) /\ p.says = {} /\ p.ends = {}
  BY <1>1, StoredReads
<1>3. IInv'
  BY RestatesKeeps DEF SInv
<1>4. PICK read \in {"read"} : read = "read"
  OBVIOUS
<1>5. Q \in Queues /\ DOMAIN Q = {k}
  BY <1>1, RowsAreQueue DEF Rows
<1>6. p.text \in Texts
  BY <1>2 DEF InFlight
<1>7. \/ call' = [call EXCEPT ![c] = [p EXCEPT !.stage = read, !.says = {Statement(p.text, p.ts)}]]
      \/ call' = [call EXCEPT ![c] = [p EXCEPT !.stage = read, !.queued = Q]]
  BY <1>4 DEF Restates
<1>. HIDE DEF Q
<1>8. ASSUME call' = [call EXCEPT ![c] = [p EXCEPT !.stage = read, !.says = {Statement(p.text, p.ts)}]]
      PROVE  SInv'
  <2>. DEFINE said == {Statement(p.text, p.ts)}
              q    == [p EXCEPT !.stage = read, !.says = said]
  <2>1. q \in InFlight
    BY <1>2, <1>4, <1>6, InFlightChanges
  <2>. HIDE DEF said
  <2>2. /\ q.stage = read /\ q.turn = p.turn /\ q.text = p.text /\ q.ts = p.ts
        /\ q.t = p.t /\ q.queued = p.queued /\ q.says = said /\ q.ends = p.ends
    BY <1>2, SaysFields
  <2>3. call' = [call EXCEPT ![c] = q]
    BY <1>8 DEF said
  <2>. HIDE DEF q
  <2>4. q.says = {Statement(q.text, q.ts)}
    BY <2>2 DEF said
  <2>. QED
    BY <1>1, <1>2, <1>3, <1>4, <2>1, <2>2, <2>3, <2>4, CallMoves
<1>9. ASSUME call' = [call EXCEPT ![c] = [p EXCEPT !.stage = read, !.queued = Q]]
      PROVE  SInv'
  <2>. DEFINE q == [p EXCEPT !.stage = read, !.queued = Q]
  <2>1. q \in InFlight
    BY <1>2, <1>4, <1>5, InFlightChanges
  <2>2. /\ q.stage = read /\ q.turn = p.turn /\ q.text = p.text /\ q.ts = p.ts
        /\ q.t = p.t /\ q.queued = Q /\ q.says = p.says /\ q.ends = p.ends
    BY <1>2, QueuedFields
  <2>3. call' = [call EXCEPT ![c] = q]
    BY <1>9
  <2>. HIDE DEF q
  <2>. QED
    BY <1>1, <1>2, <1>3, <1>4, <1>5, <2>1, <2>2, <2>3, CallMoves
<1>. QED
  BY <1>7, <1>8, <1>9

LEMMA ExtractTells ==
    ASSUME SInv, NEW c \in Calls, Extract(c)
    PROVE  SInv'
<1>. DEFINE p    == call[c]
            said == {Statement(p.text, p.ts)}
<1>1. p.stage = "stored" /\ UNCHANGED <<claims, writes, now, turns, saved, heard>>
  BY DEF Extract
<1>2. p # Idle /\ p \in InFlight /\ Reads(p) /\ p.ends = {}
  BY <1>1, StoredReads
<1>3. IInv'
  BY ExtractKeeps DEF SInv
<1>4. PICK read \in {"read"} : read = "read"
  OBVIOUS
<1>. DEFINE q == [p EXCEPT !.stage = read, !.says = said]
<1>5. p.text \in Texts
  BY <1>2 DEF InFlight
<1>6. q \in InFlight
  BY <1>2, <1>4, <1>5, InFlightChanges
<1>7. call' = [call EXCEPT ![c] = q]
  BY <1>4 DEF Extract
<1>. HIDE DEF said
<1>8. /\ q.stage = read /\ q.turn = p.turn /\ q.text = p.text /\ q.ts = p.ts
      /\ q.t = p.t /\ q.queued = p.queued /\ q.says = said /\ q.ends = p.ends
  BY <1>2, SaysFields
<1>. HIDE DEF q
<1>9. q.says = {Statement(q.text, q.ts)}
  BY <1>8 DEF said
<1>. QED
  BY <1>1, <1>2, <1>3, <1>4, <1>6, <1>7, <1>8, <1>9, CallMoves

LEMMA ModelFailsTells ==
    ASSUME SInv, NEW c \in Calls, ModelFails(c)
    PROVE  SInv'
<1>. DEFINE p == call[c]
<1>1. p.stage = "stored" /\ UNCHANGED <<claims, writes, now, turns, saved, heard>>
  BY DEF ModelFails
<1>2. p # Idle /\ p \in InFlight /\ Reads(p) /\ p.says = {} /\ p.ends = {}
  BY <1>1, StoredReads
<1>3. IInv'
  BY ModelFailsKeeps DEF SInv
<1>4. PICK read \in {"read"} : read = "read"
  OBVIOUS
<1>. DEFINE q == [p EXCEPT !.stage = read]
<1>5. q \in InFlight
  BY <1>2, <1>4, InFlightChanges
<1>6. /\ q.stage = read /\ q.turn = p.turn /\ q.text = p.text /\ q.ts = p.ts
      /\ q.t = p.t /\ q.queued = p.queued /\ q.says = p.says /\ q.ends = p.ends
  BY <1>2, StageFields
<1>7. call' = [call EXCEPT ![c] = q]
  BY <1>4 DEF ModelFails
<1>. HIDE DEF q
<1>. QED
  BY <1>1, <1>2, <1>3, <1>4, <1>5, <1>6, <1>7, CallMoves

LEMMA ProposesEndTells ==
    ASSUME SInv, NEW c \in Calls, NEW k \in DOMAIN claims, ProposesEnd(c, k)
    PROVE  SInv'
<1>. DEFINE p == call[c]
            E == {k}
<1>1. /\ p.stage = "stored" /\ UNCHANGED <<claims, writes, now, turns, saved, heard>>
      /\ k \in Ids
  BY DEF ProposesEnd, SInv, IInv, Typed, Table
<1>2. p # Idle /\ p \in InFlight /\ Reads(p) /\ p.says = {} /\ p.ends = {}
  BY <1>1, StoredReads
<1>3. IInv'
  BY ProposesEndKeeps DEF SInv
<1>4. PICK read \in {"read"} : read = "read"
  OBVIOUS
<1>. DEFINE q == [p EXCEPT !.stage = read, !.ends = E]
<1>5. q \in InFlight
  BY <1>1, <1>2, <1>4, InFlightChanges
<1>7. call' = [call EXCEPT ![c] = q]
  BY <1>4 DEF ProposesEnd
<1>. HIDE DEF E
<1>6. /\ q.stage = read /\ q.turn = p.turn /\ q.text = p.text /\ q.ts = p.ts
      /\ q.t = p.t /\ q.queued = p.queued /\ q.says = p.says /\ q.ends = E
  BY <1>2, EndsFields
<1>. HIDE DEF q
<1>8. ~ Reads(q)
  BY <1>2, <1>4, <1>6 DEF Reads
<1>. QED
  BY <1>1, <1>2, <1>3, <1>4, <1>5, <1>6, <1>7, <1>8, CallMoves

(* What a call that dies had read is lost, and no one else's is.           *)
LEMMA CrashTells ==
    ASSUME SInv, NEW c \in Calls, Crash(c)
    PROVE  SInv'
<1>1. Idle \in {Idle} \cup InFlight
  OBVIOUS
<1>2. /\ call' = [call EXCEPT ![c] = Idle]
      /\ UNCHANGED <<claims, writes, now, turns, saved, heard>>
  BY DEF Crash
<1>3. IInv'
  BY CrashKeeps DEF SInv
<1>4. Typed /\ TurnsSay
  BY <1>2 DEF SInv, IInv, Typed, TurnsSay
<1>5. Telling'
  BY <1>1, <1>2, <1>4, OthersTell DEF SInv
<1>6. Placed' /\ Rendered'
  BY <1>2, <1>4, SameBook DEF SInv, Placed
<1>7. call'[c] = Idle /\ \A d \in Calls : d # c => call'[d] = call[d]
  BY <1>1, <1>2, <1>4, OneCallChanges
<1>8. Alone'
  BY <1>2, <1>7 DEF SInv, Alone, Citing
<1>. QED
  BY <1>3, <1>5, <1>6, <1>8 DEF SInv

-----------------------------------------------------------------------------
(* The turns                                                               *)

LEMMA HeardFields ==
    ASSUME NEW stage, NEW e, NEW x, NEW ts, NEW again
    PROVE  LET q == Heard(stage, e, x, ts, again)
           IN  /\ q.stage = stage /\ q.turn = e /\ q.text = x /\ q.ts = ts /\ q.t = now
               /\ DOMAIN q.queued = {} /\ q.says = {} /\ q.ends = {}
<1>1. DOMAIN Rows({}) = {}
  BY DEF Rows
<1>. QED
  BY <1>1 DEF Heard

(* A call comes to a turn: one that no other call reads and no claim       *)
(* cites, or one that it only counts.                                      *)
LEMMA AloneAfterJoin ==
    ASSUME Typed, Alone, NEW c \in Calls, NEW q \in InFlight, call' = [call EXCEPT ![c] = q],
           UNCHANGED <<claims, heard>>,
           \A e \in DOMAIN turns' : ~ turns'[e].raced /\ e # q.turn =>
                e \in DOMAIN turns /\ ~ turns[e].raced,
           \/ q.turn \notin DOMAIN turns'
           \/ turns'[q.turn].raced
           \/ /\ Citing(q.turn) = {}
              /\ \A d \in Calls \ {c} : call[d] # Idle => call[d].turn # q.turn
           \/ /\ q.turn \in DOMAIN turns /\ turns'[q.turn].raced = turns[q.turn].raced
              /\ ~ Reads(q)
              /\ Citing(q.turn) = {} => EmptyHanded(q)
    PROVE  Alone'
<1>1. q # Idle
  BY NotIdle
<1>2. call'[c] = q /\ \A d \in Calls : d # c => call'[d] = call[d]
  BY OneCallChanges
<1>3. ASSUME NEW d \in Calls, call'[d] # Idle, call'[d].turn \in DOMAIN turns',
             ~ turns'[call'[d].turn].raced, Reads(call'[d])
      PROVE  /\ Citing(call'[d].turn) = {}
             /\ \A b \in Calls \ {d} :
                   call'[b] # Idle /\ call'[b].turn = call'[d].turn => EmptyHanded(call'[b])
  <2>1. CASE d = c
    BY <1>2, <1>3, <2>1
  <2>2. CASE d # c
    <3>1. call'[d] = call[d]
      BY <1>2, <2>2
    <3>2. CASE call[d].turn = q.turn
      <4>1. /\ q.turn \in DOMAIN turns /\ ~ turns[q.turn].raced
            /\ Citing(q.turn) = {} => EmptyHanded(q)
        BY <1>3, <2>2, <3>1, <3>2
      <4>2. /\ Citing(call[d].turn) = {}
            /\ \A b \in Calls \ {d} :
                  call[b] # Idle /\ call[b].turn = call[d].turn => EmptyHanded(call[b])
        BY <1>3, <3>1, <3>2, <4>1 DEF Alone
      <4>. QED
        BY <1>2, <3>1, <3>2, <4>1, <4>2
    <3>3. CASE call[d].turn # q.turn
      <4>1. call[d].turn \in DOMAIN turns /\ ~ turns[call[d].turn].raced
        BY <1>3, <3>1, <3>3
      <4>2. /\ Citing(call[d].turn) = {}
            /\ \A b \in Calls \ {d} :
                  call[b] # Idle /\ call[b].turn = call[d].turn => EmptyHanded(call[b])
        BY <1>3, <3>1, <4>1 DEF Alone
      <4>. QED
        BY <1>2, <3>1, <3>3, <4>2
    <3>. QED
      BY <3>2, <3>3
  <2>. QED
    BY <2>1, <2>2
<1>. QED
  BY <1>3 DEF Alone, Citing

LEMMA RepeatAddTells ==
    ASSUME SInv, NEW c \in Calls, NEW x \in Texts, NEW ts \in 0 .. now, IInv',
           NEW e \in Repeated(x, ts, now),
           call' = [call EXCEPT ![c] = [Heard("read", e, x, ts, FALSE) EXCEPT
                                           !.queued = Rows(LiveAt(Citing(e), now))]],
           turns' = [turns EXCEPT ![e].told = @ + 1],
           UNCHANGED <<claims, writes, now, saved, heard>>
    PROVE  SInv'
<1>0. PICK no \in BOOLEAN, read \in {"read"} : no = FALSE /\ read = "read"
  OBVIOUS
<1>. DEFINE h == Heard(read, e, x, ts, no)
            Q == Rows(LiveAt(Citing(e), now))
            q == [h EXCEPT !.queued = Q]
<1>1. Typed /\ CitesStored /\ now \in Nat /\ ts \in Time /\ ts <= now
  BY EndsAreNaturals DEF SInv, IInv, Typed, Time
<1>2. e \in DOMAIN turns /\ turns[e].text = x
  BY DEF Repeated, EarlierOccurrence, Copies
<1>3. turns[e] \in Turn /\ e \in Nat
  BY <1>1, <1>2, ToldIs
<1>4. h \in InFlight
  BY <1>0, <1>1, <1>3, HeardIs
<1>5. LiveAt(Citing(e), now) \in SUBSET DOMAIN claims /\ LiveAt(Citing(e), now) \subseteq Citing(e)
  BY DEF LiveAt, Citing
<1>6. Q \in Queues /\ DOMAIN Q \subseteq Citing(e)
  BY <1>1, <1>5, RowsAreQueue DEF Rows
<1>7. call' = [call EXCEPT ![c] = q]
  BY <1>0
<1>. HIDE DEF Q
<1>8. /\ h.stage = read /\ h.turn = e /\ h.text = x /\ h.ts = ts /\ h.t = now
      /\ h.says = {} /\ h.ends = {}
  BY HeardFields
<1>. HIDE DEF h
<1>9. /\ q \in InFlight /\ q.stage = read /\ q.turn = e /\ q.text = x /\ q.ts = ts /\ q.t = now
      /\ q.queued = Q /\ q.says = {} /\ q.ends = {}
  BY <1>4, <1>6, <1>8 DEF InFlight
<1>. HIDE DEF q
<1>10. ~ Reads(q)
  BY <1>0, <1>9 DEF Reads
<1>11. /\ DOMAIN turns' = DOMAIN turns
       /\ \A d \in DOMAIN turns : /\ turns'[d].text = turns[d].text
                                  /\ turns'[d].ts = turns[d].ts
                                  /\ turns'[d].raced = turns[d].raced
  <2>1. turns \in [DOMAIN turns -> Turn] /\ DOMAIN turns' = DOMAIN turns
    BY <1>1 DEF Typed
  <2>2. /\ turns'[e] = [turns[e] EXCEPT !.told = @ + 1]
        /\ \A d \in DOMAIN turns : d # e => turns'[d] = turns[d]
    BY <1>2, <2>1
  <2>. QED
    BY <1>3, <2>1, <2>2 DEF Turn
<1>12. TurnsSay
  BY <1>11 DEF TurnsSay
<1>13. \A k \in DOMAIN q.queued :
          /\ k[1] <= writes
          /\ k \in DOMAIN claims /\ ~ claims[k].neg => claims[k].val = Says[q.text].val
  <2>. TAKE k \in DOMAIN q.queued
  <2>1. k \in DOMAIN claims /\ e \in BagToSet(heard[k])
    BY <1>6, <1>9 DEF Citing, BagIn
  <2>2. k[1] <= writes
    BY <1>1, <2>1 DEF Typed, Table
  <2>. QED
    BY <1>2, <1>9, <2>1, <2>2 DEF SInv, Rendered
<1>14. Tells(q, claims, writes, turns', now)
  <2>1. q.ts <= q.t /\ q.t <= now
    BY <1>1, <1>9
  <2>2. turns'[q.turn].text = q.text
    BY <1>2, <1>9, <1>11
  <2>3. q.says = {} /\ q.ends = {}
    BY <1>9
  <2>. QED
    BY <1>10, <1>13, <2>1, <2>2, <2>3 DEF Tells
<1>15. Telling'
  BY <1>1, <1>7, <1>9, <1>12, <1>14, OthersTell DEF SInv
<1>16. Placed' /\ Rendered'
  BY <1>11, <1>12, SameBook DEF SInv, Placed
<1>17. Citing(q.turn) = {} => EmptyHanded(q)
  BY <1>6, <1>9, <1>10 DEF EmptyHanded
<1>18. Alone'
  <2>1. \A d \in DOMAIN turns' : ~ turns'[d].raced => d \in DOMAIN turns /\ ~ turns[d].raced
    BY <1>11
  <2>2. /\ q.turn \in DOMAIN turns /\ turns'[q.turn].raced = turns[q.turn].raced
        /\ ~ Reads(q)
        /\ Citing(q.turn) = {} => EmptyHanded(q)
    BY <1>2, <1>9, <1>10, <1>11, <1>17
  <2>3. Typed /\ Alone /\ q \in InFlight /\ UNCHANGED <<claims, heard>>
    BY <1>1, <1>9 DEF SInv
  <2>. QED
    BY <1>7, <2>1, <2>2, <2>3, AloneAfterJoin
<1>. QED
  BY <1>15, <1>16, <1>18 DEF SInv

LEMMA FirstAddTells ==
    ASSUME SInv, NEW c \in Calls, NEW x \in Texts, NEW ts \in 0 .. now, IInv',
           call' = [call EXCEPT ![c] = Heard("found", 0, x, ts, FALSE)],
           UNCHANGED <<claims, writes, now, turns, saved, heard>>
    PROVE  SInv'
<1>0. PICK no \in BOOLEAN, found \in {"found"}, zero \in {0} :
          no = FALSE /\ found = "found" /\ zero = 0
  OBVIOUS
<1>. DEFINE q == Heard(found, zero, x, ts, no)
<1>1. Typed /\ now \in Nat /\ ts \in Time /\ ts <= now
  BY EndsAreNaturals DEF SInv, IInv, Typed, Time
<1>2. q \in InFlight
  BY <1>0, <1>1, HeardIs
<1>3. call' = [call EXCEPT ![c] = q]
  BY <1>0
<1>4. /\ q.stage = found /\ q.turn = zero /\ q.text = x /\ q.ts = ts /\ q.t = now
      /\ DOMAIN q.queued = {} /\ q.says = {} /\ q.ends = {}
  BY HeardFields
<1>. HIDE DEF q
<1>5. q.turn \notin DOMAIN turns
  BY <1>0, <1>1, <1>4 DEF Typed
<1>6. TurnsSay
  BY <1>1 DEF TurnsSay, Typed
<1>7. Tells(q, claims, writes, turns', now)
  BY <1>1, <1>4, <1>5 DEF Tells
<1>8. Telling'
  BY <1>1, <1>2, <1>3, <1>6, <1>7, OthersTell DEF SInv
<1>9. Placed' /\ Rendered'
  BY <1>6, SameBook DEF SInv, Placed
<1>10. Alone'
  BY <1>1, <1>2, <1>3, <1>5, AloneAfterJoin DEF SInv
<1>. QED
  BY <1>8, <1>9, <1>10 DEF SInv

LEMMA BeginAddTells ==
    ASSUME SInv, NEW c \in Calls, NEW x \in Texts, NEW ts \in 0 .. now, BeginAdd(c, x, ts)
    PROVE  SInv'
<1>1. IInv' /\ UNCHANGED <<claims, writes, now, saved, heard>>
  BY BeginAddKeeps DEF SInv, BeginAdd
<1>2. ASSUME NEW e \in Repeated(x, ts, now),
             call' = [call EXCEPT ![c] = [Heard("read", e, x, ts, FALSE) EXCEPT
                                             !.queued = Rows(LiveAt(Citing(e), now))]],
             turns' = [turns EXCEPT ![e].told = @ + 1]
      PROVE  SInv'
  BY <1>1, <1>2, RepeatAddTells
<1>3. ASSUME call' = [call EXCEPT ![c] = Heard("found", 0, x, ts, FALSE)], UNCHANGED turns
      PROVE  SInv'
  BY <1>1, <1>3, FirstAddTells
<1>. QED
  BY <1>2, <1>3 DEF BeginAdd

LEMMA SaveTells ==
    ASSUME SInv, NEW c \in Calls, Save(c)
    PROVE  SInv'
<1>. DEFINE p == call[c]
            e == saved + 1
<1>0. PICK stored \in {"stored"} : stored = "stored"
  OBVIOUS
<1>. DEFINE q == [p EXCEPT !.stage = stored, !.turn = e]
<1>1. /\ Typed /\ CitesStored /\ UNCHANGED <<claims, writes, now, heard>> /\ IInv'
      /\ p.stage = "found"
  BY SaveKeeps DEF SInv, IInv, Save
<1>2. p \in InFlight /\ p # Idle
  BY <1>1, RunningIs
<1>3. /\ saved \in Nat /\ DOMAIN turns \subseteq 1 .. saved /\ turns \in [DOMAIN turns -> Turn]
      /\ p.turn <= saved
  BY <1>1, <1>2 DEF Typed
<1>4. e \in Nat /\ e \notin DOMAIN turns
  BY <1>3
<1>5. q \in InFlight
  BY <1>0, <1>2, <1>4, InFlightChanges
<1>6. call' = [call EXCEPT ![c] = q]
  BY <1>0 DEF Save
<1>7. /\ DOMAIN turns' = DOMAIN turns \cup {e}
      /\ \A d \in DOMAIN turns : turns'[d] = turns[d]
      /\ turns'[e].text = p.text /\ turns'[e].ts = p.ts
  BY <1>4 DEF Save
<1>8. /\ q.stage = stored /\ q.turn = e /\ q.text = p.text /\ q.ts = p.ts
      /\ q.t = p.t /\ q.queued = p.queued /\ q.says = p.says /\ q.ends = p.ends
  <2>. HIDE DEF p, e
  <2>. QED
    BY <1>2 DEF InFlight
<1>9. Tells(p, claims, writes, turns, now) /\ p.ts \in Nat /\ p.t \in Nat /\ now \in Nat
  BY <1>1, <1>2, EndsAreNaturals DEF SInv, Telling, InFlight, Typed
<1>10. Reads(p) /\ p.says = {}
  BY <1>1, <1>9 DEF Reads, Tells
<1>. HIDE DEF q
<1>11. TurnsSay
  <2>1. \A d \in DOMAIN turns' : d <= saved => d \in DOMAIN turns
    BY <1>3, <1>7
  <2>. QED
    BY <1>7, <2>1 DEF TurnsSay
<1>12. Tells(q, claims, writes, turns', now)
  <2>1. turns'[q.turn].text = q.text /\ turns'[q.turn].ts = q.ts
    BY <1>7, <1>8
  <2>2. q.says = {} /\ q.ends = {} /\ q.queued = p.queued /\ q.text = p.text
    BY <1>8, <1>9, <1>10 DEF Tells
  <2>3. q.ts <= q.t /\ q.t <= now
    BY <1>8, <1>9 DEF Tells
  <2>4. \A k \in DOMAIN q.queued :
          /\ k[1] <= writes
          /\ k \in DOMAIN claims /\ ~ claims[k].neg => claims[k].val = Says[q.text].val
    <3>. HIDE DEF p
    <3>. QED
      BY <1>9, <2>2 DEF Tells
  <2>. QED
    BY <2>1, <2>2, <2>3, <2>4 DEF Tells
<1>13. Telling'
  BY <1>1, <1>5, <1>6, <1>11, <1>12, OthersTell DEF SInv
<1>14. Placed' /\ Rendered'
  <2>1. \A d \in DOMAIN turns' : turns'[d].ts <= now
    <3>1. p.ts <= now
      BY <1>9 DEF Tells
    <3>. QED
      BY <1>7, <3>1 DEF SInv, Placed
  <2>. QED
    BY <1>1, <1>11, <2>1, SameBook DEF SInv
<1>15. Alone'
  <2>1. Citing(q.turn) = {}
    BY <1>1, <1>4, <1>8 DEF Citing, CitesStored, BagIn
  <2>2. \A d \in Calls \ {c} : call[d] # Idle => call[d].turn # q.turn
    <3>1. \A d \in Calls : call[d] # Idle => call[d].turn <= saved /\ call[d].turn \in Nat
      BY <1>1 DEF Typed, InFlight
    <3>. QED
      BY <1>3, <1>8, <3>1
  <2>3. \A d \in DOMAIN turns' : ~ turns'[d].raced /\ d # q.turn =>
            d \in DOMAIN turns /\ ~ turns[d].raced
    BY <1>7, <1>8
  <2>. QED
    BY <1>1, <1>5, <1>6, <2>1, <2>2, <2>3, AloneAfterJoin DEF SInv
<1>. QED
  BY <1>1, <1>13, <1>14, <1>15 DEF SInv

LEMMA RereadTells ==
    ASSUME SInv, NEW c \in Calls, NEW e \in DOMAIN turns, Reread(c, e)
    PROVE  SInv'
<1>0. PICK yes \in BOOLEAN, stored \in {"stored"} : yes = TRUE /\ stored = "stored"
  OBVIOUS
<1>. DEFINE q == Heard(stored, e, turns[e].text, turns[e].ts, yes)
            busy == \E d \in Calls : call[d] # Idle /\ call[d].turn = e
<1>1. /\ Typed /\ UNCHANGED <<claims, writes, now, saved, heard>> /\ IInv'
      /\ call[c] = Idle
  BY RereadKeeps DEF SInv, IInv, Reread
<1>2. turns[e] \in Turn /\ e \in Nat
  BY <1>1, ToldIs
<1>3. turns[e].text \in Texts /\ turns[e].ts \in Time /\ turns[e].raced \in BOOLEAN
  BY <1>2 DEF Turn
<1>4. q \in InFlight
  BY <1>0, <1>1, <1>2, <1>3, HeardIs
<1>5. call' = [call EXCEPT ![c] = q]
  BY <1>0 DEF Reread
<1>6. /\ q.stage = stored /\ q.turn = e /\ q.text = turns[e].text /\ q.ts = turns[e].ts
      /\ q.t = now /\ DOMAIN q.queued = {} /\ q.says = {} /\ q.ends = {}
  BY HeardFields
<1>. HIDE DEF q
<1>7. turns' = [turns EXCEPT ![e].raced = @ \/ busy] /\ Citing(e) = {}
  BY DEF Reread
<1>8. busy \in BOOLEAN /\ (~ busy => \A d \in Calls : call[d] # Idle => call[d].turn # e)
  OBVIOUS
<1>. HIDE DEF busy
<1>9. PICK r \in BOOLEAN : r = (turns[e].raced \/ busy)
  BY <1>3, <1>8
<1>10. /\ DOMAIN turns' = DOMAIN turns
       /\ turns'[e] = [turns[e] EXCEPT !.raced = r]
       /\ \A d \in DOMAIN turns : d # e => turns'[d] = turns[d]
  BY <1>1, <1>7, <1>9 DEF Typed
<1>11. turns'[e].text = turns[e].text /\ turns'[e].ts = turns[e].ts /\ turns'[e].raced = r
  BY <1>2, <1>10 DEF Turn
<1>12. TurnsSay
  BY <1>10, <1>11 DEF TurnsSay
<1>13. \A d \in DOMAIN turns' : turns'[d].ts <= now
  BY <1>10, <1>11 DEF SInv, Placed
<1>14. Tells(q, claims, writes, turns', now)
  <2>1. q.ts <= q.t /\ q.t <= now
    BY <1>1, <1>6, EndsAreNaturals DEF Typed, SInv, Placed
  <2>. QED
    BY <1>6, <1>11, <2>1 DEF Tells
<1>15. Telling'
  BY <1>1, <1>4, <1>5, <1>12, <1>14, OthersTell DEF SInv
<1>16. Placed' /\ Rendered'
  BY <1>1, <1>12, <1>13, SameBook DEF SInv
<1>17. Alone'
  <2>1. \/ turns'[q.turn].raced
        \/ /\ Citing(q.turn) = {}
           /\ \A d \in Calls \ {c} : call[d] # Idle => call[d].turn # q.turn
    BY <1>6, <1>7, <1>8, <1>9, <1>11
  <2>2. \A d \in DOMAIN turns' : ~ turns'[d].raced /\ d # q.turn =>
            d \in DOMAIN turns /\ ~ turns[d].raced
    BY <1>6, <1>10
  <2>. QED
    BY <1>1, <1>4, <1>5, <2>1, <2>2, AloneAfterJoin DEF SInv
<1>. QED
  BY <1>1, <1>15, <1>16, <1>17 DEF SInv

-----------------------------------------------------------------------------
(* The claims                                                              *)

LEMMA TickTells ==
    ASSUME SInv, Tick
    PROVE  SInv'
<1>1. /\ IInv' /\ now \in Nat /\ now' = now + 1
      /\ UNCHANGED <<claims, writes, turns, saved, heard, call>>
  BY TickKeeps, EndsAreNaturals DEF SInv, IInv, Typed, Tick
<1>2. Rendered' /\ Alone'
  BY <1>1 DEF SInv, Rendered, Alone, Citing
<1>3. Placed'
  <2>1. ASSUME NEW k \in DOMAIN claims
        PROVE  PlacedBy(claims[k], now + 1)
    <3>1. claims[k].from \in Nat /\ claims[k].to \in Nat /\ claims[k].inv \in Nat
      BY EndsAreNaturals DEF SInv, IInv, Typed, Table, Claim
    <3>2. PlacedBy(claims[k], now)
      BY DEF SInv, Placed
    <3>. QED
      BY <1>1, <3>1, <3>2 DEF PlacedBy
  <2>2. ASSUME NEW e \in DOMAIN turns
        PROVE  turns[e].ts <= now + 1
    <3>1. turns[e].ts \in Nat /\ turns[e].ts <= now
      BY EndsAreNaturals DEF SInv, IInv, Typed, Turn, Placed
    <3>. QED
      BY <1>1, <3>1
  <2>. QED
    BY <1>1, <2>1, <2>2 DEF Placed
<1>4. Telling'
  <2>. SUFFICES ASSUME NEW c \in Calls, call[c] # Idle
                PROVE  Tells(call[c], claims, writes, turns, now + 1)
    BY <1>1 DEF Telling
  <2>. DEFINE p == call[c]
  <2>1. p.t \in Nat /\ Tells(p, claims, writes, turns, now)
    BY EndsAreNaturals DEF SInv, IInv, Typed, InFlight, Telling
  <2>. HIDE DEF p
  <2>2. p.t <= now + 1
    BY <1>1, <2>1 DEF Tells
  <2>3. Tells(p, claims, writes, turns, now + 1)
    BY <2>1, <2>2 DEF Tells
  <2>. QED
    BY <2>3 DEF p
<1>. QED
  BY <1>1, <1>2, <1>3, <1>4 DEF SInv

(* Nothing is said of what is erased.                                      *)
LEMMA FewerTell ==
    ASSUME SInv, IInv', UNCHANGED <<writes, now, call>>,
           \A k \in DOMAIN claims' :
               k \in DOMAIN claims /\ claims'[k] = claims[k] /\ heard'[k] = heard[k],
           \A e \in DOMAIN turns' : e \in DOMAIN turns /\ turns'[e] = turns[e]
    PROVE  SInv'
<1>1. Placed'
  BY DEF SInv, Placed
<1>2. Rendered'
  BY DEF SInv, IInv, CitesStored, Rendered
<1>3. Telling'
  <2>. SUFFICES ASSUME NEW c \in Calls, call[c] # Idle
                PROVE  Tells(call[c], claims', writes, turns', now)
    BY DEF Telling
  <2>. DEFINE p == call[c]
  <2>1. Tells(p, claims, writes, turns, now)
    BY DEF SInv, Telling
  <2>. HIDE DEF p
  <2>2. Tells(p, claims', writes, turns', now)
    BY <2>1 DEF Tells
  <2>. QED
    BY <2>2 DEF p
<1>4. Alone'
  <2>1. \A e : Citing(e)' \subseteq Citing(e)
    BY DEF Citing
  <2>. QED
    BY <2>1 DEF SInv, Alone
<1>. QED
  BY <1>1, <1>2, <1>3, <1>4 DEF SInv

(* What is stored keeps what it says, what a claim is newly counted for    *)
(* says the same, and no claim cites the turn of a call that reads alone.  *)
LEMMA BookMoves ==
    ASSUME SInv, IInv', UNCHANGED <<now, turns>>, writes <= writes',
           DOMAIN claims \subseteq DOMAIN claims',
           \A k \in DOMAIN claims :
               claims'[k].val = claims[k].val /\ claims'[k].neg = claims[k].neg,
           \A k \in DOMAIN claims' \ DOMAIN claims : k[1] > writes,
           \A k \in DOMAIN claims' : PlacedBy(claims'[k], now),
           \A c \in Calls : call'[c] = Idle \/ call'[c] = call[c],
           \A k \in DOMAIN claims' : \A e \in BagToSet(heard'[k]) :
               \/ k \in DOMAIN claims /\ e \in BagToSet(heard[k])
               \/ claims'[k].neg
               \/ claims'[k].val = Says[turns[e].text].val,
           \A c \in Calls :
               /\ call'[c] # Idle /\ call[c].turn \in DOMAIN turns
               /\ ~ turns[call[c].turn].raced /\ Reads(call[c])
               => \A k \in DOMAIN claims' : call[c].turn \notin BagToSet(heard'[k])
    PROVE  SInv'
<1>0. Typed
  BY DEF SInv, IInv
<1>1. Placed'
  BY DEF SInv, Placed
<1>2. Rendered'
  <2>. SUFFICES ASSUME NEW k \in DOMAIN claims', NEW e \in BagToSet(heard'[k]), ~ claims'[k].neg
                PROVE  claims'[k].val = Says[turns[e].text].val
    BY DEF Rendered
  <2>1. CASE k \in DOMAIN claims /\ e \in BagToSet(heard[k])
    BY <2>1 DEF SInv, Rendered
  <2>. QED
    BY <2>1
<1>3. Telling'
  <2>. SUFFICES ASSUME NEW c \in Calls, call'[c] # Idle
                PROVE  Tells(call'[c], claims', writes', turns, now)
    BY DEF Telling
  <2>. DEFINE p == call[c]
  <2>1. Tells(p, claims, writes, turns, now) /\ call'[c] = p /\ p \in InFlight
    BY <1>0 DEF SInv, Telling, Typed
  <2>2. \A k \in DOMAIN p.queued : k \in Ids
    BY <2>1 DEF InFlight, Queues
  <2>. HIDE DEF p
  <2>3. writes \in Nat /\ writes' \in Nat
    BY <1>0 DEF Typed, SInv, IInv
  <2>4. ASSUME NEW k \in DOMAIN p.queued
        PROVE  /\ k[1] <= writes'
               /\ k \in DOMAIN claims' /\ ~ claims'[k].neg => claims'[k].val = Says[p.text].val
    <3>1. k[1] \in Nat /\ k[1] <= writes
      BY <2>1, <2>2 DEF Tells, Ids
    <3>2. k \in DOMAIN claims' => k \in DOMAIN claims
      BY <2>3, <3>1
    <3>3. k \in DOMAIN claims /\ ~ claims[k].neg => claims[k].val = Says[p.text].val
      BY <2>1 DEF Tells
    <3>. QED
      BY <2>3, <3>1, <3>2, <3>3
  <2>5. Tells(p, claims', writes', turns, now)
    BY <2>1, <2>4 DEF Tells
  <2>. QED
    BY <2>1, <2>5
<1>4. ASSUME NEW c \in Calls, call'[c] # Idle, call'[c].turn \in DOMAIN turns,
             ~ turns[call'[c].turn].raced, Reads(call'[c])
      PROVE  /\ {k \in DOMAIN claims' : BagIn(call'[c].turn, heard'[k])} = {}
             /\ \A d \in Calls \ {c} :
                   call'[d] # Idle /\ call'[d].turn = call'[c].turn => EmptyHanded(call'[d])
  <2>1. call'[c] = call[c]
    BY <1>4
  <2>2. \A k \in DOMAIN claims' : call'[c].turn \notin BagToSet(heard'[k])
    BY <1>4, <2>1
  <2>3. {k \in DOMAIN claims' : BagIn(call'[c].turn, heard'[k])} = {}
    BY <2>2 DEF BagIn
  <2>4. \A d \in Calls \ {c} :
            call[d] # Idle /\ call[d].turn = call[c].turn => EmptyHanded(call[d])
    BY <1>4, <2>1 DEF SInv, Alone
  <2>. QED
    BY <2>1, <2>3, <2>4
<1>5. Alone'
  BY <1>4 DEF Alone, Citing
<1>. QED
  BY <1>1, <1>2, <1>3, <1>5 DEF SInv

LEMMA EraseTells ==
    ASSUME SInv, NEW k \in DOMAIN claims, NEW sources \in BOOLEAN, Erase(k, sources)
    PROVE  SInv'
<1>1. IInv'
  BY EraseKeeps DEF SInv
<1>2. \A j \in DOMAIN claims' :
          j \in DOMAIN claims /\ claims'[j] = claims[j] /\ heard'[j] = heard[j]
  BY DEF Erase
<1>3. \A e \in DOMAIN turns' : e \in DOMAIN turns /\ turns'[e] = turns[e]
  BY DEF Erase
<1>4. UNCHANGED <<writes, now, call>>
  BY DEF Erase
<1>. QED
  BY <1>1, <1>2, <1>3, <1>4, FewerTell

LEMMA PurgeTells ==
    ASSUME SInv, Purge
    PROVE  SInv'
<1>1. IInv'
  BY PurgeKeeps DEF SInv
<1>2. DOMAIN claims' = {} /\ DOMAIN turns' = {} /\ UNCHANGED <<writes, now, call>>
  BY DEF Purge, Rows
<1>. QED
  BY <1>1, <1>2, FewerTell

LEMMA DeleteTells ==
    ASSUME SInv, NEW k \in DOMAIN claims, NEW close \in Closures, Delete(k, close)
    PROVE  SInv'
<1>. DEFINE c == claims[k]
            d == CloseOut(c, now, close)
<1>1. /\ IInv' /\ Typed /\ UNCHANGED <<writes, now, turns, saved, heard, call>>
      /\ claims' = [claims EXCEPT ![k] = d] /\ c.inv = Forever
  BY DeleteKeeps DEF SInv, IInv, Delete
<1>2. c \in Claim /\ now \in Ends /\ now \in Nat /\ now < Forever /\ PlacedBy(c, now)
  <2>1. now \in Time
    BY <1>1 DEF Typed
  <2>. QED
    BY <1>1, <2>1, EndsAreNaturals, ForeverAssumption DEF Typed, Table, Time, SInv, Placed
<1>3. ~ c.neg
  BY <1>1, <1>2, ForeverAssumption DEF PlacedBy
<1>4. d \in Claim /\ ClosedBy(c, d, close)
  BY <1>2, CloseOutCloses
<1>5. d.to = c.to \/ d.to = Later(now, c.from)
  BY <1>2 DEF CloseOut, Earlier, NotBeforeStart, Claim
<1>. HIDE DEF d
<1>6. PlacedBy(d, now)
  <2>1. d.from = c.from /\ d.neg = c.neg /\ c.from \in Nat
    BY <1>2, <1>4, EndsAreNaturals DEF ClosedBy, Claim
  <2>. QED
    BY <1>2, <1>3, <1>5, <2>1 DEF PlacedBy, Later
<1>7. /\ DOMAIN claims' = DOMAIN claims
      /\ \A j \in DOMAIN claims : claims'[j] = IF j = k THEN d ELSE claims[j]
  BY <1>1
<1>8. \A j \in DOMAIN claims' : PlacedBy(claims'[j], now)
  BY <1>6, <1>7 DEF SInv, Placed
<1>9. \A j \in DOMAIN claims :
          claims'[j].val = claims[j].val /\ claims'[j].neg = claims[j].neg
  BY <1>4, <1>7 DEF ClosedBy
<1>10. \A b \in Calls :
          /\ call'[b] # Idle /\ call[b].turn \in DOMAIN turns
          /\ ~ turns[call[b].turn].raced /\ Reads(call[b])
          => \A j \in DOMAIN claims' : call[b].turn \notin BagToSet(heard'[j])
  BY <1>1, <1>7 DEF SInv, Alone, Citing, BagIn
<1>11. writes <= writes'
  BY <1>1 DEF Typed
<1>. QED
  BY <1>1, <1>7, <1>8, <1>9, <1>10, <1>11, BookMoves

-----------------------------------------------------------------------------
(* The batches                                                             *)

(* What Reconciler.apply leaves of the book.                               *)
LEMMA ApplyMoves ==
    ASSUME Typed, Placed, NEW i \in Claim, Filed(i), i.to = Forever, i.from <= now,
           i.rec <= now, NEW t \in Time, NEW o \in Apply(claims, writes, i, t, now, "ended")
    PROVE  /\ writes <= o.writes /\ DOMAIN claims \subseteq DOMAIN o.rows
           /\ \A k \in DOMAIN claims :
                 o.rows[k].val = claims[k].val /\ o.rows[k].neg = claims[k].neg
           /\ \A k \in DOMAIN o.rows \ DOMAIN claims :
                 k[1] > writes /\ o.rows[k].val = i.val /\ o.rows[k].neg = i.neg
           /\ \A k \in DOMAIN o.rows : PlacedBy(o.rows[k], now)
<1>. DEFINE c == Canonical(i, t)
<1>0. PICK close \in Closures : close = "ended"
  BY DEF Closures
<1>1. /\ o \in Apply(claims, writes, i, t, now, close)
      /\ writes \in Nat /\ Table(claims, writes) /\ now \in Nat
  BY <1>0, EndsAreNaturals DEF Typed
<1>2. Kept(claims, writes, o, close)
  BY <1>1, ApplyKeeps
<1>3. Stems(claims, writes, o, c)
  BY <1>1, ApplyStems
<1>4. c.val = i.val /\ c.neg = i.neg
  BY DEF Canonical, Claim
<1>. HIDE DEF c
<1>5. /\ DOMAIN claims \subseteq DOMAIN o.rows
      /\ \A k \in DOMAIN claims : ClosedBy(claims[k], o.rows[k], close)
      /\ \A k \in DOMAIN o.rows \ DOMAIN claims : k[1] = writes + 1
  BY <1>2 DEF Kept, Updated
<1>6. /\ o.writes \in {writes, writes + 1}
      /\ \A k \in DOMAIN o.rows \ DOMAIN claims : SaidBy(o.rows[k], c)
  BY <1>3 DEF Stems, StemsFrom
<1>7. \A k \in DOMAIN o.rows : PlacedBy(o.rows[k], now)
  BY <1>0, <1>1, ApplyPlaces DEF Placed
<1>8. \A k \in DOMAIN o.rows \ DOMAIN claims :
          k[1] > writes /\ o.rows[k].val = i.val /\ o.rows[k].neg = i.neg
  BY <1>1, <1>4, <1>5, <1>6 DEF SaidBy
<1>9. \A k \in DOMAIN claims :
          o.rows[k].val = claims[k].val /\ o.rows[k].neg = claims[k].neg
  BY <1>5 DEF ClosedBy
<1>. QED
  BY <1>1, <1>5, <1>6, <1>7, <1>8, <1>9

(* What the user tells cites no turn.                                      *)
LEMMA RememberTells ==
    ASSUME SInv, NEW v \in Values, Remember(v)
    PROVE  SInv'
<1>. DEFINE i == [Told(v) EXCEPT !.from = now, !.rec = now]
<1>1. /\ Typed /\ Placed /\ now \in Time /\ now \in Nat
      /\ IInv' /\ UNCHANGED <<now, turns, saved, call>>
  BY RememberKeeps, EndsAreNaturals DEF SInv, IInv, Typed, Remember
<1>2. i \in Claim /\ Filed(i)
  BY <1>1, ToldIsClaim
<1>3. i.to = Forever /\ i.from = now /\ i.rec = now
  BY DEF Told
<1>4. PICK o \in Apply(claims, writes, i, now, now, "ended") :
          /\ claims' = o.rows /\ writes' = o.writes
          /\ heard' = [k \in DOMAIN o.rows |-> IF k \in DOMAIN heard THEN heard[k] ELSE EmptyBag]
  BY DEF Remember
<1>. HIDE DEF i
<1>5. /\ writes <= o.writes /\ DOMAIN claims \subseteq DOMAIN o.rows
      /\ \A k \in DOMAIN claims :
            o.rows[k].val = claims[k].val /\ o.rows[k].neg = claims[k].neg
      /\ \A k \in DOMAIN o.rows \ DOMAIN claims : k[1] > writes
      /\ \A k \in DOMAIN o.rows : PlacedBy(o.rows[k], now)
  BY <1>1, <1>2, <1>3, <1>4, ApplyMoves
<1>6. \A k \in DOMAIN claims' : \A e \in BagToSet(heard'[k]) :
          k \in DOMAIN claims /\ e \in BagToSet(heard[k])
  BY <1>1, <1>4, NoBag DEF Typed, BagToSet
<1>7. \A c \in Calls :
          /\ call'[c] # Idle /\ call[c].turn \in DOMAIN turns
          /\ ~ turns[call[c].turn].raced /\ Reads(call[c])
          => \A k \in DOMAIN claims' : call[c].turn \notin BagToSet(heard'[k])
  BY <1>1, <1>6 DEF SInv, Alone, Citing, BagIn
<1>. QED
  BY <1>1, <1>4, <1>5, <1>6, <1>7, BookMoves

(* What is reinforced is of the value that is said.                        *)
LEMMA ReinforcedIsFound ==
    ASSUME NEW S, NEW i, NEW t, NEW n, NEW ids \in Reinforced(S, i, t, n), NEW k \in ids
    PROVE  k \in DOMAIN S /\ ValueKey(S[k]) = ValueKey(i)
<1>. DEFINE found == FindByValue(S, i)
<1>. SUFFICES k \in found
  BY DEF FindByValue
<1>1. LiveSame(S, i, t) \subseteq found /\ Held(S, i, t) \subseteq found
  BY DEF LiveSame, Held
<1>2. \A X : Oldest(S, X) \subseteq X
  BY DEF Oldest
<1>. HIDE DEF found
<1>3. ASSUME NEW held, held \subseteq found, NEW stop, ids \in HoldingRest(S, i, held, stop)
      PROVE  k \in found
  <2>1. Covering(S, i, held, stop) \subseteq held /\ Overlapped(S, i, held, stop) \subseteq held
    BY LookupsAreAmong
  <2>. QED
    BY <1>2, <1>3, <2>1 DEF HoldingRest
<1>4. CASE i.neg
  BY <1>2, <1>4 DEF Reinforced, ReinforcedByRetraction, found
<1>5. CASE ~ i.neg
  <2>. DEFINE live == LiveSame(S, i, t)
              held == Held(S, i, t)
              end1 == EarlierEnd(S, i, held, live)
              end2 == Earlier(i.to, LeastOf({Forever} \cup {S[j].from : j \in Newer(S, i, t)}))
  <2>1. \/ ids \in HoldingRest(S, i, held, end1)
        \/ ids \in {{j} : j \in Oldest(S, live)}
        \/ ids \in HoldingRest(S, i, held, end2)
    <3>1. ids \in ReinforcedByValue(S, i, t)
      BY <1>5 DEF Reinforced
    <3>. QED
      BY <3>1 DEF ReinforcedByValue
  <2>. HIDE DEF live, held, end1, end2
  <2>2. held \subseteq found /\ live \subseteq found
    BY <1>1 DEF held, live
  <2>3. ASSUME ids \in {{j} : j \in Oldest(S, live)}
        PROVE  k \in found
    BY <1>2, <2>2, <2>3
  <2>. QED
    BY <1>3, <2>1, <2>2, <2>3
<1>. QED
  BY <1>4, <1>5

(* What a call brings begins when its turn was said.                       *)
LEMMA CandidatesSay ==
    ASSUME SInv, NEW c \in Calls, call[c] # Idle, NEW i \in Candidates(c)
    PROVE  /\ i \in Claim /\ Filed(i) /\ i.to = Forever /\ i.exp = Forever /\ i.inv = Forever
           /\ i.from = call[c].ts /\ i.rec = call[c].t /\ i.width = 0 /\ ~ i.user
           /\ i.from <= now /\ i.rec <= now
           /\ call[c].turn \in DOMAIN turns /\ turns[call[c].turn].text = call[c].text
           /\ i.neg \/ i.val = Says[call[c].text].val
           /\ ~ EmptyHanded(call[c])
<1>. DEFINE p == call[c]
<1>1. /\ Typed /\ p \in InFlight /\ Tells(p, claims, writes, turns, now)
      /\ p.ts \in Time /\ p.t \in Time /\ p.text \in Texts
  BY DEF SInv, IInv, Typed, Telling, InFlight
<1>2. p.turn \in DOMAIN turns
  BY DEF Candidates, StillStored
<1>3. \/ \E s \in p.says : i = AsOf(s, p.t)
      \/ \E k \in p.ends \cap DOMAIN claims : i = Ending(k, p.ts, p.t)
  BY DEF Candidates, LiveAt
<1>. HIDE DEF p
<1>4. ~ EmptyHanded(p)
  BY <1>3 DEF EmptyHanded, Reads
<1>5. p.ts <= now /\ p.t <= now /\ turns[p.turn].text = p.text
  BY <1>1, <1>2, EndsAreNaturals DEF Tells, SInv, IInv, Typed
<1>6. \E v \in Vals, b \in BOOLEAN : /\ i = SaidAs(v, b, p.ts, p.t)
                                     /\ b \/ v = Says[p.text].val
  <2>1. ASSUME NEW s \in p.says, i = AsOf(s, p.t)
        PROVE  \E v \in Vals, b \in BOOLEAN : /\ i = SaidAs(v, b, p.ts, p.t)
                                              /\ b \/ v = Says[p.text].val
    <3>. DEFINE v == Says[p.text].val
                b == Says[p.text].neg
    <3>1. s = Statement(p.text, p.ts)
      BY <1>1 DEF Tells
    <3>2. s = SaidAs(v, b, p.ts, Forever)
      BY <3>1, StatementIs
    <3>3. v \in Vals /\ b \in BOOLEAN
      BY <1>1, ConstantsAre
    <3>. HIDE DEF v, b
    <3>4. i = SaidAs(v, b, p.ts, p.t)
      BY <2>1, <3>2, AsOfIs
    <3>. QED
      BY <3>3, <3>4 DEF v
  <2>2. ASSUME NEW k \in p.ends \cap DOMAIN claims, i = Ending(k, p.ts, p.t)
        PROVE  \E v \in Vals, b \in BOOLEAN : /\ i = SaidAs(v, b, p.ts, p.t)
                                              /\ b \/ v = Says[p.text].val
    <3>1. claims[k] \in Claim /\ Filed(claims[k]) /\ claims[k].val \in Vals
      BY <1>1 DEF Typed, Table, Filed
    <3>2. PICK b \in BOOLEAN : b = TRUE
      OBVIOUS
    <3>3. i = SaidAs(claims[k].val, b, p.ts, p.t)
      BY <2>2, <3>1, <3>2, EndingIs
    <3>. QED
      BY <3>1, <3>2, <3>3
  <2>. QED
    BY <1>3, <2>1, <2>2
<1>7. PICK v \in Vals, b \in BOOLEAN : /\ i = SaidAs(v, b, p.ts, p.t)
                                       /\ b \/ v = Says[p.text].val
  BY <1>6
<1>8. i \in Claim /\ Filed(i)
  BY <1>1, <1>7, SaidIsClaim
<1>9. /\ i.val = v /\ i.neg = b /\ i.from = p.ts /\ i.rec = p.t /\ i.to = Forever
      /\ i.inv = Forever /\ i.exp = Forever /\ i.width = 0 /\ ~ i.user
  BY <1>7 DEF SaidAs
<1>. QED
  BY <1>2, <1>4, <1>5, <1>7, <1>8, <1>9 DEF p

LEMMA CountedCites ==
    ASSUME Typed, NEW rows, DOMAIN claims \subseteq DOMAIN rows, NEW ids, NEW e
    PROVE  \A k \in DOMAIN rows : \A d \in BagToSet(Counted(rows, ids, e)[k]) :
               \/ k \in DOMAIN claims /\ d \in BagToSet(heard[k])
               \/ d = e /\ (k \notin DOMAIN claims \/ k \in ids)
<1>. DEFINE one == SetToBag({e})
            H   == Counted(rows, ids, e)
<1>1. /\ DOMAIN heard = DOMAIN claims
      /\ \A k \in DOMAIN rows \ DOMAIN claims : H[k] = one
      /\ \A k \in DOMAIN claims : H[k] = heard[k] \/ (k \in ids /\ H[k] = heard[k] (+) one)
  BY DEF Typed, Counted
<1>2. \A k \in DOMAIN claims : IsABag(heard[k])
  BY DEF Typed
<1>3. DOMAIN one = {e}
  BY SingleBag
<1>4. \A k \in DOMAIN claims : DOMAIN (heard[k] (+) one) = DOMAIN heard[k] \cup {e}
  BY <1>2, OneMore
<1>. HIDE DEF one, H
<1>5. ASSUME NEW k \in DOMAIN rows, NEW d \in DOMAIN H[k]
      PROVE  \/ k \in DOMAIN claims /\ d \in DOMAIN heard[k]
             \/ d = e /\ (k \notin DOMAIN claims \/ k \in ids)
  BY <1>1, <1>3, <1>4, <1>5
<1>. QED
  BY <1>5 DEF BagToSet, H

(* A batch counts its turn on what says the same, and leaves what other    *)
(* calls read alone.                                                       *)
LEMMA BatchTells ==
    ASSUME SInv, IInv', NEW c \in Calls, call[c] # Idle, call' = [call EXCEPT ![c] = Idle],
           UNCHANGED <<now, turns>>, writes <= writes',
           DOMAIN claims \subseteq DOMAIN claims',
           \A k \in DOMAIN claims :
               claims'[k].val = claims[k].val /\ claims'[k].neg = claims[k].neg,
           \A k \in DOMAIN claims' \ DOMAIN claims : k[1] > writes,
           \A k \in DOMAIN claims' : PlacedBy(claims'[k], now),
           NEW ids, heard' = Counted(claims', ids, call[c].turn),
           \A k \in DOMAIN claims' : k \notin DOMAIN claims \/ k \in ids =>
               /\ ~ EmptyHanded(call[c]) /\ turns[call[c].turn].text = call[c].text
               /\ claims'[k].neg \/ claims'[k].val = Says[call[c].text].val
    PROVE  SInv'
<1>1. Typed
  BY DEF SInv, IInv
<1>2. \A k \in DOMAIN claims' : \A e \in BagToSet(heard'[k]) :
          \/ k \in DOMAIN claims /\ e \in BagToSet(heard[k])
          \/ e = call[c].turn /\ (k \notin DOMAIN claims \/ k \in ids)
  <2>. DEFINE e == call[c].turn
  <2>1. \A k \in DOMAIN claims' : \A d \in BagToSet(Counted(claims', ids, e)[k]) :
            \/ k \in DOMAIN claims /\ d \in BagToSet(heard[k])
            \/ d = e /\ (k \notin DOMAIN claims \/ k \in ids)
    <3>. HIDE DEF e
    <3>. QED
      BY <1>1, CountedCites
  <2>. QED
    BY <2>1
<1>3. call'[c] = Idle /\ \A b \in Calls : b # c => call'[b] = call[b]
  BY <1>1, OneCallChanges
<1>4. \A k \in DOMAIN claims' : \A e \in BagToSet(heard'[k]) :
          \/ k \in DOMAIN claims /\ e \in BagToSet(heard[k])
          \/ claims'[k].neg
          \/ claims'[k].val = Says[turns[e].text].val
  BY <1>2
<1>5. ASSUME NEW b \in Calls, call'[b] # Idle, call[b].turn \in DOMAIN turns,
             ~ turns[call[b].turn].raced, Reads(call[b]),
             NEW k \in DOMAIN claims', call[b].turn \in BagToSet(heard'[k])
      PROVE  FALSE
  <2>1. b # c /\ call[b] # Idle
    BY <1>3, <1>5
  <2>2. /\ Citing(call[b].turn) = {}
        /\ call[c].turn = call[b].turn => EmptyHanded(call[c])
    BY <1>5, <2>1 DEF SInv, Alone
  <2>3. ~ (k \in DOMAIN claims /\ call[b].turn \in BagToSet(heard[k]))
    BY <2>2 DEF Citing, BagIn
  <2>. QED
    BY <1>2, <1>5, <2>2, <2>3
<1>6. \A b \in Calls : call'[b] = Idle \/ call'[b] = call[b]
  BY <1>3
<1>. QED
  BY <1>4, <1>5, <1>6, BookMoves

LEMMA CommitTells ==
    ASSUME SInv, NEW c \in Calls, Commit(c)
    PROVE  SInv'
<1>. DEFINE p == call[c]
<1>1. /\ Typed /\ Placed /\ p # Idle /\ p \in InFlight /\ IInv'
      /\ call' = [call EXCEPT ![c] = Idle] /\ UNCHANGED <<now, turns>>
  BY RunningIs, CommitKeeps DEF SInv, IInv, Commit
<1>2. ASSUME claims' = claims, heard' = Counted(claims, Bumped(c), p.turn), UNCHANGED writes
      PROVE  SInv'
  <2>1. Tells(p, claims, writes, turns, now)
    BY <1>1 DEF SInv, Telling
  <2>2. ASSUME NEW k \in DOMAIN claims, k \in Bumped(c)
        PROVE  /\ ~ EmptyHanded(p) /\ turns[p.turn].text = p.text
               /\ claims[k].neg \/ claims[k].val = Says[p.text].val
    <3>1. p.turn \in DOMAIN turns /\ k \in DOMAIN p.queued
      BY <2>2 DEF Bumped, StillStored
    <3>. HIDE DEF p
    <3>. QED
      BY <2>1, <3>1 DEF Tells, EmptyHanded
  <2>3. writes <= writes'
    BY <1>1, <1>2 DEF Typed
  <2>4. \A k \in DOMAIN claims' : PlacedBy(claims'[k], now)
    BY <1>1, <1>2 DEF Placed
  <2>5. heard' = Counted(claims', Bumped(c), p.turn)
    BY <1>2
  <2>. QED
    BY <1>1, <1>2, <2>2, <2>3, <2>4, <2>5, BatchTells
<1>3. ASSUME NEW i \in Candidates(c), NEW o \in Apply(claims, writes, i, p.t, now, "ended"),
             claims' = o.rows, writes' = o.writes, NEW ids \in Reinforced(claims, i, p.t, o.writes),
             heard' = Counted(o.rows, ids, p.turn)
      PROVE  SInv'
  <2>1. /\ i \in Claim /\ Filed(i) /\ i.to = Forever /\ i.from <= now /\ i.rec <= now
        /\ turns[p.turn].text = p.text /\ ~ EmptyHanded(p)
        /\ i.neg \/ i.val = Says[p.text].val
    BY <1>1, CandidatesSay
  <2>2. p.t \in Time
    BY <1>1 DEF InFlight
  <2>3. /\ writes <= o.writes /\ DOMAIN claims \subseteq DOMAIN o.rows
        /\ \A k \in DOMAIN claims :
              o.rows[k].val = claims[k].val /\ o.rows[k].neg = claims[k].neg
        /\ \A k \in DOMAIN o.rows \ DOMAIN claims :
              k[1] > writes /\ o.rows[k].val = i.val /\ o.rows[k].neg = i.neg
        /\ \A k \in DOMAIN o.rows : PlacedBy(o.rows[k], now)
    BY <1>1, <2>1, <2>2, ApplyMoves
  <2>4. \A k \in ids : k \in DOMAIN claims /\ ValueKey(claims[k]) = ValueKey(i)
    BY ReinforcedIsFound
  <2>5. \A k \in ids : k \in DOMAIN claims /\ claims[k].val = i.val /\ claims[k].neg = i.neg
    BY <2>4 DEF ValueKey
  <2>6. \A k \in DOMAIN claims' : k \notin DOMAIN claims \/ k \in ids =>
            claims'[k].neg \/ claims'[k].val = Says[p.text].val
    BY <1>3, <2>1, <2>3, <2>5
  <2>7. heard' = Counted(claims', ids, p.turn)
    BY <1>3
  <2>. QED
    BY <1>1, <1>3, <2>1, <2>3, <2>6, <2>7, BatchTells
<1>. QED
  BY <1>2, <1>3 DEF Commit, Current

-----------------------------------------------------------------------------
(* The theorem                                                             *)

LEMMA StutterTells ==
    ASSUME SInv, UNCHANGED vars
    PROVE  SInv'
<1>1. UNCHANGED <<claims, writes, now, turns, saved, heard, call>>
  BY DEF vars
<1>2. IInv'
  BY StutterKeeps DEF SInv
<1>3. Telling' /\ Placed' /\ Rendered'
  BY <1>1 DEF SInv, Telling, Placed, Rendered
<1>4. Alone'
  BY <1>1 DEF SInv, Alone, Citing
<1>. QED
  BY <1>2, <1>3, <1>4 DEF SInv

LEMMA MishapTells ==
    ASSUME SInv, Mishap
    PROVE  SInv'
<1>1. ASSUME NEW c \in Calls, Crash(c)
      PROVE  SInv'
  BY <1>1, CrashTells
<1>2. ASSUME NEW v \in Values, Remember(v)
      PROVE  SInv'
  BY <1>2, RememberTells
<1>3. ASSUME NEW k \in DOMAIN claims, NEW close \in Closures, Delete(k, close)
      PROVE  SInv'
  BY <1>3, DeleteTells
<1>4. ASSUME NEW k \in DOMAIN claims, NEW sources \in BOOLEAN, Erase(k, sources)
      PROVE  SInv'
  BY <1>4, EraseTells
<1>5. ASSUME Purge
      PROVE  SInv'
  BY <1>5, PurgeTells
<1>. QED
  BY <1>1, <1>2, <1>3, <1>4, <1>5 DEF Mishap

LEMMA NextTells == SInv /\ [Next]_vars => SInv'
<1>. SUFFICES ASSUME SInv, [Next]_vars PROVE SInv'
  OBVIOUS
<1>1. ASSUME NEW c \in Calls, NEW x \in Texts, NEW ts \in 0 .. now, BeginAdd(c, x, ts)
      PROVE  SInv'
  BY <1>1, BeginAddTells
<1>2. ASSUME NEW c \in Calls, Save(c)
      PROVE  SInv'
  BY <1>2, SaveTells
<1>3. ASSUME NEW c \in Calls, NEW k \in DOMAIN claims, Restates(c, k)
      PROVE  SInv'
  BY <1>3, RestatesTells
<1>4. ASSUME NEW c \in Calls, Extract(c)
      PROVE  SInv'
  BY <1>4, ExtractTells
<1>5. ASSUME NEW c \in Calls, ModelFails(c)
      PROVE  SInv'
  BY <1>5, ModelFailsTells
<1>6. ASSUME NEW c \in Calls, NEW k \in DOMAIN claims, ProposesEnd(c, k)
      PROVE  SInv'
  BY <1>6, ProposesEndTells
<1>7. ASSUME NEW c \in Calls, NEW e \in DOMAIN turns, Reread(c, e)
      PROVE  SInv'
  BY <1>7, RereadTells
<1>8. ASSUME NEW c \in Calls, Commit(c)
      PROVE  SInv'
  BY <1>8, CommitTells
<1>9. CASE Mishap
  BY <1>9, MishapTells
<1>10. CASE Tick
  BY <1>10, TickTells
<1>11. CASE UNCHANGED vars
  BY <1>11, StutterTells
<1>. QED
  BY <1>1, <1>2, <1>3, <1>4, <1>5, <1>6, <1>7, <1>8, <1>9, <1>10, <1>11 DEF Next

(* A claim states what the turns it cites say, nothing begins or ends      *)
(* after now, and what one call alone reads no claim cites yet.            *)
THEOREM SaidInvariance == Spec => []SInv
<1>1. Init => SInv
  <2>. SUFFICES ASSUME Init PROVE SInv
    OBVIOUS
  <2>1. /\ IInv /\ DOMAIN claims = {} /\ DOMAIN turns = {} /\ call = [c \in Calls |-> Idle]
    BY InitHolds DEF Init
  <2>. QED
    BY <2>1 DEF SInv, Telling, Placed, Rendered, Alone
<1>. QED
  BY <1>1, NextTells, PTL DEF Spec

(* A turn that is said again and taken for a repeat is still believed: the *)
(* claims that cite it state what it says, begin by now and are not over.  *)
THEOREM SaidAgainAlways == Spec => []SaidAgainIsBelieved
<1>1. SInv => SaidAgainIsBelieved
  BY SaidAgainHolds DEF SInv
<1>. QED
  BY <1>1, SaidInvariance, PTL

-----------------------------------------------------------------------------
(* A retry converges                                                       *)

(* What is reinforced goes on past the date of what is said.               *)
LEMMA ReinforcedGoesOn ==
    ASSUME NEW S, NEW n \in Nat, Table(S, n), NEW t \in Time, NEW i \in Claim,
           i.to = Forever, i.from <= t, NEW ids \in ReinforcedByValue(S, i, t), NEW k \in ids
    PROVE  k \in DOMAIN S /\ i.from < S[k].to
<1>. DEFINE live == LiveSame(S, i, t)
            held == Held(S, i, t)
            end1 == EarlierEnd(S, i, held, live)
            end2 == CompetesTo(S, i, t)
            from == i.from
<1>1. /\ from \in Nat /\ t \in Nat /\ from < Forever /\ Forever \in Nat
      /\ \A j \in DOMAIN S : S[j].to \in Nat /\ S[j].from \in Nat
  BY EndsAreNaturals DEF Claim, Table
<1>2. /\ live \subseteq DOMAIN S /\ held \subseteq DOMAIN S
      /\ \A j \in live : t < S[j].to
  BY DEF LiveSame, Held, FindByValue, IsLive, InForce
<1>3. \/ /\ live # {} /\ \A j \in live : IsAfter(S[j], i)
         /\ ids \in HoldingRest(S, i, held, end1)
      \/ ids \in {{j} : j \in Oldest(S, live)}
      \/ ids \in HoldingRest(S, i, held, end2)
  BY DEF ReinforcedByValue, CompetesTo
<1>4. \A j : IsAfter(S[j], i) => from < S[j].from
  BY <1>1 DEF IsAfter
<1>. HIDE DEF live, held, end1, end2
<1>5. ASSUME NEW stop, stop \in Nat, from < stop, ids \in HoldingRest(S, i, held, stop)
      PROVE  k \in DOMAIN S /\ from < S[k].to
  <2>1. \A X : Oldest(S, X) \subseteq X
    BY DEF Oldest
  <2>2. k \in Covering(S, i, held, stop) \/ k \in Overlapped(S, i, held, stop)
    BY <1>5, <2>1 DEF HoldingRest
  <2>3. CASE k \in Covering(S, i, held, stop)
    <3>1. k \in DOMAIN S /\ (S[k].to = Forever \/ S[k].to >= stop)
      BY <1>2, <2>3 DEF Covering
    <3>. QED
      BY <1>1, <1>5, <3>1
  <2>4. CASE k \in Overlapped(S, i, held, stop)
    BY <1>2, <2>4 DEF Overlapped
  <2>. QED
    BY <2>2, <2>3, <2>4
<1>6. CASE /\ live # {} /\ \A j \in live : IsAfter(S[j], i)
           /\ ids \in HoldingRest(S, i, held, end1)
  <2>1. /\ end1 \in Ends
        /\ end1 = i.to \/ \E j \in live \cup {j \in held : IsAfter(S[j], i)} : end1 = S[j].from
    BY <1>2, <1>6, EarlierEndType DEF end1
  <2>2. end1 \in Nat /\ from < end1
    BY <1>1, <1>4, <1>6, <2>1, EndsAreNaturals
  <2>. QED
    BY <1>5, <1>6, <2>2
<1>7. CASE ids \in {{j} : j \in Oldest(S, live)}
  <2>1. k \in live
    BY <1>7 DEF Oldest
  <2>. QED
    BY <1>1, <1>2, <2>1
<1>8. CASE ids \in HoldingRest(S, i, held, end2)
  <2>1. /\ end2 \in Ends
        /\ end2 \in {i.to, Forever} \/ \E j \in Newer(S, i, t) : end2 = S[j].from
    BY CompetesToType DEF end2
  <2>2. \A j \in Newer(S, i, t) : IsAfter(S[j], i)
    BY DEF Newer
  <2>3. end2 \in Nat /\ from < end2
    BY <1>1, <1>4, <2>1, <2>2, EndsAreNaturals
  <2>. QED
    BY <1>5, <1>8, <2>3
<1>. QED
  BY <1>3, <1>6, <1>7, <1>8

(* Of a turn that is all there is of its text and date, a retry is         *)
(* compared with the turn itself.                                          *)
LEMMA RetryFindsTurn ==
    ASSUME Typed, NEW e \in DOMAIN turns, NEW x, NEW ts \in Nat, turns[e].text = x,
           turns[e].ts = ts,
           \A d \in DOMAIN turns \ {e} : turns[d].text # x \/ turns[d].ts # ts
    PROVE  e \in EarlierOccurrence(x, ts)
<1>1. e \in Nat /\ \A d \in DOMAIN turns : turns[d].ts \in Nat
  BY EndsAreNaturals DEF Typed, Turn
<1>2. e \in Copies(x, ts)
  BY <1>1 DEF Copies
<1>3. ASSUME NEW d \in Copies(x, ts)
      PROVE  turns[d].ts < turns[e].ts \/ (turns[d].ts = turns[e].ts /\ d <= e)
  <2>1. d \in DOMAIN turns /\ turns[d].text = x /\ turns[d].ts <= ts
    BY DEF Copies
  <2>. QED
    BY <1>1, <2>1
<1>. QED
  BY <1>2, <1>3 DEF EarlierOccurrence

(* What a batch that reads its turn alone makes cite the turn is over, as  *)
(* a retraction is, or goes on past the date of the turn.                  *)
LEMMA CommitConverges ==
    ASSUME SInv, SInv', NEW c \in Calls, Commit(c), NEW p, p = call[c], p.says # {},
           p.turn \in DOMAIN turns, ~ turns[p.turn].raced
    PROVE  ~ EndedBy(Citing(p.turn), p.ts, now)'
<1>. DEFINE e == p.turn
            cites == {k \in DOMAIN claims' : BagIn(e, heard'[k])}
<1>1. /\ Typed /\ Typed' /\ p # Idle /\ p \in InFlight /\ now' = now /\ now \in Nat
      /\ p.t \in Time /\ p.text \in Texts
  BY RunningIs, EndsAreNaturals DEF SInv, IInv, Typed, Commit, InFlight
<1>2. Reads(p) /\ Citing(e) = {}
  BY <1>1 DEF Reads, SInv, Alone
<1>3. /\ Tells(p, claims, writes, turns, now) /\ p.says = {Statement(p.text, p.ts)}
      /\ p.ends = {}
  BY <1>1, <1>2 DEF SInv, Telling, Tells
<1>4. Candidates(c) = {AsOf(Statement(p.text, p.ts), p.t)}
  BY <1>3 DEF Candidates, StillStored, LiveAt
<1>. DEFINE i == AsOf(Statement(p.text, p.ts), p.t)
            v == Says[p.text].val
            b == Says[p.text].neg
<1>5. i = SaidAs(v, b, p.ts, p.t)
  BY StatementIs, AsOfIs
<1>6. /\ i \in Claim /\ Filed(i) /\ i.to = Forever /\ i.inv = Forever
      /\ i.from = p.ts /\ i.rec = p.t /\ i.from <= now /\ i.rec <= now
  BY <1>1, <1>4, CandidatesSay
<1>7. i.neg = b /\ b \in BOOLEAN
  BY <1>1, <1>5, ConstantsAre DEF SaidAs
<1>0. PICK o \in Apply(claims, writes, i, p.t, now, "ended") :
          /\ claims' = o.rows /\ writes' = o.writes
          /\ \E ids \in Reinforced(claims, i, p.t, o.writes) : heard' = Counted(o.rows, ids, e)
  BY <1>4 DEF Commit, Current
<1>8. PICK ids \in Reinforced(claims, i, p.t, o.writes) :
          claims' = o.rows /\ writes' = o.writes /\ heard' = Counted(o.rows, ids, e)
  BY <1>0
<1>9. /\ p.ts <= p.t /\ p.t <= now /\ p.ts \in Nat /\ p.t \in Nat /\ p.ts < Forever
      /\ Forever \in Nat
  <2>1. p.ts \in Time
    BY <1>1 DEF InFlight
  <2>. QED
    BY <1>1, <1>3, <2>1, EndsAreNaturals DEF Tells
<1>. HIDE DEF i, v, b
<1>10. \A k \in ids : k \in DOMAIN claims /\ ValueKey(claims[k]) = ValueKey(i)
  BY <1>8, ReinforcedIsFound
<1>11. /\ DOMAIN claims \subseteq DOMAIN claims'
       /\ \A k \in DOMAIN claims : claims'[k].neg = claims[k].neg
       /\ \A k \in DOMAIN claims' \ DOMAIN claims : claims'[k].neg = i.neg
  BY <1>1, <1>6, <1>8, ApplyMoves DEF SInv
<1>12. \A k \in cites : k \notin DOMAIN claims \/ k \in ids
  <2>1. \A k \in DOMAIN claims' : \A d \in BagToSet(heard'[k]) :
            \/ k \in DOMAIN claims /\ d \in BagToSet(heard[k])
            \/ d = e /\ (k \notin DOMAIN claims \/ k \in ids)
    <3>1. heard' = Counted(claims', ids, e)
      BY <1>8
    <3>2. \A k \in DOMAIN claims' : \A d \in BagToSet(Counted(claims', ids, e)[k]) :
              \/ k \in DOMAIN claims /\ d \in BagToSet(heard[k])
              \/ d = e /\ (k \notin DOMAIN claims \/ k \in ids)
      BY ONLY <1>1, <1>11, CountedCites
    <3>. QED
      BY ONLY <3>1, <3>2
  <2>. QED
    BY <1>2, <2>1 DEF Citing, BagIn
<1>13. \A k \in DOMAIN claims' \ DOMAIN claims : k \in cites
  <2>1. \A k \in DOMAIN claims' \ DOMAIN claims : heard'[k] = SetToBag({e})
    BY <1>1, <1>8 DEF Counted, Typed
  <2>2. DOMAIN SetToBag({e}) = {e}
    BY SingleBag
  <2>. QED
    BY <2>1, <2>2 DEF BagIn, BagToSet
<1>14. \A k \in DOMAIN claims' : claims'[k] \in Claim /\ claims'[k].inv \in Nat
  BY <1>1, EndsAreNaturals DEF Typed, Table, Claim
<1>15. ASSUME i.neg, NEW k \in cites
       PROVE  ~ Believed(claims'[k], now)
  <2>1. claims'[k].neg
    BY <1>10, <1>11, <1>12, <1>15 DEF ValueKey
  <2>2. claims'[k].inv <= now
    BY <1>1, <2>1 DEF SInv, Placed, PlacedBy
  <2>. QED
    BY <1>1, <1>14, <2>2 DEF Believed
<1>16. ASSUME ~ i.neg
       PROVE  \/ \E k \in cites : Believed(claims'[k], now) /\ ~ (claims'[k].to <= p.ts)
              \/ \A k \in cites : ~ (claims'[k].to <= p.ts)
  <2>. DEFINE d == Canonical(i, p.t)
  <2>1. PICK close \in Closures : close = "ended"
    BY DEF Closures
  <2>2. i.from < i.to
    BY <1>6, <1>9
  <2>3. InParts(claims, claims', d)
    BY <1>1, <1>6, <1>8, <1>16, <2>1, <2>2, ApplyInParts DEF Typed
  <2>4. d.from = p.ts /\ d.inv = Forever /\ d.rec <= now
    BY <1>6, <1>9 DEF Canonical, Claim, Earlier
  <2>. HIDE DEF d
  <2>5. CASE DOMAIN claims' # DOMAIN claims
    <3>1. PICK k \in DOMAIN claims' \ DOMAIN claims : TRUE
      BY <1>11, <2>5
    <3>2. claims'[k].inv = Forever /\ claims'[k].rec = d.rec /\ d.from < claims'[k].to
      BY <2>3, <2>4, <3>1 DEF InParts, PartOf
    <3>3. now < Forever
      BY <1>1, EndsAreNaturals DEF Typed
    <3>4. Believed(claims'[k], now)
      BY <2>4, <3>2, <3>3 DEF Believed
    <3>5. claims'[k].to \in Nat
      BY <1>14, EndsAreNaturals DEF Claim
    <3>6. ~ (claims'[k].to <= p.ts)
      BY <1>9, <2>4, <3>2, <3>5
    <3>. QED
      BY <1>13, <3>4, <3>6
  <2>6. CASE DOMAIN claims' = DOMAIN claims
    <3>1. \A k \in DOMAIN claims : claims'[k].to = claims[k].to /\ claims[k].to \in Nat
      BY <1>1, <2>3, <2>6, EndsAreNaturals DEF InParts, Typed, Table, Claim
    <3>2. ids \in ReinforcedByValue(claims, i, p.t)
      BY <1>8, <1>16 DEF Reinforced
    <3>3. \A k \in ids : k \in DOMAIN claims /\ i.from < claims[k].to
      BY <1>1, <1>6, <1>9, <3>2, ReinforcedGoesOn DEF Typed
    <3>4. \A k \in cites : k \in ids
      BY <1>12, <2>6
    <3>. QED
      BY <1>6, <1>9, <3>1, <3>3, <3>4
  <2>. QED
    BY <2>5, <2>6
<1>. HIDE DEF cites
<1>17. ~ (LET believed == {k \in cites : Believed(claims'[k], now)}
          IN  believed # {} /\ \A k \in believed : claims'[k].to <= p.ts)
  BY <1>7, <1>15, <1>16
<1>. QED
  BY <1>1, <1>17 DEF EndedBy, Citing, cites

(* A retry converges: whatever runs beside a call that alone reads its     *)
(* turn, the turn sent again when the call is done is taken for a repeat.  *)
THEOREM RetryAlways == Spec => RetryConverges
<1>. DEFINE Sent(c, p) ==
        /\ p.stage = "read" /\ p.says # {}
        /\ p.turn \in DOMAIN turns /\ ~ turns[p.turn].raced
        /\ \A e \in DOMAIN turns \ {p.turn} : turns[e].text # p.text \/ turns[e].ts # p.ts
        /\ call'[c] = Idle /\ Commit(c)
<1>1. ASSUME SInv, [Next]_vars, NEW c \in Calls, NEW p, p = call[c], Sent(c, p)
      PROVE  Repeated(p.text, p.ts, now)' # {}
  <2>0. /\ p.says # {} /\ p.turn \in DOMAIN turns /\ ~ turns[p.turn].raced /\ Commit(c)
        /\ \A e \in DOMAIN turns \ {p.turn} : turns[e].text # p.text \/ turns[e].ts # p.ts
    BY <1>1
  <2>. HIDE DEF Sent
  <2>1. SInv'
    BY <1>1, NextTells
  <2>2. ~ EndedBy(Citing(p.turn), p.ts, now)'
    BY <1>1, <2>0, <2>1, CommitConverges
  <2>3. p \in InFlight /\ p # Idle /\ turns' = turns
    BY <1>1, <2>0, RunningIs DEF SInv, IInv, Commit
  <2>4. Reads(p) /\ Tells(p, claims, writes, turns, now)
    BY <1>1, <2>0, <2>3 DEF Reads, SInv, Telling
  <2>5. turns[p.turn].text = p.text /\ turns[p.turn].ts = p.ts /\ p.ts \in Nat
    <3>1. p.ts \in Time
      BY <2>3 DEF InFlight
    <3>2. turns[p.turn].text = p.text /\ turns[p.turn].ts = p.ts
      BY <2>0, <2>4 DEF Tells
    <3>. QED
      BY <3>1, <3>2, EndsAreNaturals
  <2>6. p.turn \in EarlierOccurrence(p.text, p.ts)
    BY <1>1, <2>0, <2>5, RetryFindsTurn DEF SInv, IInv
  <2>7. p.turn \in EarlierOccurrence(p.text, p.ts)'
    BY <2>3, <2>6 DEF EarlierOccurrence, Copies
  <2>. QED
    BY <2>2, <2>7 DEF Repeated
<1>2. SInv /\ [Next]_vars => \A c \in Calls : \A p \in {call[c]} :
                                 Sent(c, p) => Repeated(p.text, p.ts, now)' # {}
  BY <1>1
<1>. QED
  BY <1>2, SaidInvariance, PTL DEF Spec, RetryConverges

=============================================================================
