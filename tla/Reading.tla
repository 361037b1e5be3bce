------------------------------ MODULE Reading -------------------------------
(***************************************************************************)
(* What a present-tense read at a scope returns (Memvara.get_all, since's  *)
(* added half and search, with memvara/retrieve/shadow.py): the live       *)
(* claims of every level the reader reads from, less those that a narrower *)
(* level answers for itself.                                               *)
(***************************************************************************)
EXTENDS Ledger, Sequences

(* The levels of a reader's chain that are its owner's, narrowest first:   *)
(* inside the project, then outside it.  A level may occur twice.          *)
Chain(r) ==
    LET agentLevel   == [r EXCEPT !.session = Unset]
        ownLevel     == [agentLevel EXCEPT !.agent = Unset]
        unproject(x) == [x EXCEPT !.project = Unset]
    IN  <<r, agentLevel, ownLevel, unproject(r), unproject(agentLevel), unproject(ownLevel)>>

Narrower(r, level) ==
    {Chain(r)[i] : i \in {j \in DOMAIN Chain(r) :
        \A h \in DOMAIN Chain(r) : Chain(r)[h] = level => j < h}}

(* Store.candidate_ids with no instant given, of the table S. *)
Live(S, r) ==
    {k \in DOMAIN S : /\ Sees(r, S[k].scope)
                      /\ IsLive(S[k], now, now)
                      /\ ~ Hidden(S[k], now)}

(* Claim.state is read off the two end columns alone, not off the clock. *)
StateIsLive(c) == c.inv = Forever /\ c.to = Forever

(* Store.occupied_slots: the slots that hold a live claim at one of levels. *)
OccupiedAnywhere(S, keys, levels) ==
    {SlotOf(S[k]) : k \in {j \in DOMAIN S :
        IsLive(S[j], now, now) /\ ~ Hidden(S[j], now)}} \cap keys

Occupied(S, keys, levels) ==
    {SlotOf(S[k]) : k \in {j \in DOMAIN S :
        /\ IsLive(S[j], now, now) /\ ~ Hidden(S[j], now)
        /\ S[j].scope \in levels}} \cap keys

(* The slot as the reader's own level spells it, a slip that is easy to make. *)
OwnSlotKeys(r, p, levels) == {FactKey(r, p)}

(* A global predicate is never filed at a level that has a project. *)
SlotKeys(r, p, levels) ==
    {FactKey(l, p) : l \in {m \in levels : p \notin Global \/ m.project = Unset}}

(* shadowed *)
Shadowed(S, r) ==
    {k \in Live(S, r) :
        LET level  == S[k].scope
            levels == Narrower(r, level)
        IN  /\ StateIsLive(S[k])
            /\ S[k].pred \in Functional
            /\ \E i \in DOMAIN Chain(r) : Chain(r)[i] = level
            /\ Occupied(S, SlotKeys(r, S[k].pred, levels), levels) # {}}

Read(S, r) == Live(S, r) \ Shadowed(S, r)

-----------------------------------------------------------------------------
(* Properties                                                              *)

(* A claim that is live now and carries an end or a retirement still to come. *)
EndsLater(k) == ~ StateIsLive(claims[k])

(* A reader is told one value of a functional predicate by one owner, the  *)
(* narrowest level's, whatever levels of its chain hold one: of the claims *)
(* with no end still to come.                                              *)
ReadsOneOpenLevel ==
    \A r \in CallScopes : \A a, b \in Read(claims, r) :
        /\ claims[a].pred \in Functional
        /\ claims[a].pred = claims[b].pred
        /\ Owner(claims[a].scope) = Owner(claims[b].scope)
        => \/ claims[a].scope = claims[b].scope
           \/ EndsLater(a) \/ EndsLater(b)

(* Shadowing chooses among the values a reader could be given and never    *)
(* leaves it with none: a sibling's value hides nothing.                   *)
StillAnswered ==
    \A r \in CallScopes : \A k \in Live(claims, r) :
        \E j \in Read(claims, r) : /\ claims[j].pred = claims[k].pred
                                   /\ Owner(claims[j].scope) = Owner(claims[k].scope)

(* What remember() is told of the present, as it would be told now. *)
Asserted ==
    {s \in Statements :
        LET i == Stamped(s, now)
        IN  /\ s.user /\ ~ s.neg /\ s.val # NoValue
            /\ now < i.exp /\ i.from <= now /\ now < i.to}

Says(c, s) == c.pred = s.pred /\ c.val = s.val

(* What a caller has just said is what a read at its scope answers, unless *)
(* it repeats a broader level's value where a narrower one has its own, a  *)
(* later value has begun, or the value is on record from an instant to     *)
(* come that the date given may mean.                                      *)
ReadsWhatWasSaid ==
    \A s \in Asserted : \A close \in Closures :
       LET i == Canonical(Stamped(s, now), now)
       IN  \A o \in Apply(claims, writes, i, now, now, close) :
              \/ \E k \in Read(o.rows, s.scope) : Says(o.rows[k], s)
              \/ \E k \in Shadowed(o.rows, s.scope) \cap DOMAIN claims : Says(claims[k], s)
              \/ \E k \in Newer(claims, i, now) : claims[k].from <= now
              \/ \E k \in HeldFor(claims, i, now) :
                    now < claims[k].from /\ ~ IsAfter(claims[k], i)

=============================================================================
