------------------------------- MODULE Turns --------------------------------
(***************************************************************************)
(* Conversation turns: WritePipeline.add and reextract                     *)
(* (memvara/write/pipeline.py), the turns they store and the claims that   *)
(* cite them.                                                              *)
(*                                                                         *)
(* A call takes its instant, compares its turn with the stored ones,       *)
(* stores it, asks a model about it, and only then opens the batch that    *)
(* reconciles what the model said.  Nothing holds a lock between those     *)
(* steps, so another call, an erasure or a crash falls between any two.    *)
(* A background pass reads again the stored turns that no claim cites.     *)
(*                                                                         *)
(* One scope, one slot and one turn to a call: several turns of one call   *)
(* share its batch, and its instant, and are otherwise turns of their own. *)
(***************************************************************************)
EXTENDS Reconcile, Bags

CONSTANTS
    Calls,         \* the calls that may be in flight together
    Texts,         \* what a turn may be
    Says,          \* what a model reads in each text: a value, stated or retracted
    Paraphrases,   \* the texts that a stored claim may be worded like
    Proposing,     \* agentic extraction: a model may also propose to end a claim
    Topic, Here,   \* the predicate and the scope of every turn, where its claims
                   \* are filed too
    MaxAdds,       \* bound: the turns that are said
    MaxMishaps     \* bound: direct writes, deletions, erasures and crashes

ASSUME TurnsAssumption ==
    /\ Says \in [Texts -> [val : Values \cup {NoValue}, neg : BOOLEAN]]
    /\ \A x \in Texts : Says[x].neg \/ Says[x].val # NoValue
    /\ Paraphrases \subseteq Texts
    /\ Proposing \in BOOLEAN
    /\ Topic \in Predicates /\ Here \in Scope
    /\ SlotScope(Topic, Here) = Here
    /\ IsFiniteSet(Calls)
    /\ MaxAdds \in Nat /\ MaxMishaps \in Nat

VARIABLES
    claims,    \* the claims table, from ids to claims
    writes,    \* how many writes have stored something
    now,       \* the clock
    turns,     \* the episodes table, from ids to turns
    adds,      \* how many turns have been said
    saved,     \* how many of them have been stored as turns of their own
    heard,     \* of each claim, the turns it cites, as often as each was counted
    call,      \* what each call in flight has read so far
    mishaps    \* how many direct writes, deletions, erasures and crashes there were

vars == <<claims, writes, now, turns, adds, saved, heard, call, mishaps>>

Idle == [stage |-> "idle"]

(* A value that a turn states or retracts from ts on, as a claim of instant t. *)
SaidAs(v, b, ts, t) ==
    [pred |-> Topic, val |-> v, neg |-> b, scope |-> Here,
     from |-> ts, width |-> 0, to |-> Forever, rec |-> t,
     inv |-> Forever, conf |-> 1, exp |-> Forever, user |-> FALSE]

(* What a turn says, from its own date on, as a claim to reconcile. *)
Statement(x, ts) == SaidAs(Says[x].val, Says[x].neg, ts, Forever)

(* Two histories ride on a turn: how often it was said, and whether two    *)
(* calls were ever reading it at once.                                     *)
Turn == [text : Texts, ts : Time, told : Nat \ {0}, raced : BOOLEAN]

TypeOK ==
    /\ claims \in [DOMAIN claims -> Claim]
    /\ DOMAIN heard = DOMAIN claims
    /\ turns \in [DOMAIN turns -> Turn] /\ DOMAIN turns \subseteq 1 .. saved
    /\ now \in Time
    /\ \A c \in Calls : call[c].stage \in {"idle", "found", "stored", "read"}

Init ==
    /\ claims = [k \in {} |-> {}]
    /\ writes = 0
    /\ now = 0
    /\ turns = [e \in {} |-> {}]
    /\ adds = 0
    /\ saved = 0
    /\ heard = [k \in {} |-> {}]
    /\ call = [c \in Calls |-> Idle]
    /\ mishaps = 0

-----------------------------------------------------------------------------
(* Tier 0: is this turn a repeat?                                          *)

(* _claims_from and own_claims: the claims that cite a turn. *)
Citing(e) == {k \in DOMAIN claims : BagIn(e, heard[k])}

(* _ended_by: all the believed claims of a turn had ended by `at`. *)
EndedBefore(ids, at, t) ==
    LET believed == {k \in ids : Believed(claims[k], t)}
    IN  believed # {} /\ \A k \in believed : claims[k].to < at

EndedBy(ids, at, t) ==
    LET believed == {k \in ids : Believed(claims[k], t)}
    IN  believed # {} /\ \A k \in believed : claims[k].to <= at

(* _earlier_occurrence: the latest turn of the same text dated at or before *)
(* ts, and of several at one instant the last one stored; or no turn.       *)
CopiesBefore(x, ts) == {e \in DOMAIN turns : turns[e].text = x /\ turns[e].ts < ts}

Copies(x, ts) == {e \in DOMAIN turns : turns[e].text = x /\ turns[e].ts <= ts}

EarlierOccurrence(x, ts) ==
    {e \in Copies(x, ts) :
        \A d \in Copies(x, ts) :
            turns[d].ts < turns[e].ts \/ (turns[d].ts = turns[e].ts /\ d <= e)}

Repeated(x, ts, t) == {e \in EarlierOccurrence(x, ts) : ~ EndedBy(Citing(e), ts, t)}

Rows(ids) == [k \in ids |-> claims[k]]

LiveAt(ids, t) == {k \in ids : IsLive(claims[k], t, t)}

Heard(stage, e, x, ts, again) ==
    [stage |-> stage, turn |-> e, text |-> x, ts |-> ts, t |-> now, again |-> again,
     queued |-> Rows({}), says |-> {}, ends |-> {}]

(* The first step of add(), _tier0_partition: it only reads. *)
BeginAdd(c, x, ts) ==
    /\ call[c] = Idle
    /\ adds < MaxAdds
    /\ adds' = adds + 1
    /\ \/ \E e \in Repeated(x, ts, now) :
             /\ call' = [call EXCEPT ![c] =
                    [Heard("read", e, x, ts, FALSE) EXCEPT
                        !.queued = Rows(LiveAt(Citing(e), now))]]
             /\ turns' = [turns EXCEPT ![e].told = @ + 1]
       \/ /\ Repeated(x, ts, now) = {}
          /\ call' = [call EXCEPT ![c] = Heard("found", 0, x, ts, FALSE)]
          /\ UNCHANGED turns
    /\ UNCHANGED <<claims, writes, now, saved, heard, mishaps>>

(* The new turn commits on its own, before anything is read from it. *)
Save(c) ==
    /\ call[c].stage = "found"
    /\ saved' = saved + 1
    /\ turns' = [e \in DOMAIN turns \cup {saved + 1} |->
                    IF e \in DOMAIN turns THEN turns[e]
                    ELSE [text |-> call[c].text, ts |-> call[c].ts,
                          told |-> 1, raced |-> FALSE]]
    /\ call' = [call EXCEPT ![c].stage = "stored", ![c].turn = saved + 1]
    /\ UNCHANGED <<claims, writes, now, adds, heard, mishaps>>

-----------------------------------------------------------------------------
(* Reading a stored turn, with no lock held                                *)

(* _tier0_near_dupes: the turn is worded like a live claim of what it says. *)
(* Dated before the claim begins, it states the value for the time before.  *)
Restates(c, k) ==
    LET p == call[c]
    IN  /\ p.stage = "stored" /\ ~ p.again
        /\ p.text \in Paraphrases
        /\ IsLive(claims[k], p.t, p.t)
        /\ claims[k].val = Says[p.text].val /\ ~ Says[p.text].neg
        /\ call' = [call EXCEPT ![c] =
              IF p.ts < claims[k].from
              THEN [p EXCEPT !.stage = "read", !.says = {Statement(p.text, p.ts)}]
              ELSE [p EXCEPT !.stage = "read", !.queued = Rows({k})]]
        /\ UNCHANGED <<claims, writes, now, turns, adds, saved, heard, mishaps>>

(* _tier2: the model reads in the turn what it says... *)
Extract(c) ==
    /\ call[c].stage = "stored"
    /\ call' = [call EXCEPT ![c].stage = "read",
                            ![c].says = {Statement(call[c].text, call[c].ts)}]
    /\ UNCHANGED <<claims, writes, now, turns, adds, saved, heard, mishaps>>

(* ...or fails, and what the turn says is deferred... *)
ModelFails(c) ==
    /\ call[c].stage = "stored"
    /\ call' = [call EXCEPT ![c].stage = "read"]
    /\ UNCHANGED <<claims, writes, now, turns, adds, saved, heard, mishaps>>

(* ...or proposes, for that turn, to end a claim it was shown. *)
ProposesEnd(c, k) ==
    /\ Proposing
    /\ call[c].stage = "stored"
    /\ IsLive(claims[k], call[c].t, call[c].t)
    /\ call' = [call EXCEPT ![c].stage = "read", ![c].ends = {k}]
    /\ UNCHANGED <<claims, writes, now, turns, adds, saved, heard, mishaps>>

RereadAll(c, e) ==
    /\ call[c] = Idle
    /\ call' = [call EXCEPT ![c] = Heard("stored", e, turns[e].text, turns[e].ts, TRUE)]
    /\ UNCHANGED <<claims, writes, now, turns, adds, saved, heard, mishaps>>

(* WritePipeline.reextract, of a turn pending_extraction() lists. *)
Reread(c, e) ==
    /\ call[c] = Idle
    /\ Citing(e) = {}
    /\ call' = [call EXCEPT ![c] = Heard("stored", e, turns[e].text, turns[e].ts, TRUE)]
    /\ turns' = [turns EXCEPT ![e].raced =
                    @ \/ \E d \in Calls : call[d] # Idle /\ call[d].turn = e]
    /\ UNCHANGED <<claims, writes, now, adds, saved, heard, mishaps>>

-----------------------------------------------------------------------------
(* The batch that reconciles                                               *)

(* The turns a call would cite and that are still stored; see _erased. *)
StillStored(c) == call[c].turn \in DOMAIN turns

(* A claim queued by tier 0 is read again under the lock, and counted only *)
(* if it is still live.                                                    *)
Bumped(c) ==
    IF StillStored(c)
    THEN {k \in DOMAIN call[c].queued \cap DOMAIN claims : IsLive(claims[k], now, now)}
    ELSE {}

WithQueuedCopies(c) ==
    [k \in DOMAIN claims \cup DOMAIN call[c].queued |->
        IF k \in DOMAIN call[c].queued THEN call[c].queued[k] ELSE claims[k]]

(* The table the batch starts from: the rows as they are under the lock, *)
(* not the copies that tier 0 read of them.                               *)
Current(c) == claims

(* What a call brings to Reconciler.apply, as claims of the instant it began. *)
AsOf(s, t) == [s EXCEPT !.rec = t]

(* _apply_proposals: a retraction of exactly the claim's value. *)
Ending(k, ts, t) ==
    [AsOf(claims[k], t) EXCEPT !.neg = TRUE, !.from = ts, !.width = 0,
                               !.to = Forever, !.inv = Forever,
                               !.user = FALSE]

CandidatesOfAnyTurn(c) ==
    LET p == call[c]
    IN  {AsOf(s, p.t) : s \in p.says}
          \cup {Ending(k, p.ts, p.t) : k \in LiveAt(p.ends \cap DOMAIN claims, p.t)}

(* _sourced: what was read in a turn that has since been erased is dropped. *)
Candidates(c) ==
    LET p == call[c]
    IN  IF ~ StillStored(c) THEN {}
        ELSE {AsOf(s, p.t) : s \in p.says}
               \cup {Ending(k, p.ts, p.t) : k \in LiveAt(p.ends \cap DOMAIN claims, p.t)}

(***************************************************************************)
(* The stored claims that Reconciler.apply makes cite the candidate's turn *)
(* too: one set for each claim that a random id may pick among several.    *)
(***************************************************************************)
HoldingRest(S, i, held, stop) ==
    IF Covering(S, i, held, stop) # {}
    THEN {{k} : k \in Oldest(S, Covering(S, i, held, stop))}
    ELSE {Overlapped(S, i, held, stop)}

ReinforcedByValue(S, i, t) ==
    LET live   == LiveSame(S, i, t)
        held   == Held(S, i, t)
        before == \A k \in live : IsAfter(S[k], i)
        whole  == Gaps(S, i, held, i.to) = {}
        newer  == Newer(S, i, t)
        stop   == Earlier(i.to, LeastOf({Forever} \cup {S[k].from : k \in newer}))
    IN  CASE live # {} /\ before -> HoldingRest(S, i, held, EarlierEnd(S, i, held, live))
          [] live # {} /\ ~ before /\ whole -> {{k} : k \in Oldest(S, live)}
          [] live = {} \/ (~ before /\ ~ whole) -> HoldingRest(S, i, held, stop)

(* A retraction that stores nothing is counted on the tombstone it repeats. *)
ReinforcedByRetraction(S, i, n) ==
    IF n > writes \/ FindByValue(S, i) = {}
    THEN {{}}
    ELSE {{k} : k \in Oldest(S, FindByValue(S, i))}

Reinforced(S, i, t, n) ==
    IF i.neg THEN ReinforcedByRetraction(S, i, n) ELSE ReinforcedByValue(S, i, t)

CountedWhenNew(rows, ids, e) ==
    [k \in DOMAIN rows |-> IF k \in DOMAIN heard THEN heard[k] ELSE SetToBag({e})]

(* The claims ids, and those of rows that are new, are counted for turn e. *)
Counted(rows, ids, e) ==
    [k \in DOMAIN rows |->
        CASE k \notin DOMAIN heard             -> SetToBag({e})
          [] k \in DOMAIN heard /\ k \in ids   -> heard[k] (+) SetToBag({e})
          [] k \in DOMAIN heard \ ids          -> heard[k]]

(* The claim transaction of add() and of reextract(). *)
Commit(c) ==
    LET p == call[c]
        S == Current(c)
    IN  /\ p.stage = "read"
        /\ \/ /\ Candidates(c) = {}
              /\ claims' = S
              /\ heard' = Counted(S, Bumped(c), p.turn)
              /\ UNCHANGED writes
           \/ \E i \in Candidates(c) :
                 \E o \in Apply(S, writes, i, p.t, now, "ended") :
                    /\ claims' = o.rows
                    /\ writes' = o.writes
                    /\ \E ids \in Reinforced(S, i, p.t, o.writes) :
                          heard' = Counted(o.rows, ids, p.turn)
        /\ call' = [call EXCEPT ![c] = Idle]
        /\ UNCHANGED <<now, turns, adds, saved, mishaps>>

-----------------------------------------------------------------------------
(* What happens meanwhile                                                  *)

(* Memvara.remember: the user states a value, and no turn stands behind it. *)
Told(v) ==
    [pred |-> Topic, val |-> v, neg |-> FALSE, scope |-> Here, from |-> Forever,
     width |-> 0, to |-> Forever, rec |-> Forever, inv |-> Forever, conf |-> 1,
     exp |-> Forever, user |-> TRUE]

Remember(v) ==
    \E o \in Apply(claims, writes, [Told(v) EXCEPT !.from = now, !.rec = now], now, now,
                  "ended") :
        /\ claims' = o.rows
        /\ writes' = o.writes
        /\ heard' = [k \in DOMAIN o.rows |->
                        IF k \in DOMAIN heard THEN heard[k] ELSE EmptyBag]
        /\ UNCHANGED <<now, turns, adds, saved, call>>

(* A call dies, and what it had read is lost with it. *)
Crash(c) ==
    /\ call[c] # Idle
    /\ call' = [call EXCEPT ![c] = Idle]
    /\ UNCHANGED <<claims, writes, now, turns, adds, saved, heard>>

(* Memvara.delete *)
Delete(k, close) ==
    /\ claims[k].inv = Forever
    /\ claims' = [claims EXCEPT ![k] = CloseOut(@, now, close)]
    /\ UNCHANGED <<writes, now, turns, adds, saved, heard, call>>

(* erase_claim: its turns go with it, except those another claim cites. *)
Erase(k, sources) ==
    LET left == DOMAIN claims \ {k}
        orphans == {e \in BagToSet(heard[k]) : \A j \in left : ~ BagIn(e, heard[j])}
    IN  /\ claims' = [j \in left |-> claims[j]]
        /\ heard' = [j \in left |-> heard[j]]
        /\ turns' = [e \in DOMAIN turns \ (IF sources THEN orphans ELSE {}) |-> turns[e]]
        /\ UNCHANGED <<writes, now, adds, saved, call>>

(* Memvara.purge of the scope. *)
Purge ==
    /\ claims' = Rows({})
    /\ heard' = [k \in {} |-> {}]
    /\ turns' = [e \in {} |-> {}]
    /\ UNCHANGED <<writes, now, adds, saved, call>>

Mishap ==
    /\ mishaps < MaxMishaps
    /\ mishaps' = mishaps + 1
    /\ \/ \E c \in Calls : Crash(c)
       \/ \E v \in Values : Remember(v)
       \/ \E k \in DOMAIN claims, close \in Closures : Delete(k, close)
       \/ \E k \in DOMAIN claims, sources \in BOOLEAN : Erase(k, sources)
       \/ turns # [e \in {} |-> {}] /\ Purge

Tick ==
    /\ now + 1 \in Time
    /\ now' = now + 1
    /\ UNCHANGED <<claims, writes, turns, adds, saved, heard, call, mishaps>>

Next ==
    \/ \E c \in Calls, x \in Texts, ts \in 0 .. now : BeginAdd(c, x, ts)
    \/ \E c \in Calls : Save(c)
    \/ \E c \in Calls, k \in DOMAIN claims : Restates(c, k)
    \/ \E c \in Calls : Extract(c)
    \/ \E c \in Calls : ModelFails(c)
    \/ \E c \in Calls, k \in DOMAIN claims : ProposesEnd(c, k)
    \/ \E c \in Calls, e \in DOMAIN turns : Reread(c, e)
    \/ \E c \in Calls : Commit(c)
    \/ Mishap
    \/ Tick

Spec == Init /\ [][Next]_vars

(* A background pass is run again and again over what pending_extraction() *)
(* lists, its model answers in the end, and a batch that is ready commits. *)
FairSpec ==
    /\ Spec
    /\ \A c \in Calls : /\ WF_vars(Commit(c)) /\ WF_vars(Save(c))
                        /\ SF_vars(Extract(c))
    /\ \A e \in 1 .. MaxAdds :
          SF_vars(e \in DOMAIN turns /\ \E c \in Calls : Reread(c, e))

-----------------------------------------------------------------------------
(* Properties                                                              *)

(* The book the turns write is the Ledger's: every step here is one of its *)
(* calls, or writes no claim at all.  The first disjunct changes nothing in *)
(* the formula: it spares TLC the search of Next on steps that write none. *)
Yields ==
    {SaidAs(v, b, ts, Forever) :
        v \in Values \cup {Says[x].val : x \in Texts}, b \in BOOLEAN, ts \in Time}
      \cup {Told(v) : v \in Values}

Book == INSTANCE Ledger WITH
    Writers    <- Calls,
    Statements <- Yields,
    Ats        <- {},
    Serials    <- Nat,
    began      <- [c \in Calls |-> IF call[c] = Idle THEN Forever ELSE call[c].t]

WritesTheLedger == Book!Init /\ [][UNCHANGED Book!vars \/ Book!Next]_(Book!vars)

(* Every claim read from a turn cites one, and every turn it cites is      *)
(* stored, whatever was erased while the model was reading.                *)
CitesStored ==
    \A k \in DOMAIN claims : /\ claims[k].user \/ heard[k] # EmptyBag
                             /\ BagToSet(heard[k]) \subseteq DOMAIN turns

(* A claim is counted for a turn no more often than the turn was said,     *)
(* unless two calls read the turn at once: reextract() looks for its       *)
(* claims before it asks the model, and not again under the lock.          *)
HeardAsSaid ==
    \A k \in DOMAIN claims : \A e \in BagToSet(heard[k]) :
        turns[e].raced \/ heard[k][e] <= turns[e].told

(* What a batch writes back never undoes what happened since tier 0 read   *)
(* the claims: no end moves away, no retirement is taken back, and an      *)
(* erased claim stays erased.                                              *)
ClosuresStand ==
    [][/\ \A k \in DOMAIN claims \cap DOMAIN claims' :
             /\ claims'[k].to <= claims[k].to
             /\ claims[k].inv # Forever => claims'[k].inv = claims[k].inv
       /\ \A k \in DOMAIN claims' \ DOMAIN claims : k[1] > writes]_vars

(* A retry converges: when what a turn says has been reconciled, the same  *)
(* turn sent again is taken for a repeat.  Two calls that store one turn   *)
(* side by side are left out, because a retry is compared with one of the  *)
(* two, and so are two that read one turn at once: one of them can count   *)
(* its turn on a claim that another stored and a third has retired since.  *)
RetryConverges ==
    [][\A c \in Calls : \A p \in {call[c]} :
          /\ p.stage = "read" /\ p.says # {}
          /\ p.turn \in DOMAIN turns /\ ~ turns[p.turn].raced
          /\ \A e \in DOMAIN turns \ {p.turn} : turns[e].text # p.text \/ turns[e].ts # p.ts
          /\ call'[c] = Idle /\ Commit(c)
          => Repeated(p.text, p.ts, now)' # {}]_vars

(* A turn that is said again, and taken for a repeat, is still believed.   *)
SaidAgainIsBelieved ==
    \A x \in Texts : \A e \in Repeated(x, now, now) :
        /\ ~ Says[x].neg
        /\ \E k \in Citing(e) : Believed(claims[k], now)
        => \E k \in LiveAt(DOMAIN claims, now) :
              ~ claims[k].neg /\ claims[k].val = Says[x].val

(* Every stored turn that states a value is read in the end, if it is not  *)
(* erased first: whatever the model failed to answer and whatever crashed, *)
(* the turn stays pending and a later reextract() gives it a claim.        *)
EventuallyRead ==
    \A e \in 1 .. MaxAdds :
        (e \in DOMAIN turns /\ ~ Says[turns[e].text].neg)
           ~> (e \notin DOMAIN turns \/ Citing(e) # {})

=============================================================================
