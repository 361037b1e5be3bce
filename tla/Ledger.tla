------------------------------- MODULE Ledger -------------------------------
(***************************************************************************)
(* The claims of one store and every call that writes them: the write      *)
(* methods of Memvara (memvara/core.py) and WritePipeline.add              *)
(* (memvara/write/pipeline.py), over the reconciler of Reconcile.          *)
(*                                                                         *)
(* Every method that reads a claim before it writes one does both in one   *)
(* batch, which holds the store's write lock from its first read, so each  *)
(* is a single step here, whichever thread or process takes it.  add() is  *)
(* not: it takes its instant when it begins, extracts without the lock,    *)
(* and reconciles later as of that instant, so it is two steps.            *)
(***************************************************************************)
EXTENDS Reconcile

CONSTANTS
    Statements,   \* what callers may say and what turns may yield
    Writers,      \* the add() calls that may be in flight together
    Ats,          \* closing instants a caller may name with at=
    Serials       \* bound: the numbers of the writes that may store something

(* An instant a caller leaves out is Forever in a statement. *)
Statement == [pred : Predicates, val : Values \cup {NoValue}, neg : BOOLEAN,
              scope : Scope, from : Ends, width : Nat, to : Ends, rec : Ends,
              inv : {Forever}, conf : Nat, exp : Ends, user : BOOLEAN]

ASSUME LedgerAssumption ==
    /\ Statements \subseteq Statement
    /\ Ats \subseteq Time
    /\ Serials \subseteq Nat

(* The scopes callers stand at. *)
CallScopes == {s.scope : s \in Statements}

VARIABLES
    claims,    \* the claims table, from ids to claims
    writes,    \* how many writes have stored something
    now,       \* the clock
    began      \* of each add() in flight, the instant it began; else Forever

vars == <<claims, writes, now, began>>

TypeOK ==
    /\ DOMAIN claims \subseteq Ids
    /\ claims \in [DOMAIN claims -> Claim]
    /\ writes \in Nat
    /\ \A k \in DOMAIN claims : k[1] <= writes
    /\ now \in Time
    /\ began \in [Writers -> Ends]

Init ==
    /\ claims = [k \in {} |-> {}]
    /\ writes = 0
    /\ now = 0
    /\ began = [w \in Writers |-> Forever]

-----------------------------------------------------------------------------
(* Writing                                                                 *)

StampedRecordOnly(s, t) == [s EXCEPT !.rec = IF s.rec = Forever THEN t ELSE s.rec]

(* A statement as a claim: the instants its caller left out are stamped. *)
Stamped(s, t) ==
    [s EXCEPT !.rec  = IF s.rec = Forever THEN t ELSE s.rec,
              !.from = CASE s.from # Forever -> s.from
                         [] s.from = Forever /\ s.rec # Forever -> s.rec
                         [] s.from = Forever /\ s.rec = Forever -> t]

Reconciled(S, i, t, close) ==
    /\ writes + 1 \in Serials
    /\ \E o \in Apply(S, writes, i, t, now, close) :
          /\ claims' = o.rows
          /\ writes' = o.writes

(* Memvara.remember.  Expiry and period are checked again under the lock. *)
Remember(s, close) ==
    LET i == Stamped(s, now)
    IN  /\ s.user
        /\ i.exp > now
        /\ i.from < i.to
        /\ Reconciled(claims, i, now, close)
        /\ UNCHANGED <<now, began>>

(***************************************************************************)
(* Memvara.supersede, and remember with replaces=: closes the claim named, *)
(* at the instant the caller gives or where the new claim begins, or is    *)
(* recorded, and then writes the new claim like any other.  A claim that   *)
(* is retired, or that has nothing left to end, is refused.                *)
(***************************************************************************)
AnyScope == [user |-> Unset, project |-> Unset, agent |-> Unset, session |-> Unset]

ClosingInstant(i, at, close) ==
    CASE at # Forever -> at
      [] at = Forever /\ close = "ended"   -> i.from
      [] at = Forever /\ close = "retired" -> i.rec

Supersede(k, s, at, close) ==
    LET old == claims[k]
        i   == [Stamped(s, now) EXCEPT !.scope = IF @ = AnyScope THEN old.scope ELSE @]
        S   == [claims EXCEPT ![k] = CloseOut(old, ClosingInstant(i, at, close), close)]
    IN  /\ ~ Hidden(old, now)
        /\ old.inv = Forever
        /\ close = "ended" => IsLive(old, now, now)
        /\ Reconciled(S, i, now, close)
        /\ UNCHANGED <<now, began>>

(* WritePipeline.add: the instant is taken first, then the turns are read. *)
BeginAdd(w) ==
    /\ began[w] = Forever
    /\ writes + 1 \in Serials
    /\ began' = [began EXCEPT ![w] = now]
    /\ UNCHANGED <<claims, writes, now>>

(* What the turns yielded is reconciled as of the instant the add began. *)
CommitAdd(w, s) ==
    LET t == began[w]
        i == [Stamped(s, t) EXCEPT !.rec = t]
    IN  /\ t # Forever
        /\ ~ s.user
        /\ Reconciled(claims, i, t, "ended")
        /\ began' = [began EXCEPT ![w] = Forever]
        /\ UNCHANGED now

(* An add whose turns yield nothing, or that dies before its batch commits. *)
Leave(w) ==
    /\ began[w] # Forever
    /\ began' = [began EXCEPT ![w] = Forever]
    /\ UNCHANGED <<claims, writes, now>>

-----------------------------------------------------------------------------
(* Closing and erasing                                                     *)

(* The values of a slot that a broad scope reaches down to, in force or to *)
(* begin later.                                                            *)
InForceInSlot(s, p) ==
    {k \in DOMAIN claims : /\ SlotOf(claims[k]) = FactKey(SlotScope(p, s), p)
                           /\ Contains(SlotScope(p, s), claims[k].scope)
                           /\ IsLive(claims[k], now, now)
                           /\ ~ Hidden(claims[k], now)
                           /\ claims[k].inv = Forever}

UnendedInSlot(s, p) ==
    {k \in DOMAIN claims : /\ SlotOf(claims[k]) = FactKey(SlotScope(p, s), p)
                           /\ Contains(SlotScope(p, s), claims[k].scope)
                           /\ IsUnended(claims[k], now, now)
                           /\ ~ Hidden(claims[k], now)
                           /\ claims[k].inv = Forever}

Closed(ids, at, close) ==
    [k \in DOMAIN claims |-> IF k \in ids THEN CloseOut(claims[k], at, close)
                                          ELSE claims[k]]

Forget(s, p, at, close) ==
    /\ UnendedInSlot(s, p) # {}
    /\ claims' = Closed(UnendedInSlot(s, p), at, close)
    /\ UNCHANGED <<writes, now, began>>

(* Memvara.delete, of a claim the caller can see. *)
Delete(k, at, close) ==
    /\ ~ Hidden(claims[k], now)
    /\ claims[k].inv = Forever
    /\ claims' = Closed({k}, at, close)
    /\ UNCHANGED <<writes, now, began>>

(* Memvara.forget_matching, confirmed: all the claims of the preview, or none. *)
ForgetMatching(ids, close) ==
    /\ ids # {}
    /\ \A k \in ids : /\ claims[k].inv = Forever
                      /\ IsLive(claims[k], now, now)
                      /\ ~ Hidden(claims[k], now)
    /\ claims' = Closed(ids, now, close)
    /\ UNCHANGED <<writes, now, began>>

(* Memvara.erase, and erase_expired for each claim that is due. *)
Erase(k) ==
    /\ claims' = [j \in DOMAIN claims \ {k} |-> claims[j]]
    /\ UNCHANGED <<writes, now, began>>

(* Memvara.purge: everything at a scope and beneath it. *)
Purge(s) ==
    /\ claims' = [j \in {k \in DOMAIN claims : ~ Contains(s, claims[k].scope)} |-> claims[j]]
    /\ UNCHANGED <<writes, now, began>>

Tick ==
    /\ now + 1 \in Time
    /\ now' = now + 1
    /\ UNCHANGED <<claims, writes, began>>

-----------------------------------------------------------------------------
Next ==
    \/ Tick
    \/ \E w \in Writers : BeginAdd(w)
    \/ \E w \in Writers : Leave(w)
    \/ \E w \in Writers, s \in Statements : CommitAdd(w, s)
    \/ \E k \in DOMAIN claims : Erase(k)
    \/ \E s \in Statements, close \in Closures : Remember(s, close)
    \/ \E s \in CallScopes, p \in Predicates, close \in Closures :
          \E at \in Ats \cup {now} : Forget(s, p, at, close)
    \/ \E k \in DOMAIN claims, close \in Closures :
          \E at \in Ats \cup {now} : Delete(k, at, close)
    \/ \E ids \in SUBSET DOMAIN claims, close \in Closures : ForgetMatching(ids, close)
    \/ \E s \in CallScopes : Purge(s)
    \/ \E k \in DOMAIN claims, s \in Statements, close \in Closures :
          \E at \in Ats \cup {Forever} : Supersede(k, s, at, close)

Spec == Init /\ [][Next]_vars

-----------------------------------------------------------------------------
(* Properties                                                              *)

(* The claim b displaces the claim a: it gives a functional slot another   *)
(* value, or its predicate supersedes a's.                                 *)
Displaces(b, a) ==
    /\ a.scope = b.scope
    /\ \/ a.pred = b.pred /\ a.pred \in Functional /\ a.val # b.val
       \/ <<b.pred, a.pred>> \in Supersedes

(* Two claims nobody has taken back, of which the later displaces the      *)
(* earlier, and that are both true at some instant that has not passed.    *)
Rivals(a, b) ==
    /\ a[1] < b[1]
    /\ Displaces(claims[b], claims[a])
    /\ claims[a].inv = Forever /\ claims[b].inv = Forever
    /\ ~ Hidden(claims[a], now) /\ ~ Hidden(claims[b], now)
    /\ Overlaps(claims[a], claims[b])
    /\ claims[a].to > now /\ claims[b].to > now

Disputed(a, b) == ~ HasAuthorityOver(claims[b], claims[a])

(* b came from turns read before a was recorded. *)
ReadBefore(b, a) == ~ claims[b].user /\ claims[b].rec < claims[a].rec

(* A functional slot holds one value: a second value stands beside the     *)
(* first only as a dispute, too weak to displace it.  This is what the     *)
(* write path promises of two writers: the second reads what the first     *)
(* wrote.                                                                  *)
OneValue == \A a, b \in DOMAIN claims : Rivals(a, b) => Disputed(a, b)

(* What the code keeps with adds in flight: a turn read before the other   *)
(* value was recorded is reconciled without seeing it.                     *)
OneValueSeen ==
    \A a, b \in DOMAIN claims : Rivals(a, b) => Disputed(a, b) \/ ReadBefore(b, a)

(* A value is stored once: a claim is kept only for instants that no claim *)
(* of the same value, stored before and seen by its writer, holds.  A      *)
(* claim that expires counts only its own scope.                           *)
HeldOnce ==
    \A a, b \in DOMAIN claims :
        /\ a[1] <= b[1] /\ a # b
        /\ ValueKey(claims[a]) = ValueKey(claims[b])
        /\ Sees(claims[b].scope, claims[a].scope)
        /\ claims[b].exp = Forever \/ claims[a].scope = claims[b].scope
        /\ claims[a].inv = Forever /\ claims[b].inv = Forever
        /\ ~ Hidden(claims[a], now) /\ ~ Hidden(claims[b], now)
        /\ Overlaps(claims[a], claims[b])
        => ReadBefore(b, a)

(* A write changes at most one clock of a stored claim, only ever moves an *)
(* end closer, and leaves a retired claim's two ends as they are.          *)
ClosesOneClock ==
    [][\A k \in DOMAIN claims \cap DOMAIN claims' :
          LET c == claims[k]
              d == claims'[k]
          IN  /\ d.to <= c.to
              /\ d.inv # c.inv => c.inv = Forever /\ d.to = c.to
              /\ d.to # c.to => c.inv = Forever /\ d.from <= d.to]_vars

(* The calls that leave the closing instant, and the record's, to the store. *)
NamesNoInstant ==
    \/ \E s \in Statements, close \in Closures : Remember(s, close)
    \/ \E k \in DOMAIN claims, s \in Statements, close \in Closures :
          s.rec = Forever /\ Supersede(k, s, Forever, close)
    \/ \E w \in Writers, s \in Statements : CommitAdd(w, s)
    \/ \E s \in CallScopes, p \in Predicates, close \in Closures : Forget(s, p, now, close)
    \/ \E k \in DOMAIN claims, close \in Closures : Delete(k, now, close)
    \/ \E ids \in SUBSET DOMAIN claims, close \in Closures : ForgetMatching(ids, close)

(* What the store believed at a past instant is not rewritten by a call    *)
(* that names no closing instant: a write, however far its record is       *)
(* backdated, changes the belief in a stored claim from the call on.       *)
PastBeliefKept ==
    [][\/ \A k \in DOMAIN claims \cap DOMAIN claims' :
             \A v \in Time : v < now =>
                (Believed(claims[k], v) <=> Believed(claims'[k], v))
       \/ ~ NamesNoInstant]_vars

(* The claims of i's value that hold instant v for a reader at i's scope.  *)
Holding(S, i, v) ==
    {k \in DOMAIN S : /\ ValueKey(S[k]) = ValueKey(i)
                      /\ Sees(i.scope, S[k].scope)
                      /\ Believed(S[k], now)
                      /\ ~ Hidden(S[k], now)
                      /\ HoldsFrom(S[k], i) <= v /\ v < S[k].to}

(* A value that begins later than i, and so ends it. *)
EndedBy(i, v) == {k \in Newer(claims, i, now) : claims[k].from <= v}

Sayable ==
    {s \in Statements : /\ s.user /\ ~ s.neg /\ s.val # NoValue /\ s.exp = Forever
                        /\ Stamped(s, now).from < s.to}

(* A statement that begins before every live claim of its value counts     *)
(* only up to them: the code stores the period before them.                *)
Restating(i, v) ==
    {k \in LiveSame(claims, i, now) : IsAfter(claims[k], i) /\ claims[k].to <= v}

(* What remember() is told is on record when it returns, however the store *)
(* cuts it up: each instant of the period is held, up to where a different *)
(* value that begins later ends it, or to claims it begins before.         *)
SaidIsHeldUntilKnown ==
    \A s \in Sayable :
       LET i == Canonical(Stamped(s, now), now)
       IN  \A o \in Apply(claims, writes, i, now, now, "ended") :
              \A v \in i.from .. (i.to - 1) :
                 Holding(o.rows, i, v) # {} \/ EndedBy(i, v) # {} \/ Restating(i, v) # {}

(* An expiry never reaches a claim that other scopes rely on: remember()   *)
(* moves one only onto a claim at exactly the scope its caller writes at.  *)
ExpiryStaysInScope ==
    [][\A k \in DOMAIN claims \cap DOMAIN claims' :
          claims'[k].exp # claims[k].exp =>
             \A s \in Statements, close \in Closures :
                Remember(s, close) => SlotScope(s.pred, s.scope) = claims[k].scope]_vars

(* A slot that is forgotten does not answer again when a value stored to   *)
(* begin later begins: forget() leaves nothing in it that is still to be   *)
(* true.  A retirement that is recorded already keeps its own instant.     *)
ForgottenForGood ==
    \A s \in CallScopes, p \in Predicates, close \in Closures :
       LET after == Closed(UnendedInSlot(s, p), now, close)
       IN  \A k \in DOMAIN claims : \A v \in Time :
              /\ SlotOf(claims[k]) = FactKey(SlotScope(p, s), p)
              /\ Contains(SlotScope(p, s), claims[k].scope)
              /\ claims[k].inv = Forever /\ ~ Hidden(claims[k], now)
              /\ v >= now
              => ~ IsLive(after[k], v, v)

=============================================================================
