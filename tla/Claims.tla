------------------------------- MODULE Claims -------------------------------
(***************************************************************************)
(* The claim record and the scope chain of memvara/types.py, as data and   *)
(* pure operators.                                                         *)
(*                                                                         *)
(* A claim sits on two clocks.  Valid time, [from, to), is when the fact   *)
(* was true in the world; transaction time, [rec, inv), is when the store  *)
(* believed it.  Instants are naturals below Forever, and Forever stands   *)
(* for the None that leaves a clock open.  The subject is fixed, so a slot *)
(* is an owner, a project and a predicate; a value stands for an object.   *)
(***************************************************************************)
EXTENDS Naturals, FiniteSets

CONSTANTS
    Forever,      \* the open end of an interval, later than every instant
    Users,        \* user names; a scope may leave its user unset
    Projects,     \* repositories a scope may be bound to
    Agents,
    Sessions,
    Unset,        \* a level of a scope that is not bound
    Predicates,
    Values,
    NoValue,      \* the empty object of a retraction of a whole slot
    ExpiryHidden  \* SQLiteStore.hide_expired: expired claims leave every read

ASSUME ForeverAssumption == Forever \in Nat \ {0}

ASSUME ExpiryAssumption == ExpiryHidden \in BOOLEAN

ASSUME UnsetAssumption ==
    /\ Unset \notin Users \cup Projects \cup Agents \cup Sessions
    /\ NoValue \notin Values

Time == 0 .. (Forever - 1)
Ends == 0 .. Forever

Closures == {"ended", "retired"}

-----------------------------------------------------------------------------
(* Scopes                                                                  *)

Scope == [user    : Users \cup {Unset},
          project : Projects \cup {Unset},
          agent   : Agents \cup {Unset},
          session : Sessions \cup {Unset}]

(* Scope.ancestors: the scope and every broader scope a reader at it reads. *)
Ancestors(s) ==
    LET agentLevel   == [s EXCEPT !.session = Unset]
        ownLevel     == [agentLevel EXCEPT !.agent = Unset]
        unproject(x) == [x EXCEPT !.project = Unset]
        tenant       == [user |-> Unset, project |-> Unset,
                         agent |-> Unset, session |-> Unset]
    IN  {s, agentLevel, ownLevel}
          \cup {unproject(s), unproject(agentLevel), unproject(ownLevel)}
          \cup {tenant}

Sees(reader, level) == reader = level \/ level \in Ancestors(reader)

(* Scope.contains: `inner` is at `outer` or beneath it, unset is a wildcard. *)
Contains(outer, inner) ==
    /\ outer.user = Unset \/ outer.user = inner.user
    /\ outer.project = Unset \/ outer.project = inner.project
    /\ outer.agent = Unset \/ outer.agent = inner.agent
    /\ outer.session = Unset \/ outer.session = inner.session

(* owner_key: whose facts these are. *)
Owner(s) == s.user

(* fact_key_for: the slot of a predicate at a scope. *)
FactKey(s, p) == <<Owner(s), s.project, p>>

-----------------------------------------------------------------------------
(* Claims                                                                  *)

Claim == [pred  : Predicates,
          val   : Values \cup {NoValue},
          neg   : BOOLEAN,          \* polarity -1: a retraction's tombstone
          scope : Scope,
          from  : Time,             \* valid_from
          width : Nat,              \* how far temporal_precision reaches
          to    : Ends,             \* valid_to
          rec   : Time,             \* recorded_at
          inv   : Ends,             \* invalidated_at
          conf  : Nat,
          exp   : Ends,             \* expires_at
          user  : BOOLEAN]          \* derivation is Derivation.USER

SlotOf(c)  == FactKey(c.scope, c.pred)

(* Claim.value_key: the project, agent and session are left out of it. *)
ValueKey(c) == <<Owner(c.scope), c.pred, c.val, c.neg>>

IsExpired(c, at) == c.exp <= at

Hidden(c, at) == ExpiryHidden /\ IsExpired(c, at)

Believed(c, known) == c.rec <= known /\ known < c.inv

InForce(c, valid) == c.from <= valid /\ valid < c.to

(* Claim.is_live and Claim.is_unended *)
IsLive(c, valid, known)    == Believed(c, known) /\ InForce(c, valid)
IsUnended(c, valid, known) == Believed(c, known) /\ valid < c.to

(***************************************************************************)
(* close_out: stops one clock of a claim.  A claim already retired is left *)
(* alone; an ending never lands before the claim begins, and never extends *)
(* a period that was already to end sooner.                                *)
(***************************************************************************)
Earlier(a, b) == IF a <= b THEN a ELSE b
Later(a, b)   == IF a <= b THEN b ELSE a

NotBeforeStart(at, c) == Later(at, c.from)

CloseOutBothClocks(c, at, close) ==
    [c EXCEPT !.inv = at, !.to = Earlier(c.to, NotBeforeStart(at, c))]

CloseOut(c, at, close) ==
    CASE c.inv # Forever   -> c
      [] c.inv = Forever /\ close = "retired" -> [c EXCEPT !.inv = at]
      [] c.inv = Forever /\ close # "retired" ->
            [c EXCEPT !.to = Earlier(c.to, NotBeforeStart(at, c))]

=============================================================================
