------------------------------ MODULE Handles -------------------------------
(***************************************************************************)
(* Handles: processes that open one SQLiteStore file, and the locks        *)
(* between them (memvara/store/sqlite.py).                                 *)
(*                                                                         *)
(* Beside the database lies <db>.lock, an SQLite file that holds nothing.  *)
(* An open store reads it, which holds its shared lock; the schema step    *)
(* reserves it; clear_embeddings takes it exclusively, for it truncates    *)
(* the vector file that other stores may map.  The width of the vectors is *)
(* bound by the first one written, which each process learns by itself.    *)
(*                                                                         *)
(* A call that waits for a lock is an action that is not enabled.  The     *)
(* limits on waiting end in an error that changes nothing and are left     *)
(* out, but for the requests for the exclusive lock, which never wait.     *)
(***************************************************************************)
EXTENDS Naturals, FiniteSets

CONSTANTS
    Procs,       \* the processes
    Width,       \* the width of the vectors each process's embedder makes
    ReadOnly,    \* the processes that may not write the lock file
    MaxOpens,    \* bound: how often stores are opened
    MaxBatches   \* bound: how many transactions are begun

ASSUME HandlesAssumption ==
    /\ Width \in [Procs -> Nat \ {0}]
    /\ ReadOnly \subseteq Procs
    /\ MaxOpens \in Nat /\ MaxBatches \in Nat

VARIABLES
    stage,      \* where each process stands
    shared,     \* who holds the lock file's shared lock
    creator,    \* who has it reserved, a set of at most one
    exclusive,  \* who has it exclusively, a set of at most one
    writer,     \* who holds the database's write lock, a set of at most one
    schema,     \* what of the schema step is in the file
    rows,       \* the widths of the vectors stored
    before,     \* what rows was when the open transaction began
    header,     \* the width the vector file was written for, 0 for none
    dim,        \* the width each process has mapped the file for, 0 for none
    cleared,    \* who has cleared the vectors in the open transaction
    torn,       \* history: whose map of the file was cut short by another
    lapsed,     \* history: who maps the file for vectors that are gone
    opens, batches

locks == <<shared, creator, exclusive, writer>>
vectors == <<rows, before, header, dim, cleared, torn, lapsed>>
bounds == <<opens, batches>>
vars == <<stage, locks, schema, vectors, bounds>>

(* In the order in which the step writes them. *)
Parts == {"tables", "stamp", "indexes"}

Opening == {"present", "wanting", "stepping", "attaching"}

BetweenLocks == {"asking", "refused", "handing"}

Stages ==
    Opening \cup BetweenLocks \cup {"closed", "open", "batch", "alone", "closing"}

TypeOK ==
    /\ stage \in [Procs -> Stages]
    /\ shared \subseteq Procs
    /\ creator \subseteq Procs /\ exclusive \subseteq Procs /\ writer \subseteq Procs
    /\ Cardinality(creator) <= 1 /\ Cardinality(exclusive) <= 1 /\ Cardinality(writer) <= 1
    /\ schema \subseteq Parts
    /\ header \in Nat /\ dim \in [Procs -> Nat]
    /\ cleared \subseteq writer /\ torn \subseteq Procs /\ lapsed \subseteq Procs

Init ==
    /\ stage = [p \in Procs |-> "closed"]
    /\ shared = {} /\ creator = {} /\ exclusive = {} /\ writer = {}
    /\ schema \in {{}, {"tables"}, Parts}
    /\ rows = {} /\ before = {} /\ header = 0
    /\ dim = [p \in Procs |-> 0]
    /\ cleared = {} /\ torn = {} /\ lapsed = {}
    /\ opens = 0 /\ batches = 0

Go(p, s) == stage' = [stage EXCEPT ![p] = s]

-----------------------------------------------------------------------------
(* The vector file                                                         *)

Mapping == {q \in Procs : dim[q] # 0}

(***************************************************************************)
(* _VecIndex.attach: p maps the file for vectors of width w.  A file of    *)
(* another width, or of none, is cut down to nothing first.                *)
(***************************************************************************)
Attached(p, w) ==
    /\ dim' = [dim EXCEPT ![p] = w]
    /\ header' = w
    /\ torn' = IF header # w THEN (torn \ {p}) \cup (Mapping \ {p}) ELSE torn

NotAttached == UNCHANGED <<dim, header, torn>>

(* _VecIndex.reset: a process that has the file open cuts it and lets go. *)
ResetFile(p) ==
    /\ dim' = [dim EXCEPT ![p] = 0]
    /\ header' = IF dim[p] # 0 THEN 0 ELSE header
    /\ torn' = IF dim[p] # 0 THEN (torn \ {p}) \cup (Mapping \ {p}) ELSE torn

Unmapped(p) == dim' = [dim EXCEPT ![p] = 0] /\ torn' = torn \ {p} /\ lapsed' = lapsed \ {p}

(* A reader sees the last commit, a transaction its own rows. *)
Visible(p) == IF writer \subseteq {p} THEN rows ELSE before

-----------------------------------------------------------------------------
(* Opening                                                                 *)

(* _hold_presence: waits while a clear holds the lock file. *)
Open(p) ==
    /\ stage[p] = "closed"
    /\ opens < MaxOpens
    /\ exclusive = {}
    /\ shared' = shared \cup {p}
    /\ opens' = opens + 1
    /\ Go(p, "present")
    /\ UNCHANGED <<creator, exclusive, writer, schema, vectors, batches>>

NeedsNewStamp == "stamp" \notin schema

(* _needs_schema_step, asked before the creation lock is held. *)
NeedsSchemaStep == schema # Parts

Check(p) ==
    /\ stage[p] = "present"
    /\ IF ~ NeedsSchemaStep THEN Go(p, "attaching") /\ UNCHANGED shared
       ELSE IF p \in ReadOnly THEN Go(p, "closed") /\ shared' = shared \ {p}
       ELSE Go(p, "wanting") /\ UNCHANGED shared
    /\ UNCHANGED <<creator, exclusive, writer, schema, vectors, bounds>>

(* _creating: one store at a time runs the step. *)
Reserve(p) ==
    /\ stage[p] = "wanting"
    /\ creator = {}
    /\ creator' = {p}
    /\ Go(p, "stepping")
    /\ UNCHANGED <<shared, exclusive, writer, schema, vectors, bounds>>

(* _run_schema, _migrate and the late indexes, each safe to run again. *)
NextPart ==
    IF "tables" \notin schema THEN "tables"
    ELSE IF "stamp" \notin schema THEN "stamp" ELSE "indexes"

RunPart(p) ==
    /\ stage[p] = "stepping"
    /\ NeedsSchemaStep
    /\ writer = {}
    /\ schema' = schema \cup {NextPart}
    /\ UNCHANGED <<stage, locks, vectors, bounds>>

EndStepHoldingOn(p) ==
    /\ stage[p] = "stepping"
    /\ schema = Parts
    /\ Go(p, "attaching")
    /\ UNCHANGED <<locks, schema, vectors, bounds>>

EndStep(p) ==
    /\ stage[p] = "stepping"
    /\ schema = Parts
    /\ creator' = {}
    /\ Go(p, "attaching")
    /\ UNCHANGED <<shared, exclusive, writer, schema, vectors, bounds>>

(* _attach_vectors: a store that holds vectors of two widths is refused. *)
Attach(p) ==
    /\ stage[p] = "attaching"
    /\ IF Cardinality(Visible(p)) > 1
       THEN Go(p, "closed") /\ shared' = shared \ {p} /\ NotAttached
       ELSE /\ Go(p, "open")
            /\ IF Visible(p) = {} THEN NotAttached
               ELSE \E w \in Visible(p) : Attached(p, w)
            /\ UNCHANGED shared
    /\ UNCHANGED <<creator, exclusive, writer, schema, rows, before, cleared, lapsed, bounds>>

-----------------------------------------------------------------------------
(* Reading and writing                                                     *)

(* _ensure_index, by a process that has yet to map the file. *)
Load(p) ==
    /\ stage[p] = "open"
    /\ dim[p] = 0
    /\ Cardinality(Visible(p)) = 1
    /\ \E w \in Visible(p) : Attached(p, w)
    /\ UNCHANGED <<stage, locks, schema, rows, before, cleared, lapsed, bounds>>

Begin(p) ==
    /\ stage[p] = "open"
    /\ batches < MaxBatches
    /\ writer = {}
    /\ writer' = {p}
    /\ before' = rows
    /\ batches' = batches + 1
    /\ Go(p, "batch")
    /\ UNCHANGED <<shared, creator, exclusive, schema, rows, header, dim, cleared, torn, lapsed, opens>>

BoundByOwnMap(p) == {dim[p]} \ {0}

(* The width a process holds its vectors to: its map's, or else the first *)
(* stored one's (_ensure_dim), or none.                                   *)
Bound(p) == IF dim[p] # 0 THEN {dim[p]} ELSE rows

(* _set_vector: a vector of another width is refused, after _ensure_dim. *)
SetVector(p) ==
    /\ stage[p] = "batch"
    /\ Cardinality(Bound(p)) <= 1
    /\ \E w \in Bound(p) \cup (IF Bound(p) = {} THEN {Width[p]} ELSE {}) :
          IF dim[p] = w THEN NotAttached ELSE Attached(p, w)
    /\ rows' = IF Bound(p) \subseteq {Width[p]} THEN rows \cup {Width[p]} ELSE rows
    /\ UNCHANGED <<stage, locks, schema, before, cleared, lapsed, bounds>>

-----------------------------------------------------------------------------
(* Clearing                                                                *)

(* _try_alone lets go of the shared lock, while it holds the write lock. *)
Ask(p) ==
    /\ stage[p] = "batch"
    /\ p \notin exclusive /\ p \notin ReadOnly
    /\ shared' = shared \ {p}
    /\ Go(p, "asking")
    /\ UNCHANGED <<creator, exclusive, writer, schema, vectors, bounds>>

Granted(p) ==
    /\ stage[p] = "asking"
    /\ shared = {} /\ exclusive = {}
    /\ exclusive' = {p}
    /\ Go(p, "alone")
    /\ UNCHANGED <<shared, creator, writer, schema, vectors, bounds>>

Refused(p) ==
    /\ stage[p] = "asking"
    /\ ~ (shared = {} /\ exclusive = {})
    /\ Go(p, "refused")
    /\ UNCHANGED <<locks, schema, vectors, bounds>>

ShareRefused(p) ==
    /\ stage[p] = "refused"
    /\ exclusive = {}
    /\ shared' = shared \cup {p}
    /\ Go(p, "batch")
    /\ UNCHANGED <<creator, exclusive, writer, schema, vectors, bounds>>

(* clear_embeddings, once alone. *)
Clear(p) ==
    /\ stage[p] = "alone"
    /\ rows' = {}
    /\ ResetFile(p)
    /\ cleared' = {p}
    /\ lapsed' = (lapsed \cup Mapping) \ {p}
    /\ Go(p, "batch")
    /\ UNCHANGED <<locks, schema, before, bounds>>

(* The batch ends: _share_again gives the exclusive lock up, then shares. *)
Ended(p) ==
    /\ writer' = {}
    /\ exclusive' = exclusive \ {p}
    /\ Go(p, IF p \in exclusive THEN "handing" ELSE "open")
    /\ cleared' = {}

Commit(p) ==
    /\ stage[p] = "batch"
    /\ Ended(p)
    /\ before' = rows
    /\ UNCHANGED <<shared, creator, schema, rows, header, dim, torn, lapsed, bounds>>

(* _reconcile_index: the file is attached anew after a clear, and otherwise *)
(* stays mapped as it is, for the width of a vector that is gone.           *)
Rollback(p) ==
    /\ stage[p] = "batch"
    /\ Ended(p)
    /\ rows' = before
    /\ IF p \notin cleared THEN NotAttached
       ELSE IF Cardinality(before) = 1
            THEN \E w \in before :
                    /\ dim' = [dim EXCEPT ![p] = w]
                    /\ header' = w
                    /\ torn' = (torn \ {p}) \cup (Mapping \ {p})
            ELSE ResetFile(p)
    /\ lapsed' = IF p \notin cleared /\ dim[p] # 0 /\ before = {} THEN lapsed \cup {p}
                 ELSE lapsed
    /\ UNCHANGED <<shared, creator, schema, before, bounds>>

ShareAgain(p) ==
    /\ stage[p] = "handing"
    /\ exclusive = {}
    /\ shared' = shared \cup {p}
    /\ Go(p, "open")
    /\ UNCHANGED <<creator, exclusive, writer, schema, vectors, bounds>>

-----------------------------------------------------------------------------
(* Closing and dying                                                       *)

UnmapLast(p) ==
    /\ stage[p] = "open"
    /\ shared' = shared \ {p}
    /\ Go(p, "closing")
    /\ UNCHANGED <<creator, exclusive, writer, schema, vectors, bounds>>

(* close: the file is unmapped before the presence goes. *)
Unmap(p) ==
    /\ stage[p] = "open"
    /\ Unmapped(p)
    /\ Go(p, "closing")
    /\ UNCHANGED <<locks, schema, rows, before, header, cleared, bounds>>

Leave(p) ==
    /\ stage[p] = "closing"
    /\ shared' = shared \ {p}
    /\ Go(p, "closed")
    /\ UNCHANGED <<creator, exclusive, writer, schema, vectors, bounds>>

(* The operating system lets go of every lock, and SQLite rolls back. *)
Crash(p) ==
    /\ stage[p] # "closed"
    /\ shared' = shared \ {p}
    /\ creator' = creator \ {p}
    /\ exclusive' = exclusive \ {p}
    /\ writer' = writer \ {p}
    /\ rows' = IF p \in writer THEN before ELSE rows
    /\ cleared' = cleared \ {p}
    /\ Unmapped(p)
    /\ Go(p, "closed")
    /\ UNCHANGED <<schema, before, header, bounds>>

(* What a process that is let run goes on to do by itself. *)
Proceed(p) ==
    \/ Check(p) \/ EndStep(p) \/ Attach(p)
    \/ Granted(p) \/ Refused(p) \/ ShareRefused(p) \/ Clear(p) \/ ShareAgain(p)
    \/ Leave(p)

EndBatch(p) == Commit(p) \/ Rollback(p)

Next ==
    \E p \in Procs :
        \/ Open(p) \/ Reserve(p) \/ RunPart(p)
        \/ Load(p) \/ Begin(p) \/ SetVector(p) \/ Ask(p) \/ EndBatch(p)
        \/ Proceed(p)
        \/ Unmap(p) \/ Crash(p)

Spec == Init /\ [][Next]_vars

(* A call in progress is carried on, a transaction is ended by the block   *)
(* that began it, and a lock that is free again and again is got in the    *)
(* end, for each waiter asks again and again.                              *)
FairSpec ==
    /\ Spec
    /\ \A p \in Procs :
          /\ WF_vars(Proceed(p)) /\ WF_vars(EndBatch(p))
          /\ SF_vars(Reserve(p)) /\ SF_vars(RunPart(p))

-----------------------------------------------------------------------------
(* Properties                                                              *)

(* A store that has opened works on a finished file, whoever died half way *)
(* through the step, and whoever waited for it.                            *)
FinishedWhenOpen ==
    \A p \in Procs : stage[p] \notin Opening \cup {"closed"} => schema = Parts

(* No store's file is cut under its map, which would kill its process at   *)
(* the next search, but that of a store handing its lock over, and of one  *)
(* left mapping the file for vectors that are gone.                        *)
NoMapIsCut == [][\A p \in torn' \ torn : stage[p] = "handing" \/ p \in lapsed]_vars

(* The vectors stored stay of one width, whatever embedders the processes  *)
(* have, but for a writer bound to its own by vectors that are gone.       *)
OneWidth ==
    [][Cardinality(rows') > 1 =>
          \/ Cardinality(rows) > 1
          \/ rows' = before
          \/ writer \cap lapsed # {}]_vars

(* No two stores wait for each other's locks: whoever opens one gets it    *)
(* open, is refused, or dies, and one that let its shared lock go to ask   *)
(* for the exclusive one holds it again, or is gone.                       *)
WaitsEnd ==
    \A p \in Procs :
        /\ stage[p] \in Opening ~> stage[p] \notin Opening
        /\ stage[p] \in BetweenLocks ~> p \in shared \/ stage[p] = "closed"

=============================================================================
