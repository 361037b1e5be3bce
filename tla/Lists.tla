------------------------------- MODULE Lists --------------------------------
(***************************************************************************)
(* Lists: the search list a SQLite store keeps for a scope                 *)
(* (memvara/store/sqlite.py).                                              *)
(*                                                                         *)
(* A vector search of the present ranks the claims of a scope.  Which they *)
(* are, and which rows of the vector file hold them, is read once and kept *)
(* for the searches that follow, on every thread of the process, until a   *)
(* commit of this process or of another one is noticed or the clock        *)
(* reaches the next instant at which a claim begins or ends.               *)
(*                                                                         *)
(* One scope, one set of states, and one process beside others.  Its first *)
(* load of the name-to-row map is over, and every claim has a vector.      *)
(***************************************************************************)
EXTENDS Naturals, FiniteSets

CONSTANTS
    Threads,              \* the threads of the process that search
    Ids,                  \* the claims ever stored at the scope, each once
    From, To,             \* when each of them begins and ends
    MaxCommits,           \* bounds: on commits,
    MaxWrites,            \* on the writes of this process: none once the
                          \* lists were emptied so often,
    MaxTime               \* and on the clock

ASSUME ListsAssumption ==
    /\ From \in [Ids -> Nat] /\ To \in [Ids -> Nat]
    /\ {MaxCommits, MaxWrites, MaxTime} \subseteq Nat

VARIABLES
    now,
    stored,    \* the claims in the database, as last committed
    used,      \* the claims stored up to now, or being stored
    commits,   \* how often the database has changed, which data_version tells
    batch,     \* the open transaction of this process
    owed,      \* it has ended, and the lists are still to be emptied
    map,       \* the claims the name-to-row map of this process knows
    folded,    \* those it has read from the database
    watched,   \* the commits noticed, by the connection that watches
    watch,     \* who holds the watch lock, a set of at most one thread
    writes,    \* how often the lists were emptied
    kept,      \* the list, or NoList
    search     \* what each thread is doing

database == <<stored, used, commits>>
index == <<map, folded>>
lists == <<watched, watch, writes, kept>>
vars == <<now, database, batch, owed, index, lists, search>>

NoBatch == [puts |-> {}, erases |-> {}, open |-> FALSE]
NoList  == [since |-> 1, until |-> 0]
Idle    == [at |-> "idle"]

Init ==
    /\ now = 0
    /\ stored \in SUBSET Ids /\ used = stored /\ commits = 0
    /\ batch = NoBatch /\ owed = FALSE
    /\ map = stored /\ folded = stored
    /\ watched = 0 /\ watch = {} /\ writes = 0 /\ kept = NoList
    /\ search = [t \in Threads |-> Idle]

LiveAt(k, i) == From[k] <= i /\ i < To[k]

-----------------------------------------------------------------------------
(* Searching                                                               *)

Goes(t, changes) ==
    search' = [search EXCEPT ![t] =
        [f \in {"began", "always", "ever"} \cup DOMAIN changes |->
            IF f \in DOMAIN changes THEN changes[f] ELSE @[f]]]

(* _changed *)
Emptied == writes' = writes + 1 /\ kept' = NoList

(* _notice_commits, under the watch lock: look, and then empty the lists.  *)
(* The search keeps account of what was stored while it ran.               *)
Look(t) ==
    /\ search[t] = Idle
    /\ watch = {}
    /\ watch' = IF watched # commits THEN {t} ELSE {}
    /\ watched' = commits
    /\ search' = [search EXCEPT ![t] =
          [at |-> IF watched # commits THEN "noticing" ELSE "folding",
           began |-> now, always |-> stored \ batch.erases, ever |-> stored]]
    /\ UNCHANGED <<now, database, batch, owed, index, writes, kept>>

Notice(t) ==
    /\ search[t].at = "noticing"
    /\ Emptied
    /\ watch' = {}
    /\ Goes(t, [at |-> "folding"])
    /\ UNCHANGED <<now, database, batch, owed, index, watched>>

(* _ensure_index and _read_map: what was not read before is mapped. *)
Folds ==
    /\ map' = map \cup (stored \ folded)
    /\ folded' = folded \cup stored

(* The search is of the instant the clock shows next. *)
Fold(t) ==
    /\ search[t].at = "folding"
    /\ Folds
    /\ Goes(t, [at |-> "looking up", instant |-> now])
    /\ UNCHANGED <<now, database, batch, owed, lists>>

(* Whether the list kept answers a search of instant i. *)
AnswersWhenever(i) == kept # NoList

Answers(i) == kept.since <= i /\ i < kept.until

(* _scope_claims: the list kept, or else the count of changes so far. *)
LookUp(t) ==
    /\ search[t].at = "looking up"
    /\ IF Answers(search[t].instant)
       THEN Goes(t, [at |-> "scoring", ids |-> kept.ids, unmapped |-> kept.unmapped])
       ELSE Goes(t, [at |-> "reading", instant |-> search[t].instant, count |-> writes])
    /\ UNCHANGED <<now, database, batch, owed, index, lists>>

(* The earliest instant after i at which a claim begins or ends. *)
NextChange(i) ==
    LET later == {c \in UNION {{From[k], To[k]} : k \in stored} : c > i}
    IN  CHOOSE c \in later \cup {MaxTime + 1} : \A d \in later : c <= d

(* One statement: what has begun by the instant and has not expired by now. *)
Read(t) ==
    /\ search[t].at = "reading"
    /\ Goes(t, [at |-> "keeping", count |-> search[t].count, since |-> now,
                until |-> NextChange(search[t].instant),
                read |-> {k \in stored : From[k] <= search[t].instant /\ now < To[k]}])
    /\ UNCHANGED <<now, database, batch, owed, index, lists>>

KeepsAnyway(t) == TRUE

(* A list built while a change happened is not kept. *)
Keeps(t) == writes = search[t].count

(* Claims without a row are left out of the list. *)
Keep(t) ==
    LET s     == search[t]
        built == [ids |-> s.read \cap map, unmapped |-> s.read \ map,
                  since |-> s.since, until |-> s.until]
    IN  /\ s.at = "keeping"
        /\ kept' = IF Keeps(t) THEN built ELSE kept
        /\ Goes(t, [at |-> "scoring", ids |-> built.ids, unmapped |-> built.unmapped])
        /\ UNCHANGED <<now, database, batch, owed, index, watched, watch, writes>>

(* search_rows: no answer when a claim of the list has lost its row. *)
Score(t) ==
    /\ search[t].at = "scoring"
    /\ Goes(t, IF search[t].ids \subseteq map
               THEN [at |-> "answered", ids |-> search[t].ids, unmapped |-> search[t].unmapped, ended |-> now]
               ELSE [at |-> "asking"])
    /\ UNCHANGED <<now, database, batch, owed, index, lists>>

(* vector_search without the lists: candidates, then the map, then the rows. *)
Ask(t) ==
    /\ search[t].at = "asking"
    /\ Goes(t, [at |-> "folding again", ids |-> {k \in stored : LiveAt(k, now)}])
    /\ UNCHANGED <<now, database, batch, owed, index, lists>>

FoldAgain(t) ==
    /\ search[t].at = "folding again"
    /\ Folds
    /\ Goes(t, [at |-> "answered", ids |-> search[t].ids \cap map', unmapped |-> {}, ended |-> now])
    /\ UNCHANGED <<now, database, batch, owed, lists>>

Return(t) ==
    /\ search[t].at = "answered"
    /\ search' = [search EXCEPT ![t] = Idle]
    /\ UNCHANGED <<now, database, batch, owed, index, lists>>

-----------------------------------------------------------------------------
(* Writing                                                                 *)

(* What a search running must and may return, after a change. *)
Witnessed(S, erased) ==
    search' = [t \in Threads |->
        IF search[t] = Idle \/ search[t].at = "answered" THEN search[t]
        ELSE [search[t] EXCEPT !.always = (@ \cap S) \ erased, !.ever = @ \cup S]]

(* Another process commits. *)
Elsewhere(S) ==
    /\ ~ batch.open
    /\ commits < MaxCommits
    /\ stored' = S
    /\ used' = used \cup S
    /\ commits' = commits + 1
    /\ Witnessed(S, {})
    /\ UNCHANGED <<now, batch, owed, index, lists>>

(* This one writes: its map follows at once, ahead of the commit. *)
Put(k) ==
    /\ ~ batch.open /\ ~ owed
    /\ commits < MaxCommits /\ writes < MaxWrites
    /\ k \notin used
    /\ batch' = [NoBatch EXCEPT !.open = TRUE, !.puts = {k}]
    /\ used' = used \cup {k}
    /\ map' = map \cup {k}
    /\ UNCHANGED <<now, stored, commits, owed, folded, lists, search>>

Erase(k) ==
    /\ ~ batch.open /\ ~ owed
    /\ commits < MaxCommits /\ writes < MaxWrites
    /\ k \in stored
    /\ batch' = [NoBatch EXCEPT !.open = TRUE, !.erases = {k}]
    /\ map' = map \ {k}
    /\ Witnessed(stored, {k})
    /\ UNCHANGED <<now, database, owed, folded, lists>>

Commit ==
    /\ batch.open
    /\ stored' = (stored \cup batch.puts) \ batch.erases
    /\ commits' = commits + 1
    /\ batch' = NoBatch
    /\ owed' = TRUE
    /\ Witnessed(stored', {})
    /\ UNCHANGED <<now, used, index, lists>>

(* _reconcile_index puts the map back. *)
Rollback ==
    /\ batch.open
    /\ map' = (map \ batch.puts) \cup batch.erases
    /\ batch' = NoBatch
    /\ owed' = TRUE
    /\ UNCHANGED <<now, database, folded, lists, search>>

(* _maybe_commit empties the lists once the transaction has ended. *)
Change ==
    /\ owed
    /\ Emptied
    /\ owed' = FALSE
    /\ UNCHANGED <<now, database, batch, index, watched, watch, search>>

Tick ==
    /\ now < MaxTime
    /\ now' = now + 1
    /\ UNCHANGED <<database, batch, owed, index, lists, search>>

Next ==
    \/ \E t \in Threads :
          \/ Look(t) \/ Notice(t) \/ Fold(t) \/ LookUp(t) \/ Read(t) \/ Keep(t)
          \/ Score(t) \/ Ask(t) \/ FoldAgain(t) \/ Return(t)
    \/ \E k \in Ids \ used : Elsewhere(stored \cup {k})
    \/ \E k \in stored : Elsewhere(stored \ {k})
    \/ \E k \in Ids : Put(k) \/ Erase(k)
    \/ Commit \/ Rollback \/ Change
    \/ Tick

Spec == Init /\ [][Next]_vars

-----------------------------------------------------------------------------
(* Properties                                                              *)

During(s) == s.began .. s.ended

(* A search finds every claim that was stored and live for as long as it   *)
(* ran, whatever commits, closures of batches and other searches ran       *)
(* beside it, but one that is missing from the map of the search that      *)
(* built its list.                                                         *)
NothingMissed ==
    \A t \in Threads : search[t].at = "answered" =>
        LET s == search[t]
        IN  \A k \in s.always :
               (\A i \in During(s) : LiveAt(k, i)) => k \in s.ids \cup s.unmapped

(* A search returns no claim that was erased, or had ended, before it      *)
(* began, or that is not committed.                                        *)
NothingStale ==
    \A t \in Threads : search[t].at = "answered" =>
        LET s == search[t]
        IN  \A k \in s.ids : k \in s.ever /\ \E i \in During(s) : LiveAt(k, i)

(* What the code says of _ensure_index: a claim of another process is not  *)
(* invisible to a search that starts after its commit.  It is asked of     *)
(* instances in which this process writes nothing.                         *)
NothingInvisible ==
    \A t \in Threads : search[t].at = "answered" =>
        LET s == search[t]
        IN  \A k \in s.always :
               (\A i \in During(s) : LiveAt(k, i)) => k \in s.ids

=============================================================================
