------------------------------ MODULE VectorFile ------------------------------
(***************************************************************************)
(* The vector file of a SQLite store (memvara/store/sqlite.py).  The       *)
(* database holds every vector with the row of the file it owns.  The file *)
(* is mapped by every process that has the store open, takes no part in    *)
(* the database's transactions, and is rebuilt from the database when it   *)
(* is missing.  Which row an item owns is learnt by each process in its    *)
(* own time, from the sequence numbers the vectors are written under.      *)
(*                                                                         *)
(* Claims and turns have a table each and share the rows of the file.  The *)
(* claims and turns themselves are there from the start, without vectors.  *)
(* The store is not encrypted, and every vector has the same width.        *)
(***************************************************************************)
EXTENDS Integers, FiniteSets, FiniteSetsExt, Functions

CONSTANTS
    Procs,       \* processes that may open the store
    Threads,     \* the threads each of them searches on
    Claims, Turns,
    Wordings,    \* of a claim's text; what a turn said never changes
    Writer,      \* the connection a store writes on
    Nobody, Blank,
    MaxCommits,  \* bounds: on commits,
    LastSeq      \* and on the numbers given out in each table

Ids   == Claims \cup Turns
Slots == 0 .. Cardinality(Ids) - 1
Lines == Threads \cup {Writer}   \* a store's connections to the database
Kinds == {"claims", "turns"}

(* A vector tells whose text it was made from, and in which wording. *)
VectorsOf(i) == IF i \in Claims THEN {i} \X Wordings ELSE {<<i, "as said">>}
Vectors == UNION {VectorsOf(i) : i \in Ids}

ASSUME VectorFileAssumption ==
    /\ IsFiniteSet(Ids) /\ Claims \cap Turns = {}
    /\ Writer \notin Threads /\ Nobody \notin Procs \cup Lines
    /\ MaxCommits \in Nat /\ LastSeq \in [Kinds -> Nat]

VARIABLES
    table,     \* the database as last committed
    txn,       \* the batch that holds the write lock
    file,      \* the rows of the file; no rows when missing or truncated
    handle,    \* what each process knows of the store
    line,      \* the data_version of each of its connections
    version,   \* the data_version each of its threads last acted on, 0 if none
    commits,   \* how many times the database has changed
    spoiled,   \* rows an interrupted step has left wrong
    missed,    \* threads that took a commit they had not read for read
    passed     \* vectors a process's watermark has passed without mapping them

vars == <<table, txn, file, handle, line, version, commits, spoiled, missed, passed>>

Kind(i) == IF i \in Claims THEN "claims" ELSE "turns"

NoFile == [s \in {} |-> Blank]
NoTxn  == [by |-> Nobody]
Shut   == [step |-> "shut"]
Unread == [k \in Kinds |-> 0]

Unlooked == [at |-> 0, n |-> 0]
Fresh    == [at |-> commits, n |-> 1]

Opened == [step |-> "open", attached |-> FALSE, loaded |-> FALSE, map |-> [i \in {} |-> 0],
           seen |-> Unread, on |-> Nobody, todo |-> {}]

IsOpen(p) == handle[p].step = "open"

(* A thread of p may search while another writes, or repairs what it wrote. *)
MaySearch(p, t) ==
    /\ \/ IsOpen(p)
       \/ handle[p].step = "repairing" /\ handle[p].on # t
    /\ handle[p].loaded
    /\ txn.by = p => txn.on # t

(* What a slot holds by the database, and whether an open batch has it     *)
(* hold something else.                                                    *)
Owner(t, s) == {i \in DOMAIN t.held : t.held[i].slot = s}
RowOf(t, s) == IF Owner(t, s) = {} THEN Blank ELSE t.held[CHOOSE i \in Owner(t, s) : TRUE].vec

InBatch(s) == txn # NoTxn /\ RowOf(txn.draft, s) # RowOf(table, s)

Held     == [slot : Slots, seq : Nat \ {0}, vec : Vectors]
IsTable(t) ==
    /\ t.owners \subseteq Ids
    /\ t.free \subseteq Slots
    /\ t.held \in [DOMAIN t.held -> Held]

TypeOK ==
    /\ IsTable(table)
    /\ \/ txn = NoTxn
       \/ /\ txn.by \in Procs /\ txn.on \in Threads /\ IsTable(txn.draft)
          /\ txn.touched \subseteq Ids /\ txn.cleared \in BOOLEAN
    /\ file \in [DOMAIN file -> Vectors \cup {Blank}] /\ DOMAIN file \in {{}, Slots}
    /\ \A p \in Procs :
          \/ handle[p] = Shut
          \/ /\ handle[p].step \in {"open", "mapped", "filling", "filled", "repairing"}
             /\ handle[p].map \in [DOMAIN handle[p].map -> Slots]
             /\ handle[p].seen \in [Kinds -> Nat]
             /\ handle[p].todo \subseteq Ids
             /\ handle[p].loaded => handle[p].attached
    /\ line \in [Procs -> [Lines -> [at : 0 .. commits, n : Nat]]]
    /\ version \in [Procs -> [Threads -> Nat]]
    /\ commits \in 0 .. MaxCommits
    /\ spoiled \subseteq Slots /\ missed \subseteq Procs \X Threads
    /\ passed \in [Procs -> SUBSET (Ids \X Nat)]

Init ==
    /\ table = [owners |-> Ids, held |-> [i \in {} |-> 0], free |-> {}]
    /\ txn = NoTxn
    /\ file = NoFile
    /\ handle = [p \in Procs |-> Shut]
    /\ line = [p \in Procs |-> [l \in Lines |-> Unlooked]]
    /\ version = [p \in Procs |-> [t \in Threads |-> 0]]
    /\ commits = 0
    /\ spoiled = {}
    /\ missed = {}
    /\ passed = [p \in Procs |-> {}]

-----------------------------------------------------------------------------
(* The database                                                            *)

MaxSeq(t, k) == Max({0} \cup {t.held[i].seq : i \in {j \in DOMAIN t.held : Kind(j) = k}})

(* One past the highest of one table only. *)
NextSlotOfClaims(t) ==
    IF t.free # {} THEN Min(t.free)
    ELSE 1 + Max({-1} \cup {t.held[i].slot : i \in DOMAIN t.held \cap Claims})

(* _NEXT_SLOT: a freed row before a new one, and one count for both tables. *)
NextSlot(t) ==
    IF t.free # {} THEN Min(t.free)
    ELSE 1 + Max({-1} \cup {t.held[i].slot : i \in DOMAIN t.held})

(* A vector written again moves to a row of its own. *)
UpsertMoves(t, i, v) ==
    LET slot == NextSlot(t)
        left == IF i \in DOMAIN t.held THEN {t.held[i].slot} ELSE {}
        row  == [slot |-> slot, seq |-> MaxSeq(t, Kind(i)) + 1, vec |-> v]
    IN  [t EXCEPT !.held = [j \in DOMAIN t.held \cup {i} |-> IF j = i THEN row ELSE t.held[j]],
                  !.free = (@ \ {slot}) \cup left]

(* A vector written again keeps its row and gets a new number. *)
Upsert(t, i, v) ==
    LET slot == IF i \in DOMAIN t.held THEN t.held[i].slot ELSE NextSlot(t)
        row  == [slot |-> slot, seq |-> MaxSeq(t, Kind(i)) + 1, vec |-> v]
    IN  [t EXCEPT !.held = [j \in DOMAIN t.held \cup {i} |-> IF j = i THEN row ELSE t.held[j]],
                  !.free = @ \ {slot}]

Without(t, S) ==
    [owners |-> t.owners \ S,
     held   |-> Restrict(t.held, DOMAIN t.held \ S),
     free   |-> t.free \cup {t.held[i].slot : i \in S \cap DOMAIN t.held}]

Cleared(t) == [t EXCEPT !.held = [i \in {} |-> 0], !.free = {}]

(* Some vectors of a table, each by its item and its number. *)
Numbered(t, S) == {<<i, t.held[i].seq>> : i \in S}

Draft == txn.draft

(* PRAGMA data_version: a number of the connection's own, one more at each *)
(* look that finds a commit of another connection.                         *)
Looked(p, l) ==
    CASE line[p][l] = Unlooked     -> Fresh
      [] line[p][l].at # commits   -> [at |-> commits, n |-> line[p][l].n + 1]
      [] OTHER                     -> line[p][l]

Looks(p, l) == line' = [line EXCEPT ![p][l] = Looked(p, l)]

-----------------------------------------------------------------------------
(* A process                                                               *)

Alone(p) == \A q \in Procs \ {p} : handle[q] = Shut

(* A map that has learnt of some rows. *)
Learnt(map, rows) ==
    [i \in DOMAIN map \cup DOMAIN rows |-> IF i \in DOMAIN rows THEN rows[i] ELSE map[i]]

(* The turns are left out. *)
FoldedClaims(h, t) ==
    LET news == {i \in DOMAIN t.held \cap Claims : t.held[i].seq > h.seen["claims"]}
        up   == Max({h.seen["claims"]} \cup {t.held[i].seq : i \in news})
    IN  [h EXCEPT !.map = Learnt(@, [i \in news |-> t.held[i].slot]), !.seen["claims"] = up]

(* The map learns every vector above the watermarks; nothing leaves it. *)
Folded(h, t) ==
    LET news == {i \in DOMAIN t.held : t.held[i].seq > h.seen[Kind(i)]}
        ups  == [k \in Kinds |-> Max({h.seen[k]} \cup {t.held[i].seq : i \in {j \in news : Kind(j) = k}})]
    IN  [h EXCEPT !.map = Learnt(@, [i \in news |-> t.held[i].slot]),
                  !.seen = ups]

(* A search forgets where p wrote the items it has still to repair, if     *)
(* they are stored elsewhere by now: nothing will blank those rows.        *)
Stranded(p) ==
    LET old   == handle[p].map
        new   == Folded(handle[p], table).map
        moved == {j \in handle[p].todo \cap DOMAIN old : new[j] # old[j]}
    IN  {s \in {old[j] : j \in moved} : Owner(table, s) = {} /\ ~ InBatch(s)}

Attached == [Opened EXCEPT !.attached = TRUE]
Empty    == [s \in Slots |-> Blank]

(* A store opens on the vectors it finds.  A usable file is only mapped; a *)
(* missing one is created, and from then on looks usable to everybody.     *)
Open(p) ==
    /\ handle[p] = Shut
    /\ txn # NoTxn => ~txn.cleared
    /\ \/ /\ DOMAIN table.held = {}
          /\ handle' = [handle EXCEPT ![p] = Opened]
          /\ UNCHANGED <<file, spoiled>>
       \/ /\ DOMAIN table.held # {} /\ file # NoFile
          /\ handle' = [handle EXCEPT ![p] = Attached]
          /\ UNCHANGED <<file, spoiled>>
       \/ /\ DOMAIN table.held # {} /\ file = NoFile
          /\ handle' = [handle EXCEPT ![p] = [Attached EXCEPT !.step = "filling"]]
          /\ file' = Empty
          /\ spoiled' = {s \in Slots : RowOf(table, s) # Blank}
    /\ Looks(p, Writer)
    /\ UNCHANGED <<table, txn, version, commits, missed, passed>>

(* _rebuild_matrix: every row from the database, as last committed. *)
Fill(p) ==
    /\ handle[p].step = "filling"
    /\ LET map  == [i \in DOMAIN table.held |-> table.held[i].slot]
           rows == Range(map)
       IN  /\ handle' = [handle EXCEPT ![p].map = map, ![p].step = "filled"]
           /\ file' = [s \in DOMAIN file |-> IF s \in rows THEN RowOf(table, s) ELSE file[s]]
           /\ spoiled' = (spoiled \ rows) \cup {s \in rows : InBatch(s)}
    /\ UNCHANGED <<table, txn, line, version, commits, missed, passed>>

(* _ensure_index, the first time: the map is read on a thread of p, which  *)
(* holds off the writes of p.                                              *)
Load(p, t) ==
    /\ IsOpen(p) /\ txn.by # p
    /\ ~handle[p].loaded
    /\ handle[p].attached \/ DOMAIN table.held # {}
    /\ handle' = [handle EXCEPT ![p] = [Folded(@, table) EXCEPT
          !.attached = TRUE, !.step = "mapped", !.on = t]]
    /\ Looks(p, t)
    /\ UNCHANGED <<table, txn, file, version, commits, spoiled, missed, passed>>

(* The end of a load or a rebuild: only now is the version asked, and by a *)
(* rebuild how far the numbers have come.  What was written since its rows *)
(* were copied is passed over.                                             *)
Note(p, t) ==
    /\ \/ /\ handle[p].step = "mapped" /\ handle[p].on = t
          /\ handle' = [handle EXCEPT ![p].step = "open", ![p].loaded = TRUE, ![p].on = Nobody]
          /\ UNCHANGED passed
       \/ /\ handle[p].step = "filled"
          /\ handle' = [handle EXCEPT
                ![p].step = "open", ![p].loaded = TRUE, ![p].on = Nobody,
                ![p].seen = [k \in Kinds |-> MaxSeq(table, k)]]
          /\ passed' = [passed EXCEPT ![p] = Numbered(table, DOMAIN table.held \ DOMAIN handle[p].map)]
    /\ Looks(p, t)
    /\ version' = [version EXCEPT ![p][t] = Looked(p, t).n]
    /\ UNCHANGED <<table, txn, file, commits, spoiled, missed>>

(* _ensure_index, ever after: on its own connection, also while another    *)
(* thread of p writes.                                                     *)
Search(p, t) ==
    /\ MaySearch(p, t)
    /\ \/ /\ Looked(p, t).n # version[p][t]
          /\ handle' = [handle EXCEPT ![p] = Folded(@, table)]
          /\ version' = [version EXCEPT ![p][t] = Looked(p, t).n]
          /\ missed' = missed \ {<<p, t>>}
          /\ spoiled' = spoiled \cup Stranded(p)
       \/ /\ Looked(p, t).n = version[p][t]
          /\ UNCHANGED <<handle, version, missed, spoiled>>
    /\ Looks(p, t)
    /\ UNCHANGED <<table, txn, file, commits, passed>>

Gone(p) ==
    /\ handle' = [handle EXCEPT ![p] = Shut]
    /\ line' = [line EXCEPT ![p] = [l \in Lines |-> Unlooked]]
    /\ version' = [version EXCEPT ![p] = [t \in Threads |-> 0]]
    /\ missed' = missed \ ({p} \X Threads)
    /\ passed' = [passed EXCEPT ![p] = {}]

Close(p) ==
    /\ IsOpen(p) /\ txn.by # p
    /\ Gone(p)
    /\ UNCHANGED <<table, txn, file, commits, spoiled>>

(* The database gives up the batch, and the file keeps what was written. *)
Crash(p) ==
    /\ handle[p] # Shut
    /\ Gone(p)
    /\ \/ /\ txn.by = p
          /\ txn' = NoTxn
          /\ spoiled' = {s \in DOMAIN file : file[s] # RowOf(table, s)}
       \/ /\ txn.by # p
          /\ spoiled' = IF handle[p].step # "repairing" THEN spoiled
                        ELSE spoiled \cup {s \in DOMAIN file : file[s] # RowOf(table, s) /\ ~InBatch(s)}
          /\ UNCHANGED txn
    /\ UNCHANGED <<table, file, commits>>

(* The file may be deleted while nobody has the store open. *)
DeleteFile ==
    /\ file # NoFile
    /\ \A p \in Procs : handle[p] = Shut
    /\ file' = NoFile
    /\ spoiled' = {}
    /\ UNCHANGED <<table, txn, handle, line, version, commits, missed, passed>>

-----------------------------------------------------------------------------
(* A batch: every write is in one, and one is open at a time.              *)

(* BEGIN IMMEDIATE *)
Begin(p, t) ==
    /\ IsOpen(p)
    /\ txn = NoTxn
    /\ commits < MaxCommits
    /\ txn' = [by |-> p, on |-> t, draft |-> table, touched |-> {}, cleared |-> FALSE]
    /\ Looks(p, Writer)
    /\ UNCHANGED <<table, file, handle, version, commits, spoiled, missed, passed>>

(* _set_vector.  A row that was erased in the meantime gets no vector. *)
SetEmbedding(p, i, v) ==
    /\ txn.by = p
    /\ i \in Draft.owners
    /\ MaxSeq(Draft, Kind(i)) < LastSeq[Kind(i)]
    /\ LET draft == Upsert(Draft, i, v)
           slot  == draft.held[i].slot
           rows  == IF file = NoFile THEN [s \in Slots |-> Blank] ELSE file
       IN  /\ txn' = [txn EXCEPT !.draft = draft, !.touched = @ \cup {i}]
           /\ file' = [rows EXCEPT ![slot] = v]
           /\ handle' = [handle EXCEPT ![p].attached = TRUE, ![p].map = Learnt(@, [j \in {i} |-> slot])]
           /\ spoiled' = spoiled \ {slot}
    /\ UNCHANGED <<table, line, version, commits, missed, passed>>

(* Only the rows this process has mapped are blanked. *)
EraseMapped(p, S) ==
    /\ txn.by = p
    /\ S # {} /\ S \subseteq Draft.owners
    /\ LET map  == handle[p].map
           rows == {map[i] : i \in S \cap DOMAIN Draft.held \cap DOMAIN map}
       IN  /\ txn' = [txn EXCEPT !.draft = Without(Draft, S), !.touched = @ \cup S]
           /\ file' = [s \in DOMAIN file |-> IF s \in rows THEN Blank ELSE file[s]]
           /\ handle' = [handle EXCEPT ![p].attached = @ \/ S \cap DOMAIN Draft.held # {},
                                       ![p].map = Restrict(map, DOMAIN map \ S)]
           /\ spoiled' = spoiled \ rows
    /\ UNCHANGED <<table, line, version, commits, missed, passed>>

(* _erase_row, and purge for many rows at once. *)
Erase(p, S) ==
    /\ txn.by = p
    /\ S # {} /\ S \subseteq Draft.owners
    /\ LET map  == handle[p].map
           held == S \cap DOMAIN Draft.held
           rows == {IF i \in DOMAIN map THEN map[i] ELSE Draft.held[i].slot : i \in held}
       IN  /\ txn' = [txn EXCEPT !.draft = Without(Draft, S), !.touched = @ \cup S]
           /\ file' = [s \in DOMAIN file |-> IF s \in rows THEN Blank ELSE file[s]]
           /\ handle' = [handle EXCEPT ![p].attached = @ \/ held # {},
                                       ![p].map = Restrict(map, DOMAIN map \ S)]
           /\ spoiled' = spoiled \ rows
    /\ UNCHANGED <<table, line, version, commits, missed, passed>>

(* clear_embeddings.  The file is truncated by a store that has it open. *)
Clear(p) ==
    /\ txn.by = p
    /\ Alone(p)
    /\ txn' = [txn EXCEPT !.draft = Cleared(Draft), !.cleared = TRUE]
    /\ handle' = [handle EXCEPT ![p] = Opened]
    /\ \/ /\ handle[p].attached
          /\ file' = NoFile
          /\ spoiled' = {}
       \/ /\ ~handle[p].attached
          /\ spoiled' = spoiled \cup {s \in DOMAIN file : file[s] # Blank}
          /\ UNCHANGED file
    /\ version' = [version EXCEPT ![p][txn.on] = 0]
    /\ passed' = [passed EXCEPT ![p] = {}]
    /\ UNCHANGED <<table, line, commits, missed>>

(* What the batch has written under a number p takes for read: the highest *)
(* is given again once its vector is erased.                               *)
NumberedAgain(p) ==
    {i \in DOMAIN Draft.held :
        /\ i \in DOMAIN table.held => Draft.held[i].seq # table.held[i].seq
        /\ handle[p] # Shut /\ Draft.held[i].seq <= handle[p].seen[Kind(i)]
        /\ i \notin DOMAIN handle[p].map}

Commit(p) ==
    /\ txn.by = p
    /\ passed' = [q \in Procs |-> IF q = p THEN passed[q]
                                  ELSE passed[q] \cup Numbered(Draft, NumberedAgain(q))]
    /\ txn' = NoTxn
    /\ table' = Draft
    /\ \/ /\ Draft = table
          /\ UNCHANGED <<line, commits, missed>>
       \/ /\ Draft # table
          /\ commits' = commits + 1
          /\ line' = [line EXCEPT ![p][Writer].at = commits + 1]
          /\ missed' = missed \cup {<<q, handle[q].on>> : q \in {r \in Procs : handle[r].step = "mapped"}}
    /\ UNCHANGED <<file, handle, version, spoiled>>

(* Items that are gone are blanked, and no row is written back. *)
RepairForgets(p) ==
    /\ handle[p].step = "repairing"
    /\ LET map    == handle[p].map
           gone   == handle[p].todo \ DOMAIN table.held
           forgot == {map[i] : i \in gone \cap DOMAIN map}
       IN  /\ file' = [s \in DOMAIN file |-> IF s \in forgot THEN Blank ELSE file[s]]
           /\ spoiled' = spoiled \ forgot
           /\ handle' = [handle EXCEPT ![p].map = Restrict(map, DOMAIN map \ gone),
                                       ![p].step = "open", ![p].todo = {}, ![p].on = Nobody]
    /\ UNCHANGED <<table, txn, line, version, commits, missed, passed>>

(* _reconcile_index, in whatever order the touched items come out of a set *)
(* and when others may write again: an item that is stored is written, one *)
(* that is not is blanked wherever this process had mapped it.             *)
Repair(p) ==
    /\ handle[p].step = "repairing"
    /\ LET map    == handle[p].map
           back   == handle[p].todo \cap DOMAIN table.held
           gone   == handle[p].todo \ back
           put    == {table.held[i].slot : i \in back}
           forgot == {map[i] : i \in gone \cap DOMAIN map}
           moved  == {map[i] : i \in back \cap DOMAIN map} \ put
       IN  \E blank \in {b \in SUBSET forgot : forgot \ put \subseteq b} :
              /\ file' = [s \in DOMAIN file |->
                    CASE s \in blank -> Blank
                      [] s \in put \ blank -> RowOf(table, s)
                      [] OTHER -> file[s]]
              /\ spoiled' = (spoiled \ (put \cup forgot))
                               \cup {s \in blank : Owner(table, s) # {}}
                               \cup {s \in put \cup forgot : InBatch(s)}
                               \cup {s \in moved \ forgot : Owner(table, s) = {}}
              /\ handle' = [handle EXCEPT
                    ![p].map = Learnt(Restrict(map, DOMAIN map \ gone), [i \in back |-> table.held[i].slot]),
                    ![p].step = "open", ![p].todo = {}, ![p].on = Nobody]
    /\ UNCHANGED <<table, txn, line, version, commits, missed, passed>>

(* A clear rolled back: the vectors are there again, and a file this store *)
(* has emptied holds none of them.  Nobody else has the store open.  The   *)
(* version taken is still that of the connection the batch writes on.      *)
Refill(p) ==
    LET left == IF handle[p].attached THEN NoFile ELSE file
        full == [Attached EXCEPT
                    !.loaded = TRUE,
                    !.map = [i \in DOMAIN table.held |-> table.held[i].slot],
                    !.seen = [k \in Kinds |-> MaxSeq(table, k)]]
    IN  \/ /\ DOMAIN table.held = {}
           /\ handle' = [handle EXCEPT ![p] = Opened]
           /\ file' = left
           /\ spoiled' = spoiled \cap DOMAIN left
           /\ UNCHANGED <<line, version, missed>>
        \/ /\ DOMAIN table.held # {} /\ left # NoFile
           /\ handle' = [handle EXCEPT ![p] = Attached]
           /\ UNCHANGED <<file, line, version, spoiled, missed>>
        \/ /\ DOMAIN table.held # {} /\ left = NoFile
           /\ handle' = [handle EXCEPT ![p] = full]
           /\ file' = [s \in Slots |-> RowOf(table, s)]
           /\ spoiled' = {}
           /\ Looks(p, Writer)
           /\ version' = [version EXCEPT ![p][txn.on] = Looked(p, Writer).n]
           /\ missed' = missed \cup {<<p, txn.on>>}

(* The database goes back and lets the others write; the file is repaired  *)
(* after that.                                                             *)
Rollback(p) ==
    /\ txn.by = p
    /\ txn' = NoTxn
    /\ \/ txn.cleared /\ Refill(p)
       \/ /\ ~txn.cleared
          /\ handle' = [handle EXCEPT ![p].step = "repairing", ![p].on = txn.on, ![p].todo = txn.touched]
          /\ UNCHANGED <<file, line, version, spoiled, missed>>
    /\ UNCHANGED <<table, commits, passed>>

Next ==
    \/ DeleteFile
    \/ \E p \in Procs :
          \/ Open(p) \/ Fill(p) \/ Close(p) \/ Crash(p)
          \/ Clear(p) \/ Commit(p) \/ Rollback(p) \/ Repair(p)
          \/ \E t \in Threads : Begin(p, t) \/ Load(p, t) \/ Note(p, t) \/ Search(p, t)
          \/ \E i \in Ids : \E v \in VectorsOf(i) : SetEmbedding(p, i, v)
          \/ \E S \in SUBSET Ids : Erase(p, S)

Spec == Init /\ [][Next]_vars

-----------------------------------------------------------------------------
(* What the store promises                                                 *)

(* No row of the file has two owners, whichever tables they are in, and    *)
(* the rows given back are neither owned nor lost: in the database and in  *)
(* an open batch every row below the highest is owned or free              *)
(* (_vector_upsert, _erase_row, purge).                                    *)
RowsHaveOneOwner ==
    \A t \in {table} \cup (IF txn = NoTxn THEN {} ELSE {Draft}) :
        LET used == {t.held[i].slot : i \in DOMAIN t.held}
        IN  /\ Cardinality(used) = Cardinality(DOMAIN t.held)
            /\ used \cap t.free = {}
            /\ \A s \in used \cup t.free : 0 .. s \subseteq used \cup t.free

(* Items touched by a batch that is open, or rolled back and not repaired. *)
ChangedBy(p) ==
    (IF handle[p] = Shut THEN {} ELSE handle[p].todo) \cup (IF txn.by = p THEN txn.touched ELSE {})
Changing == UNION {ChangedBy(p) : p \in Procs}

(* The row of every vector the open batch has not touched holds it, in     *)
(* every process, whoever else wrote, erased, rolled back or crashed; only *)
(* rows an interrupted step is known to leave wrong are excepted           *)
(* (_set_vector, _erase_row, _reconcile_index, _rebuild_matrix).           *)
RowsMatchTable ==
    \A i \in DOMAIN table.held :
        LET row == table.held[i]
        IN  \/ file = NoFile
            \/ i \in Changing
            \/ txn # NoTxn /\ txn.cleared
            \/ row.slot \in spoiled
            \/ file[row.slot] = row.vec

(* Once no batch is open, a row nobody owns is blank: what was erased, in  *)
(* whichever process, or was written by a batch that rolled back, is not   *)
(* in the file (_VecIndex.forget), with the same exception.                *)
ErasedLeavesNothing ==
    txn = NoTxn /\ Changing = {} => \A s \in DOMAIN file \ spoiled :
        Owner(table, s) = {} => file[s] = Blank

(* A process that has mapped an item reads the row the item owns, though   *)
(* other processes write it again, erase it and give its row away: what is *)
(* in its map and still stored is where the map says (_VecIndex.map).      *)
MapPointsHome ==
    \A p \in Procs : handle[p] # Shut =>
        LET t == IF txn.by = p THEN Draft ELSE table
        IN  \A i \in (DOMAIN handle[p].map \cap DOMAIN t.held) \ handle[p].todo :
                handle[p].map[i] = t.held[i].slot

(* Every vector is mapped, but for those p is changing itself and those    *)
(* its watermark has passed.                                               *)
Current(p) ==
    \A i \in DOMAIN table.held :
        \/ i \in DOMAIN handle[p].map
        \/ <<i, table.held[i].seq>> \in passed[p]
        \/ i \in ChangedBy(p)

(* A search on t would find no commit to read. *)
Trusts(p, t) ==
    /\ MaySearch(p, t)
    /\ Looked(p, t).n = version[p][t]

(* A thread that trusts the map finds every committed vector in it,        *)
(* whichever thread read the map and whichever process wrote: the refresh  *)
(* is what stops a claim written by another worker from being permanently  *)
(* invisible (_ensure_index).  Four cases are excepted.  Until there is a  *)
(* commit to read (missed): what came between the halves of a load, or     *)
(* after a clear was rolled back.  For good (passed): a vector that came   *)
(* between the halves of a rebuild, and one under a number given again.    *)
SearchFolds == \A p \in Procs, t \in Threads : Trusts(p, t) => Current(p) \/ <<p, t>> \in missed

=============================================================================
