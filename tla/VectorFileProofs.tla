-------------------------- MODULE VectorFileProofs --------------------------
(***************************************************************************)
(* Theorems of VectorFile, for every value of its constants.               *)
(***************************************************************************)
EXTENDS VectorFile, FiniteSetTheorems, WellFoundedInduction, TLAPS

-----------------------------------------------------------------------------
(* The greatest and the least of a set of numbers                          *)

(* A set of numbers has a least one.                                       *)
LEMMA LeastExists ==
    ASSUME NEW T \in SUBSET Nat, T # {}
    PROVE  \E n \in T : \A m \in T : n <= m
<1>1. PICK n \in T : \A m \in T : <<m, n>> \notin OpToRel(<, Nat)
  BY WFMin, NatLessThanWellFounded, Zenon
<1>2. \A m, k \in Nat : m < k => <<m, k>> \in OpToRel(<, Nat)
  BY Zenon DEF OpToRel
<1>3. ASSUME NEW m \in T
      PROVE  n <= m
  <2>1. ~ (m < n)
    BY <1>1, <1>2, Zenon
  <2>. QED
    BY <2>1
<1>. QED
  BY <1>3

(* A finite set of numbers has a greatest one.                             *)
LEMMA GreatestExists ==
    ASSUME NEW S \in SUBSET Int, IsFiniteSet(S), S # {}
    PROVE  \E n \in S : \A m \in S : m <= n
<1>. DEFINE Top(U) == \E n \in U : \A m \in U : m <= n
            T == {Cardinality(U) : U \in {V \in SUBSET S : V # {} /\ ~ Top(V)}}
<1>1. SUFFICES ASSUME T # {}
               PROVE  FALSE
  OBVIOUS
<1>2. T \subseteq Nat
  BY FS_Subset, FS_CardinalityType
<1>3. PICK n \in T : \A m \in T : n <= m
  BY <1>1, <1>2, LeastExists
<1>4. PICK U \in SUBSET S : U # {} /\ ~ Top(U) /\ Cardinality(U) = n
  BY <1>3
<1>5. PICK x \in U : TRUE
  BY <1>4
<1>6. /\ IsFiniteSet(U) /\ n \in Nat
      /\ Cardinality(U \ {x}) = n - 1
  BY <1>2, <1>4, <1>5, FS_Subset, FS_RemoveElement
<1>7. U \ {x} # {}
  BY <1>4, <1>5
<1>8. Top(U \ {x})
  <2>1. CASE ~ Top(U \ {x})
    <3>1. n - 1 \in T
      BY <2>1, <1>6, <1>7
    <3>. QED
      BY <3>1, <1>3, <1>6
  <2>. QED
    BY <2>1
<1>9. PICK y \in U \ {x} : \A m \in U \ {x} : m <= y
  BY <1>8
<1>10. Top(U)
  <2>1. CASE x <= y
    BY <1>9, <2>1
  <2>2. CASE ~ (x <= y)
    BY <1>9, <1>5, <2>2
  <2>. QED
    BY <2>1, <2>2
<1>. QED
  BY <1>4, <1>10

(* Max is the greatest of a finite set.                                    *)
LEMMA MaxIs ==
    ASSUME NEW S \in SUBSET Int, IsFiniteSet(S), S # {}
    PROVE  Max(S) \in S /\ \A m \in S : m <= Max(S)
<1>1. \E n \in S : \A m \in S : n >= m
  BY GreatestExists
<1>2. Max(S) \in S /\ \A m \in S : Max(S) >= m
  BY <1>1, Zenon DEF Max
<1>. QED
  BY <1>2

(* Min is the least of a set.                                              *)
LEMMA MinIs ==
    ASSUME NEW S \in SUBSET Nat, S # {}
    PROVE  Min(S) \in S /\ \A m \in S : Min(S) <= m
<1>1. \E n \in S : \A m \in S : n =< m
  BY LeastExists
<1>. QED
  BY <1>1, Zenon DEF Min

-----------------------------------------------------------------------------
(* The invariant                                                           *)

Used(t) == {t.held[i].slot : i \in DOMAIN t.held}

(* Every row up to the highest is owned by one item or free.               *)
Good(t) ==
    /\ t = [owners |-> t.owners, held |-> t.held, free |-> t.free]
    /\ IsTable(t)
    /\ DOMAIN t.held \subseteq t.owners
    /\ \A i, j \in DOMAIN t.held : t.held[i].slot = t.held[j].slot => i = j
    /\ Used(t) \cap t.free = {}
    /\ \A s \in Used(t) \cup t.free : 0 .. s \subseteq Used(t) \cup t.free

Maps == UNION {[D -> Slots] : D \in SUBSET Ids}

Steps == {"open", "mapped", "filling", "filled", "repairing"}

Handles ==
    [step : Steps,
     attached : BOOLEAN, loaded : BOOLEAN, map : Maps, seen : [Kinds -> Nat],
     on : Threads \cup {Nobody}, todo : SUBSET Ids]

IsTxn ==
    /\ txn = [by |-> txn.by, on |-> txn.on, draft |-> Draft,
              touched |-> txn.touched, cleared |-> txn.cleared]
    /\ txn.by \in Procs /\ txn.on \in Threads /\ Good(Draft)
    /\ txn.touched \subseteq Ids /\ txn.cleared \in BOOLEAN

Typed ==
    /\ Good(table)
    /\ txn = NoTxn \/ IsTxn
    /\ file \in [DOMAIN file -> Vectors \cup {Blank}] /\ DOMAIN file \in {{}, Slots}
    /\ handle \in [Procs -> {Shut} \cup Handles]
    /\ line \in [Procs -> [Lines -> [at : 0 .. commits, n : Nat]]]
    /\ version \in [Procs -> [Threads -> Nat]]
    /\ commits \in 0 .. MaxCommits /\ (txn # NoTxn => commits < MaxCommits)
    /\ spoiled \subseteq Slots /\ missed \subseteq Procs \X Threads

(* Which steps of a process go with what it knows.                         *)
StepFits(p) ==
    /\ txn.by = p => handle[p].step = "open"
    /\ handle[p] # Shut =>
          /\ handle[p].step # "repairing" => handle[p].todo = {}
          /\ handle[p].step \in {"mapped", "filling", "filled"} =>
                handle[p].attached /\ ~ handle[p].loaded
          /\ handle[p].step = "mapped" => handle[p].on \in Threads
          /\ handle[p].loaded => handle[p].attached

Stepping == \A p \in Procs : StepFits(p)

(* How an open batch that has not cleared the vectors differs from the     *)
(* table: only in what it touched, and never in the row of an item.        *)
Diverges ==
    /\ \A i \in Ids \ txn.touched :
          /\ i \in DOMAIN Draft.held <=> i \in DOMAIN table.held
          /\ i \in DOMAIN Draft.held => Draft.held[i] = table.held[i]
    /\ \A i \in DOMAIN Draft.held \cap DOMAIN table.held :
          Draft.held[i].slot = table.held[i].slot
    /\ \A i \in DOMAIN table.held \ DOMAIN Draft.held : i \notin Draft.owners
    /\ ~ handle[txn.by].attached => Draft.held = table.held

(* One that has is alone with the store.                                   *)
Cleans ==
    /\ Alone(txn.by)
    /\ ~ handle[txn.by].loaded
    /\ DOMAIN Draft.held \subseteq txn.touched
    /\ ~ handle[txn.by].attached =>
          /\ DOMAIN Draft.held = {}
          /\ file # NoFile => \A i \in DOMAIN table.held :
                \/ table.held[i].slot \in spoiled
                \/ file[table.held[i].slot] = table.held[i].vec

(* What an open batch has written and not erased is in the file.           *)
Writing ==
    txn # NoTxn =>
        /\ Draft.owners \subseteq table.owners
        /\ txn.cleared => Cleans
        /\ ~ txn.cleared => Diverges
        /\ \A i \in txn.touched \cap DOMAIN Draft.held :
              LET s == Draft.held[i].slot
              IN  /\ i \in DOMAIN handle[txn.by].map
                  /\ file # NoFile
                  /\ s \in spoiled \/ file[s] = Draft.held[i].vec

(* A process that has mapped an item the database does not hold either has *)
(* still to repair it, or the item is gone for good.                       *)
Knows(p) ==
    handle[p] # Shut =>
        /\ \A i \in DOMAIN handle[p].map \ ChangedBy(p) :
              i \notin DOMAIN table.held => i \notin table.owners
        /\ txn.by = p => \A i \in DOMAIN handle[p].map \ DOMAIN Draft.held :
              i \notin Draft.owners

Known == \A p \in Procs : Knows(p)

(* Rows that a repair to come will blank.                                  *)
ToBlank(p) ==
    IF handle[p] = Shut THEN {}
    ELSE {handle[p].map[i] : i \in handle[p].todo \cap DOMAIN handle[p].map}

Latest == IF txn = NoTxn THEN table ELSE Draft

(* A row nobody owns is blank, or will be.                                 *)
NothingLeft ==
    \A s \in DOMAIN file \ spoiled : Owner(Latest, s) = {} =>
        \/ file[s] = Blank
        \/ Owner(table, s) = {} /\ \E p \in Procs : s \in ToBlank(p)

(* Who has the store open while there are vectors has a file, unless they  *)
(* are being cleared.                                                      *)
HasFile ==
    file = NoFile /\ (txn # NoTxn => ~ txn.cleared) /\ DOMAIN table.held # {} =>
        \A p \in Procs : handle[p] = Shut

(* Every vector above the watermark of its table is mapped, but for those  *)
(* p is changing itself.                                                   *)
ReadsOn(p) ==
    \A i \in DOMAIN table.held :
        \/ i \in DOMAIN handle[p].map
        \/ table.held[i].seq <= handle[p].seen[Kind(i)]
        \/ i \in ChangedBy(p)

(* A thread that would find no commit to read has read them all.           *)
Watches(p, t) ==
    /\ line[p][t].n = 0 => line[p][t].at = 0
    /\ <<p, t>> \notin missed =>
          /\ version[p][t] <= line[p][t].n
          /\ /\ handle[p] # Shut /\ handle[p].loaded
             /\ version[p][t] = line[p][t].n /\ line[p][t].at = commits
             /\ line[p][t].n # 0
             => ReadsOn(p)

Watching == \A p \in Procs, t \in Threads : Watches(p, t)

(* A commit that comes between the halves of a load is missed.             *)
Loads(p) ==
    handle[p].step = "mapped" =>
        \/ ReadsOn(p)
        \/ /\ <<p, handle[p].on>> \in missed
           /\ \A t \in Threads : line[p][t].at # commits

Loading == \A p \in Procs : Loads(p)

(* What p takes for read it has mapped, or its watermark is known to have  *)
(* passed it.                                                              *)
Accounts(p) ==
    handle[p] # Shut => \A i \in DOMAIN table.held :
        table.held[i].seq <= handle[p].seen[Kind(i)] =>
            \/ i \in DOMAIN handle[p].map
            \/ i \in ChangedBy(p)
            \/ <<i, table.held[i].seq>> \in passed[p]

Accounting ==
    /\ passed \in [Procs -> SUBSET (Ids \X Nat)]
    /\ \A p \in Procs : Accounts(p)

IInv ==
    /\ Typed /\ Stepping /\ Writing /\ Known /\ MapPointsHome
    /\ RowsMatchTable /\ NothingLeft /\ HasFile /\ Watching /\ Loading

-----------------------------------------------------------------------------
(* The tables                                                              *)

(* A table whose rows change is a table still.                             *)
LEMMA TableChanged ==
    ASSUME NEW t, t = [owners |-> t.owners, held |-> t.held, free |-> t.free], NEW h, NEW f
    PROVE  [t EXCEPT !.held = h, !.free = f] = [owners |-> t.owners, held |-> h, free |-> f]
<1>. DEFINE g == [t EXCEPT !.held = h]
<1>1. t \in [owners : {t.owners}, held : {t.held}, free : {t.free}]
  OBVIOUS
<1>2. g \in [owners : {t.owners}, held : {h}, free : {t.free}] /\ g.owners = t.owners /\ g.held = h
  BY <1>1
<1>3. [t EXCEPT !.held = h, !.free = f] = [g EXCEPT !.free = f]
  BY Zenon
<1>. HIDE DEF g
<1>4. [g EXCEPT !.free = f] = [owners |-> g.owners, held |-> g.held, free |-> f]
  BY <1>2
<1>. QED
  BY <1>2, <1>3, <1>4, Zenon

(* What a well-formed table is made of.                                    *)
LEMMA TableTypes ==
    ASSUME NEW t, Good(t)
    PROVE  /\ t.owners \subseteq Ids /\ t.free \subseteq Slots
           /\ DOMAIN t.held \subseteq Ids /\ IsFiniteSet(DOMAIN t.held)
           /\ t.held \in [DOMAIN t.held -> Held]
           /\ \A i \in DOMAIN t.held :
                 /\ t.held[i] \in Held
                 /\ t.held[i].slot \in Slots /\ t.held[i].seq \in Nat /\ t.held[i].vec \in Vectors
           /\ Used(t) \subseteq Slots
           /\ IsFiniteSet(Ids) /\ Cardinality(Ids) \in Nat /\ Slots \subseteq Nat
<1>1. /\ t.owners \subseteq Ids /\ t.free \subseteq Slots
      /\ DOMAIN t.held \subseteq Ids
      /\ t.held \in [DOMAIN t.held -> Held]
  BY DEF Good, IsTable
<1>2. IsFiniteSet(Ids) /\ Cardinality(Ids) \in Nat /\ IsFiniteSet(DOMAIN t.held)
  BY <1>1, VectorFileAssumption, FS_CardinalityType, FS_Subset
<1>3. \A i \in DOMAIN t.held :
         /\ t.held[i] \in Held
         /\ t.held[i].slot \in Slots /\ t.held[i].seq \in Nat /\ t.held[i].vec \in Vectors
  BY <1>1 DEF Held
<1>. QED
  BY <1>1, <1>2, <1>3 DEF Used, Slots

(* The highest of a number and those of some items.                        *)
LEMMA HighestOf ==
    ASSUME NEW t, Good(t), NEW n \in Nat, NEW D, D \subseteq DOMAIN t.held
    PROVE  LET m == Max({n} \cup {t.held[i].seq : i \in D})
           IN  m \in Nat /\ n <= m /\ \A i \in D : t.held[i].seq <= m
<1>. DEFINE f == [i \in D |-> t.held[i].seq]
            S == {t.held[i].seq : i \in D}
            m == Max({n} \cup S)
<1>1. IsFiniteSet(D)
  BY TableTypes, FS_Subset
<1>2. S \subseteq Nat /\ f \in Surjection(D, S) /\ \A i \in D : t.held[i].seq \in S
  BY TableTypes DEF Surjection
<1>. HIDE DEF S, f
<1>3. IsFiniteSet({n} \cup S) /\ {n} \cup S \subseteq Nat
  BY <1>1, <1>2, FS_Surjection, FS_AddElement
<1>4. m \in {n} \cup S /\ \A x \in {n} \cup S : x <= m
  BY <1>3, MaxIs
<1>. HIDE DEF m
<1>5. m \in Nat /\ n <= m /\ \A i \in D : t.held[i].seq <= m
  <2>1. \A i \in D : t.held[i].seq \in {n} \cup S
    BY <1>2
  <2>. QED
    BY <1>3, <1>4, <2>1
<1>. QED
  BY <1>5 DEF m, S

(* The highest number of a table, and nothing is numbered above it.        *)
LEMMA HighestSeq ==
    ASSUME NEW t, Good(t), NEW k \in Kinds
    PROVE  /\ MaxSeq(t, k) \in Nat
           /\ \A i \in DOMAIN t.held : Kind(i) = k => t.held[i].seq <= MaxSeq(t, k)
<1>. DEFINE D == {j \in DOMAIN t.held : Kind(j) = k}
<1>1. D \subseteq DOMAIN t.held /\ \A i \in DOMAIN t.held : Kind(i) = k => i \in D
  OBVIOUS
<1>2. MaxSeq(t, k) = Max({0} \cup {t.held[i].seq : i \in D})
  BY DEF MaxSeq
<1>. HIDE DEF D
<1>3. MaxSeq(t, k) \in Nat /\ \A i \in D : t.held[i].seq <= MaxSeq(t, k)
  BY <1>1, <1>2, HighestOf, 0 \in Nat, ZenonT(40)
<1>. QED
  BY <1>1, <1>3

(* The next row is not owned, and there is one.                            *)
LEMMA NextSlotFree ==
    ASSUME NEW t, Good(t), NEW i \in t.owners \ DOMAIN t.held
    PROVE  /\ NextSlot(t) \in Slots
           /\ NextSlot(t) \notin Used(t)
           /\ 0 .. NextSlot(t) \subseteq Used(t) \cup t.free \cup {NextSlot(t)}
<1>. DEFINE U == Used(t)
            n == NextSlot(t)
<1>0. /\ U \subseteq Slots /\ t.free \subseteq Slots /\ Slots \subseteq Nat
      /\ IsFiniteSet(Ids) /\ Cardinality(Ids) \in Nat
      /\ DOMAIN t.held \subseteq Ids \ {i} /\ i \in Ids
      /\ \A s \in U \cup t.free : 0 .. s \subseteq U \cup t.free
      /\ U \cap t.free = {}
  BY TableTypes DEF Good
<1>1. CASE t.free # {}
  <2>1. n \in t.free
    BY <1>0, <1>1, MinIs DEF NextSlot
  <2>. QED
    BY <2>1, <1>0
<1>2. CASE t.free = {}
  <2>. DEFINE M == Max({-1} \cup U)
  <2>1. n = 1 + M
    BY <1>2 DEF NextSlot, Used
  <2>2. IsFiniteSet(U) /\ Cardinality(U) <= Cardinality(DOMAIN t.held)
    <3>. DEFINE f == [j \in DOMAIN t.held |-> t.held[j].slot]
    <3>1. f \in Surjection(DOMAIN t.held, U)
      BY DEF Surjection, Used
    <3>. QED
      BY <3>1, TableTypes, FS_Surjection
  <2>3. M \in {-1} \cup U /\ \A m \in {-1} \cup U : m <= M
    <3>1. IsFiniteSet({-1} \cup U)
      BY <2>2, FS_AddElement
    <3>. QED
      BY <3>1, <1>0, MaxIs
  <2>. HIDE DEF M, U
  <2>4. U = 0 .. M
    <3>1. U \subseteq 0 .. M
      BY <2>3, <1>0
    <3>2. 0 .. M \subseteq U
      BY <2>3, <1>0, <1>2
    <3>. QED
      BY <3>1, <3>2
  <2>5. Cardinality(U) = M + 1
    <3>1. M \in Int /\ -1 <= M
      BY <2>3, <1>0
    <3>2. Cardinality(0 .. M) = IF 0 > M THEN 0 ELSE M - 0 + 1
      BY <3>1, FS_Interval, 0 \in Int, Zenon
    <3>. QED
      BY <2>4, <3>1, <3>2
  <2>6. Cardinality(DOMAIN t.held) <= Cardinality(Ids) - 1
    <3>1. IsFiniteSet(Ids \ {i}) /\ Cardinality(Ids \ {i}) = Cardinality(Ids) - 1
      BY <1>0, FS_RemoveElement
    <3>2. DOMAIN t.held \in SUBSET (Ids \ {i})
      BY <1>0
    <3>. QED
      BY <3>1, <3>2, FS_Subset, ZenonT(40)
  <2>7. Cardinality(DOMAIN t.held) \in Nat
    BY TableTypes, FS_CardinalityType
  <2>8. M + 1 <= Cardinality(Ids) - 1
    <3>1. M \in Int /\ Cardinality(Ids) \in Int /\ Cardinality(DOMAIN t.held) \in Int
      BY <1>0, <2>3, <2>7
    <3>. QED
      BY <2>2, <2>5, <2>6, <3>1
  <2>. QED
    <3>1. n \in Slots /\ n \in Nat
      BY <2>1, <2>3, <2>8, <1>0 DEF Slots
    <3>2. n \notin U /\ 0 .. n \subseteq U \cup {n}
      BY <2>1, <2>3, <2>4, <1>0, <3>1
    <3>. QED
      BY <3>1, <3>2 DEF U
<1>. QED
  BY <1>1, <1>2

(* A row holds the vector of its owner, and there is one owner.            *)
LEMMA RowOfOwner ==
    ASSUME NEW t, Good(t), NEW i \in DOMAIN t.held
    PROVE  /\ Owner(t, t.held[i].slot) = {i}
           /\ RowOf(t, t.held[i].slot) = t.held[i].vec
<1>1. Owner(t, t.held[i].slot) = {i}
  BY DEF Owner, Good
<1>. QED
  BY <1>1 DEF RowOf

(* A row with an owner is the row of a stored vector.                      *)
LEMMA OwnerOfRow ==
    ASSUME NEW t, NEW s
    PROVE  /\ Owner(t, s) # {} => \E i \in DOMAIN t.held : t.held[i].slot = s
           /\ Owner(t, s) = {} => RowOf(t, s) = Blank /\ s \notin Used(t)
  BY DEF Owner, RowOf, Used

(* What a table says of a row is a vector, or nothing.                     *)
LEMMA RowTypes ==
    ASSUME NEW t, Good(t), NEW s
    PROVE  RowOf(t, s) \in Vectors \cup {Blank}
<1>1. CASE Owner(t, s) = {}
  BY <1>1 DEF RowOf
<1>2. CASE Owner(t, s) # {}
  <2>1. PICK i \in DOMAIN t.held : t.held[i].slot = s
    BY <1>2, OwnerOfRow
  <2>. QED
    BY <2>1, RowOfOwner, TableTypes
<1>. QED
  BY <1>1, <1>2

(* A vector written keeps the row of its item, or takes a free one.        *)
LEMMA UpsertGood ==
    ASSUME NEW t, Good(t), NEW i \in t.owners, NEW v \in VectorsOf(i)
    PROVE  LET u == Upsert(t, i, v)
           IN  /\ Good(u) /\ u.owners = t.owners
               /\ DOMAIN u.held = DOMAIN t.held \cup {i}
               /\ u.held[i].vec = v
               /\ i \in DOMAIN t.held => u.held[i].slot = t.held[i].slot
               /\ \A j \in DOMAIN t.held \ {i} : u.held[j] = t.held[j]
<1>. DEFINE slot == IF i \in DOMAIN t.held THEN t.held[i].slot ELSE NextSlot(t)
            row  == [slot |-> slot, seq |-> MaxSeq(t, Kind(i)) + 1, vec |-> v]
            held == [j \in DOMAIN t.held \cup {i} |-> IF j = i THEN row ELSE t.held[j]]
            u    == Upsert(t, i, v)
<1>1. u = [owners |-> t.owners, held |-> held, free |-> t.free \ {slot}]
  BY TableChanged, Zenon DEF Upsert, Good
<1>2. /\ slot \in Slots
      /\ \A j \in DOMAIN t.held \ {i} : t.held[j].slot # slot
      /\ 0 .. slot \subseteq Used(t) \cup t.free \cup {slot}
  <2>1. CASE i \in DOMAIN t.held
    <3>1. slot = t.held[i].slot /\ slot \in Used(t)
      BY <2>1 DEF Used
    <3>. QED
      BY <2>1, <3>1, TableTypes DEF Good
  <2>2. CASE i \notin DOMAIN t.held
    BY <2>2, NextSlotFree DEF Used
  <2>. QED
    BY <2>1, <2>2
<1>3. row \in Held
  <2>1. i \in Ids /\ Kind(i) \in Kinds
    BY TableTypes DEF Kind, Kinds
  <2>2. MaxSeq(t, Kind(i)) \in Nat
    BY <2>1, HighestSeq
  <2>3. v \in Vectors
    BY <2>1 DEF Vectors
  <2>. QED
    BY <1>2, <2>2, <2>3 DEF Held
<1>. HIDE DEF slot
<1>4. held \in [DOMAIN t.held \cup {i} -> Held]
  BY <1>3, TableTypes
<1>5. /\ held[i].slot = slot /\ held[i].vec = v
      /\ \A j \in DOMAIN t.held \ {i} : held[j] = t.held[j]
      /\ DOMAIN held = DOMAIN t.held \cup {i}
  OBVIOUS
<1>. HIDE DEF row, held
<1>6. {held[j].slot : j \in DOMAIN held} = {t.held[j].slot : j \in DOMAIN t.held \ {i}} \cup {slot}
  BY <1>5
<1>7. i \in DOMAIN t.held => t.held[i].slot = slot
  BY DEF slot
<1>8. Used(t) \cup {slot} = {held[j].slot : j \in DOMAIN held}
  BY <1>6, <1>7 DEF Used
<1>9. u.held = held /\ u.owners = t.owners /\ u.free = t.free \ {slot}
  BY <1>1
<1>10. Used(u) = Used(t) \cup {slot}
  BY <1>8, <1>9 DEF Used
<1>11. IsTable(u) /\ DOMAIN u.held \subseteq u.owners
  BY <1>4, <1>5, <1>9, TableTypes DEF IsTable, Good
<1>12. \A j, k \in DOMAIN u.held : u.held[j].slot = u.held[k].slot => j = k
  BY <1>2, <1>5, <1>9 DEF Good
<1>13. Used(u) \cap u.free = {}
  BY <1>9, <1>10 DEF Good
<1>14. Used(u) \cup u.free = Used(t) \cup t.free \cup {slot}
  BY <1>9, <1>10
<1>15. \A s \in Used(u) \cup u.free : 0 .. s \subseteq Used(u) \cup u.free
  BY <1>2, <1>14 DEF Good
<1>16. Good(u)
  BY <1>1, <1>9, <1>11, <1>12, <1>13, <1>15 DEF Good
<1>. QED
  BY <1>5, <1>7, <1>9, <1>16

(* What is erased gives its rows back.                                     *)
LEMMA WithoutGood ==
    ASSUME NEW t, Good(t), NEW S
    PROVE  LET u == Without(t, S)
           IN  /\ Good(u) /\ u.owners = t.owners \ S
               /\ DOMAIN u.held = DOMAIN t.held \ S
               /\ \A j \in DOMAIN t.held \ S : u.held[j] = t.held[j]
<1>. DEFINE gone == {t.held[i].slot : i \in S \cap DOMAIN t.held}
            held == [i \in DOMAIN t.held \ S |-> t.held[i]]
            u    == Without(t, S)
<1>1. u = [owners |-> t.owners \ S, held |-> held, free |-> t.free \cup gone]
  BY DEF Without, Restrict
<1>2. u.owners = t.owners \ S /\ u.held = held /\ u.free = t.free \cup gone
  BY <1>1
<1>3. DOMAIN held = DOMAIN t.held \ S /\ \A j \in DOMAIN t.held \ S : held[j] = t.held[j]
  OBVIOUS
<1>4. Used(u) \cup gone = Used(t) /\ Used(u) \cap gone = {}
  <2>1. Used(u) = {t.held[j].slot : j \in DOMAIN t.held \ S}
    BY <1>2, <1>3 DEF Used
  <2>2. \A i, j \in DOMAIN t.held : t.held[i].slot = t.held[j].slot => i = j
    BY DEF Good
  <2>. QED
    BY <2>1, <2>2 DEF Used
<1>5. gone \subseteq Slots
  BY TableTypes
<1>6. IsTable(u)
  <2>1. held \in [DOMAIN held -> Held]
    BY <1>3, TableTypes
  <2>. QED
    BY <1>2, <1>5, <2>1, TableTypes DEF IsTable
<1>. HIDE DEF held, gone
<1>7. /\ DOMAIN u.held \subseteq u.owners
      /\ \A i, j \in DOMAIN u.held : u.held[i].slot = u.held[j].slot => i = j
  BY <1>2, <1>3 DEF Good
<1>8. Used(u) \cap u.free = {}
  BY <1>2, <1>4 DEF Good
<1>9. Used(u) \cup u.free = Used(t) \cup t.free
  BY <1>2, <1>4
<1>10. \A s \in Used(u) \cup u.free : 0 .. s \subseteq Used(u) \cup u.free
  BY <1>9 DEF Good
<1>11. Good(u)
  BY <1>1, <1>2, <1>6, <1>7, <1>8, <1>10 DEF Good
<1>. QED
  BY <1>2, <1>3, <1>11

(* A clear leaves a well-formed table without vectors.                     *)
LEMMA ClearedGood ==
    ASSUME NEW t, Good(t)
    PROVE  LET u == Cleared(t)
           IN  Good(u) /\ u.owners = t.owners /\ DOMAIN u.held = {}
<1>. DEFINE u == Cleared(t)
<1>1. u = [owners |-> t.owners, held |-> [i \in {} |-> 0], free |-> {}]
  BY TableChanged, Zenon DEF Cleared, Good
<1>2. u.owners = t.owners /\ u.held = [i \in {} |-> 0] /\ u.free = {}
  BY <1>1
<1>3. DOMAIN u.held = {} /\ Used(u) = {}
  BY <1>2 DEF Used
<1>4. IsTable(u)
  BY <1>2, <1>3, TableTypes DEF IsTable
<1>5. Good(u)
  BY <1>1, <1>2, <1>3, <1>4 DEF Good
<1>. QED
  BY <1>2, <1>3, <1>5

-----------------------------------------------------------------------------
(* What the invariant says of one process and of an open batch             *)

(* An open process is known by its step.                                   *)
LEMMA HandleIs ==
    ASSUME Typed, NEW p \in Procs
    PROVE  /\ handle[p] # Shut => handle[p] \in Handles
           /\ handle[p] # Shut <=> handle[p].step \in Steps
           /\ handle[p] \in Handles =>
                 /\ handle[p] # Shut
                 /\ handle[p].step \in Steps /\ handle[p].attached \in BOOLEAN /\ handle[p].loaded \in BOOLEAN
                 /\ handle[p].map \in Maps /\ handle[p].seen \in [Kinds -> Nat]
                 /\ handle[p].on \in Threads \cup {Nobody} /\ handle[p].todo \subseteq Ids
<1>1. \A h \in Handles : h.step \in Steps /\ h # Shut
  BY DEF Handles, Shut, Steps
<1>2. Shut.step \notin Steps
  BY DEF Shut, Steps
<1>. QED
  BY <1>1, <1>2 DEF Typed, Handles

(* Who writes is a process, and it is open.                                *)
LEMMA BatchIs ==
    ASSUME Typed, Stepping
    PROVE  /\ txn.by \in Procs => IsTxn /\ txn # NoTxn /\ handle[txn.by] # Shut
           /\ txn # NoTxn => IsTxn /\ txn.by \in Procs
           /\ NoTxn.by \notin Procs
<1>1. NoTxn.by \notin Procs
  BY VectorFileAssumption DEF NoTxn
<1>2. txn # NoTxn => IsTxn /\ txn.by \in Procs
  BY DEF Typed, IsTxn
<1>3. txn.by \in Procs => handle[txn.by].step = "open"
  BY DEF Stepping, StepFits
<1>4. Shut.step # "open"
  BY DEF Shut
<1>. QED
  BY <1>1, <1>2, <1>3, <1>4

(* A load is on one of the threads.                                        *)
LEMMA MappedIs ==
    ASSUME Stepping, NEW p \in Procs, handle[p].step = "mapped"
    PROVE  handle[p] # Shut /\ handle[p].on \in Threads
<1>1. Shut.step # "mapped"
  BY DEF Shut
<1>. QED
  BY <1>1 DEF Stepping, StepFits

(* A map is of the items and leads to rows.                                *)
LEMMA MapIs ==
    ASSUME NEW m \in Maps
    PROVE  DOMAIN m \subseteq Ids /\ \A i \in DOMAIN m : m[i] \in Slots
  BY DEF Maps

(* A function from items to rows is a map.                                 *)
LEMMA MapOf ==
    ASSUME NEW m, DOMAIN m \subseteq Ids, m = [i \in DOMAIN m |-> m[i]], \A i \in DOMAIN m : m[i] \in Slots
    PROVE  m \in Maps
<1>1. m \in [DOMAIN m -> Slots]
  OBVIOUS
<1>. QED
  BY <1>1 DEF Maps

(* What a process knows when it has opened the store.                      *)
LEMMA OpenedIs ==
    /\ Opened \in Handles /\ Opened.step = "open" /\ ~ Opened.attached /\ ~ Opened.loaded
    /\ DOMAIN Opened.map = {} /\ Opened.seen = Unread /\ Opened.on = Nobody /\ Opened.todo = {}
    /\ Attached \in Handles /\ Attached.step = "open" /\ Attached.attached /\ ~ Attached.loaded
    /\ DOMAIN Attached.map = {} /\ Attached.seen = Unread /\ Attached.on = Nobody /\ Attached.todo = {}
<1>1. [i \in {} |-> 0] \in Maps
  BY MapOf
<1>2. Unread \in [Kinds -> Nat]
  BY DEF Unread
<1>3. /\ Opened \in Handles /\ Opened.step = "open" /\ ~ Opened.attached /\ ~ Opened.loaded
      /\ DOMAIN Opened.map = {} /\ Opened.seen = Unread /\ Opened.on = Nobody /\ Opened.todo = {}
  BY <1>1, <1>2 DEF Opened, Handles, Steps
<1>. HIDE DEF Opened
<1>. QED
  BY <1>3 DEF Attached, Handles

-----------------------------------------------------------------------------
(* What the steps keep                                                     *)

(* The invariant holds of an unopened store without vectors.               *)
LEMMA InitKeeps ==
    ASSUME Init
    PROVE  IInv
<1>1. txn = NoTxn /\ NoTxn.by \notin Procs /\ \A p \in Procs : handle[p] = Shut
  BY VectorFileAssumption DEF Init, NoTxn
<1>2. Good(table)
  <2>1. table = [owners |-> Ids, held |-> [i \in {} |-> 0], free |-> {}]
    BY DEF Init
  <2>2. table.owners = Ids /\ table.held = [i \in {} |-> 0] /\ table.free = {}
    BY <2>1
  <2>3. Used(table) = {}
    BY <2>2 DEF Used
  <2>. QED
    BY <2>1, <2>2, <2>3 DEF Good, IsTable
<1>3. /\ DOMAIN file = {} /\ DOMAIN table.held = {} /\ spoiled = {}
  BY DEF Init, NoFile
<1>4. Typed
  <2>1. file \in [DOMAIN file -> Vectors \cup {Blank}]
    BY DEF Init, NoFile
  <2>2. line \in [Procs -> [Lines -> [at : 0 .. commits, n : Nat]]]
    BY DEF Init, Unlooked
  <2>. QED
    BY <1>1, <1>2, <1>3, <2>1, <2>2, VectorFileAssumption DEF Init, Typed
<1>5. Shut.step = "shut"
  BY DEF Shut
<1>6. Stepping /\ Loading
  BY <1>1, <1>5 DEF Stepping, StepFits, Loading, Loads
<1>7. Writing /\ Known /\ MapPointsHome /\ RowsMatchTable /\ NothingLeft /\ HasFile
  BY <1>1, <1>3 DEF Writing, Known, Knows, MapPointsHome, RowsMatchTable, NothingLeft, HasFile
<1>8. Watching
  <2>1. \A p \in Procs, t \in Threads : line[p][t].n = 0 /\ line[p][t].at = 0 /\ version[p][t] = 0
    BY DEF Init, Unlooked, Lines
  <2>. QED
    BY <1>1, <2>1 DEF Watching, Watches
<1>. QED
  BY <1>4, <1>6, <1>7, <1>8 DEF IInv

(* Nothing that is said without the file changes with it.                  *)
LEMMA DeleteFileKeeps ==
    ASSUME IInv, DeleteFile
    PROVE  IInv'
<1>1. /\ UNCHANGED <<table, txn, handle, line, version, commits, missed>>
      /\ file' = NoFile /\ spoiled' = {} /\ DOMAIN file' = {}
      /\ \A p \in Procs : handle[p] = Shut
  BY DEF DeleteFile, NoFile
<1>2. txn = NoTxn
  BY <1>1, BatchIs DEF IInv
<1>3. Typed'
  <2>1. file' \in [DOMAIN file' -> Vectors \cup {Blank}]
    BY <1>1 DEF NoFile
  <2>. QED
    BY <1>1, <1>2, <2>1 DEF IInv, Typed
<1>4. Stepping' /\ Known' /\ MapPointsHome'
  BY <1>1 DEF IInv, Stepping, StepFits, Known, Knows, MapPointsHome, ChangedBy, Draft
<1>5. Writing' /\ RowsMatchTable' /\ NothingLeft' /\ HasFile'
  BY <1>1, <1>2 DEF Writing, RowsMatchTable, NothingLeft, HasFile
<1>6. Watching' /\ Loading'
  BY <1>1 DEF IInv, Watching, Watches, Loading, Loads, ReadsOn, ChangedBy
<1>. QED
  BY <1>3, <1>4, <1>5, <1>6 DEF IInv

(* A file that is missing has no rows.                                     *)
LEMMA FileIs ==
    ASSUME Typed
    PROVE  /\ file = NoFile <=> DOMAIN file = {}
           /\ file # NoFile => DOMAIN file = Slots
           /\ \A s \in DOMAIN file : file[s] \in Vectors \cup {Blank}
<1>1. file \in [DOMAIN file -> Vectors \cup {Blank}] /\ DOMAIN file \in {{}, Slots}
  BY DEF Typed
<1>2. DOMAIN NoFile = {}
  BY DEF NoFile
<1>3. DOMAIN file = {} => file = NoFile
  BY <1>1 DEF NoFile
<1>. QED
  BY <1>1, <1>2, <1>3

(* A row holds by an open batch what it holds by the table, unless the     *)
(* batch says otherwise.                                                   *)
LEMMA LatestRow ==
    ASSUME NEW s, ~ InBatch(s)
    PROVE  RowOf(Latest, s) = RowOf(table, s)
  BY DEF InBatch, Latest, Draft

(* An item is changing if some process is changing or repairing it.        *)
LEMMA ChangingIs ==
    ASSUME NEW i
    PROVE  /\ i \in Changing <=> \E p \in Procs : i \in ChangedBy(p)
           /\ i \in Changing' <=> \E p \in Procs : i \in ChangedBy(p)'
<1>1. i \in Changing <=> \E p \in Procs : i \in ChangedBy(p)
  BY Zenon DEF Changing
<1>2. i \in Changing' <=> \E p \in Procs : i \in ChangedBy(p)'
  BY Zenon DEF Changing
<1>. QED
  BY <1>1, <1>2

(* A look takes note of the last commit.                                   *)
LEMMA LookedIs ==
    ASSUME Typed, NEW p \in Procs, NEW l \in Lines
    PROVE  /\ line[p][l].n \in Nat /\ line[p][l].at \in 0 .. commits /\ commits \in Nat
           /\ Looked(p, l) \in [at : 0 .. commits, n : Nat]
           /\ Looked(p, l).at = commits /\ Looked(p, l).n \in Nat
           /\ line[p][l].n <= Looked(p, l).n
           /\ Looked(p, l).n = line[p][l].n => Looked(p, l) = line[p][l]
<1>1. line[p][l] \in [at : 0 .. commits, n : Nat] /\ commits \in Nat
  BY VectorFileAssumption DEF Typed
<1>2. line[p][l].n \in Nat /\ line[p][l].at \in 0 .. commits
  BY <1>1
<1>3. CASE line[p][l] = Unlooked
  BY <1>1, <1>3 DEF Looked, Unlooked, Fresh
<1>4. CASE line[p][l] # Unlooked /\ line[p][l].at # commits
  BY <1>1, <1>2, <1>4 DEF Looked
<1>5. CASE line[p][l] # Unlooked /\ line[p][l].at = commits
  <2>1. Looked(p, l) = line[p][l]
    BY <1>5 DEF Looked
  <2>. QED
    BY <1>1, <1>2, <1>5, <2>1
<1>. QED
  BY <1>1, <1>2, <1>3, <1>4, <1>5

(* A look changes what one connection of one process has seen.             *)
LEMMA LooksIs ==
    ASSUME Typed, NEW p \in Procs, NEW l \in Lines, Looks(p, l)
    PROVE  /\ line' \in [Procs -> [Lines -> [at : 0 .. commits, n : Nat]]]
           /\ line'[p][l] = Looked(p, l)
           /\ \A q \in Procs, m \in Lines : q # p \/ m # l => line'[q][m] = line[q][m]
<1>1. line \in [Procs -> [Lines -> [at : 0 .. commits, n : Nat]]]
  BY DEF Typed
<1>2. Looked(p, l) \in [at : 0 .. commits, n : Nat]
  BY LookedIs
<1>. QED
  BY <1>1, <1>2 DEF Looks

(* What a thread trusts, and a load still needs, stays as it was.          *)
LEMMA WatchesStay ==
    ASSUME NEW p \in Procs, NEW t \in Threads, Watches(p, t),
           line'[p][t] = line[p][t], version'[p][t] = version[p][t], UNCHANGED commits,
           <<p, t>> \in missed => <<p, t>> \in missed',
           handle'[p] # Shut /\ handle'[p].loaded =>
               handle[p] # Shut /\ handle[p].loaded /\ (ReadsOn(p) => ReadsOn(p)')
    PROVE  Watches(p, t)'
  BY DEF Watches

(* A load that nothing touches stays half done as it was.                  *)
LEMMA LoadsStay ==
    ASSUME NEW p \in Procs, Loads(p), handle'[p].step = "mapped" => handle'[p] = handle[p],
           \A t \in Threads : line'[p][t] = line[p][t], UNCHANGED commits,
           \A t \in Threads : <<p, t>> \in missed => <<p, t>> \in missed',
           handle[p].step = "mapped" => handle[p].on \in Threads,
           ReadsOn(p) /\ handle'[p] = handle[p] => ReadsOn(p)'
    PROVE  Loads(p)'
  BY DEF Loads

(* A batch begins as a copy of the table.                                  *)
LEMMA BeginKeeps ==
    ASSUME IInv, NEW p \in Procs, NEW t \in Threads, Begin(p, t)
    PROVE  IInv'
<1>1. /\ IsOpen(p) /\ txn = NoTxn /\ commits < MaxCommits
      /\ txn' = [by |-> p, on |-> t, draft |-> table, touched |-> {}, cleared |-> FALSE]
      /\ UNCHANGED <<table, file, handle, version, commits, spoiled, missed>>
  BY DEF Begin
<1>2. /\ txn'.by = p /\ txn'.on = t /\ Draft' = table /\ txn'.touched = {} /\ ~ txn'.cleared
      /\ txn'.draft = table /\ txn'.cleared = FALSE
  BY <1>1 DEF Draft
<1>3. Typed /\ Stepping /\ Writer \in Lines /\ Threads \subseteq Lines /\ Writer \notin Threads
  BY VectorFileAssumption DEF IInv, Lines
<1>4. /\ line' \in [Procs -> [Lines -> [at : 0 .. commits, n : Nat]]]
      /\ \A q \in Procs, m \in Threads : line'[q][m] = line[q][m]
  BY <1>3, LooksIs DEF Begin
<1>5. txn' # NoTxn /\ NoTxn.by \notin Procs /\ \A q \in Procs : txn.by # q
  BY <1>1, <1>2, <1>3, BatchIs
<1>6. Typed'
  <2>1. IsTxn'
    BY <1>1, <1>2, <1>3 DEF IsTxn, Typed
  <2>. QED
    BY <1>1, <1>3, <1>4, <2>1 DEF Typed
<1>7. Stepping'
  BY <1>1, <1>2, <1>3 DEF Stepping, StepFits, IsOpen
<1>8. \A q \in Procs : ChangedBy(q)' = ChangedBy(q)
  BY <1>1, <1>2, <1>5 DEF ChangedBy
<1>9. handle[p] # Shut /\ handle[p].todo = {} /\ ChangedBy(p) = {}
  BY <1>1, <1>3, <1>5 DEF Stepping, StepFits, IsOpen, ChangedBy, Shut
<1>10. Writing'
  <2>1. Diverges'
    BY <1>1, <1>2 DEF Diverges
  <2>. QED
    BY <1>1, <1>2, <2>1 DEF Writing
<1>11. Known'
  BY <1>1, <1>2, <1>8, <1>9 DEF IInv, Known, Knows
<1>12. MapPointsHome'
  BY <1>1, <1>2, <1>5 DEF IInv, MapPointsHome
<1>13. RowsMatchTable'
  <2>1. Changing' = Changing
    BY <1>8 DEF Changing
  <2>. QED
    BY <1>1, <1>2, <2>1 DEF IInv, RowsMatchTable
<1>14. NothingLeft' /\ HasFile'
  <2>1. Latest' = Latest
    BY <1>1, <1>2, <1>5 DEF Latest
  <2>2. \A q \in Procs : ToBlank(q)' = ToBlank(q)
    BY <1>1 DEF ToBlank
  <2>. QED
    BY <1>1, <1>2, <2>1, <2>2 DEF IInv, NothingLeft, HasFile, Owner
<1>15. \A q \in Procs : ReadsOn(q)' <=> ReadsOn(q)
  BY <1>1, <1>8 DEF ReadsOn
<1>16. Watching'
  BY <1>1, <1>4, <1>15, WatchesStay DEF IInv, Watching
<1>17. Loading'
  <2>1. ASSUME NEW q \in Procs
        PROVE  Loads(q)'
    BY <1>1, <1>3, <1>4, <1>15, MappedIs, LoadsStay DEF IInv, Loading
  <2>. QED
    BY <2>1 DEF Loading
<1>. QED
  BY <1>6, <1>7, <1>10, <1>11, <1>12, <1>13, <1>14, <1>16, <1>17 DEF IInv

(* A process that is gone knows nothing and is waited for by nobody.       *)
LEMMA GoneIs ==
    ASSUME IInv, NEW p \in Procs, Gone(p), handle[p] # Shut, table' = table, commits' = commits,
           (txn.by # p /\ txn' = txn) \/ (txn.by = p /\ txn' = NoTxn)
    PROVE  /\ handle'[p] = Shut /\ \A q \in Procs \ {p} : handle'[q] = handle[q]
           /\ handle' \in [Procs -> {Shut} \cup Handles]
           /\ \A q \in Procs : txn'.by # p /\ (q # p => (txn'.by = q <=> txn.by = q))
           /\ \A q \in Procs \ {p} : ChangedBy(q)' = ChangedBy(q) /\ ToBlank(q)' = ToBlank(q)
           /\ ChangedBy(p)' = {} /\ ToBlank(p)' = {}
           /\ line' \in [Procs -> [Lines -> [at : 0 .. commits', n : Nat]]]
           /\ version' \in [Procs -> [Threads -> Nat]]
           /\ missed' \subseteq Procs \X Threads
           /\ Stepping' /\ Known' /\ MapPointsHome' /\ Watching' /\ Loading'
<1>1. Typed /\ Stepping
  BY DEF IInv
<1>2. handle'[p] = Shut /\ \A q \in Procs \ {p} : handle'[q] = handle[q]
  BY <1>1 DEF Gone, Typed
<1>3. \A q \in Procs : txn'.by # p /\ (q # p => (txn'.by = q <=> txn.by = q))
  BY <1>1, BatchIs
<1>4. \A q \in Procs \ {p} : ChangedBy(q)' = ChangedBy(q) /\ ToBlank(q)' = ToBlank(q)
  <2>1. \A q \in Procs \ {p} : txn.by = q => txn' = txn
    BY <1>1, BatchIs
  <2>. QED
    BY <1>2, <1>3, <2>1 DEF ChangedBy, ToBlank
<1>5. ChangedBy(p)' = {} /\ ToBlank(p)' = {}
  BY <1>2, <1>3 DEF ChangedBy, ToBlank
<1>6. handle' \in [Procs -> {Shut} \cup Handles]
  BY <1>1 DEF Gone, Typed
<1>7. /\ line' \in [Procs -> [Lines -> [at : 0 .. commits', n : Nat]]]
      /\ \A t \in Threads : line'[p][t] = Unlooked
      /\ \A q \in Procs \ {p} : line'[q] = line[q]
  <2>1. [l \in Lines |-> Unlooked] \in [Lines -> [at : 0 .. commits, n : Nat]]
    BY <1>1, VectorFileAssumption DEF Unlooked, Typed
  <2>2. line \in [Procs -> [Lines -> [at : 0 .. commits, n : Nat]]]
    BY <1>1 DEF Typed
  <2>3. Threads \subseteq Lines
    BY DEF Lines
  <2>. QED
    BY <2>1, <2>2, <2>3 DEF Gone
<1>8. /\ version' \in [Procs -> [Threads -> Nat]]
      /\ \A t \in Threads : version'[p][t] = 0
      /\ \A q \in Procs \ {p} : version'[q] = version[q]
  BY <1>1 DEF Gone, Typed
<1>9. /\ missed' \subseteq Procs \X Threads
      /\ \A q \in Procs \ {p}, t \in Threads : <<q, t>> \in missed' <=> <<q, t>> \in missed
  BY <1>1 DEF Gone, Typed
<1>10. Stepping'
  BY <1>1, <1>2, <1>3 DEF Stepping, StepFits, Shut
<1>11. \A q \in Procs \ {p} : txn.by = q => txn' = txn
  BY <1>1, BatchIs
<1>12. Known'
  <2>1. ASSUME NEW q \in Procs, handle'[q] # Shut
        PROVE  /\ \A i \in DOMAIN handle'[q].map \ ChangedBy(q)' :
                     i \notin DOMAIN table'.held => i \notin table'.owners
               /\ txn'.by = q => \A i \in DOMAIN handle'[q].map \ DOMAIN Draft'.held :
                     i \notin Draft'.owners
    <3>1. q # p /\ handle'[q] = handle[q] /\ ChangedBy(q)' = ChangedBy(q)
      BY <1>2, <1>4, <2>1
    <3>2. txn'.by = q => txn.by = q /\ txn' = txn
      BY <1>3, <1>11, <3>1
    <3>. QED
      BY <2>1, <3>1, <3>2 DEF IInv, Known, Knows, Draft
  <2>. QED
    BY <2>1 DEF Known, Knows
<1>13. MapPointsHome'
  BY <1>2, <1>3, <1>11 DEF IInv, MapPointsHome, Draft
<1>14. \A q \in Procs \ {p} : ReadsOn(q)' <=> ReadsOn(q)
  BY <1>2, <1>4 DEF ReadsOn
<1>15. Watching'
  <2>1. ASSUME NEW q \in Procs, NEW t \in Threads
        PROVE  Watches(q, t)'
    <3>1. CASE q = p
      BY <1>2, <1>7, <1>8, <3>1 DEF Watches, Unlooked
    <3>2. CASE q # p
      BY <1>2, <1>7, <1>8, <1>9, <1>14, <3>2, WatchesStay DEF IInv, Watching
    <3>. QED
      BY <3>1, <3>2
  <2>. QED
    BY <2>1 DEF Watching
<1>16. Loading'
  <2>1. ASSUME NEW q \in Procs
        PROVE  Loads(q)'
    <3>1. CASE q = p
      BY <1>2, <3>1 DEF Loads, Shut
    <3>2. CASE q # p
      BY <1>1, <1>2, <1>7, <1>9, <1>14, <3>2, MappedIs, LoadsStay DEF IInv, Loading
    <3>. QED
      BY <3>1, <3>2
  <2>. QED
    BY <2>1 DEF Loading
<1>. QED
  BY <1>2, <1>3, <1>4, <1>5, <1>6, <1>7, <1>8, <1>9, <1>10, <1>12, <1>13, <1>15, <1>16

(* A process that is shut between two batches leaves the file as it is, and *)
(* so does one that dies, but for a repair it has not made.                *)
LEMMA LeavingKeeps ==
    ASSUME IInv, NEW p \in Procs, handle[p] # Shut, txn.by # p, Gone(p),
           UNCHANGED <<table, txn, file, commits>>,
           IF handle[p].step # "repairing" THEN spoiled' = spoiled
           ELSE spoiled' = spoiled \cup {s \in DOMAIN file : file[s] # RowOf(table, s) /\ ~InBatch(s)}
    PROVE  IInv'
<1>1. Typed /\ Stepping
  BY DEF IInv
<1>2. /\ handle'[p] = Shut /\ \A q \in Procs \ {p} : handle'[q] = handle[q]
      /\ \A q \in Procs \ {p} : ChangedBy(q)' = ChangedBy(q) /\ ToBlank(q)' = ToBlank(q)
      /\ ChangedBy(p)' = {} /\ ToBlank(p)' = {}
      /\ handle' \in [Procs -> {Shut} \cup Handles]
      /\ line' \in [Procs -> [Lines -> [at : 0 .. commits', n : Nat]]]
      /\ version' \in [Procs -> [Threads -> Nat]] /\ missed' \subseteq Procs \X Threads
      /\ Stepping' /\ Known' /\ MapPointsHome' /\ Watching' /\ Loading'
  <2>1. table' = table /\ commits' = commits /\ (txn.by # p /\ txn' = txn)
    OBVIOUS
  <2>. QED
    BY <2>1, GoneIs, ZenonT(40)
<1>3. spoiled \subseteq spoiled' /\ spoiled' \subseteq Slots
  <2>1. DOMAIN file \subseteq Slots
    BY <1>1 DEF Typed
  <2>. QED
    BY <1>1, <2>1 DEF Typed
<1>4. Typed'
  <2>1. IsTxn' <=> IsTxn
    BY DEF IsTxn, Draft
  <2>. QED
    BY <1>1, <1>2, <1>3, <2>1 DEF Typed
<1>5. txn # NoTxn => ~ txn.cleared /\ Diverges
  <2>1. txn # NoTxn => ~ Alone(txn.by)
    BY DEF Alone
  <2>. QED
    BY <1>1, <2>1 DEF IInv, Writing, Cleans, Typed, IsTxn
<1>6. txn # NoTxn => txn.by \in Procs /\ handle'[txn.by] = handle[txn.by]
  BY <1>1, <1>2, BatchIs
<1>7. Writing'
  <2>1. txn # NoTxn => Diverges'
    BY <1>5, <1>6 DEF Diverges, Draft
  <2>. QED
    BY <1>3, <1>5, <1>6, <2>1 DEF IInv, Writing, Draft
<1>8. HasFile'
  BY <1>2 DEF IInv, HasFile
<1>9. RowsMatchTable'
  <2>1. ASSUME NEW i \in DOMAIN table.held, file # NoFile, i \notin Changing'
        PROVE  table.held[i].slot \in spoiled' \/ file[table.held[i].slot] = table.held[i].vec
    <3>. DEFINE s == table.held[i].slot
    <3>1. CASE i \notin Changing
      BY <1>3, <1>5, <2>1, <3>1 DEF IInv, RowsMatchTable
    <3>2. CASE i \in Changing
      <4>1. i \in ChangedBy(p)
        BY <1>2, <2>1, <3>2, ChangingIs
      <4>2. handle[p].step = "repairing"
        BY <1>1, <4>1 DEF ChangedBy, Stepping, StepFits
      <4>3. s \in DOMAIN file /\ RowOf(table, s) = table.held[i].vec
        BY <1>1, <2>1, FileIs, RowOfOwner, TableTypes DEF Typed
      <4>4. ~ InBatch(s)
        <5>1. SUFFICES ASSUME txn # NoTxn
                       PROVE  RowOf(Draft, s) = RowOf(table, s)
          BY DEF InBatch, Draft
        <5>2. i \notin txn.touched
          BY <1>1, <1>2, <2>1, <5>1, BatchIs, ChangingIs DEF ChangedBy
        <5>3. i \in DOMAIN Draft.held /\ Draft.held[i] = table.held[i]
          BY <1>1, <1>5, <5>1, <5>2, TableTypes DEF Diverges, Typed
        <5>. QED
          BY <1>1, <4>3, <5>1, <5>3, RowOfOwner DEF Typed, IsTxn
      <4>. QED
        BY <4>2, <4>3, <4>4
    <3>. QED
      BY <3>1, <3>2
  <2>. QED
    BY <2>1 DEF RowsMatchTable
<1>10. NothingLeft'
  <2>1. ASSUME NEW s \in DOMAIN file \ spoiled', Owner(Latest, s) = {}
        PROVE  \/ file[s] = Blank
               \/ Owner(table, s) = {} /\ \E q \in Procs : s \in ToBlank(q)'
    <3>1. CASE \E q \in Procs : q # p /\ Owner(table, s) = {} /\ s \in ToBlank(q)
      BY <1>2, <3>1
    <3>2. CASE file[s] = Blank
      BY <3>2
    <3>3. CASE Owner(table, s) = {} /\ s \in ToBlank(p)
      <4>1. handle[p].step = "repairing"
        BY <1>1, <3>3 DEF ToBlank, Stepping, StepFits
      <4>2. RowOf(table, s) = Blank /\ RowOf(Latest, s) = Blank
        BY <2>1, <3>3, OwnerOfRow
      <4>3. ~ InBatch(s)
        BY <4>2 DEF InBatch, Latest, Draft
      <4>. QED
        BY <2>1, <4>1, <4>2, <4>3
    <3>. QED
      BY <1>3, <2>1, <3>1, <3>2, <3>3 DEF IInv, NothingLeft
  <2>2. Latest' = Latest
    BY DEF Latest, Draft
  <2>. QED
    BY <2>1, <2>2 DEF NothingLeft, Owner
<1>. QED
  BY <1>2, <1>4, <1>7, <1>8, <1>9, <1>10 DEF IInv

(* A process that closes the store leaves nothing behind.                  *)
LEMMA CloseKeeps ==
    ASSUME IInv, NEW p \in Procs, Close(p)
    PROVE  IInv'
<1>1. handle[p] # Shut /\ handle[p].step # "repairing"
  BY DEF Close, IsOpen, Shut
<1>. QED
  BY <1>1, LeavingKeeps DEF Close

(* One that dies leaves the rows of its batch wrong at most.               *)
LEMMA CrashKeeps ==
    ASSUME IInv, NEW p \in Procs, Crash(p)
    PROVE  IInv'
<1>1. CASE txn.by # p
  BY <1>1, LeavingKeeps DEF Crash
<1>2. CASE txn.by = p
  <2>1. /\ handle[p] # Shut /\ Gone(p) /\ txn' = NoTxn
        /\ spoiled' = {s \in DOMAIN file : file[s] # RowOf(table, s)}
        /\ UNCHANGED <<table, file, commits>>
    BY <1>2 DEF Crash
  <2>2. Typed /\ Stepping
    BY DEF IInv
  <2>3. /\ handle'[p] = Shut /\ \A q \in Procs \ {p} : handle'[q] = handle[q]
        /\ Stepping' /\ Known' /\ MapPointsHome' /\ Watching' /\ Loading'
    BY <1>2, <2>1, GoneIs
  <2>4. Typed'
    <3>1. DOMAIN file \subseteq Slots
      BY <2>2 DEF Typed
    <3>2. /\ handle' \in [Procs -> {Shut} \cup Handles]
          /\ line' \in [Procs -> [Lines -> [at : 0 .. commits', n : Nat]]]
          /\ version' \in [Procs -> [Threads -> Nat]] /\ missed' \subseteq Procs \X Threads
      BY <1>2, <2>1, GoneIs
    <3>. QED
      BY <2>1, <2>2, <3>1, <3>2 DEF Typed
  <2>5. Writing'
    BY <2>1 DEF Writing
  <2>6. HasFile'
    <3>1. CASE txn.cleared
      <4>1. Alone(p)
        BY <1>2, <2>2, <3>1, BatchIs DEF IInv, Writing, Cleans
      <4>. QED
        BY <2>3, <4>1 DEF HasFile, Alone
    <3>2. CASE ~ txn.cleared
      BY <2>1, <2>3, <3>2 DEF IInv, HasFile
    <3>. QED
      BY <3>1, <3>2
  <2>7. RowsMatchTable'
    <3>1. ASSUME NEW i \in DOMAIN table.held, file # NoFile
          PROVE  table.held[i].slot \in spoiled' \/ file[table.held[i].slot] = table.held[i].vec
      BY <2>1, <2>2, <3>1, FileIs, RowOfOwner, TableTypes DEF Typed
    <3>. QED
      BY <2>1, <3>1 DEF RowsMatchTable
  <2>8. NothingLeft'
    <3>1. Latest' = table /\ \A s : Owner(table, s) = {} => RowOf(table, s) = Blank
      BY <2>1, OwnerOfRow DEF Latest
    <3>. QED
      BY <2>1, <3>1 DEF NothingLeft
  <2>. QED
    BY <2>3, <2>4, <2>5, <2>6, <2>7, <2>8 DEF IInv
<1>. QED
  BY <1>1, <1>2

(* What one process maps is where the map says.                            *)
Homes(p) ==
    handle[p] # Shut =>
        LET t == IF txn.by = p THEN Draft ELSE table
        IN  \A i \in (DOMAIN handle[p].map \cap DOMAIN t.held) \ handle[p].todo :
                handle[p].map[i] = t.held[i].slot

(* The maps point home when each process's does.                           *)
LEMMA HomesAre ==
    /\ MapPointsHome <=> \A p \in Procs : Homes(p)
    /\ MapPointsHome' <=> \A p \in Procs : Homes(p)'
<1>1. MapPointsHome <=> \A p \in Procs : Homes(p)
  BY DEF MapPointsHome, Homes
<1>2. MapPointsHome' <=> \A p \in Procs : Homes(p)'
  BY DEF MapPointsHome, Homes
<1>. QED
  BY <1>1, <1>2

(* A step of one process outside the database leaves what the others know  *)
(* as it was.                                                              *)
LEMMA OthersStay ==
    ASSUME IInv, NEW p \in Procs, NEW h \in Handles, handle' = [handle EXCEPT ![p] = h],
           table' = table, txn' = txn, commits' = commits
    PROVE  /\ handle'[p] = h /\ h # Shut /\ \A q \in Procs \ {p} : handle'[q] = handle[q]
           /\ handle' \in [Procs -> {Shut} \cup Handles]
           /\ Latest' = Latest /\ Draft' = Draft /\ (IsTxn' <=> IsTxn)
           /\ \A s : Owner(Latest, s)' = Owner(Latest, s) /\ Owner(table, s)' = Owner(table, s)
           /\ \A q \in Procs \ {p} : ChangedBy(q)' = ChangedBy(q) /\ ToBlank(q)' = ToBlank(q)
           /\ \A q \in Procs \ {p} : ReadsOn(q)' <=> ReadsOn(q)
           /\ StepFits(p)' => Stepping'
           /\ Knows(p)' => Known'
           /\ Homes(p)' => MapPointsHome'
           /\ txn = NoTxn \/ txn.by = p \/ handle[p] = Shut
                 \/ (~ txn.cleared /\ Diverges /\ Diverges')
<1>1. Typed /\ Stepping
  BY DEF IInv
<1>2. handle'[p] = h /\ h # Shut /\ \A q \in Procs \ {p} : handle'[q] = handle[q]
  <2>1. Shut \notin Handles
    BY DEF Handles, Shut, Steps
  <2>. QED
    BY <1>1, <2>1 DEF Typed
<1>3. handle' \in [Procs -> {Shut} \cup Handles]
  BY <1>1 DEF Typed
<1>4. Latest' = Latest /\ Draft' = Draft /\ (IsTxn' <=> IsTxn)
  BY DEF Latest, Draft, IsTxn
<1>5. \A s : Owner(Latest, s)' = Owner(Latest, s) /\ Owner(table, s)' = Owner(table, s)
  BY <1>4 DEF Owner
<1>6. \A q \in Procs \ {p} : ChangedBy(q)' = ChangedBy(q) /\ ToBlank(q)' = ToBlank(q)
  BY <1>2 DEF ChangedBy, ToBlank
<1>7. \A q \in Procs \ {p} : ReadsOn(q)' <=> ReadsOn(q)
  BY <1>2, <1>6 DEF ReadsOn
<1>8. StepFits(p)' => Stepping'
  BY <1>1, <1>2 DEF Stepping, StepFits
<1>9. Knows(p)' => Known'
  <2>1. \A q \in Procs \ {p} : Knows(q)'
    BY <1>2, <1>4, <1>6 DEF IInv, Known, Knows
  <2>. QED
    BY <2>1 DEF Known
<1>10. Homes(p)' => MapPointsHome'
  <2>1. \A q \in Procs \ {p} : Homes(q)'
    BY <1>2, <1>4, HomesAre DEF IInv, Homes
  <2>. QED
    BY <2>1, HomesAre
<1>11. txn = NoTxn \/ txn.by = p \/ handle[p] = Shut
          \/ (~ txn.cleared /\ Diverges /\ Diverges')
  <2>1. SUFFICES ASSUME txn # NoTxn, txn.by # p, handle[p] # Shut
                 PROVE  ~ txn.cleared /\ Diverges /\ Diverges'
    OBVIOUS
  <2>2. ~ Alone(txn.by) /\ txn.by \in Procs
    BY <1>1, <2>1, BatchIs DEF Alone
  <2>3. ~ txn.cleared /\ Diverges
    BY <1>1, <2>1, <2>2, BatchIs DEF IInv, Writing, Cleans, IsTxn
  <2>4. handle'[txn.by] = handle[txn.by]
    BY <1>2, <2>1, <2>2
  <2>. QED
    BY <2>3, <2>4, <1>4 DEF Diverges
<1>. QED
  BY <1>2, <1>3, <1>4, <1>5, <1>6, <1>7, <1>8, <1>9, <1>10, <1>11

(* A store that opens knows nothing yet.                                   *)
LEMMA OpenKeeps ==
    ASSUME IInv, NEW p \in Procs, Open(p)
    PROVE  IInv'
<1>. DEFINE filling == [Attached EXCEPT !.step = "filling"]
<1>1. Typed /\ Stepping
  BY DEF IInv
<1>2. /\ handle[p] = Shut /\ txn.by # p /\ (txn # NoTxn => ~ txn.cleared)
      /\ table' = table /\ txn' = txn /\ commits' = commits /\ version' = version /\ missed' = missed
      /\ Looks(p, Writer)
  BY <1>1, BatchIs DEF Open
<1>3. /\ filling \in Handles /\ filling.step = "filling" /\ filling.attached /\ ~ filling.loaded
      /\ DOMAIN filling.map = {} /\ filling.todo = {}
  BY OpenedIs DEF Handles, Steps
<1>. HIDE DEF filling
<1>4. PICK h \in Handles :
         /\ handle' = [handle EXCEPT ![p] = h]
         /\ ~ h.loaded /\ DOMAIN h.map = {} /\ h.todo = {} /\ h.step \in {"open", "filling"}
         /\ h.step = "filling" => h.attached
         /\ \/ UNCHANGED <<file, spoiled>> /\ (DOMAIN table.held = {} \/ file # NoFile)
            \/ /\ file = NoFile /\ file' = Empty /\ DOMAIN table.held # {}
               /\ spoiled' = {s \in Slots : RowOf(table, s) # Blank}
  BY <1>3, OpenedIs DEF Open, filling
<1>5. /\ handle'[p] = h /\ h # Shut /\ \A q \in Procs \ {p} : handle'[q] = handle[q]
      /\ handle' \in [Procs -> {Shut} \cup Handles]
      /\ Latest' = Latest /\ Draft' = Draft /\ (IsTxn' <=> IsTxn)
      /\ \A s : Owner(Latest, s)' = Owner(Latest, s) /\ Owner(table, s)' = Owner(table, s)
      /\ \A q \in Procs \ {p} : ChangedBy(q)' = ChangedBy(q) /\ ToBlank(q)' = ToBlank(q)
      /\ \A q \in Procs \ {p} : ReadsOn(q)' <=> ReadsOn(q)
      /\ StepFits(p)' => Stepping'
      /\ Knows(p)' => Known'
      /\ Homes(p)' => MapPointsHome'
  BY <1>2, <1>4, OthersStay
<1>6. /\ line' \in [Procs -> [Lines -> [at : 0 .. commits, n : Nat]]]
      /\ \A q \in Procs, m \in Threads : line'[q][m] = line[q][m]
  <2>1. Writer \in Lines /\ Threads \subseteq Lines /\ Writer \notin Threads
    BY VectorFileAssumption DEF Lines
  <2>. QED
    BY <1>1, <1>2, <2>1, LooksIs
<1>7. ChangedBy(p)' = {} /\ ChangedBy(p) = {} /\ ToBlank(p)' = {} /\ ToBlank(p) = {}
  BY <1>2, <1>4, <1>5 DEF ChangedBy, ToBlank
<1>8. \/ file' = file /\ spoiled' = spoiled /\ (DOMAIN table.held = {} \/ file # NoFile)
      \/ /\ file = NoFile /\ DOMAIN file' = Slots /\ \A s \in Slots : file'[s] = Blank
         /\ spoiled' = {s \in Slots : RowOf(table, s) # Blank} /\ file' # NoFile
  <2>1. DOMAIN table.held # {} => Slots # {}
    BY <1>1, TableTypes DEF Typed
  <2>. QED
    BY <1>4, <2>1 DEF Empty, NoFile
<1>9. Typed'
  <2>1. file' \in [DOMAIN file' -> Vectors \cup {Blank}] /\ DOMAIN file' \in {{}, Slots}
    BY <1>1, <1>4 DEF Typed, Empty
  <2>2. spoiled' \subseteq Slots
    BY <1>1, <1>8 DEF Typed
  <2>. QED
    BY <1>1, <1>2, <1>5, <1>6, <2>1, <2>2 DEF Typed
<1>10. Stepping' /\ Known' /\ MapPointsHome'
  BY <1>2, <1>4, <1>5 DEF StepFits, Knows, Homes
<1>11. txn # NoTxn => txn.by \in Procs /\ handle'[txn.by] = handle[txn.by]
  BY <1>1, <1>2, <1>5, BatchIs
<1>12. Writing'
  <2>1. txn # NoTxn => Diverges'
    BY <1>2, <1>5, <1>11 DEF IInv, Writing, Diverges
  <2>2. ASSUME txn # NoTxn, NEW i \in txn.touched \cap DOMAIN Draft.held
        PROVE  file' = file /\ spoiled' = spoiled /\ file # NoFile
    BY <1>8, <2>2 DEF IInv, Writing
  <2>. QED
    BY <1>2, <1>5, <1>11, <2>1, <2>2 DEF IInv, Writing
<1>13. HasFile'
  <2>1. file' # NoFile \/ DOMAIN table.held = {}
    BY <1>8
  <2>. QED
    BY <1>2, <2>1 DEF HasFile
<1>14. RowsMatchTable'
  <2>1. \A i : i \in Changing' <=> i \in Changing
    BY <1>5, <1>7, ChangingIs
  <2>2. CASE file' = file /\ spoiled' = spoiled
    BY <1>2, <2>1, <2>2 DEF IInv, RowsMatchTable
  <2>3. CASE ~ (file' = file /\ spoiled' = spoiled)
    <3>1. \A i \in DOMAIN table.held :
             /\ table.held[i].slot \in Slots
             /\ RowOf(table, table.held[i].slot) = table.held[i].vec
      BY <1>1, RowOfOwner, TableTypes DEF Typed
    <3>. QED
      BY <1>2, <1>8, <2>3, <3>1 DEF RowsMatchTable
  <2>. QED
    BY <2>2, <2>3
<1>15. NothingLeft'
  <2>1. CASE file' = file /\ spoiled' = spoiled
    BY <1>5, <1>7, <2>1 DEF IInv, NothingLeft
  <2>2. CASE ~ (file' = file /\ spoiled' = spoiled)
    BY <1>8, <2>2 DEF NothingLeft
  <2>. QED
    BY <2>1, <2>2
<1>16. Watching'
  <2>1. ASSUME NEW q \in Procs, NEW t \in Threads
        PROVE  Watches(q, t)'
    BY <1>2, <1>4, <1>5, <1>6, WatchesStay DEF IInv, Watching
  <2>. QED
    BY <2>1 DEF Watching
<1>17. Loading'
  <2>1. ASSUME NEW q \in Procs
        PROVE  Loads(q)'
    <3>1. CASE q = p
      BY <1>4, <1>5, <3>1 DEF Loads
    <3>2. CASE q # p
      BY <1>1, <1>2, <1>5, <1>6, <3>2, MappedIs, LoadsStay DEF IInv, Loading
    <3>. QED
      BY <3>1, <3>2
  <2>. QED
    BY <2>1 DEF Loading
<1>. QED
  BY <1>9, <1>10, <1>12, <1>13, <1>14, <1>15, <1>16, <1>17 DEF IInv

(* A file filled from the database has every row it holds.                 *)
LEMMA FillKeeps ==
    ASSUME IInv, NEW p \in Procs, Fill(p)
    PROVE  IInv'
<1>. DEFINE map  == [i \in DOMAIN table.held |-> table.held[i].slot]
            rows == Range(map)
<1>1. Typed /\ Stepping
  BY DEF IInv
<1>2. /\ handle[p].step = "filling"
      /\ table' = table /\ txn' = txn /\ commits' = commits /\ version' = version /\ missed' = missed
      /\ line' = line
      /\ file' = [s \in DOMAIN file |-> IF s \in rows THEN RowOf(table, s) ELSE file[s]]
      /\ spoiled' = (spoiled \ rows) \cup {s \in rows : InBatch(s)}
  BY DEF Fill
<1>3. handle' = [handle EXCEPT ![p].map = map, ![p].step = "filled"]
  BY DEF Fill
<1>4. PICK g, h : /\ g = [handle[p] EXCEPT !.map = map] /\ h = [g EXCEPT !.step = "filled"]
                 /\ handle' = [handle EXCEPT ![p] = h]
  BY <1>3, Zenon
<1>5. \A i \in DOMAIN table.held : table.held[i].slot \in Slots
  BY <1>1, TableTypes DEF Typed
<1>6. map \in Maps /\ DOMAIN map = DOMAIN table.held
  <2>1. DOMAIN table.held \subseteq Ids
    BY <1>1, TableTypes DEF Typed
  <2>. QED
    BY <2>1, <1>5, MapOf
<1>7. rows = Used(table) /\ rows \subseteq Slots
  BY <1>5 DEF Range, Used
<1>8. handle[p] \in Handles /\ txn.by # p /\ handle[p].attached /\ ~ handle[p].loaded /\ handle[p].todo = {}
  BY <1>1, <1>2, HandleIs DEF Stepping, StepFits, Steps
<1>9. \A i \in DOMAIN map : map[i] = table.held[i].slot
  OBVIOUS
<1>. HIDE DEF map, rows
<1>10. /\ h \in Handles /\ h.step = "filled" /\ h.map = map
       /\ h.attached = handle[p].attached /\ h.loaded = handle[p].loaded /\ h.todo = handle[p].todo
  <2>1. /\ g \in Handles /\ g.map = map
        /\ g.attached = handle[p].attached /\ g.loaded = handle[p].loaded /\ g.todo = handle[p].todo
    BY <1>4, <1>6, <1>8 DEF Handles
  <2>. QED
    BY <1>4, <2>1 DEF Handles, Steps
<1>11. /\ handle'[p] = h /\ h # Shut /\ \A q \in Procs \ {p} : handle'[q] = handle[q]
       /\ handle' \in [Procs -> {Shut} \cup Handles]
       /\ Latest' = Latest /\ Draft' = Draft /\ (IsTxn' <=> IsTxn)
       /\ \A s : Owner(Latest, s)' = Owner(Latest, s) /\ Owner(table, s)' = Owner(table, s)
       /\ \A q \in Procs \ {p} : ChangedBy(q)' = ChangedBy(q) /\ ToBlank(q)' = ToBlank(q)
       /\ \A q \in Procs \ {p} : ReadsOn(q)' <=> ReadsOn(q)
       /\ StepFits(p)' => Stepping'
       /\ Knows(p)' => Known'
       /\ Homes(p)' => MapPointsHome'
       /\ handle[p] # Shut
       /\ txn = NoTxn \/ (~ txn.cleared /\ Diverges /\ Diverges')
  <2>1. handle[p] # Shut
    BY <1>1, <1>8, HandleIs
  <2>. QED
    BY <1>2, <1>4, <1>8, <1>10, <2>1, OthersStay
<1>12. ChangedBy(p)' = {} /\ ChangedBy(p) = {} /\ ToBlank(p)' = {} /\ ToBlank(p) = {}
  BY <1>2, <1>8, <1>10, <1>11 DEF ChangedBy, ToBlank
<1>13. /\ DOMAIN file' = DOMAIN file /\ (file' = NoFile <=> file = NoFile)
       /\ \A s \in rows \cap DOMAIN file : file'[s] = RowOf(table, s) /\ (s \in spoiled' <=> InBatch(s))
       /\ \A s \in DOMAIN file \ rows : file'[s] = file[s] /\ (s \in spoiled' <=> s \in spoiled)
  <2>1. DOMAIN file' = DOMAIN file
    BY <1>2
  <2>2. file' = NoFile <=> DOMAIN file' = {}
    BY <1>2 DEF NoFile
  <2>. QED
    BY <1>1, <1>2, <2>1, <2>2, FileIs
<1>14. Typed'
  <2>1. file' \in [DOMAIN file' -> Vectors \cup {Blank}] /\ DOMAIN file' \in {{}, Slots}
    <3>1. \A s \in DOMAIN file : RowOf(table, s) \in Vectors \cup {Blank}
      BY <1>1, RowTypes DEF Typed
    <3>. QED
      BY <1>1, <1>2, <1>13, <3>1 DEF Typed
  <2>2. spoiled' \subseteq Slots
    BY <1>1, <1>2, <1>7 DEF Typed
  <2>. QED
    BY <1>1, <1>2, <1>11, <2>1, <2>2 DEF Typed
<1>15. Stepping' /\ Known' /\ MapPointsHome'
  <2>1. StepFits(p)'
    BY <1>2, <1>8, <1>10, <1>11 DEF StepFits
  <2>2. Knows(p)' /\ Homes(p)'
    BY <1>2, <1>6, <1>8, <1>9, <1>10, <1>11 DEF Knows, Homes
  <2>. QED
    BY <2>1, <2>2, <1>11
<1>16. txn # NoTxn => txn.by \in Procs /\ handle'[txn.by] = handle[txn.by] /\ Good(Draft)
  BY <1>1, <1>8, <1>11, BatchIs DEF IsTxn
<1>17. Writing'
  <2>1. ASSUME txn # NoTxn, NEW i \in txn.touched \cap DOMAIN Draft.held
        PROVE  LET s == Draft.held[i].slot
               IN  /\ i \in DOMAIN handle[txn.by].map /\ file' # NoFile
                   /\ s \in spoiled' \/ file'[s] = Draft.held[i].vec
    <3>. DEFINE s == Draft.held[i].slot
    <3>1. i \in DOMAIN handle[txn.by].map /\ file # NoFile /\ (s \in spoiled \/ file[s] = Draft.held[i].vec)
      BY <2>1 DEF IInv, Writing
    <3>2. s \in DOMAIN file /\ RowOf(Draft, s) = Draft.held[i].vec
      BY <1>1, <1>16, <2>1, <3>1, FileIs, RowOfOwner, TableTypes
    <3>3. InBatch(s) \/ RowOf(table, s) = Draft.held[i].vec
      BY <2>1, <3>2 DEF InBatch, Draft
    <3>. QED
      BY <1>13, <3>1, <3>2, <3>3
  <2>. QED
    BY <1>2, <1>11, <1>16, <2>1 DEF IInv, Writing
<1>18. HasFile'
  BY <1>2, <1>11, <1>13 DEF IInv, HasFile
<1>19. RowsMatchTable'
  <2>1. ASSUME NEW i \in DOMAIN table.held, file # NoFile, i \notin Changing'
        PROVE  table.held[i].slot \in spoiled' \/ file'[table.held[i].slot] = table.held[i].vec
    <3>1. table.held[i].slot \in rows \cap DOMAIN file
      BY <1>1, <1>5, <1>7, <2>1, FileIs DEF Used
    <3>. QED
      BY <1>1, <1>13, <3>1, RowOfOwner DEF Typed
  <2>. QED
    BY <1>2, <1>13, <2>1 DEF RowsMatchTable
<1>20. NothingLeft'
  <2>1. ASSUME NEW s \in DOMAIN file \ spoiled', Owner(Latest, s) = {}
        PROVE  \/ file'[s] = Blank
               \/ Owner(table, s) = {} /\ \E q \in Procs : s \in ToBlank(q)'
    <3>1. CASE s \in rows
      <4>1. RowOf(Latest, s) = RowOf(table, s)
        BY <1>13, <2>1, <3>1, LatestRow
      <4>. QED
        BY <1>13, <2>1, <3>1, <4>1, OwnerOfRow
    <3>2. CASE s \notin rows
      <4>1. \A q \in Procs : ToBlank(q)' = ToBlank(q)
        BY <1>11, <1>12
      <4>. QED
        BY <1>13, <2>1, <3>2, <4>1 DEF IInv, NothingLeft
    <3>. QED
      BY <3>1, <3>2
  <2>. QED
    BY <1>11, <1>13, <2>1 DEF NothingLeft
<1>21. Watching'
  <2>1. ASSUME NEW q \in Procs, NEW t \in Threads
        PROVE  Watches(q, t)'
    BY <1>2, <1>8, <1>10, <1>11, WatchesStay DEF IInv, Watching
  <2>. QED
    BY <2>1 DEF Watching
<1>22. Loading'
  <2>1. ASSUME NEW q \in Procs
        PROVE  Loads(q)'
    <3>1. CASE q = p
      BY <1>10, <1>11, <3>1 DEF Loads
    <3>2. CASE q # p
      BY <1>1, <1>2, <1>11, <3>2, MappedIs, LoadsStay DEF IInv, Loading
    <3>. QED
      BY <3>1, <3>2
  <2>. QED
    BY <2>1 DEF Loading
<1>. QED
  BY <1>14, <1>15, <1>17, <1>18, <1>19, <1>20, <1>21, <1>22 DEF IInv

(* A map that has been folded has every vector above its watermarks.       *)
LEMMA FoldedIs ==
    ASSUME NEW t, Good(t), NEW h \in Handles
    PROVE  LET g == Folded(h, t)
           IN  /\ g \in Handles
               /\ g.step = h.step /\ g.attached = h.attached /\ g.loaded = h.loaded
               /\ g.on = h.on /\ g.todo = h.todo
               /\ \A i \in DOMAIN g.map :
                     \/ i \in DOMAIN h.map /\ g.map[i] = h.map[i]
                     \/ i \in DOMAIN t.held /\ g.map[i] = t.held[i].slot
               /\ \A i \in DOMAIN h.map : i \in DOMAIN g.map
               /\ \A i \in DOMAIN t.held :
                     i \in DOMAIN g.map \/ t.held[i].seq <= g.seen[Kind(i)]
               /\ \A i \in DOMAIN t.held :
                     i \in DOMAIN g.map \/ t.held[i].seq <= h.seen[Kind(i)]
<1>. DEFINE news == {i \in DOMAIN t.held : t.held[i].seq > h.seen[Kind(i)]}
            mine(k) == {j \in news : Kind(j) = k}
            ups  == [k \in Kinds |-> Max({h.seen[k]} \cup {t.held[i].seq : i \in mine(k)})]
            map  == Learnt(h.map, [i \in news |-> t.held[i].slot])
            f    == [h EXCEPT !.map = map]
            g    == [f EXCEPT !.seen = ups]
<1>1. Folded(h, t) = g
  BY Zenon DEF Folded
<1>2. h.map \in Maps /\ h.seen \in [Kinds -> Nat]
  BY DEF Handles
<1>3. ups \in [Kinds -> Nat] /\ \A k \in Kinds : h.seen[k] <= ups[k]
  <2>1. ASSUME NEW k \in Kinds
        PROVE  LET m == Max({h.seen[k]} \cup {t.held[i].seq : i \in mine(k)})
               IN  m \in Nat /\ h.seen[k] <= m
    <3>1. mine(k) \subseteq DOMAIN t.held /\ h.seen[k] \in Nat
      BY <1>2
    <3>. HIDE DEF mine
    <3>. QED
      BY <3>1, HighestOf
  <2>. HIDE DEF mine
  <2>. QED
    BY <2>1
<1>4. map = [i \in news \cup DOMAIN h.map |-> IF i \in news THEN t.held[i].slot ELSE h.map[i]]
  BY DEF Learnt
<1>5. /\ DOMAIN map = news \cup DOMAIN h.map
      /\ \A i \in news : map[i] = t.held[i].slot
      /\ \A i \in DOMAIN h.map \ news : map[i] = h.map[i]
  BY <1>4
<1>6. \A i \in DOMAIN t.held :
         /\ i \in Ids /\ t.held[i].slot \in Slots /\ t.held[i].seq \in Nat /\ Kind(i) \in Kinds
         /\ i \in news \/ t.held[i].seq <= h.seen[Kind(i)]
  BY <1>2, TableTypes DEF Kind, Kinds
<1>7. map \in Maps
  <2>1. DOMAIN map \subseteq Ids /\ \A i \in DOMAIN map : map[i] \in Slots
    BY <1>2, <1>5, <1>6, MapIs
  <2>2. map = [i \in DOMAIN map |-> map[i]]
    BY <1>4
  <2>. HIDE DEF map
  <2>. QED
    BY <2>1, <2>2, MapOf
<1>8. news \subseteq DOMAIN t.held
  OBVIOUS
<1>. HIDE DEF news, ups, map
<1>9. /\ f \in Handles /\ f.map = map
      /\ f.step = h.step /\ f.attached = h.attached /\ f.loaded = h.loaded
      /\ f.on = h.on /\ f.todo = h.todo
  BY <1>7 DEF Handles
<1>. HIDE DEF f
<1>10. /\ g \in Handles /\ g.map = map /\ g.seen = ups
       /\ g.step = h.step /\ g.attached = h.attached /\ g.loaded = h.loaded
       /\ g.on = h.on /\ g.todo = h.todo
  BY <1>3, <1>9 DEF Handles
<1>. HIDE DEF g
<1>11. \A i \in DOMAIN t.held : i \in DOMAIN map \/ t.held[i].seq <= ups[Kind(i)]
  <2>1. ASSUME NEW i \in DOMAIN t.held, i \notin news
        PROVE  t.held[i].seq <= ups[Kind(i)]
    <3>1. /\ t.held[i].seq \in Nat /\ h.seen[Kind(i)] \in Nat /\ ups[Kind(i)] \in Nat
          /\ t.held[i].seq <= h.seen[Kind(i)] /\ h.seen[Kind(i)] <= ups[Kind(i)]
      BY <1>2, <1>3, <1>6, <2>1
    <3>. QED
      BY <3>1
  <2>. QED
    BY <1>5, <2>1
<1>12. \A i \in DOMAIN map :
          \/ i \in DOMAIN h.map /\ map[i] = h.map[i]
          \/ i \in DOMAIN t.held /\ map[i] = t.held[i].slot
  BY <1>5, <1>8
<1>13. \A i \in DOMAIN t.held : i \in DOMAIN map \/ t.held[i].seq <= h.seen[Kind(i)]
  BY <1>5, <1>6
<1>. QED
  BY <1>1, <1>5, <1>10, <1>11, <1>12, <1>13

(* The writer has its own connection.                                      *)
LEMMA LinesAre == Writer \in Lines /\ Threads \subseteq Lines /\ Writer \notin Threads
  BY VectorFileAssumption DEF Lines

(* A load reads the map.                                                   *)
LEMMA LoadKeeps ==
    ASSUME IInv, NEW p \in Procs, NEW t \in Threads, Load(p, t)
    PROVE  IInv'
<1>1. Typed /\ Stepping
  BY DEF IInv
<1>2. /\ IsOpen(p) /\ txn.by # p /\ ~ handle[p].loaded /\ Looks(p, t)
      /\ table' = table /\ txn' = txn /\ file' = file /\ version' = version
      /\ commits' = commits /\ spoiled' = spoiled /\ missed' = missed
  BY DEF Load
<1>3. PICK f, g, h : /\ f = [Folded(handle[p], table) EXCEPT !.attached = TRUE]
                     /\ g = [f EXCEPT !.step = "mapped"] /\ h = [g EXCEPT !.on = t]
                     /\ handle' = [handle EXCEPT ![p] = h]
  BY Zenon DEF Load
<1>4. handle[p] \in Handles /\ handle[p].todo = {} /\ handle[p] # Shut
  BY <1>1, <1>2, HandleIs DEF Stepping, StepFits, Steps, IsOpen
<1>. DEFINE F == Folded(handle[p], table)
<1>5. /\ F \in Handles /\ F.loaded = handle[p].loaded /\ F.todo = handle[p].todo
      /\ \A i \in DOMAIN F.map :
            \/ i \in DOMAIN handle[p].map /\ F.map[i] = handle[p].map[i]
            \/ i \in DOMAIN table.held /\ F.map[i] = table.held[i].slot
      /\ \A i \in DOMAIN table.held :
            i \in DOMAIN F.map \/ table.held[i].seq <= F.seen[Kind(i)]
  <2>1. Good(table)
    BY <1>1 DEF Typed
  <2>. QED
    BY <1>4, <2>1, FoldedIs, ZenonT(40)
<1>6. f = [F EXCEPT !.attached = TRUE]
  BY <1>3
<1>. HIDE DEF F
<1>7. /\ h \in Handles /\ h.step = "mapped" /\ h.on = t /\ h.attached = TRUE
      /\ h.loaded = F.loaded /\ h.todo = F.todo /\ h.map = F.map /\ h.seen = F.seen
  <2>1. /\ f \in Handles /\ f.attached = TRUE
        /\ f.loaded = F.loaded /\ f.todo = F.todo /\ f.map = F.map /\ f.seen = F.seen
    BY <1>5, <1>6 DEF Handles
  <2>2. /\ g \in Handles /\ g.step = "mapped" /\ g.attached = TRUE
        /\ g.loaded = F.loaded /\ g.todo = F.todo /\ g.map = F.map /\ g.seen = F.seen
    BY <1>3, <2>1 DEF Handles, Steps
  <2>. QED
    BY <1>3, <2>2 DEF Handles
<1>8. /\ handle'[p] = h /\ h # Shut /\ \A q \in Procs \ {p} : handle'[q] = handle[q]
      /\ handle' \in [Procs -> {Shut} \cup Handles]
      /\ Latest' = Latest /\ Draft' = Draft /\ (IsTxn' <=> IsTxn)
      /\ \A s : Owner(Latest, s)' = Owner(Latest, s) /\ Owner(table, s)' = Owner(table, s)
      /\ \A q \in Procs \ {p} : ChangedBy(q)' = ChangedBy(q) /\ ToBlank(q)' = ToBlank(q)
      /\ \A q \in Procs \ {p} : ReadsOn(q)' <=> ReadsOn(q)
      /\ StepFits(p)' => Stepping'
      /\ Knows(p)' => Known'
      /\ Homes(p)' => MapPointsHome'
      /\ txn = NoTxn \/ (~ txn.cleared /\ Diverges /\ Diverges')
  BY <1>2, <1>3, <1>4, <1>7, OthersStay
<1>9. ChangedBy(p)' = {} /\ ChangedBy(p) = {} /\ ToBlank(p)' = {} /\ ToBlank(p) = {}
  BY <1>2, <1>4, <1>5, <1>7, <1>8 DEF ChangedBy, ToBlank
<1>10. /\ line' \in [Procs -> [Lines -> [at : 0 .. commits, n : Nat]]]
       /\ line'[p][t] = Looked(p, t)
       /\ \A q \in Procs, m \in Threads : q # p \/ m # t => line'[q][m] = line[q][m]
  BY <1>1, <1>2, LinesAre, LooksIs
<1>11. Typed'
  BY <1>1, <1>2, <1>8, <1>10 DEF Typed
<1>12. Stepping' /\ Known' /\ MapPointsHome'
  <2>1. StepFits(p)'
    BY <1>2, <1>4, <1>5, <1>7, <1>8 DEF StepFits
  <2>2. Knows(p)'
    BY <1>2, <1>4, <1>5, <1>7, <1>8, <1>9 DEF IInv, Known, Knows
  <2>3. Homes(p)'
    <3>1. \A i \in DOMAIN handle[p].map \cap DOMAIN table.held : handle[p].map[i] = table.held[i].slot
      BY <1>2, <1>4 DEF IInv, MapPointsHome
    <3>. QED
      BY <1>2, <1>5, <1>7, <1>8, <3>1 DEF Homes
  <2>. QED
    BY <1>8, <2>1, <2>2, <2>3
<1>13. txn # NoTxn => txn.by \in Procs /\ handle'[txn.by] = handle[txn.by]
  BY <1>1, <1>2, <1>8, BatchIs
<1>14. Writing'
  BY <1>2, <1>8, <1>13 DEF IInv, Writing
<1>15. HasFile'
  BY <1>2, <1>4 DEF IInv, HasFile
<1>16. RowsMatchTable' /\ NothingLeft'
  <2>1. \A i : i \in Changing' <=> i \in Changing
    BY <1>8, <1>9, ChangingIs
  <2>. QED
    BY <1>2, <1>8, <1>9, <2>1 DEF IInv, RowsMatchTable, NothingLeft
<1>17. Watching'
  <2>1. ASSUME NEW q \in Procs, NEW m \in Threads
        PROVE  Watches(q, m)'
    <3>1. CASE q = p /\ m = t
      <4>1. /\ line[p][t].n \in Nat /\ Looked(p, t).n \in Nat /\ version[p][t] \in Nat
            /\ line[p][t].n <= Looked(p, t).n
            /\ Looked(p, t).n = line[p][t].n => Looked(p, t) = line[p][t]
        BY <1>1, LinesAre, LookedIs DEF Typed
      <4>2. /\ line[p][t].n = 0 => line[p][t].at = 0
            /\ <<p, t>> \notin missed => version[p][t] <= line[p][t].n
        BY DEF IInv, Watching, Watches
      <4>3. Looked(p, t).n = 0 => Looked(p, t).at = 0
        BY <4>1, <4>2
      <4>4. <<p, t>> \notin missed => version[p][t] <= Looked(p, t).n
        BY <4>1, <4>2
      <4>. QED
        BY <1>2, <1>5, <1>7, <1>8, <1>10, <3>1, <4>3, <4>4 DEF Watches
    <3>2. CASE q # p \/ m # t
      BY <1>2, <1>5, <1>7, <1>8, <1>10, <3>2, WatchesStay DEF IInv, Watching
    <3>. QED
      BY <3>1, <3>2
  <2>. QED
    BY <2>1 DEF Watching
<1>18. Loading'
  <2>1. ASSUME NEW q \in Procs
        PROVE  Loads(q)'
    <3>1. CASE q = p
      <4>1. ReadsOn(p)'
        BY <1>2, <1>5, <1>7, <1>8 DEF ReadsOn
      <4>. QED
        BY <3>1, <4>1 DEF Loads
    <3>2. CASE q # p
      BY <1>1, <1>2, <1>8, <1>10, <3>2, MappedIs, LoadsStay DEF IInv, Loading
    <3>. QED
      BY <3>1, <3>2
  <2>. QED
    BY <2>1 DEF Loading
<1>. QED
  BY <1>11, <1>12, <1>14, <1>15, <1>16, <1>17, <1>18 DEF IInv

(* What was loaded is trusted from the version the load ends with.         *)
LEMMA NoteKeeps ==
    ASSUME IInv, NEW p \in Procs, NEW t \in Threads, Note(p, t)
    PROVE  IInv'
<1>. DEFINE seen == IF handle[p].step = "filled" THEN [k \in Kinds |-> MaxSeq(table, k)] ELSE handle[p].seen
<1>1. Typed /\ Stepping
  BY DEF IInv
<1>2. /\ (handle[p].step = "mapped" /\ handle[p].on = t) \/ handle[p].step = "filled"
      /\ Looks(p, t) /\ version' = [version EXCEPT ![p][t] = Looked(p, t).n]
      /\ table' = table /\ txn' = txn /\ file' = file
      /\ commits' = commits /\ spoiled' = spoiled /\ missed' = missed
  BY DEF Note
<1>3. \/ /\ handle[p].step = "mapped"
         /\ handle' = [handle EXCEPT ![p].step = "open", ![p].loaded = TRUE, ![p].on = Nobody]
      \/ /\ handle[p].step = "filled"
         /\ handle' = [handle EXCEPT ![p].step = "open", ![p].loaded = TRUE, ![p].on = Nobody,
                                     ![p].seen = [k \in Kinds |-> MaxSeq(table, k)]]
  BY DEF Note
<1>4. PICK d, f, g, h : /\ d = [handle[p] EXCEPT !.step = "open"] /\ f = [d EXCEPT !.loaded = TRUE]
                        /\ g = [f EXCEPT !.on = Nobody]
                        /\ \/ handle[p].step = "mapped" /\ h = g
                           \/ /\ handle[p].step = "filled"
                              /\ h = [g EXCEPT !.seen = [k \in Kinds |-> MaxSeq(table, k)]]
                        /\ handle' = [handle EXCEPT ![p] = h]
  <2>1. CASE /\ handle[p].step = "mapped"
             /\ handle' = [handle EXCEPT ![p].step = "open", ![p].loaded = TRUE, ![p].on = Nobody]
    BY <2>1, Zenon
  <2>2. CASE /\ handle[p].step = "filled"
             /\ handle' = [handle EXCEPT ![p].step = "open", ![p].loaded = TRUE, ![p].on = Nobody,
                                         ![p].seen = [k \in Kinds |-> MaxSeq(table, k)]]
    BY <2>2, Zenon
  <2>. QED
    BY <1>3, <2>1, <2>2, Zenon
<1>5. /\ handle[p] \in Handles /\ handle[p].todo = {} /\ handle[p] # Shut
      /\ handle[p].attached /\ ~ handle[p].loaded /\ txn.by # p
  BY <1>1, <1>2, HandleIs DEF Stepping, StepFits, Steps
<1>6. seen \in [Kinds -> Nat]
  <2>1. [k \in Kinds |-> MaxSeq(table, k)] \in [Kinds -> Nat]
    BY <1>1, HighestSeq DEF Typed
  <2>. QED
    BY <1>5, <2>1 DEF Handles
<1>7. /\ h \in Handles /\ h.step = "open" /\ h.loaded = TRUE /\ h.attached = handle[p].attached
      /\ h.todo = handle[p].todo /\ h.map = handle[p].map /\ h.seen = seen
  <2>1. /\ d \in Handles /\ d.step = "open" /\ d.attached = handle[p].attached
        /\ d.todo = handle[p].todo /\ d.map = handle[p].map /\ d.seen = handle[p].seen
    BY <1>4, <1>5 DEF Handles, Steps
  <2>2. /\ f \in Handles /\ f.step = "open" /\ f.loaded = TRUE /\ f.attached = handle[p].attached
        /\ f.todo = handle[p].todo /\ f.map = handle[p].map /\ f.seen = handle[p].seen
    BY <1>4, <2>1 DEF Handles
  <2>3. /\ g \in Handles /\ g.step = "open" /\ g.loaded = TRUE /\ g.attached = handle[p].attached
        /\ g.todo = handle[p].todo /\ g.map = handle[p].map /\ g.seen = handle[p].seen
    BY <1>4, <2>2 DEF Handles
  <2>4. \/ handle[p].step = "filled" /\ h = [g EXCEPT !.seen = seen]
        \/ h = g /\ seen = handle[p].seen
    BY <1>4
  <2>. HIDE DEF seen
  <2>. QED
    BY <1>6, <2>3, <2>4 DEF Handles
<1>8. /\ handle'[p] = h /\ h # Shut /\ \A q \in Procs \ {p} : handle'[q] = handle[q]
      /\ handle' \in [Procs -> {Shut} \cup Handles]
      /\ Latest' = Latest /\ Draft' = Draft /\ (IsTxn' <=> IsTxn)
      /\ \A s : Owner(Latest, s)' = Owner(Latest, s) /\ Owner(table, s)' = Owner(table, s)
      /\ \A q \in Procs \ {p} : ChangedBy(q)' = ChangedBy(q) /\ ToBlank(q)' = ToBlank(q)
      /\ \A q \in Procs \ {p} : ReadsOn(q)' <=> ReadsOn(q)
      /\ StepFits(p)' => Stepping'
      /\ Knows(p)' => Known'
      /\ Homes(p)' => MapPointsHome'
      /\ txn = NoTxn \/ (~ txn.cleared /\ Diverges /\ Diverges')
  BY <1>2, <1>4, <1>5, <1>7, OthersStay
<1>9. ChangedBy(p)' = {} /\ ChangedBy(p) = {} /\ ToBlank(p)' = {} /\ ToBlank(p) = {}
  BY <1>2, <1>5, <1>7, <1>8 DEF ChangedBy, ToBlank
<1>10. /\ line' \in [Procs -> [Lines -> [at : 0 .. commits, n : Nat]]]
       /\ line'[p][t] = Looked(p, t)
       /\ \A q \in Procs, m \in Threads : q # p \/ m # t => line'[q][m] = line[q][m]
  BY <1>1, <1>2, LinesAre, LooksIs
<1>11. /\ line[p][t].n \in Nat /\ Looked(p, t).n \in Nat
       /\ line[p][t].n <= Looked(p, t).n
       /\ Looked(p, t).n = line[p][t].n => Looked(p, t) = line[p][t]
  BY <1>1, LinesAre, LookedIs
<1>12. /\ version' \in [Procs -> [Threads -> Nat]] /\ version'[p][t] = Looked(p, t).n
       /\ \A q \in Procs, m \in Threads : q # p \/ m # t => version'[q][m] = version[q][m]
  BY <1>1, <1>2, <1>11 DEF Typed
<1>13. Typed'
  BY <1>1, <1>2, <1>8, <1>10, <1>12 DEF Typed
<1>14. Stepping' /\ Known' /\ MapPointsHome'
  <2>1. StepFits(p)'
    BY <1>2, <1>5, <1>7, <1>8 DEF StepFits
  <2>2. Knows(p)'
    BY <1>2, <1>5, <1>7, <1>8, <1>9 DEF IInv, Known, Knows
  <2>3. Homes(p)'
    BY <1>2, <1>5, <1>7, <1>8 DEF IInv, MapPointsHome, Homes
  <2>. QED
    BY <1>8, <2>1, <2>2, <2>3
<1>15. txn # NoTxn => txn.by \in Procs /\ handle'[txn.by] = handle[txn.by]
  BY <1>1, <1>5, <1>8, BatchIs
<1>16. Writing'
  BY <1>2, <1>8, <1>15 DEF IInv, Writing
<1>17. HasFile'
  BY <1>2, <1>5 DEF IInv, HasFile
<1>18. RowsMatchTable' /\ NothingLeft'
  <2>1. \A i : i \in Changing' <=> i \in Changing
    BY <1>8, <1>9, ChangingIs
  <2>. QED
    BY <1>2, <1>8, <1>9, <2>1 DEF IInv, RowsMatchTable, NothingLeft
<1>19. ReadsOn(p)' \/ /\ handle[p].step = "mapped" /\ <<p, t>> \in missed
                      /\ \A m \in Threads : line[p][m].at # commits
  <2>1. CASE handle[p].step = "filled"
    <3>1. ASSUME NEW i \in DOMAIN table.held
          PROVE  table.held[i].seq <= h.seen[Kind(i)]
      <4>1. Kind(i) \in Kinds
        BY DEF Kind, Kinds
      <4>2. h.seen[Kind(i)] = MaxSeq(table, Kind(i))
        BY <1>7, <2>1, <4>1
      <4>. QED
        BY <1>1, <4>1, <4>2, HighestSeq DEF Typed
    <3>. QED
      BY <1>2, <1>8, <3>1 DEF ReadsOn
  <2>2. CASE handle[p].step # "filled"
    <3>1. handle[p].step = "mapped" /\ handle[p].on = t /\ seen = handle[p].seen
      BY <1>2, <2>2
    <3>2. ReadsOn(p) => ReadsOn(p)'
      BY <1>2, <1>7, <1>8, <1>9, <3>1 DEF ReadsOn
    <3>. QED
      BY <3>1, <3>2 DEF IInv, Loading, Loads
  <2>. QED
    BY <2>1, <2>2
<1>20. Watching'
  <2>1. ASSUME NEW q \in Procs, NEW m \in Threads
        PROVE  Watches(q, m)'
    <3>1. CASE q = p /\ m = t
      <4>1. line[p][t].n = 0 => line[p][t].at = 0
        BY DEF IInv, Watching, Watches
      <4>2. Looked(p, t).n = 0 => Looked(p, t).at = 0
        BY <1>11, <4>1
      <4>. QED
        BY <1>2, <1>10, <1>11, <1>12, <1>19, <3>1, <4>2 DEF Watches
    <3>2. CASE q = p /\ m # t
      <4>1. Watches(p, m) /\ line'[p][m] = line[p][m] /\ version'[p][m] = version[p][m]
        BY <1>10, <1>12, <3>2 DEF IInv, Watching
      <4>. QED
        BY <1>2, <1>19, <3>2, <4>1 DEF Watches
    <3>3. CASE q # p
      BY <1>2, <1>8, <1>10, <1>12, <3>3, WatchesStay DEF IInv, Watching
    <3>. QED
      BY <3>1, <3>2, <3>3
  <2>. QED
    BY <2>1 DEF Watching
<1>21. Loading'
  <2>1. ASSUME NEW q \in Procs
        PROVE  Loads(q)'
    <3>1. CASE q = p
      BY <1>7, <1>8, <3>1 DEF Loads
    <3>2. CASE q # p
      BY <1>1, <1>2, <1>8, <1>10, <3>2, MappedIs, LoadsStay DEF IInv, Loading
    <3>. QED
      BY <3>1, <3>2
  <2>. QED
    BY <2>1 DEF Loading
<1>. QED
  BY <1>13, <1>14, <1>16, <1>17, <1>18, <1>20, <1>21 DEF IInv

(* A search that finds a commit to read folds it, and the rows it forgets  *)
(* are kept count of.                                                      *)
LEMMA FoldKeeps ==
    ASSUME IInv, NEW p \in Procs, NEW t \in Threads, MaySearch(p, t),
           handle' = [handle EXCEPT ![p] = Folded(@, table)],
           version' = [version EXCEPT ![p][t] = Looked(p, t).n],
           missed' = missed \ {<<p, t>>}, spoiled' = spoiled \cup Stranded(p), Looks(p, t),
           table' = table, txn' = txn, file' = file, commits' = commits
    PROVE  IInv'
<1>. DEFINE h == Folded(handle[p], table)
<1>1. Typed /\ Stepping
  BY DEF IInv
<1>2. /\ handle[p] \in Handles /\ handle[p] # Shut /\ handle[p].loaded /\ handle[p].attached
      /\ handle[p].step \in {"open", "repairing"}
  BY <1>1, HandleIs DEF MaySearch, IsOpen, Steps, Stepping, StepFits
<1>3. /\ h \in Handles /\ h.step = handle[p].step /\ h.attached = handle[p].attached
      /\ h.loaded = handle[p].loaded /\ h.on = handle[p].on /\ h.todo = handle[p].todo
      /\ \A i \in DOMAIN h.map :
            \/ i \in DOMAIN handle[p].map /\ h.map[i] = handle[p].map[i]
            \/ i \in DOMAIN table.held /\ h.map[i] = table.held[i].slot
      /\ \A i \in DOMAIN handle[p].map : i \in DOMAIN h.map
      /\ \A i \in DOMAIN table.held :
            i \in DOMAIN h.map \/ table.held[i].seq <= h.seen[Kind(i)]
  <2>1. Good(table)
    BY <1>1 DEF Typed
  <2>. QED
    BY <1>2, <2>1, FoldedIs, ZenonT(40)
<1>4. handle' = [handle EXCEPT ![p] = h]
  OBVIOUS
<1>5. Stranded(p) = {s \in {handle[p].map[j] : j \in {k \in handle[p].todo \cap DOMAIN handle[p].map :
                                                          h.map[k] # handle[p].map[k]}} :
                        Owner(table, s) = {} /\ ~ InBatch(s)}
  BY DEF Stranded
<1>. HIDE DEF h
<1>6. /\ handle'[p] = h /\ h # Shut /\ \A q \in Procs \ {p} : handle'[q] = handle[q]
      /\ handle' \in [Procs -> {Shut} \cup Handles]
      /\ Latest' = Latest /\ Draft' = Draft /\ (IsTxn' <=> IsTxn)
      /\ \A s : Owner(Latest, s)' = Owner(Latest, s) /\ Owner(table, s)' = Owner(table, s)
      /\ \A q \in Procs \ {p} : ChangedBy(q)' = ChangedBy(q) /\ ToBlank(q)' = ToBlank(q)
      /\ \A q \in Procs \ {p} : ReadsOn(q)' <=> ReadsOn(q)
      /\ StepFits(p)' => Stepping'
      /\ Knows(p)' => Known'
      /\ Homes(p)' => MapPointsHome'
      /\ txn = NoTxn \/ txn.by = p \/ (~ txn.cleared /\ Diverges /\ Diverges')
  BY <1>2, <1>3, <1>4, OthersStay
<1>7. ChangedBy(p)' = ChangedBy(p) /\ handle[p].todo \subseteq ChangedBy(p)
  BY <1>2, <1>3, <1>6 DEF ChangedBy
<1>8. /\ line' \in [Procs -> [Lines -> [at : 0 .. commits, n : Nat]]]
      /\ line'[p][t] = Looked(p, t)
      /\ \A q \in Procs, m \in Threads : q # p \/ m # t => line'[q][m] = line[q][m]
  BY <1>1, LinesAre, LooksIs
<1>9. /\ line[p][t].n \in Nat /\ Looked(p, t).n \in Nat
      /\ line[p][t].n <= Looked(p, t).n
      /\ Looked(p, t).n = line[p][t].n => Looked(p, t) = line[p][t]
  BY <1>1, LinesAre, LookedIs
<1>10. /\ version' \in [Procs -> [Threads -> Nat]] /\ version'[p][t] = Looked(p, t).n
       /\ \A q \in Procs, m \in Threads : q # p \/ m # t => version'[q][m] = version[q][m]
  BY <1>1, <1>9 DEF Typed
<1>11. spoiled \subseteq spoiled' /\ spoiled' \subseteq Slots
  <2>1. \A j \in DOMAIN handle[p].map : handle[p].map[j] \in Slots
    BY <1>2, MapIs DEF Handles
  <2>2. Stranded(p) \subseteq Slots
    BY <1>5, <2>1
  <2>. QED
    BY <1>1, <2>2 DEF Typed
<1>12. Typed'
  <2>1. missed' \subseteq Procs \X Threads
    BY <1>1 DEF Typed
  <2>. QED
    BY <1>1, <1>6, <1>8, <1>10, <1>11, <2>1 DEF Typed
<1>13. txn # NoTxn => /\ txn.by \in Procs /\ ~ txn.cleared /\ Diverges
                      /\ handle[txn.by].attached = handle'[txn.by].attached
                      /\ \A i \in DOMAIN handle[txn.by].map : i \in DOMAIN handle'[txn.by].map
  <2>1. SUFFICES ASSUME txn # NoTxn
                 PROVE  /\ txn.by \in Procs /\ ~ txn.cleared /\ Diverges
                        /\ handle[txn.by].attached = handle'[txn.by].attached
                        /\ \A i \in DOMAIN handle[txn.by].map : i \in DOMAIN handle'[txn.by].map
    OBVIOUS
  <2>2. txn.by \in Procs /\ IsTxn
    BY <1>1, <2>1, BatchIs
  <2>3. ~ txn.cleared /\ Diverges
    BY <1>2, <1>6, <2>1, <2>2 DEF IInv, Writing, Cleans, IsTxn
  <2>4. CASE txn.by = p
    BY <1>3, <1>6, <2>2, <2>3, <2>4
  <2>5. CASE txn.by # p
    BY <1>6, <2>2, <2>3, <2>5
  <2>. QED
    BY <2>4, <2>5
<1>14. Stepping' /\ Known' /\ MapPointsHome'
  <2>1. StepFits(p)'
    BY <1>1, <1>2, <1>3, <1>6 DEF Stepping, StepFits
  <2>2. Knows(p)'
    <3>1. \A i \in DOMAIN h.map \ ChangedBy(p) : i \notin DOMAIN table.held => i \notin table.owners
      BY <1>2, <1>3 DEF IInv, Known, Knows
    <3>2. ASSUME txn.by = p, NEW i \in DOMAIN h.map \ DOMAIN Draft.held
          PROVE  i \notin Draft.owners
      <4>1. CASE i \in DOMAIN handle[p].map
        BY <1>2, <3>2, <4>1 DEF IInv, Known, Knows
      <4>2. CASE i \notin DOMAIN handle[p].map
        <5>1. i \in DOMAIN table.held /\ txn # NoTxn
          BY <1>1, <1>3, <3>2, <4>2, BatchIs
        <5>. QED
          BY <1>13, <3>2, <5>1 DEF Diverges
      <4>. QED
        BY <4>1, <4>2
    <3>. QED
      BY <1>6, <1>7, <3>1, <3>2 DEF Knows
  <2>3. Homes(p)'
    <3>. DEFINE T == IF txn.by = p THEN Draft ELSE table
    <3>1. \A i \in (DOMAIN handle[p].map \cap DOMAIN T.held) \ handle[p].todo :
             handle[p].map[i] = T.held[i].slot
      BY <1>2 DEF IInv, MapPointsHome
    <3>2. \A i \in DOMAIN table.held \cap DOMAIN T.held : table.held[i].slot = T.held[i].slot
      BY <1>1, <1>13, BatchIs DEF Diverges
    <3>3. T' = T
      BY <1>6
    <3>. HIDE DEF T
    <3>4. \A i \in (DOMAIN h.map \cap DOMAIN T.held) \ h.todo : h.map[i] = T.held[i].slot
      BY <1>3, <3>1, <3>2
    <3>. QED
      BY <1>6, <3>3, <3>4 DEF Homes, T
  <2>. QED
    BY <1>6, <2>1, <2>2, <2>3
<1>15. Writing'
  <2>1. txn # NoTxn => Diverges'
    BY <1>6, <1>13 DEF Diverges
  <2>. QED
    BY <1>6, <1>11, <1>13, <2>1 DEF IInv, Writing
<1>16. HasFile'
  BY <1>2 DEF IInv, HasFile
<1>17. RowsMatchTable'
  <2>1. \A i : i \in Changing' <=> i \in Changing
    BY <1>6, <1>7, ChangingIs
  <2>. QED
    BY <1>11, <2>1 DEF IInv, RowsMatchTable
<1>18. NothingLeft'
  <2>1. ASSUME NEW s \in DOMAIN file \ spoiled', Owner(Latest, s) = {}, file[s] # Blank
        PROVE  Owner(table, s) = {} /\ \E q \in Procs : s \in ToBlank(q)'
    <3>1. Owner(table, s) = {} /\ \E q \in Procs : s \in ToBlank(q)
      BY <1>11, <2>1 DEF IInv, NothingLeft
    <3>2. CASE s \in ToBlank(p)
      <4>1. PICK j \in handle[p].todo \cap DOMAIN handle[p].map : s = handle[p].map[j]
        BY <1>2, <3>2 DEF ToBlank
      <4>2. ~ InBatch(s)
        <5>1. RowOf(table, s) = Blank /\ RowOf(Latest, s) = Blank
          BY <2>1, <3>1, OwnerOfRow
        <5>. QED
          BY <5>1 DEF InBatch, Latest, Draft
      <4>3. h.map[j] = s
        BY <1>5, <2>1, <3>1, <4>1, <4>2
      <4>4. s \in ToBlank(p)'
        BY <1>3, <1>6, <4>1, <4>3 DEF ToBlank
      <4>. QED
        BY <3>1, <4>4
    <3>3. CASE s \notin ToBlank(p)
      BY <1>6, <3>1, <3>3
    <3>. QED
      BY <3>2, <3>3
  <2>. QED
    BY <1>6, <2>1 DEF NothingLeft
<1>19. ReadsOn(p)'
  BY <1>3, <1>6 DEF ReadsOn
<1>20. Watching'
  <2>1. ASSUME NEW q \in Procs, NEW m \in Threads
        PROVE  Watches(q, m)'
    <3>1. CASE q = p /\ m = t
      <4>1. line[p][t].n = 0 => line[p][t].at = 0
        BY DEF IInv, Watching, Watches
      <4>2. Looked(p, t).n = 0 => Looked(p, t).at = 0
        BY <1>9, <4>1
      <4>. QED
        BY <1>8, <1>9, <1>10, <1>19, <3>1, <4>2 DEF Watches
    <3>2. CASE q = p /\ m # t
      <4>1. Watches(p, m) /\ line'[p][m] = line[p][m] /\ version'[p][m] = version[p][m]
            /\ (<<p, m>> \in missed => <<p, m>> \in missed')
        BY <1>8, <1>10, <3>2 DEF IInv, Watching
      <4>. QED
        BY <1>19, <3>2, <4>1 DEF Watches
    <3>3. CASE q # p
      <4>1. /\ Watches(q, m) /\ line'[q][m] = line[q][m] /\ version'[q][m] = version[q][m]
            /\ (<<q, m>> \in missed => <<q, m>> \in missed')
        BY <1>8, <1>10, <3>3 DEF IInv, Watching
      <4>2. handle'[q] = handle[q] /\ (ReadsOn(q) => ReadsOn(q)')
        BY <1>6, <3>3
      <4>. QED
        BY <4>1, <4>2 DEF Watches
    <3>. QED
      BY <3>1, <3>2, <3>3
  <2>. QED
    BY <2>1 DEF Watching
<1>21. Loading'
  <2>1. ASSUME NEW q \in Procs
        PROVE  Loads(q)'
    <3>1. CASE q = p
      BY <1>2, <1>3, <1>6, <3>1 DEF Loads
    <3>2. CASE q # p
      BY <1>1, <1>6, <1>8, <3>2, MappedIs, LoadsStay DEF IInv, Loading
    <3>. QED
      BY <3>1, <3>2
  <2>. QED
    BY <2>1 DEF Loading
<1>. QED
  BY <1>12, <1>14, <1>15, <1>16, <1>17, <1>18, <1>20, <1>21 DEF IInv

(* One that finds none had not missed any, or is known to have.            *)
LEMMA SearchKeeps ==
    ASSUME IInv, NEW p \in Procs, NEW t \in Threads, Search(p, t)
    PROVE  IInv'
<1>1. CASE Looked(p, t).n # version[p][t]
  BY <1>1, FoldKeeps DEF Search
<1>2. CASE Looked(p, t).n = version[p][t]
  <2>1. /\ handle' = handle /\ version' = version /\ missed' = missed /\ spoiled' = spoiled
        /\ table' = table /\ txn' = txn /\ file' = file /\ commits' = commits /\ Looks(p, t)
    BY <1>2 DEF Search
  <2>2. Typed /\ Stepping
    BY DEF IInv
  <2>3. /\ line' \in [Procs -> [Lines -> [at : 0 .. commits, n : Nat]]]
        /\ line'[p][t] = Looked(p, t)
        /\ \A q \in Procs, m \in Threads : q # p \/ m # t => line'[q][m] = line[q][m]
    BY <2>1, <2>2, LinesAre, LooksIs
  <2>4. /\ line[p][t].n \in Nat /\ Looked(p, t).n \in Nat /\ version[p][t] \in Nat
        /\ line[p][t].n <= Looked(p, t).n
        /\ Looked(p, t).n = line[p][t].n => Looked(p, t) = line[p][t]
    BY <2>2, LinesAre, LookedIs DEF Typed
  <2>5. Typed'
    <3>1. IsTxn' <=> IsTxn
      BY <2>1 DEF IsTxn, Draft
    <3>. QED
      BY <2>1, <2>2, <2>3, <3>1 DEF Typed
  <2>6. Stepping' /\ Known' /\ MapPointsHome' /\ Writing' /\ HasFile'
    BY <2>1 DEF IInv, Stepping, StepFits, Known, Knows, MapPointsHome, ChangedBy, Draft,
                Writing, Cleans, Diverges, Alone, HasFile
  <2>7. RowsMatchTable' /\ NothingLeft'
    BY <2>1 DEF IInv, RowsMatchTable, NothingLeft, Changing, ChangedBy, ToBlank, Latest, Draft, Owner
  <2>8. \A q \in Procs : ReadsOn(q)' <=> ReadsOn(q)
    BY <2>1 DEF ReadsOn, ChangedBy
  <2>9. Watching'
    <3>1. ASSUME NEW q \in Procs, NEW m \in Threads
          PROVE  Watches(q, m)'
      <4>1. CASE q = p /\ m = t
        <5>1. line[p][t].n = 0 => line[p][t].at = 0
          BY DEF IInv, Watching, Watches
        <5>2. Looked(p, t).n = 0 => Looked(p, t).at = 0
          BY <2>4, <5>1
        <5>3. CASE <<p, t>> \in missed
          BY <2>1, <2>3, <4>1, <5>2, <5>3 DEF Watches
        <5>4. CASE <<p, t>> \notin missed
          <6>1. Looked(p, t).n <= line[p][t].n
            BY <1>2, <2>4, <5>4 DEF IInv, Watching, Watches
          <6>2. line'[p][t] = line[p][t]
            <7>1. Looked(p, t).n = line[p][t].n
              BY <2>4, <6>1
            <7>. QED
              BY <2>3, <2>4, <7>1, Zenon
          <6>3. Watches(p, t)
            BY DEF IInv, Watching
          <6>4. Watches(p, t)'
            BY <2>1, <2>8, <6>2, <6>3, WatchesStay
          <6>. QED
            BY <4>1, <6>4
        <5>. QED
          BY <5>3, <5>4
      <4>2. CASE q # p \/ m # t
        BY <2>1, <2>3, <2>8, <4>2, WatchesStay DEF IInv, Watching
      <4>. QED
        BY <4>1, <4>2
    <3>. QED
      BY <3>1 DEF Watching
  <2>10. Loading'
    <3>1. ASSUME NEW q \in Procs
          PROVE  Loads(q)'
      <4>1. CASE q = p
        <5>1. handle[p].step # "mapped"
          BY DEF Search, MaySearch, IsOpen
        <5>. QED
          BY <2>1, <4>1, <5>1 DEF Loads
      <4>2. CASE q # p
        BY <2>1, <2>2, <2>3, <2>8, <4>2, MappedIs, LoadsStay DEF IInv, Loading
      <4>. QED
        BY <4>1, <4>2
    <3>. QED
      BY <3>1 DEF Loading
  <2>. QED
    BY <2>5, <2>6, <2>7, <2>9, <2>10 DEF IInv
<1>. QED
  BY <1>1, <1>2

-----------------------------------------------------------------------------
(* The steps of a batch                                                    *)

(* A write changes the draft, and what its process has mapped.             *)
LEMMA WriteIs ==
    ASSUME IInv, NEW p \in Procs, txn.by = p, NEW d, Good(d), NEW X \in SUBSET Ids,
           NEW a \in BOOLEAN, handle[p].attached => a, NEW m \in Maps,
           txn' = [txn EXCEPT !.draft = d, !.touched = @ \cup X],
           handle' = [handle EXCEPT ![p].attached = a, ![p].map = m],
           \A i \in DOMAIN handle[p].map : i \in DOMAIN m \/ i \in X,
           table' = table, line' = line, version' = version, commits' = commits, missed' = missed
    PROVE  /\ txn # NoTxn /\ IsTxn /\ txn' # NoTxn /\ IsTxn' /\ txn'.by = p /\ Draft' = d
           /\ txn'.touched = txn.touched \cup X /\ txn'.cleared = txn.cleared
           /\ handle[p] \in Handles /\ handle[p] # Shut /\ handle[p].todo = {}
           /\ handle'[p] \in Handles /\ handle'[p] # Shut
           /\ handle'[p].map = m
           /\ handle'[p].loaded = handle[p].loaded /\ handle'[p].todo = {}
           /\ \A q \in Procs \ {p} : handle'[q] = handle[q]
           /\ handle' \in [Procs -> {Shut} \cup Handles]
           /\ ChangedBy(p) = txn.touched /\ ChangedBy(p)' = txn.touched \cup X
           /\ \A q \in Procs \ {p} : ChangedBy(q)' = ChangedBy(q) /\ txn.by # q /\ txn'.by # q
           /\ \A q \in Procs : ToBlank(q)' = ToBlank(q)
           /\ Stepping' /\ Watching' /\ Loading'
<1>1. Typed /\ Stepping /\ txn # NoTxn /\ IsTxn
  BY BatchIs DEF IInv
<1>2. /\ handle[p].step = "open" /\ handle[p] \in Handles /\ handle[p] # Shut /\ handle[p].todo = {}
      /\ handle[p].loaded => handle[p].attached
  <2>1. handle[p].step = "open" /\ handle[p] # Shut
    BY <1>1, BatchIs DEF Stepping, StepFits
  <2>. QED
    BY <1>1, <2>1, HandleIs DEF Stepping, StepFits
<1>3. PICK g, h : /\ g = [handle[p] EXCEPT !.attached = a] /\ h = [g EXCEPT !.map = m]
                  /\ handle' = [handle EXCEPT ![p] = h]
  BY Zenon
<1>4. /\ h \in Handles /\ h.attached = a /\ h.map = m /\ h.step = "open" /\ h.on = handle[p].on
      /\ h.loaded = handle[p].loaded /\ h.todo = handle[p].todo /\ h.seen = handle[p].seen
  <2>1. /\ g \in Handles /\ g.attached = a /\ g.step = "open" /\ g.on = handle[p].on
        /\ g.loaded = handle[p].loaded /\ g.todo = handle[p].todo /\ g.seen = handle[p].seen
    BY <1>2, <1>3 DEF Handles
  <2>. QED
    BY <1>3, <2>1 DEF Handles
<1>5. /\ handle'[p] = h /\ \A q \in Procs \ {p} : handle'[q] = handle[q]
      /\ handle' \in [Procs -> {Shut} \cup Handles]
  BY <1>1, <1>3, <1>4 DEF Typed
<1>6. h # Shut
  BY <1>4 DEF Shut
<1>7. /\ txn' = [by |-> txn.by, on |-> txn.on, draft |-> d,
                 touched |-> txn.touched \cup X, cleared |-> txn.cleared]
  <2>1. PICK u : u = [txn EXCEPT !.draft = d] /\ txn' = [u EXCEPT !.touched = txn.touched \cup X]
    BY Zenon
  <2>2. txn \in [by : {txn.by}, on : {txn.on}, draft : {Draft}, touched : {txn.touched},
                 cleared : {txn.cleared}]
    BY <1>1 DEF IsTxn
  <2>3. u \in [by : {txn.by}, on : {txn.on}, draft : {d}, touched : {txn.touched},
               cleared : {txn.cleared}]
    BY <2>1, <2>2
  <2>. QED
    BY <2>1, <2>3
<1>8. /\ txn'.by = txn.by /\ txn'.on = txn.on /\ txn'.draft = d
      /\ txn'.touched = txn.touched \cup X /\ txn'.cleared = txn.cleared
  BY <1>7
<1>9. IsTxn' /\ Draft' = d
  BY <1>1, <1>7, <1>8 DEF IsTxn, Draft
<1>10. txn' # NoTxn
  BY <1>1, <1>8, BatchIs
<1>11. /\ ChangedBy(p) = txn.touched /\ ChangedBy(p)' = txn.touched \cup X
       /\ \A q \in Procs \ {p} : ChangedBy(q)' = ChangedBy(q) /\ txn.by # q /\ txn'.by # q
       /\ \A q \in Procs : ToBlank(q)' = ToBlank(q)
  <2>1. ToBlank(p) = {} /\ ToBlank(p)' = {} /\ \A q \in Procs \ {p} : ToBlank(q)' = ToBlank(q)
    <3>1. handle'[p].todo = {}
      BY <1>2, <1>4, <1>5
    <3>2. ToBlank(p)' = {}
      BY <3>1 DEF ToBlank
    <3>3. ToBlank(p) = {}
      BY <1>2 DEF ToBlank
    <3>4. ASSUME NEW q \in Procs \ {p}
          PROVE  ToBlank(q)' = ToBlank(q)
      <4>1. handle'[q] = handle[q]
        BY <1>5
      <4>. QED
        BY <4>1 DEF ToBlank
    <3>. QED
      BY <3>2, <3>3, <3>4
  <2>2. ChangedBy(p) = txn.touched /\ ChangedBy(p)' = txn.touched \cup X
    BY <1>2, <1>4, <1>5, <1>6, <1>8 DEF ChangedBy
  <2>3. \A q \in Procs \ {p} : txn.by # q /\ txn'.by # q
    BY <1>8
  <2>4. \A q \in Procs \ {p} : ChangedBy(q)' = ChangedBy(q)
    BY <1>5, <2>3 DEF ChangedBy
  <2>. QED
    BY <2>1, <2>2, <2>3, <2>4
<1>12. \A q \in Procs \ {p} : ReadsOn(q)' <=> ReadsOn(q)
  BY <1>5, <1>11 DEF ReadsOn
<1>13. ReadsOn(p) => ReadsOn(p)'
  BY <1>4, <1>5, <1>11 DEF ReadsOn
<1>14. Stepping'
  BY <1>1, <1>2, <1>4, <1>5, <1>8, <1>11 DEF Stepping, StepFits
<1>15. Watching'
  <2>1. ASSUME NEW q \in Procs, NEW t \in Threads
        PROVE  Watches(q, t)'
    <3>1. CASE q = p
      BY <1>2, <1>4, <1>5, <1>13, <3>1, WatchesStay DEF IInv, Watching
    <3>2. CASE q # p
      BY <1>5, <1>12, <3>2, WatchesStay DEF IInv, Watching
    <3>. QED
      BY <3>1, <3>2
  <2>. QED
    BY <2>1 DEF Watching
<1>16. Loading'
  <2>1. ASSUME NEW q \in Procs
        PROVE  Loads(q)'
    <3>1. CASE q = p
      BY <1>4, <1>5, <3>1 DEF Loads
    <3>2. CASE q # p
      BY <1>1, <1>5, <1>12, <3>2, MappedIs, LoadsStay DEF IInv, Loading
    <3>. QED
      BY <3>1, <3>2
  <2>. QED
    BY <2>1 DEF Loading
<1>. QED
  BY <1>1, <1>2, <1>4, <1>5, <1>6, <1>8, <1>9, <1>10, <1>11, <1>14, <1>15, <1>16

(* A vector is written in the row of its item, or in one nobody owns.      *)
LEMMA SetEmbeddingKeeps ==
    ASSUME IInv, NEW p \in Procs, NEW i \in Ids, NEW v \in VectorsOf(i), SetEmbedding(p, i, v)
    PROVE  IInv'
<1>. DEFINE d    == Upsert(Draft, i, v)
            slot == d.held[i].slot
            rows == IF file = NoFile THEN [s \in Slots |-> Blank] ELSE file
            map  == Learnt(handle[p].map, [j \in {i} |-> slot])
<1>1. Typed /\ Stepping /\ txn.by = p /\ i \in Draft.owners /\ txn # NoTxn /\ Good(Draft)
  BY BatchIs DEF IInv, SetEmbedding, IsTxn
<1>2. /\ Good(d) /\ d.owners = Draft.owners
      /\ DOMAIN d.held = DOMAIN Draft.held \cup {i}
      /\ d.held[i].vec = v
      /\ i \in DOMAIN Draft.held => d.held[i].slot = Draft.held[i].slot
      /\ \A j \in DOMAIN Draft.held \ {i} : d.held[j] = Draft.held[j]
  BY <1>1, UpsertGood, ZenonT(40)
<1>3. /\ txn' = [txn EXCEPT !.draft = d, !.touched = @ \cup {i}]
      /\ file' = [rows EXCEPT ![slot] = v] /\ spoiled' = spoiled \ {slot}
      /\ table' = table /\ line' = line /\ version' = version /\ commits' = commits /\ missed' = missed
  BY DEF SetEmbedding
<1>4. handle' = [handle EXCEPT ![p].attached = TRUE, ![p].map = map]
  BY DEF SetEmbedding
<1>. HIDE DEF d
<1>5. slot \in Slots /\ DOMAIN d.held \subseteq Ids /\ \A j \in DOMAIN d.held : d.held[j].slot \in Slots
  BY <1>2, TableTypes
<1>6. handle[p] \in Handles
  BY <1>1, BatchIs, HandleIs
<1>7. map = [j \in DOMAIN handle[p].map \cup {i} |-> IF j = i THEN slot ELSE handle[p].map[j]]
  BY DEF Learnt
<1>8. /\ DOMAIN map = DOMAIN handle[p].map \cup {i} /\ map[i] = slot
      /\ \A j \in DOMAIN handle[p].map \ {i} : map[j] = handle[p].map[j]
  BY <1>7
<1>9. map \in Maps
  <2>1. DOMAIN map \subseteq Ids /\ \A j \in DOMAIN map : map[j] \in Slots
    BY <1>5, <1>6, <1>8, MapIs DEF Handles
  <2>2. map = [j \in DOMAIN map |-> map[j]]
    BY <1>7
  <2>. HIDE DEF map
  <2>. QED
    BY <2>1, <2>2, MapOf
<1>10. /\ DOMAIN file' = Slots /\ file' # NoFile /\ file'[slot] = v
       /\ \A s \in Slots \ {slot} : file'[s] = IF file = NoFile THEN Blank ELSE file[s]
       /\ \A s \in Slots : file'[s] \in Vectors \cup {Blank}
  <2>1. DOMAIN rows = Slots
    BY <1>1, FileIs
  <2>2. v \in Vectors
    BY DEF Vectors
  <2>3. DOMAIN file' = Slots /\ file'[slot] = v /\ \A s \in Slots \ {slot} : file'[s] = rows[s]
    BY <1>3, <1>5, <2>1
  <2>4. file' # NoFile
    BY <1>5, <2>3 DEF NoFile
  <2>5. \A s \in Slots : rows[s] \in Vectors \cup {Blank}
    BY <1>1, <2>1, FileIs
  <2>. QED
    BY <2>1, <2>2, <2>3, <2>4, <2>5
<1>. HIDE DEF map, slot
<1>11. /\ txn # NoTxn /\ IsTxn /\ txn' # NoTxn /\ IsTxn' /\ txn'.by = p /\ Draft' = d
       /\ txn'.touched = txn.touched \cup {i} /\ txn'.cleared = txn.cleared
       /\ handle[p] \in Handles /\ handle[p] # Shut /\ handle[p].todo = {}
       /\ handle'[p] \in Handles /\ handle'[p] # Shut
       /\ handle'[p].map = map
       /\ handle'[p].loaded = handle[p].loaded /\ handle'[p].todo = {}
       /\ \A q \in Procs \ {p} : handle'[q] = handle[q]
       /\ handle' \in [Procs -> {Shut} \cup Handles]
       /\ ChangedBy(p) = txn.touched /\ ChangedBy(p)' = txn.touched \cup {i}
       /\ \A q \in Procs \ {p} : ChangedBy(q)' = ChangedBy(q) /\ txn.by # q /\ txn'.by # q
       /\ \A q \in Procs : ToBlank(q)' = ToBlank(q)
       /\ Stepping' /\ Watching' /\ Loading'
  <2>1. {i} \in SUBSET Ids /\ TRUE \in BOOLEAN /\ (handle[p].attached => TRUE)
        /\ \A j \in DOMAIN handle[p].map : j \in DOMAIN map \/ j \in {i}
    BY <1>8
  <2>. QED
    BY <1>1, <1>2, <1>3, <1>4, <1>9, <2>1, WriteIs, ZenonT(40)
<1>att. handle'[p].attached
  <2>1. PICK g, h : /\ g = [handle[p] EXCEPT !.attached = TRUE] /\ h = [g EXCEPT !.map = map]
                    /\ handle' = [handle EXCEPT ![p] = h]
    BY <1>4, Zenon
  <2>2. g \in Handles /\ g.attached
    BY <1>6, <2>1 DEF Handles
  <2>3. h.attached
    BY <2>1, <2>2 DEF Handles
  <2>. QED
    BY <1>1, <2>1, <2>3 DEF Typed
<1>12. Typed'
  <2>1. file' \in [DOMAIN file' -> Vectors \cup {Blank}]
    BY <1>3, <1>10
  <2>2. spoiled' \subseteq Slots
    BY <1>1, <1>3 DEF Typed
  <2>. QED
    BY <1>1, <1>3, <1>10, <1>11, <2>1, <2>2 DEF Typed
<1>13. \A j \in DOMAIN d.held \ {i} : d.held[j].slot # slot
  BY <1>2 DEF Good, slot
<1>14. \A j \in DOMAIN d.held \ {i} : j \in DOMAIN Draft.held /\ d.held[j] = Draft.held[j]
  BY <1>2
<1>15. Writing'
  <2>1. Draft'.owners \subseteq table'.owners
    BY <1>1, <1>2, <1>3, <1>11 DEF IInv, Writing
  <2>2. txn.cleared => Cleans'
    <3>1. SUFFICES ASSUME txn.cleared
                   PROVE  Cleans'
      OBVIOUS
    <3>2. Cleans
      BY <1>1, <3>1 DEF IInv, Writing
    <3>3. Alone(p)' /\ ~ handle[p].loaded
      BY <1>1, <1>11, <3>2 DEF Cleans, Alone
    <3>4. DOMAIN d.held \subseteq txn.touched \cup {i}
      BY <1>2, <3>2 DEF Cleans
    <3>. QED
      BY <1>11, <1>att, <3>3, <3>4 DEF Cleans
  <2>3. ~ txn.cleared => Diverges'
    <3>1. SUFFICES ASSUME ~ txn.cleared
                   PROVE  Diverges'
      OBVIOUS
    <3>2. Diverges
      BY <1>1, <3>1 DEF IInv, Writing
    <3>3. \A j \in Ids \ (txn.touched \cup {i}) :
             /\ j \in DOMAIN d.held <=> j \in DOMAIN table.held
             /\ j \in DOMAIN d.held => d.held[j] = table.held[j]
      BY <1>2, <1>14, <3>2 DEF Diverges
    <3>4. \A j \in DOMAIN d.held \cap DOMAIN table.held : d.held[j].slot = table.held[j].slot
      <4>1. i \in DOMAIN table.held => i \in DOMAIN Draft.held
        BY <1>1, <3>2 DEF Diverges
      <4>. QED
        BY <1>2, <1>14, <3>2, <4>1 DEF Diverges
    <3>5. \A j \in DOMAIN table.held \ DOMAIN d.held : j \notin d.owners
      BY <1>2, <3>2 DEF Diverges
    <3>. QED
      BY <1>3, <1>11, <1>att, <3>3, <3>4, <3>5 DEF Diverges
  <2>4. ASSUME NEW j \in (txn.touched \cup {i}) \cap DOMAIN d.held
        PROVE  /\ j \in DOMAIN map
               /\ d.held[j].slot \in spoiled' \/ file'[d.held[j].slot] = d.held[j].vec
    <3>1. CASE j = i
      BY <1>2, <1>8, <1>10, <3>1 DEF slot
    <3>2. CASE j # i
      <4>1. j \in txn.touched \cap DOMAIN Draft.held /\ d.held[j] = Draft.held[j]
        BY <1>14, <2>4, <3>2
      <4>2. /\ j \in DOMAIN handle[p].map /\ file # NoFile
            /\ d.held[j].slot \in spoiled \/ file[d.held[j].slot] = d.held[j].vec
        BY <1>1, <4>1 DEF IInv, Writing
      <4>3. d.held[j].slot # slot /\ d.held[j].slot \in Slots
        BY <1>5, <1>13, <2>4, <3>2
      <4>. QED
        BY <1>3, <1>8, <1>10, <4>2, <4>3
    <3>. QED
      BY <3>1, <3>2
  <2>. QED
    BY <1>10, <1>11, <2>1, <2>2, <2>3, <2>4 DEF Writing
<1>16. Known'
  <2>1. ASSUME NEW q \in Procs, handle'[q] # Shut
        PROVE  Knows(q)'
    <3>1. CASE q = p
      <4>1. \A j \in DOMAIN map \ (txn.touched \cup {i}) :
               j \notin DOMAIN table.held => j \notin table.owners
        BY <1>8, <1>11 DEF IInv, Known, Knows
      <4>2. \A j \in DOMAIN map \ DOMAIN d.held : j \notin d.owners
        BY <1>1, <1>2, <1>8, <1>11 DEF IInv, Known, Knows
      <4>. QED
        BY <1>3, <1>11, <3>1, <4>1, <4>2 DEF Knows
    <3>2. CASE q # p
      BY <1>3, <1>11, <2>1, <3>2 DEF IInv, Known, Knows
    <3>. QED
      BY <3>1, <3>2
  <2>. QED
    BY <2>1 DEF Known, Knows
<1>17. MapPointsHome'
  <2>1. ASSUME NEW q \in Procs
        PROVE  Homes(q)'
    <3>1. CASE q = p
      <4>1. \A j \in DOMAIN map \cap DOMAIN d.held : map[j] = d.held[j].slot
        <5>1. \A j \in DOMAIN handle[p].map \cap DOMAIN Draft.held : handle[p].map[j] = Draft.held[j].slot
          BY <1>1, <1>11 DEF IInv, MapPointsHome
        <5>. QED
          BY <1>8, <1>14, <5>1 DEF slot
      <4>. QED
        BY <1>11, <3>1, <4>1 DEF Homes
    <3>2. CASE q # p
      BY <1>3, <1>11, <3>2 DEF IInv, MapPointsHome, Homes
    <3>. QED
      BY <3>1, <3>2
  <2>. QED
    BY <2>1, HomesAre
<1>18. HasFile'
  BY <1>10 DEF HasFile
<1>19. RowsMatchTable'
  <2>1. ASSUME NEW j \in DOMAIN table.held, j \notin Changing', ~ txn.cleared
        PROVE  table.held[j].slot \in spoiled' \/ file'[table.held[j].slot] = table.held[j].vec
    <3>1. j # i /\ j \notin txn.touched /\ j \notin Changing
      BY <1>11, <2>1, ChangingIs
    <3>2. j \in DOMAIN Draft.held /\ Draft.held[j] = table.held[j]
      BY <1>1, <2>1, <3>1, TableTypes DEF IInv, Writing, Diverges, Typed
    <3>3. table.held[j].slot # slot /\ table.held[j].slot \in Slots
      BY <1>2, <1>5, <1>13, <1>14, <3>1, <3>2
    <3>4. file # NoFile
      BY <1>11, <2>1 DEF IInv, HasFile
    <3>5. table.held[j].slot \in spoiled \/ file[table.held[j].slot] = table.held[j].vec
      BY <2>1, <3>1, <3>4 DEF IInv, RowsMatchTable
    <3>. QED
      BY <1>3, <1>10, <3>3, <3>4, <3>5
  <2>. QED
    BY <1>3, <1>11, <2>1 DEF RowsMatchTable
<1>20. NothingLeft'
  <2>1. Latest = Draft /\ Latest' = d
    BY <1>11 DEF Latest
  <2>2. ASSUME NEW s \in Slots \ spoiled', Owner(d, s) = {}
        PROVE  \/ file'[s] = Blank
               \/ Owner(table, s) = {} /\ \E q \in Procs : s \in ToBlank(q)'
    <3>1. s # slot /\ s \notin spoiled
      BY <1>2, <1>3, <2>2 DEF Owner, slot
    <3>2. Owner(Draft, s) = {}
      BY <1>2, <2>2, <3>1 DEF Owner, slot
    <3>3. CASE file = NoFile
      BY <1>10, <3>1, <3>3
    <3>4. CASE file # NoFile
      <4>1. s \in DOMAIN file /\ file'[s] = file[s]
        BY <1>1, <1>10, <3>1, <3>4, FileIs
      <4>2. \/ file[s] = Blank
            \/ Owner(table, s) = {} /\ \E q \in Procs : s \in ToBlank(q)
        BY <2>1, <3>1, <3>2, <4>1 DEF IInv, NothingLeft
      <4>. QED
        BY <1>11, <4>1, <4>2
    <3>. QED
      BY <3>3, <3>4
  <2>3. \A s : Owner(table, s)' = Owner(table, s) /\ Owner(Latest, s)' = Owner(d, s)
    BY <1>3, <2>1 DEF Owner
  <2>. QED
    BY <1>10, <2>2, <2>3 DEF NothingLeft
<1>. QED
  BY <1>11, <1>12, <1>15, <1>16, <1>17, <1>18, <1>19, <1>20 DEF IInv

(* What is erased is blanked in the row it owned.                          *)
LEMMA EraseKeeps ==
    ASSUME IInv, NEW p \in Procs, NEW S \in SUBSET Ids, Erase(p, S)
    PROVE  IInv'
<1>. DEFINE d    == Without(Draft, S)
            held == S \cap DOMAIN Draft.held
            old  == handle[p].map
            map  == Restrict(old, DOMAIN old \ S)
            rows == {IF i \in DOMAIN old THEN old[i] ELSE Draft.held[i].slot : i \in held}
<1>1. Typed /\ Stepping /\ txn.by = p /\ txn # NoTxn /\ Good(Draft) /\ handle[p] # Shut
  BY BatchIs DEF IInv, Erase, IsTxn
<1>2. /\ Good(d) /\ d.owners = Draft.owners \ S
      /\ DOMAIN d.held = DOMAIN Draft.held \ S
      /\ \A j \in DOMAIN Draft.held \ S : d.held[j] = Draft.held[j]
  BY <1>1, WithoutGood, ZenonT(40)
<1>3. /\ txn' = [txn EXCEPT !.draft = d, !.touched = @ \cup S]
      /\ file' = [s \in DOMAIN file |-> IF s \in rows THEN Blank ELSE file[s]]
      /\ spoiled' = spoiled \ rows
      /\ table' = table /\ line' = line /\ version' = version /\ commits' = commits /\ missed' = missed
  BY DEF Erase
<1>4. PICK a \in BOOLEAN : /\ a = (handle[p].attached \/ held # {})
                          /\ handle' = [handle EXCEPT ![p].attached = a, ![p].map = map]
  BY DEF Erase
<1>5. handle[p] \in Handles /\ handle[p].todo = {}
  <2>1. handle[p].step = "open"
    BY <1>1, BatchIs DEF Stepping, StepFits
  <2>. QED
    BY <1>1, <2>1, HandleIs, BatchIs DEF Stepping, StepFits
<1>6. (handle[p].attached => a) /\ (~ a => held = {} /\ ~ handle[p].attached)
  BY <1>4
<1>7. rows = {Draft.held[i].slot : i \in held}
  <2>1. \A i \in held : (IF i \in DOMAIN old THEN old[i] ELSE Draft.held[i].slot) = Draft.held[i].slot
    BY <1>1, <1>5, BatchIs DEF IInv, MapPointsHome
  <2>. QED
    BY <2>1
<1>8. /\ DOMAIN map = DOMAIN old \ S /\ map = [i \in DOMAIN old \ S |-> old[i]]
      /\ \A i \in DOMAIN old \ S : map[i] = old[i]
  BY DEF Restrict
<1>9. map \in Maps
  <2>1. DOMAIN map \subseteq Ids /\ \A i \in DOMAIN map : map[i] \in Slots
    BY <1>5, <1>8, MapIs DEF Handles
  <2>2. map = [i \in DOMAIN map |-> map[i]]
    BY <1>8
  <2>. HIDE DEF map
  <2>. QED
    BY <2>1, <2>2, MapOf
<1>10. /\ DOMAIN file' = DOMAIN file /\ (file' = NoFile <=> file = NoFile)
       /\ \A s \in DOMAIN file : file'[s] = IF s \in rows THEN Blank ELSE file[s]
  <2>1. DOMAIN file' = DOMAIN file /\ \A s \in DOMAIN file : file'[s] = IF s \in rows THEN Blank ELSE file[s]
    BY <1>3
  <2>2. file' = NoFile <=> DOMAIN file' = {}
    BY <1>3 DEF NoFile
  <2>. QED
    BY <1>1, <2>1, <2>2, FileIs
<1>11. /\ held \subseteq DOMAIN Draft.held /\ held \subseteq S
       /\ DOMAIN Draft.held \ held = DOMAIN d.held
       /\ \A i \in DOMAIN d.held : i \in DOMAIN Draft.held \ S /\ d.held[i] = Draft.held[i]
       /\ \A i \in DOMAIN Draft.held : i \in DOMAIN d.held \/ i \in held
  BY <1>2
<1>. HIDE DEF d, map, rows, held
<1>12. \A i \in DOMAIN d.held : d.held[i].slot \notin rows
  <2>1. ASSUME NEW i \in DOMAIN d.held, NEW j \in held, d.held[i].slot = Draft.held[j].slot
        PROVE  FALSE
    <3>1. i \in DOMAIN Draft.held \ S /\ d.held[i] = Draft.held[i] /\ j \in S /\ j \in DOMAIN Draft.held
      BY <1>11, <2>1
    <3>. QED
      BY <1>1, <2>1, <3>1 DEF Good
  <2>. QED
    BY <1>7, <2>1
<1>13. /\ txn # NoTxn /\ IsTxn /\ txn' # NoTxn /\ IsTxn' /\ txn'.by = p /\ Draft' = d
       /\ txn'.touched = txn.touched \cup S /\ txn'.cleared = txn.cleared
       /\ handle[p] \in Handles /\ handle[p] # Shut /\ handle[p].todo = {}
       /\ handle'[p] \in Handles /\ handle'[p] # Shut
       /\ handle'[p].map = map
       /\ handle'[p].loaded = handle[p].loaded /\ handle'[p].todo = {}
       /\ \A q \in Procs \ {p} : handle'[q] = handle[q]
       /\ handle' \in [Procs -> {Shut} \cup Handles]
       /\ ChangedBy(p) = txn.touched /\ ChangedBy(p)' = txn.touched \cup S
       /\ \A q \in Procs \ {p} : ChangedBy(q)' = ChangedBy(q) /\ txn.by # q /\ txn'.by # q
       /\ \A q \in Procs : ToBlank(q)' = ToBlank(q)
       /\ Stepping' /\ Watching' /\ Loading'
  <2>1. \A i \in DOMAIN handle[p].map : i \in DOMAIN map \/ i \in S
    BY <1>8
  <2>2. (handle[p].attached => a) /\ Good(d) /\ txn.by = p
    BY <1>1, <1>2, <1>6
  <2>. QED
    BY <1>3, <1>4, <1>9, <2>1, <2>2, WriteIs, ZenonT(40)
<1>att. handle'[p].attached <=> a
  <2>1. PICK g, h : /\ g = [handle[p] EXCEPT !.attached = a] /\ h = [g EXCEPT !.map = map]
                    /\ handle' = [handle EXCEPT ![p] = h]
    BY <1>4, Zenon
  <2>2. g \in Handles /\ g.attached = a
    BY <1>5, <2>1 DEF Handles
  <2>3. h.attached = a
    BY <2>1, <2>2 DEF Handles
  <2>. QED
    BY <1>1, <2>1, <2>3 DEF Typed
<1>14. Typed'
  <2>1. file' \in [DOMAIN file' -> Vectors \cup {Blank}] /\ DOMAIN file' \in {{}, Slots}
    <3>1. \A s \in DOMAIN file : file'[s] \in Vectors \cup {Blank}
      BY <1>1, <1>10, FileIs
    <3>. QED
      BY <1>1, <1>3, <1>10, <3>1 DEF Typed
  <2>2. spoiled' \subseteq Slots
    BY <1>1, <1>3 DEF Typed
  <2>. QED
    BY <1>1, <1>3, <1>13, <2>1, <2>2 DEF Typed
<1>15. Writing'
  <2>1. Draft'.owners \subseteq table'.owners
    BY <1>1, <1>2, <1>3, <1>13 DEF IInv, Writing
  <2>2. ~ handle'[p].attached => ~ handle[p].attached /\ held = {} /\ d.held = Draft.held
    <3>1. SUFFICES ASSUME ~ handle'[p].attached
                   PROVE  ~ handle[p].attached /\ held = {} /\ d.held = Draft.held
      OBVIOUS
    <3>2. ~ handle[p].attached /\ held = {}
      BY <1>6, <1>att, <3>1
    <3>3. d.held \in [DOMAIN d.held -> Held] /\ Draft.held \in [DOMAIN Draft.held -> Held]
      BY <1>1, <1>2, TableTypes
    <3>4. DOMAIN d.held = DOMAIN Draft.held /\ \A i \in DOMAIN d.held : d.held[i] = Draft.held[i]
      BY <1>11, <3>2
    <3>5. d.held = Draft.held
      BY <3>3, <3>4
    <3>. QED
      BY <3>2, <3>5
  <2>3. txn.cleared => Cleans'
    <3>1. SUFFICES ASSUME txn.cleared
                   PROVE  Cleans'
      OBVIOUS
    <3>2. Cleans
      BY <1>1, <3>1 DEF IInv, Writing
    <3>3. Alone(p)' /\ ~ handle'[p].loaded
      BY <1>1, <1>13, <3>2 DEF Cleans, Alone
    <3>4. DOMAIN d.held \subseteq txn.touched \cup S
      BY <1>11, <3>2 DEF Cleans
    <3>5. ASSUME ~ handle'[p].attached
          PROVE  /\ DOMAIN d.held = {}
                 /\ file' # NoFile => \A i \in DOMAIN table.held :
                       \/ table.held[i].slot \in spoiled'
                       \/ file'[table.held[i].slot] = table.held[i].vec
      <4>1. ~ handle[p].attached /\ held = {} /\ d.held = Draft.held
        BY <2>2, <3>5
      <4>2. rows = {}
        BY <1>7, <4>1
      <4>3. DOMAIN d.held = {}
        BY <1>1, <3>2, <4>1 DEF Cleans
      <4>4. ASSUME file # NoFile, NEW i \in DOMAIN table.held
            PROVE  \/ table.held[i].slot \in spoiled'
                   \/ file'[table.held[i].slot] = table.held[i].vec
        <5>1. table.held[i].slot \in DOMAIN file
          BY <1>1, <4>4, FileIs, TableTypes DEF Typed
        <5>. QED
          BY <1>1, <1>3, <1>10, <3>2, <4>1, <4>2, <4>4, <5>1 DEF Cleans
      <4>. QED
        BY <1>10, <4>3, <4>4
    <3>. QED
      BY <1>3, <1>13, <3>3, <3>4, <3>5 DEF Cleans
  <2>4. ~ txn.cleared => Diverges'
    <3>1. SUFFICES ASSUME ~ txn.cleared
                   PROVE  Diverges'
      OBVIOUS
    <3>2. Diverges
      BY <1>1, <3>1 DEF IInv, Writing
    <3>3. \A j \in Ids \ (txn.touched \cup S) :
             /\ j \in DOMAIN d.held <=> j \in DOMAIN table.held
             /\ j \in DOMAIN d.held => d.held[j] = table.held[j]
      BY <1>2, <3>2 DEF Diverges
    <3>4. \A j \in DOMAIN d.held \cap DOMAIN table.held : d.held[j].slot = table.held[j].slot
      BY <1>11, <3>2 DEF Diverges
    <3>5. \A j \in DOMAIN table.held \ DOMAIN d.held : j \notin d.owners
      BY <1>2, <3>2 DEF Diverges
    <3>6. ~ handle'[p].attached => d.held = table.held
      BY <1>1, <2>2, <3>2 DEF Diverges
    <3>. QED
      BY <1>3, <1>13, <3>3, <3>4, <3>5, <3>6 DEF Diverges
  <2>5. ASSUME NEW j \in (txn.touched \cup S) \cap DOMAIN d.held
        PROVE  /\ j \in DOMAIN map /\ file' # NoFile
               /\ d.held[j].slot \in spoiled' \/ file'[d.held[j].slot] = d.held[j].vec
    <3>1. j \in txn.touched \cap DOMAIN Draft.held /\ j \notin S /\ d.held[j] = Draft.held[j]
      BY <1>11, <2>5
    <3>2. /\ j \in DOMAIN handle[p].map /\ file # NoFile
          /\ d.held[j].slot \in spoiled \/ file[d.held[j].slot] = d.held[j].vec
      BY <1>1, <3>1 DEF IInv, Writing
    <3>3. d.held[j].slot \notin rows /\ d.held[j].slot \in DOMAIN file
      BY <1>1, <1>2, <1>12, <2>5, <3>2, FileIs, TableTypes
    <3>. QED
      BY <1>3, <1>8, <1>10, <3>1, <3>2, <3>3
  <2>. QED
    BY <1>13, <2>1, <2>3, <2>4, <2>5 DEF Writing
<1>16. Known'
  <2>1. ASSUME NEW q \in Procs, handle'[q] # Shut
        PROVE  Knows(q)'
    <3>1. CASE q = p
      <4>1. \A j \in DOMAIN map \ (txn.touched \cup S) :
               j \notin DOMAIN table.held => j \notin table.owners
        BY <1>8, <1>13 DEF IInv, Known, Knows
      <4>2. \A j \in DOMAIN map \ DOMAIN d.held : j \notin d.owners
        BY <1>1, <1>2, <1>8, <1>13 DEF IInv, Known, Knows
      <4>. QED
        BY <1>3, <1>13, <3>1, <4>1, <4>2 DEF Knows
    <3>2. CASE q # p
      BY <1>3, <1>13, <2>1, <3>2 DEF IInv, Known, Knows
    <3>. QED
      BY <3>1, <3>2
  <2>. QED
    BY <2>1 DEF Known, Knows
<1>17. MapPointsHome'
  <2>1. ASSUME NEW q \in Procs
        PROVE  Homes(q)'
    <3>1. CASE q = p
      <4>1. \A j \in DOMAIN map \cap DOMAIN d.held : map[j] = d.held[j].slot
        <5>1. \A j \in DOMAIN handle[p].map \cap DOMAIN Draft.held : handle[p].map[j] = Draft.held[j].slot
          BY <1>1, <1>13 DEF IInv, MapPointsHome
        <5>. QED
          BY <1>8, <1>11, <5>1
      <4>. QED
        BY <1>13, <3>1, <4>1 DEF Homes
    <3>2. CASE q # p
      BY <1>3, <1>13, <3>2 DEF IInv, MapPointsHome, Homes
    <3>. QED
      BY <3>1, <3>2
  <2>. QED
    BY <2>1, HomesAre
<1>18. HasFile'
  BY <1>1, <1>3, <1>10, <1>13 DEF IInv, HasFile
<1>19. RowsMatchTable'
  <2>1. ASSUME NEW j \in DOMAIN table.held, j \notin Changing', ~ txn.cleared, file # NoFile
        PROVE  table.held[j].slot \in spoiled' \/ file'[table.held[j].slot] = table.held[j].vec
    <3>1. j \notin S /\ j \notin txn.touched /\ j \notin Changing
      BY <1>13, <2>1, ChangingIs
    <3>2. j \in DOMAIN Draft.held /\ Draft.held[j] = table.held[j]
      BY <1>1, <2>1, <3>1, TableTypes DEF IInv, Writing, Diverges, Typed
    <3>3. table.held[j].slot \notin rows
      BY <1>2, <1>12, <3>1, <3>2
    <3>4. table.held[j].slot \in DOMAIN file
      BY <1>1, <2>1, FileIs, TableTypes DEF Typed
    <3>5. table.held[j].slot \in spoiled \/ file[table.held[j].slot] = table.held[j].vec
      BY <2>1, <3>1 DEF IInv, RowsMatchTable
    <3>. QED
      BY <1>3, <1>10, <3>3, <3>4, <3>5
  <2>. QED
    BY <1>3, <1>10, <1>13, <2>1 DEF RowsMatchTable
<1>20. NothingLeft'
  <2>1. Latest = Draft /\ Latest' = d
    BY <1>13 DEF Latest
  <2>2. ASSUME NEW s \in DOMAIN file \ spoiled', Owner(d, s) = {}
        PROVE  \/ file'[s] = Blank
               \/ Owner(table, s) = {} /\ \E q \in Procs : s \in ToBlank(q)'
    <3>1. CASE s \in rows
      BY <1>10, <2>2, <3>1
    <3>2. CASE s \notin rows
      <4>1. Owner(Draft, s) = {}
        BY <1>7, <1>11, <2>2, <3>2 DEF Owner
      <4>2. s \notin spoiled /\ file'[s] = file[s]
        BY <1>3, <1>10, <2>2, <3>2
      <4>. QED
        BY <1>13, <2>1, <2>2, <4>1, <4>2 DEF IInv, NothingLeft
    <3>. QED
      BY <3>1, <3>2
  <2>3. \A s : Owner(table, s)' = Owner(table, s) /\ Owner(Latest, s)' = Owner(d, s)
    BY <1>3, <2>1 DEF Owner
  <2>. QED
    BY <1>10, <2>2, <2>3 DEF NothingLeft
<1>. QED
  BY <1>13, <1>14, <1>15, <1>16, <1>17, <1>18, <1>19, <1>20 DEF IInv

(* A clear forgets everything, with nobody else there.                     *)
LEMMA ClearKeeps ==
    ASSUME IInv, NEW p \in Procs, Clear(p)
    PROVE  IInv'
<1>. DEFINE d == Cleared(Draft)
<1>1. /\ Typed /\ Stepping /\ txn.by = p /\ txn # NoTxn /\ IsTxn /\ Good(Draft)
      /\ handle[p] # Shut /\ Alone(p)
  BY BatchIs DEF IInv, Clear, IsTxn
<1>2. Good(d) /\ d.owners = Draft.owners /\ DOMAIN d.held = {}
  BY <1>1, ClearedGood, ZenonT(40)
<1>3. /\ txn' = [txn EXCEPT !.draft = d, !.cleared = TRUE]
      /\ handle' = [handle EXCEPT ![p] = Opened]
      /\ version' = [version EXCEPT ![p][txn.on] = 0]
      /\ table' = table /\ line' = line /\ commits' = commits /\ missed' = missed
  BY DEF Clear
<1>4. \/ file' = NoFile /\ spoiled' = {}
      \/ /\ ~ handle[p].attached /\ file' = file
         /\ spoiled' = spoiled \cup {s \in DOMAIN file : file[s] # Blank}
  BY DEF Clear
<1>. HIDE DEF d
<1>5. txn' = [by |-> txn.by, on |-> txn.on, draft |-> d, touched |-> txn.touched, cleared |-> TRUE]
  <2>1. PICK u : u = [txn EXCEPT !.draft = d] /\ txn' = [u EXCEPT !.cleared = TRUE]
    BY <1>3, Zenon
  <2>2. txn \in [by : {txn.by}, on : {txn.on}, draft : {Draft}, touched : {txn.touched},
                 cleared : BOOLEAN]
    BY <1>1 DEF IsTxn
  <2>3. u \in [by : {txn.by}, on : {txn.on}, draft : {d}, touched : {txn.touched},
               cleared : BOOLEAN]
    BY <2>1, <2>2
  <2>. QED
    BY <2>1, <2>3
<1>6. /\ txn'.by = p /\ txn'.on = txn.on /\ txn'.draft = d /\ Draft' = d
      /\ txn'.touched = txn.touched /\ txn'.cleared
  BY <1>1, <1>5 DEF Draft
<1>7. IsTxn' /\ txn' # NoTxn /\ \A q \in Procs \ {p} : txn'.by # q
  <2>1. txn'.cleared \in BOOLEAN /\ txn' = [by |-> txn'.by, on |-> txn'.on, draft |-> Draft',
              touched |-> txn'.touched, cleared |-> txn'.cleared]
    BY <1>5, <1>6
  <2>2. IsTxn'
    BY <1>1, <1>2, <1>6, <2>1 DEF IsTxn
  <2>. QED
    BY <1>1, <1>6, <2>2, BatchIs
<1>8. /\ handle'[p] = Opened /\ handle'[p] # Shut /\ handle'[p].step = "open"
      /\ ~ handle'[p].attached /\ ~ handle'[p].loaded /\ DOMAIN handle'[p].map = {}
      /\ handle'[p].todo = {}
      /\ \A q \in Procs \ {p} : handle'[q] = Shut
      /\ handle' \in [Procs -> {Shut} \cup Handles]
  <2>1. Opened # Shut
    BY OpenedIs DEF Shut
  <2>. QED
    BY <1>1, <1>3, <2>1, OpenedIs DEF Typed, Alone
<1>9. /\ ChangedBy(p) = txn.touched /\ ChangedBy(p)' = txn.touched
      /\ \A q \in Procs \ {p} : ChangedBy(q) = {}
  <2>1. handle[p].todo = {}
    BY <1>1, BatchIs DEF Stepping, StepFits
  <2>. QED
    BY <1>1, <1>6, <1>8, <2>1 DEF ChangedBy, Alone
<1>10. /\ version' \in [Procs -> [Threads -> Nat]]
       /\ \A q \in Procs, t \in Threads : version'[q][t] = version[q][t] \/ version'[q][t] = 0
  BY <1>1, <1>3 DEF Typed, IsTxn
<1>11. file' \in [DOMAIN file' -> Vectors \cup {Blank}] /\ DOMAIN file' \in {{}, Slots} /\ spoiled' \subseteq Slots
  <2>1. CASE file' = NoFile /\ spoiled' = {}
    BY <2>1 DEF NoFile
  <2>2. CASE file' = file /\ spoiled' = spoiled \cup {s \in DOMAIN file : file[s] # Blank}
    BY <1>1, <2>2 DEF Typed
  <2>. QED
    BY <1>4, <2>1, <2>2
<1>12. Typed'
  BY <1>1, <1>3, <1>7, <1>8, <1>10, <1>11 DEF Typed
<1>13. Stepping' /\ Loading'
  BY <1>6, <1>7, <1>8 DEF Stepping, StepFits, Loading, Loads, Shut
<1>14. Known'
  BY <1>8 DEF Known, Knows
<1>15. MapPointsHome' /\ HasFile' /\ RowsMatchTable'
  <2>1. \A q \in Procs : Homes(q)'
    BY <1>8 DEF Homes
  <2>. QED
    BY <1>6, <1>7, <1>8, <2>1, HomesAre DEF HasFile, RowsMatchTable
<1>16. Watching'
  <2>1. ASSUME NEW q \in Procs, NEW t \in Threads
        PROVE  Watches(q, t)'
    <3>1. ~ (handle'[q] # Shut /\ handle'[q].loaded)
      BY <1>8
    <3>2. line[q][t].n \in Nat
      BY <1>1, LookedIs, LinesAre
    <3>3. Watches(q, t) /\ version[q][t] \in Nat
      BY <1>1 DEF IInv, Watching, Typed
    <3>. QED
      BY <1>3, <1>10, <3>1, <3>2, <3>3 DEF Watches
  <2>. QED
    BY <2>1 DEF Watching
<1>17. NothingLeft'
  <2>1. \A s \in DOMAIN file' \ spoiled' : file'[s] = Blank
    BY <1>4 DEF NoFile
  <2>. QED
    BY <2>1 DEF NothingLeft
<1>18. Writing'
  <2>1. Draft'.owners \subseteq table'.owners
    BY <1>1, <1>2, <1>3, <1>6 DEF IInv, Writing
  <2>2. Alone(p)'
    BY <1>8 DEF Alone
  <2>3. ASSUME file' # NoFile, NEW i \in DOMAIN table.held
        PROVE  \/ table.held[i].slot \in spoiled'
               \/ file'[table.held[i].slot] = table.held[i].vec
    <3>1. ~ handle[p].attached /\ file' = file /\ spoiled \subseteq spoiled' /\ file # NoFile
      BY <1>4, <2>3
    <3>2. CASE txn.cleared
      BY <1>1, <2>3, <3>1, <3>2 DEF IInv, Writing, Cleans
    <3>3. CASE ~ txn.cleared
      <4>1. Draft.held = table.held
        BY <1>1, <3>1, <3>3 DEF IInv, Writing, Diverges
      <4>2. CASE i \in txn.touched
        BY <1>1, <2>3, <3>1, <4>1, <4>2 DEF IInv, Writing
      <4>3. CASE i \notin txn.touched
        <5>1. i \notin Changing
          BY <1>9, <4>3, ChangingIs
        <5>. QED
          BY <1>1, <2>3, <3>1, <3>3, <5>1 DEF IInv, RowsMatchTable
      <4>. QED
        BY <4>2, <4>3
    <3>. QED
      BY <3>2, <3>3
  <2>4. Cleans'
    BY <1>2, <1>3, <1>6, <1>8, <2>2, <2>3 DEF Cleans
  <2>. QED
    BY <1>2, <1>6, <2>1, <2>4 DEF Writing
<1>. QED
  BY <1>12, <1>13, <1>14, <1>15, <1>16, <1>17, <1>18 DEF IInv

(* A batch that is committed leaves nothing to remember: what it wrote is  *)
(* in the file, and the others knew nothing the batch has changed.         *)
LEMMA CommitKeeps ==
    ASSUME IInv, NEW p \in Procs, Commit(p)
    PROVE  IInv'
<1>1. /\ Typed /\ Stepping /\ txn.by = p /\ txn # NoTxn /\ IsTxn /\ Good(Draft)
      /\ handle[p] # Shut /\ handle[p].todo = {}
  <2>1. txn.by = p
    BY DEF Commit
  <2>2. Typed /\ Stepping /\ txn # NoTxn /\ IsTxn /\ handle[p] # Shut
    BY <2>1, BatchIs DEF IInv
  <2>. QED
    BY <2>1, <2>2 DEF Stepping, StepFits, IsTxn
<1>2. /\ txn' = NoTxn /\ table' = Draft /\ file' = file /\ handle' = handle /\ version' = version
      /\ spoiled' = spoiled
  BY DEF Commit
<1>3. \/ Draft = table /\ line' = line /\ commits' = commits /\ missed' = missed
      \/ /\ commits' = commits + 1
         /\ line' = [line EXCEPT ![p][Writer].at = commits + 1]
         /\ missed' = missed \cup {<<q, handle[q].on>> : q \in {r \in Procs : handle[r].step = "mapped"}}
  BY DEF Commit
<1>4. \A q \in Procs : txn'.by # q
  BY <1>1, <1>2, BatchIs
<1>5. /\ ChangedBy(p) = txn.touched /\ ChangedBy(p)' = {}
      /\ \A q \in Procs \ {p} : ChangedBy(q)' = ChangedBy(q)
      /\ \A q \in Procs : ToBlank(q)' = ToBlank(q)
  BY <1>1, <1>2, <1>4 DEF ChangedBy, ToBlank
<1>6. ~ txn.cleared => Diverges
  BY <1>1 DEF IInv, Writing
<1>7. ASSUME NEW q \in Procs \ {p}, handle[q] # Shut
      PROVE  ~ txn.cleared /\ Diverges
  BY <1>1, <1>6, <1>7 DEF IInv, Writing, Cleans, Alone
<1>8. \A i \in DOMAIN Draft.held \ txn.touched :
         ~ txn.cleared /\ i \in DOMAIN table.held /\ Draft.held[i] = table.held[i]
  <2>1. DOMAIN Draft.held \subseteq Ids
    BY <1>1, TableTypes
  <2>2. txn.cleared => DOMAIN Draft.held \subseteq txn.touched
    BY <1>1 DEF IInv, Writing, Cleans
  <2>. QED
    BY <1>6, <2>1, <2>2 DEF Diverges
<1>9. \A i \in txn.touched \cap DOMAIN Draft.held :
         /\ i \in DOMAIN handle[p].map /\ file # NoFile
         /\ Draft.held[i].slot \in spoiled \/ file[Draft.held[i].slot] = Draft.held[i].vec
  BY <1>1 DEF IInv, Writing
<1>10. Typed' /\ Watching' /\ Loading'
  <2>1. CASE Draft = table /\ line' = line /\ commits' = commits /\ missed' = missed
    <3>1. \A q \in Procs : ReadsOn(q) => ReadsOn(q)'
      BY <1>2, <1>5, <1>9, <2>1 DEF ReadsOn
    <3>2. Watching'
      BY <1>2, <2>1, <3>1, WatchesStay DEF IInv, Watching
    <3>3. ASSUME NEW q \in Procs
          PROVE  Loads(q)'
      BY <1>1, <1>2, <2>1, <3>1, MappedIs, LoadsStay DEF IInv, Loading
    <3>4. Typed'
      BY <1>1, <1>2, <2>1 DEF Typed
    <3>. QED
      BY <3>2, <3>3, <3>4 DEF Loading
  <2>2. CASE /\ commits' = commits + 1
             /\ line' = [line EXCEPT ![p][Writer].at = commits + 1]
             /\ missed' = missed \cup {<<q, handle[q].on>> : q \in {r \in Procs : handle[r].step = "mapped"}}
    <3>1. commits \in Nat /\ commits' \in 0 .. MaxCommits /\ 0 .. commits \subseteq 0 .. commits'
      BY <1>1, <2>2, VectorFileAssumption DEF Typed
    <3>2. /\ line' \in [Procs -> [Lines -> [at : 0 .. commits', n : Nat]]]
          /\ \A q \in Procs, t \in Threads : line'[q][t] = line[q][t]
      <4>1. line \in [Procs -> [Lines -> [at : 0 .. commits', n : Nat]]] /\ commits + 1 \in 0 .. commits'
        BY <1>1, <2>2, <3>1 DEF Typed
      <4>. QED
        BY <2>2, <4>1, LinesAre
    <3>3. missed' \subseteq Procs \X Threads /\ missed \subseteq missed'
      BY <1>1, <2>2, MappedIs DEF Typed
    <3>4. \A q \in Procs, t \in Threads : line'[q][t].at # commits'
      <4>1. \A q \in Procs, t \in Threads : line[q][t].at \in 0 .. commits
        BY <1>1, LookedIs, LinesAre
      <4>. QED
        BY <2>2, <3>1, <3>2, <4>1
    <3>5. Typed'
      BY <1>1, <1>2, <3>1, <3>2, <3>3 DEF Typed
    <3>6. ASSUME NEW q \in Procs, NEW t \in Threads
          PROVE  Watches(q, t)'
      BY <1>2, <3>2, <3>3, <3>4 DEF IInv, Watching, Watches
    <3>7. ASSUME NEW q \in Procs
          PROVE  Loads(q)'
      BY <1>2, <2>2, <3>4 DEF Loads
    <3>. QED
      BY <3>5, <3>6, <3>7 DEF Watching, Loading
  <2>. QED
    BY <1>3, <2>1, <2>2
<1>11. Stepping' /\ Writing'
  BY <1>2, <1>4 DEF IInv, Stepping, StepFits, Writing
<1>12. Known'
  <2>1. ASSUME NEW q \in Procs, handle[q] # Shut, NEW i \in DOMAIN handle[q].map \ ChangedBy(q)',
               i \notin DOMAIN Draft.held
        PROVE  i \notin Draft.owners
    <3>1. CASE q = p
      BY <1>1, <2>1, <3>1 DEF IInv, Known, Knows
    <3>2. CASE q # p
      <4>1. i \notin ChangedBy(q) /\ Draft.owners \subseteq table.owners /\ Diverges
        BY <1>1, <1>5, <1>7, <2>1, <3>2 DEF IInv, Writing
      <4>. QED
        BY <2>1, <4>1 DEF IInv, Known, Knows, Diverges
    <3>. QED
      BY <3>1, <3>2
  <2>. QED
    BY <1>2, <1>4, <2>1 DEF Known, Knows
<1>13. MapPointsHome'
  <2>1. ASSUME NEW q \in Procs
        PROVE  Homes(q)'
    <3>1. CASE q = p
      BY <1>1, <1>2, <1>4, <3>1, HomesAre DEF IInv, Homes
    <3>2. CASE q # p
      <4>1. ASSUME handle[q] # Shut, NEW i \in (DOMAIN handle[q].map \cap DOMAIN Draft.held) \ handle[q].todo
            PROVE  handle[q].map[i] = Draft.held[i].slot
        <5>1. Diverges /\ txn.by # q /\ Draft.owners \subseteq table.owners
          BY <1>1, <1>7, <3>2, <4>1 DEF IInv, Writing
        <5>2. i \in DOMAIN table.held
          <6>1. ChangedBy(q) = handle[q].todo
            BY <4>1, <5>1 DEF ChangedBy
          <6>2. i \in table.owners
            BY <1>1, <4>1, <5>1 DEF Good
          <6>. QED
            BY <4>1, <6>1, <6>2 DEF IInv, Known, Knows
        <5>3. handle[q].map[i] = table.held[i].slot
          BY <4>1, <5>1, <5>2, HomesAre DEF IInv, Homes
        <5>. QED
          BY <4>1, <5>1, <5>2, <5>3 DEF Diverges
      <4>. QED
        BY <1>2, <1>4, <4>1 DEF Homes
    <3>. QED
      BY <3>1, <3>2
  <2>. QED
    BY <2>1, HomesAre
<1>14. RowsMatchTable'
  <2>1. ASSUME NEW i \in DOMAIN Draft.held, file # NoFile, i \notin Changing'
        PROVE  Draft.held[i].slot \in spoiled \/ file[Draft.held[i].slot] = Draft.held[i].vec
    <3>1. CASE i \in txn.touched
      BY <1>9, <2>1, <3>1
    <3>2. CASE i \notin txn.touched
      <4>1. i \notin Changing
        BY <1>5, <2>1, <3>2, ChangingIs
      <4>. QED
        BY <1>8, <2>1, <3>2, <4>1 DEF IInv, RowsMatchTable
    <3>. QED
      BY <3>1, <3>2
  <2>. QED
    BY <1>2, <2>1 DEF RowsMatchTable
<1>15. NothingLeft'
  <2>1. Latest' = Draft /\ Latest = Draft
    BY <1>1, <1>2 DEF Latest
  <2>2. \A s : Owner(table, s)' = Owner(Draft, s) /\ Owner(Latest, s)' = Owner(Draft, s)
    BY <1>2, <2>1 DEF Owner
  <2>. QED
    BY <1>2, <1>5, <2>1, <2>2 DEF IInv, NothingLeft
<1>16. HasFile'
  <2>1. SUFFICES ASSUME file = NoFile, NEW i \in DOMAIN Draft.held
                 PROVE  FALSE
    BY <1>2 DEF HasFile
  <2>2. i \notin txn.touched
    BY <1>9, <2>1
  <2>. QED
    BY <1>1, <1>8, <2>1, <2>2 DEF IInv, HasFile
<1>. QED
  BY <1>10, <1>11, <1>12, <1>13, <1>14, <1>15, <1>16 DEF IInv

(* A batch that is rolled back leaves what it has touched to be repaired.  *)
LEMMA RollbackKeeps ==
    ASSUME IInv, NEW p \in Procs, txn.by = p, ~ txn.cleared, txn' = NoTxn,
           handle' = [handle EXCEPT ![p].step = "repairing", ![p].on = txn.on, ![p].todo = txn.touched],
           table' = table, file' = file, line' = line, version' = version, commits' = commits,
           spoiled' = spoiled, missed' = missed
    PROVE  IInv'
<1>1. /\ Typed /\ Stepping /\ txn # NoTxn /\ IsTxn /\ Good(Draft) /\ Good(table)
      /\ handle[p] # Shut /\ handle[p] \in Handles /\ handle[p].todo = {} /\ handle[p].step = "open"
      /\ handle[p].loaded => handle[p].attached
  <2>1. Typed /\ Stepping /\ txn # NoTxn /\ IsTxn /\ handle[p] # Shut
    BY BatchIs DEF IInv
  <2>. QED
    BY <2>1, HandleIs DEF Stepping, StepFits, IsTxn, Typed
<1>2. Diverges
  BY <1>1 DEF IInv, Writing
<1>3. PICK f, g, h : /\ f = [handle[p] EXCEPT !.step = "repairing"] /\ g = [f EXCEPT !.on = txn.on]
                     /\ h = [g EXCEPT !.todo = txn.touched] /\ handle' = [handle EXCEPT ![p] = h]
  BY ZenonT(40)
<1>4. /\ h \in Handles /\ h.step = "repairing" /\ h.todo = txn.touched
      /\ h.attached = handle[p].attached /\ h.loaded = handle[p].loaded
      /\ h.map = handle[p].map /\ h.seen = handle[p].seen
  <2>1. /\ f \in Handles /\ f.step = "repairing"
        /\ f.attached = handle[p].attached /\ f.loaded = handle[p].loaded
        /\ f.map = handle[p].map /\ f.seen = handle[p].seen
    BY <1>1, <1>3 DEF Handles, Steps
  <2>2. /\ g \in Handles /\ g.step = "repairing"
        /\ g.attached = handle[p].attached /\ g.loaded = handle[p].loaded
        /\ g.map = handle[p].map /\ g.seen = handle[p].seen
    <3>1. txn.on \in Threads \cup {Nobody}
      BY <1>1 DEF IsTxn
    <3>. QED
      BY <1>3, <2>1, <3>1 DEF Handles
  <2>3. txn.touched \in SUBSET Ids
    BY <1>1 DEF IsTxn
  <2>. QED
    BY <1>3, <2>2, <2>3 DEF Handles
<1>5. /\ handle'[p] = h /\ h # Shut /\ \A q \in Procs \ {p} : handle'[q] = handle[q]
      /\ handle' \in [Procs -> {Shut} \cup Handles]
  <2>1. h # Shut
    BY <1>4 DEF Shut
  <2>2. handle \in [Procs -> {Shut} \cup Handles]
    BY <1>1 DEF Typed
  <2>. QED
    BY <1>3, <1>4, <2>1, <2>2
<1>6. \A q \in Procs : txn'.by # q
  BY <1>1, BatchIs
<1>7. \A q \in Procs : ChangedBy(q)' = ChangedBy(q)
  BY <1>1, <1>4, <1>5, <1>6 DEF ChangedBy
<1>8. /\ ToBlank(p) = {} /\ \A q \in Procs \ {p} : ToBlank(q)' = ToBlank(q)
      /\ ToBlank(p)' = {handle[p].map[i] : i \in txn.touched \cap DOMAIN handle[p].map}
  BY <1>1, <1>4, <1>5 DEF ToBlank
<1>9. \A q \in Procs : ReadsOn(q) => ReadsOn(q)'
  <2>1. ReadsOn(p) => ReadsOn(p)'
    <3>1. /\ handle'[p].map = handle[p].map /\ handle'[p].seen = handle[p].seen
          /\ ChangedBy(p)' = ChangedBy(p) /\ table' = table
      BY <1>4, <1>5, <1>7
    <3>. QED
      BY ONLY <3>1 DEF ReadsOn
  <2>2. \A q \in Procs \ {p} : ReadsOn(q) => ReadsOn(q)'
    BY <1>5, <1>7 DEF ReadsOn
  <2>. QED
    BY <2>1, <2>2
<1>10. Typed' /\ Writing'
  BY <1>1, <1>5 DEF Typed, Writing
<1>11. Stepping'
  BY <1>1, <1>4, <1>5, <1>6 DEF Stepping, StepFits
<1>12. Known'
  <2>1. ASSUME NEW q \in Procs
        PROVE  Knows(q)'
    <3>1. CASE q = p
      BY <1>1, <1>4, <1>5, <1>6, <1>7, <3>1 DEF IInv, Known, Knows
    <3>2. CASE q # p
      BY <1>5, <1>6, <1>7, <3>2 DEF IInv, Known, Knows
    <3>. QED
      BY <3>1, <3>2
  <2>. QED
    BY <2>1 DEF Known
<1>13. \A i \in DOMAIN handle[p].map \cap DOMAIN Draft.held : handle[p].map[i] = Draft.held[i].slot
  BY <1>1, HomesAre DEF IInv, Homes
<1>14. MapPointsHome'
  <2>1. ASSUME NEW q \in Procs
        PROVE  Homes(q)'
    <3>1. CASE q = p
      <4>1. ASSUME NEW i \in (DOMAIN handle[p].map \cap DOMAIN table.held) \ txn.touched
            PROVE  handle[p].map[i] = table.held[i].slot
        <5>1. i \in Ids
          BY <1>1, TableTypes
        <5>2. i \in DOMAIN Draft.held /\ Draft.held[i] = table.held[i]
          BY <1>2, <4>1, <5>1 DEF Diverges
        <5>. QED
          BY <1>13, <4>1, <5>2
      <4>. QED
        BY <1>4, <1>5, <1>6, <3>1, <4>1 DEF Homes
    <3>2. CASE q # p
      BY <1>5, <1>6, <3>2, HomesAre DEF IInv, Homes
    <3>. QED
      BY <3>1, <3>2
  <2>. QED
    BY <2>1, HomesAre
<1>15. RowsMatchTable'
  <2>1. \A i : i \in Changing' <=> i \in Changing
    BY <1>7, ChangingIs
  <2>. QED
    BY <2>1 DEF IInv, RowsMatchTable
<1>16. NothingLeft'
  <2>1. ASSUME NEW s \in DOMAIN file \ spoiled, Owner(table, s) = {}
        PROVE  file[s] = Blank \/ \E q \in Procs : s \in ToBlank(q)'
    <3>1. CASE Owner(Draft, s) = {}
      <4>1. Owner(Latest, s) = {}
        BY <1>1, <3>1 DEF Latest
      <4>2. file[s] = Blank \/ \E q \in Procs : s \in ToBlank(q)
        BY <2>1, <4>1 DEF IInv, NothingLeft
      <4>. QED
        BY <1>8, <4>2
    <3>2. CASE Owner(Draft, s) # {}
      <4>1. PICK j \in DOMAIN Draft.held : Draft.held[j].slot = s
        BY <3>2, OwnerOfRow
      <4>2. j \in Ids
        BY <1>1, TableTypes
      <4>3. j \in txn.touched
        BY <1>2, <2>1, <4>1, <4>2 DEF Diverges, Owner
      <4>4. j \in DOMAIN handle[p].map
        BY <1>1, <4>1, <4>3 DEF IInv, Writing
      <4>5. handle[p].map[j] = s
        BY <1>13, <4>1, <4>4
      <4>. QED
        BY <1>8, <4>3, <4>4, <4>5
    <3>. QED
      BY <3>1, <3>2
  <2>2. Latest' = table /\ \A s : Owner(table, s)' = Owner(table, s) /\ Owner(Latest, s)' = Owner(table, s)
    BY DEF Latest, Owner
  <2>. QED
    BY <2>1, <2>2 DEF NothingLeft
<1>17. HasFile'
  BY <1>1 DEF IInv, HasFile
<1>18. Watching'
  <2>1. ASSUME NEW q \in Procs, NEW t \in Threads
        PROVE  Watches(q, t)'
    <3>1. CASE q = p
      BY <1>1, <1>4, <1>5, <1>9, <3>1, WatchesStay DEF IInv, Watching
    <3>2. CASE q # p
      BY <1>5, <1>9, <3>2, WatchesStay DEF IInv, Watching
    <3>. QED
      BY <3>1, <3>2
  <2>. QED
    BY <2>1 DEF Watching
<1>19. Loading'
  <2>1. ASSUME NEW q \in Procs
        PROVE  Loads(q)'
    <3>1. CASE q = p
      BY <1>4, <1>5, <3>1 DEF Loads
    <3>2. CASE q # p
      BY <1>1, <1>5, <1>9, <3>2, MappedIs, LoadsStay DEF IInv, Loading
    <3>. QED
      BY <3>1, <3>2
  <2>. QED
    BY <2>1 DEF Loading
<1>. QED
  BY <1>10, <1>11, <1>12, <1>14, <1>15, <1>16, <1>17, <1>18, <1>19 DEF IInv

(* A clear that is rolled back finds the vectors again, and a file that is *)
(* the table's or is written anew.                                         *)
LEMMA RefillKeeps ==
    ASSUME IInv, NEW p \in Procs, txn.by = p, txn.cleared, txn' = NoTxn,
           table' = table, commits' = commits, Refill(p)
    PROVE  IInv'
<1>. DEFINE left == IF handle[p].attached THEN NoFile ELSE file
            M    == [i \in DOMAIN table.held |-> table.held[i].slot]
            S    == [k \in Kinds |-> MaxSeq(table, k)]
            full == [Attached EXCEPT !.loaded = TRUE, !.map = M, !.seen = S]
<1>1. /\ Typed /\ Stepping /\ txn # NoTxn /\ IsTxn /\ Good(Draft) /\ Good(table)
      /\ handle[p] # Shut /\ handle[p].todo = {}
  <2>1. Typed /\ Stepping /\ txn # NoTxn /\ IsTxn /\ handle[p] # Shut
    BY BatchIs DEF IInv
  <2>. QED
    BY <2>1 DEF Stepping, StepFits, IsTxn, Typed
<1>2. /\ \A q \in Procs \ {p} : handle[q] = Shut
      /\ ~ handle[p].attached =>
            /\ DOMAIN Draft.held = {}
            /\ file # NoFile => \A i \in DOMAIN table.held :
                  \/ table.held[i].slot \in spoiled
                  \/ file[table.held[i].slot] = table.held[i].vec
  BY <1>1 DEF IInv, Writing, Cleans, Alone
<1>3. \/ /\ DOMAIN table.held = {} /\ handle' = [handle EXCEPT ![p] = Opened]
         /\ file' = left /\ spoiled' = spoiled \cap DOMAIN left
         /\ line' = line /\ version' = version /\ missed' = missed
      \/ /\ left # NoFile /\ handle' = [handle EXCEPT ![p] = Attached]
         /\ file' = file /\ spoiled' = spoiled
         /\ line' = line /\ version' = version /\ missed' = missed
      \/ /\ DOMAIN table.held # {} /\ handle' = [handle EXCEPT ![p] = full]
         /\ file' = [s \in Slots |-> RowOf(table, s)] /\ spoiled' = {}
         /\ Looks(p, Writer)
         /\ version' = [version EXCEPT ![p][txn.on] = Looked(p, Writer).n]
         /\ missed' = missed \cup {<<p, txn.on>>}
  BY DEF Refill
<1>4. /\ full \in Handles /\ full.step = "open" /\ full.todo = {} /\ full.map = M /\ full.attached
  <2>1. PICK f, g : /\ f = [Attached EXCEPT !.loaded = TRUE] /\ g = [f EXCEPT !.map = M]
                    /\ full = [g EXCEPT !.seen = S]
    BY Zenon
  <2>2. M \in Maps
    <3>1. DOMAIN M = DOMAIN table.held /\ DOMAIN M \subseteq Ids /\ \A i \in DOMAIN M : M[i] \in Slots
      BY <1>1, TableTypes
    <3>2. M = [i \in DOMAIN M |-> M[i]]
      OBVIOUS
    <3>. HIDE DEF M
    <3>. QED
      BY <3>1, <3>2, MapOf
  <2>3. S \in [Kinds -> Nat]
    BY <1>1, HighestSeq
  <2>. HIDE DEF full, M, S
  <2>4. f \in Handles /\ f.step = "open" /\ f.todo = {} /\ f.attached
    BY <2>1, OpenedIs DEF Handles
  <2>5. g \in Handles /\ g.step = "open" /\ g.todo = {} /\ g.attached /\ g.map = M
    BY <2>1, <2>2, <2>4 DEF Handles
  <2>. QED
    BY <2>1, <2>3, <2>5 DEF Handles
<1>5. /\ DOMAIN M = DOMAIN table.held /\ \A i \in DOMAIN M : M[i] = table.held[i].slot
  OBVIOUS
<1>. HIDE DEF full, M, S
<1>6. PICK h \in Handles :
         /\ handle' = [handle EXCEPT ![p] = h] /\ h.step = "open" /\ h.todo = {}
         /\ h.loaded => h.attached /\ DOMAIN table.held \subseteq DOMAIN h.map
         /\ \A i \in DOMAIN h.map : i \in DOMAIN table.held /\ h.map[i] = table.held[i].slot
  BY <1>3, <1>4, <1>5, OpenedIs
<1>7. /\ handle'[p] = h /\ h # Shut /\ \A q \in Procs \ {p} : handle'[q] = Shut
      /\ handle' \in [Procs -> {Shut} \cup Handles]
  <2>1. h # Shut
    BY <1>6 DEF Shut
  <2>2. handle \in [Procs -> {Shut} \cup Handles]
    BY <1>1 DEF Typed
  <2>. QED
    BY <1>2, <1>6, <2>1, <2>2
<1>8. \A q \in Procs : txn'.by # q
  BY <1>1, BatchIs
<1>9. \A q \in Procs : ToBlank(q) = {} /\ ToBlank(q)' = {} /\ ChangedBy(q)' = {}
  BY <1>1, <1>2, <1>6, <1>7, <1>8 DEF ToBlank, ChangedBy
<1>10. /\ line' \in [Procs -> [Lines -> [at : 0 .. commits, n : Nat]]]
       /\ \A q \in Procs, t \in Threads : line'[q][t] = line[q][t]
  <2>1. CASE line' = line
    BY <1>1, <2>1 DEF Typed
  <2>2. CASE Looks(p, Writer)
    BY <1>1, <2>2, LooksIs, LinesAre
  <2>. QED
    BY <1>3, <2>1, <2>2
<1>11. /\ version' \in [Procs -> [Threads -> Nat]] /\ missed' \subseteq Procs \X Threads
       /\ \A q \in Procs, t \in Threads : <<q, t>> \notin missed' =>
             <<q, t>> \notin missed /\ version'[q][t] = version[q][t]
  <2>1. CASE version' = version /\ missed' = missed
    BY <1>1, <2>1 DEF Typed
  <2>2. CASE /\ version' = [version EXCEPT ![p][txn.on] = Looked(p, Writer).n]
             /\ missed' = missed \cup {<<p, txn.on>>}
    <3>1. Looked(p, Writer).n \in Nat /\ txn.on \in Threads
      BY <1>1, LookedIs, LinesAre DEF IsTxn
    <3>2. version \in [Procs -> [Threads -> Nat]] /\ missed \subseteq Procs \X Threads
      BY <1>1 DEF Typed
    <3>. QED
      BY <2>2, <3>1, <3>2
  <2>. QED
    BY <1>3, <2>1, <2>2
<1>12. /\ file' \in [DOMAIN file' -> Vectors \cup {Blank}] /\ DOMAIN file' \in {{}, Slots}
       /\ spoiled' \subseteq Slots
  <2>1. CASE file' = left /\ spoiled' = spoiled \cap DOMAIN left
    BY <1>1, <2>1 DEF Typed, NoFile
  <2>2. CASE file' = file /\ spoiled' = spoiled
    BY <1>1, <2>2 DEF Typed
  <2>3. CASE file' = [s \in Slots |-> RowOf(table, s)] /\ spoiled' = {}
    <3>1. \A s : RowOf(table, s) \in Vectors \cup {Blank}
      BY <1>1, RowTypes
    <3>. QED
      BY <2>3, <3>1
  <2>. QED
    BY <1>3, <2>1, <2>2, <2>3
<1>13. Typed' /\ Writing'
  BY <1>1, <1>7, <1>10, <1>11, <1>12 DEF Typed, Writing
<1>14. Stepping' /\ Loading'
  BY <1>6, <1>7, <1>8 DEF Stepping, StepFits, Loading, Loads, Shut
<1>15. Known'
  BY <1>6, <1>7, <1>8 DEF Known, Knows
<1>16. MapPointsHome'
  <2>1. \A q \in Procs : Homes(q)'
    BY <1>6, <1>7, <1>8 DEF Homes
  <2>. QED
    BY <2>1, HomesAre
<1>17. RowsMatchTable'
  <2>1. ASSUME NEW i \in DOMAIN table.held, file' # NoFile
        PROVE  table.held[i].slot \in spoiled' \/ file'[table.held[i].slot] = table.held[i].vec
    <3>1. table.held[i].slot \in Slots /\ RowOf(table, table.held[i].slot) = table.held[i].vec
      BY <1>1, TableTypes, RowOfOwner
    <3>. QED
      BY <1>2, <1>3, <2>1, <3>1
  <2>. QED
    BY <2>1 DEF RowsMatchTable
<1>18. NothingLeft'
  <2>1. ASSUME NEW s \in DOMAIN file' \ spoiled', Owner(table, s) = {}
        PROVE  file'[s] = Blank
    <3>1. CASE file' = [r \in Slots |-> RowOf(table, r)]
      BY <2>1, <3>1, OwnerOfRow
    <3>2. CASE ~ handle[p].attached /\ file' = file /\ s \notin spoiled
      <4>1. Latest = Draft /\ Owner(Draft, s) = {}
        BY <1>1, <1>2, <3>2 DEF Latest, Owner
      <4>. QED
        BY <1>9, <2>1, <3>2, <4>1 DEF IInv, NothingLeft
    <3>3. file' # NoFile
      BY <2>1 DEF NoFile
    <3>. QED
      BY <1>3, <2>1, <3>1, <3>2, <3>3
  <2>2. Latest' = table /\ \A s : Owner(Latest, s)' = Owner(table, s)
    BY DEF Latest, Owner
  <2>. QED
    BY <2>1, <2>2 DEF NothingLeft
<1>19. HasFile'
  <2>1. SUFFICES ASSUME file' = NoFile, NEW i \in DOMAIN table.held
                 PROVE  FALSE
    BY DEF HasFile
  <2>2. file' = [s \in Slots |-> RowOf(table, s)]
    BY <1>3, <2>1
  <2>3. DOMAIN file' = Slots /\ table.held[i].slot \in Slots
    BY <1>1, <2>1, <2>2, TableTypes
  <2>. QED
    BY <2>1, <2>3 DEF NoFile
<1>20. Watching'
  <2>1. ASSUME NEW q \in Procs, NEW t \in Threads
        PROVE  Watches(q, t)'
    <3>1. handle'[q] # Shut /\ handle'[q].loaded => ReadsOn(q)'
      BY <1>6, <1>7 DEF ReadsOn
    <3>2. Watches(q, t) /\ line'[q][t] = line[q][t]
      BY <1>10 DEF IInv, Watching
    <3>3. <<q, t>> \notin missed' => <<q, t>> \notin missed /\ version'[q][t] = version[q][t]
      BY <1>11
    <3>. QED
      BY <3>1, <3>2, <3>3 DEF Watches
  <2>. QED
    BY <2>1 DEF Watching
<1>. QED
  BY <1>13, <1>14, <1>15, <1>16, <1>17, <1>18, <1>19, <1>20 DEF IInv

(* A repair makes the rows of the touched items the table's again, but for *)
(* those it spoils.                                                        *)
LEMMA RepairKeeps ==
    ASSUME IInv, NEW p \in Procs, Repair(p)
    PROVE  IInv'
<1>. DEFINE map    == handle[p].map
            todo   == handle[p].todo
            back   == todo \cap DOMAIN table.held
            gone   == todo \ back
            put    == {table.held[i].slot : i \in back}
            forgot == {map[i] : i \in gone \cap DOMAIN map}
            moved  == {map[i] : i \in back \cap DOMAIN map} \ put
            new    == Learnt(Restrict(map, DOMAIN map \ gone), [i \in back |-> table.held[i].slot])
<1>1. /\ Typed /\ Stepping /\ Good(table) /\ handle[p].step = "repairing"
      /\ handle[p] \in Handles /\ handle[p] # Shut /\ txn.by # p
      /\ handle[p].loaded => handle[p].attached
  <2>1. Typed /\ Stepping /\ Good(table) /\ handle[p].step = "repairing"
    BY DEF IInv, Repair, Typed
  <2>2. handle[p] # Shut
    BY <2>1 DEF Shut
  <2>. QED
    BY <2>1, <2>2, HandleIs DEF Stepping, StepFits
<1>2. /\ table' = table /\ txn' = txn /\ line' = line /\ version' = version
      /\ commits' = commits /\ missed' = missed
  BY DEF Repair
<1>3. PICK blank \in SUBSET forgot :
         /\ forgot \ put \subseteq blank
         /\ file' = [s \in DOMAIN file |->
               CASE s \in blank -> Blank
                 [] s \in put \ blank -> RowOf(table, s)
                 [] OTHER -> file[s]]
         /\ spoiled' = (spoiled \ (put \cup forgot))
                          \cup {s \in blank : Owner(table, s) # {}}
                          \cup {s \in put \cup forgot : InBatch(s)}
                          \cup {s \in moved \ forgot : Owner(table, s) = {}}
         /\ handle' = [handle EXCEPT ![p].map = new, ![p].step = "open", ![p].todo = {}, ![p].on = Nobody]
  BY Zenon DEF Repair
<1>4. /\ DOMAIN new = (DOMAIN map \ gone) \cup back
      /\ new = [i \in (DOMAIN map \ gone) \cup back |-> IF i \in back THEN table.held[i].slot ELSE map[i]]
  BY DEF Learnt, Restrict
<1>5. /\ \A i \in back : new[i] = table.held[i].slot
      /\ \A i \in DOMAIN new \ back : i \in DOMAIN map \ todo /\ new[i] = map[i]
  BY <1>4
<1>6. todo \subseteq Ids /\ DOMAIN map \subseteq Ids /\ \A i \in DOMAIN map : map[i] \in Slots
  BY <1>1, MapIs DEF Handles
<1>7. put \subseteq Slots /\ forgot \subseteq Slots /\ moved \subseteq Slots
  <2>1. \A i \in back : table.held[i].slot \in Slots
    BY <1>1, TableTypes
  <2>. QED
    BY <1>6, <2>1
<1>8. new \in Maps
  <2>1. DOMAIN new \subseteq Ids /\ \A i \in DOMAIN new : new[i] \in Slots
    <3>1. \A i \in back : table.held[i].slot \in Slots
      BY <1>1, TableTypes
    <3>. QED
      BY <1>4, <1>5, <1>6, <3>1
  <2>2. new = [i \in DOMAIN new |-> new[i]]
    BY <1>4
  <2>. HIDE DEF new
  <2>. QED
    BY <2>1, <2>2, MapOf
<1>. HIDE DEF new
<1>9. PICK h : /\ handle' = [handle EXCEPT ![p] = h]
               /\ h \in Handles /\ h.step = "open" /\ h.todo = {} /\ h.map = new
               /\ h.attached = handle[p].attached /\ h.loaded = handle[p].loaded /\ h.seen = handle[p].seen
  <2>1. PICK e, f, g, h : /\ e = [handle[p] EXCEPT !.map = new] /\ f = [e EXCEPT !.step = "open"]
                          /\ g = [f EXCEPT !.todo = {}] /\ h = [g EXCEPT !.on = Nobody]
                          /\ handle' = [handle EXCEPT ![p] = h]
    BY <1>3, Zenon
  <2>2. /\ e \in Handles /\ e.map = new /\ e.attached = handle[p].attached
        /\ e.loaded = handle[p].loaded /\ e.seen = handle[p].seen
    BY <1>1, <1>8, <2>1 DEF Handles
  <2>3. /\ f \in Handles /\ f.step = "open" /\ f.map = new /\ f.attached = handle[p].attached
        /\ f.loaded = handle[p].loaded /\ f.seen = handle[p].seen
    BY <2>1, <2>2 DEF Handles, Steps
  <2>4. /\ g \in Handles /\ g.step = "open" /\ g.todo = {} /\ g.map = new
        /\ g.attached = handle[p].attached
        /\ g.loaded = handle[p].loaded /\ g.seen = handle[p].seen
    BY <2>1, <2>3 DEF Handles
  <2>5. /\ h \in Handles /\ h.step = "open" /\ h.todo = {} /\ h.map = new
        /\ h.attached = handle[p].attached
        /\ h.loaded = handle[p].loaded /\ h.seen = handle[p].seen
    BY <2>1, <2>4 DEF Handles
  <2>. QED
    BY <2>1, <2>5
<1>10. /\ handle'[p] = h /\ h # Shut /\ \A q \in Procs \ {p} : handle'[q] = handle[q]
       /\ handle' \in [Procs -> {Shut} \cup Handles]
       /\ Latest' = Latest /\ Draft' = Draft /\ (IsTxn' <=> IsTxn)
       /\ \A s : Owner(Latest, s)' = Owner(Latest, s) /\ Owner(table, s)' = Owner(table, s)
       /\ \A q \in Procs \ {p} : ChangedBy(q)' = ChangedBy(q) /\ ToBlank(q)' = ToBlank(q)
       /\ \A q \in Procs \ {p} : ReadsOn(q)' <=> ReadsOn(q)
       /\ StepFits(p)' => Stepping'
       /\ Knows(p)' => Known'
       /\ Homes(p)' => MapPointsHome'
       /\ txn = NoTxn \/ txn.by = p \/ handle[p] = Shut
             \/ (~ txn.cleared /\ Diverges /\ Diverges')
  BY <1>2, <1>9, OthersStay, ZenonT(40)
<1>11. txn # NoTxn => ~ txn.cleared /\ Diverges'
  BY <1>1, <1>10
<1>12. /\ ChangedBy(p) = todo /\ ChangedBy(p)' = {} /\ ToBlank(p)' = {}
       /\ ToBlank(p) = {map[i] : i \in todo \cap DOMAIN map}
  BY <1>1, <1>2, <1>9, <1>10 DEF ChangedBy, ToBlank
<1>. HIDE DEF put, forgot, moved
<1>13. /\ DOMAIN file' = DOMAIN file /\ (file' = NoFile <=> file = NoFile)
       /\ \A s \in DOMAIN file :
             /\ s \in blank => file'[s] = Blank
             /\ s \in put \ blank => file'[s] = RowOf(table, s)
             /\ s \notin put \cup forgot => file'[s] = file[s]
       /\ file' \in [DOMAIN file' -> Vectors \cup {Blank}]
  <2>1. /\ DOMAIN file' = DOMAIN file
        /\ \A s \in DOMAIN file :
              /\ s \in blank => file'[s] = Blank
              /\ s \in put \ blank => file'[s] = RowOf(table, s)
              /\ s \notin put \cup forgot => file'[s] = file[s]
    BY <1>3
  <2>2. file' = NoFile <=> DOMAIN file' = {}
    BY <1>3 DEF NoFile
  <2>3. \A s \in DOMAIN file : file'[s] \in Vectors \cup {Blank}
    <3>1. \A s : RowOf(table, s) \in Vectors \cup {Blank}
      BY <1>1, RowTypes
    <3>. QED
      BY <1>1, <1>3, <2>1, <3>1, FileIs
  <2>4. file' \in [DOMAIN file' -> Vectors \cup {Blank}]
    BY <1>3, <2>1, <2>3
  <2>. QED
    BY <1>1, <2>1, <2>2, <2>4, FileIs
<1>14. Typed'
  <2>1. spoiled' \subseteq Slots
    BY <1>1, <1>3, <1>7 DEF Typed
  <2>. QED
    BY <1>1, <1>2, <1>10, <1>13, <2>1 DEF Typed
<1>15. Stepping'
  <2>1. StepFits(p)'
    BY <1>1, <1>2, <1>9, <1>10 DEF StepFits
  <2>. QED
    BY <1>10, <2>1
<1>16. Known'
  <2>1. \A i \in DOMAIN new : i \notin DOMAIN table.held => i \notin table.owners
    BY <1>1, <1>5, <1>12 DEF IInv, Known, Knows
  <2>2. Knows(p)'
    BY <1>1, <1>2, <1>9, <1>10, <2>1 DEF Knows
  <2>. QED
    BY <1>10, <2>2
<1>17. MapPointsHome'
  <2>1. \A i \in DOMAIN new \cap DOMAIN table.held : new[i] = table.held[i].slot
    <3>1. \A i \in (DOMAIN map \cap DOMAIN table.held) \ todo : map[i] = table.held[i].slot
      BY <1>1, HomesAre DEF IInv, Homes
    <3>. QED
      BY <1>5, <3>1
  <2>2. Homes(p)'
    BY <1>1, <1>2, <1>9, <1>10, <2>1 DEF Homes
  <2>. QED
    BY <1>10, <2>2
<1>18. \A s \in put \cup forgot : s \in blank \/ s \in put \ blank
  BY <1>3
<1>19. /\ \A s \in spoiled \ (put \cup forgot) : s \in spoiled'
       /\ \A s \in blank : Owner(table, s) # {} => s \in spoiled'
       /\ \A s \in put \cup forgot : InBatch(s) => s \in spoiled'
       /\ \A s \in moved \ forgot : Owner(table, s) = {} => s \in spoiled'
  BY <1>3
<1>20. Writing'
  <2>1. ASSUME txn # NoTxn, NEW i \in txn.touched \cap DOMAIN Draft.held
        PROVE  /\ i \in DOMAIN handle[txn.by].map /\ file' # NoFile
               /\ Draft.held[i].slot \in spoiled' \/ file'[Draft.held[i].slot] = Draft.held[i].vec
    <3>. DEFINE s == Draft.held[i].slot
    <3>1. /\ i \in DOMAIN handle[txn.by].map /\ file # NoFile
          /\ s \in spoiled \/ file[s] = Draft.held[i].vec
      BY <2>1 DEF IInv, Writing
    <3>2. Good(Draft) /\ s \in Slots /\ s \in DOMAIN file
      BY <1>1, <2>1, <3>1, BatchIs, TableTypes, FileIs DEF IsTxn
    <3>3. RowOf(Draft, s) = Draft.held[i].vec
      BY <2>1, <3>2, RowOfOwner
    <3>. HIDE DEF s
    <3>4. CASE s \in put \cup forgot /\ ~ InBatch(s)
      <4>1. RowOf(table, s) = Draft.held[i].vec
        BY <2>1, <3>3, <3>4 DEF InBatch, Draft
      <4>2. CASE s \in blank /\ Owner(table, s) = {}
        <5>1. Draft.held[i].vec = Blank
          BY <4>1, <4>2, OwnerOfRow
        <5>. QED
          BY <1>13, <3>1, <3>2, <4>2, <5>1 DEF s
      <4>3. CASE s \in blank /\ Owner(table, s) # {}
        BY <1>13, <1>19, <3>1, <4>3 DEF s
      <4>4. CASE s \in put \ blank
        BY <1>13, <3>1, <3>2, <4>1, <4>4 DEF s
      <4>. QED
        BY <1>18, <3>4, <4>2, <4>3, <4>4
    <3>5. CASE s \in put \cup forgot /\ InBatch(s)
      BY <1>13, <1>19, <3>1, <3>5 DEF s
    <3>6. CASE s \notin put \cup forgot
      BY <1>13, <1>19, <3>1, <3>2, <3>6 DEF s
    <3>. QED
      BY <3>4, <3>5, <3>6
  <2>2. txn # NoTxn => txn.by \in Procs \ {p} /\ handle'[txn.by] = handle[txn.by]
    BY <1>1, <1>10, BatchIs
  <2>3. txn # NoTxn => Draft.owners \subseteq table.owners
    BY DEF IInv, Writing
  <2>. QED
    BY <1>2, <1>10, <1>11, <2>1, <2>2, <2>3 DEF Writing
<1>21. RowsMatchTable'
  <2>1. ASSUME NEW i \in DOMAIN table.held, file # NoFile, i \notin Changing'
        PROVE  table.held[i].slot \in spoiled' \/ file'[table.held[i].slot] = table.held[i].vec
    <3>. DEFINE s == table.held[i].slot
    <3>1. /\ Owner(table, s) # {} /\ RowOf(table, s) = table.held[i].vec
          /\ s \in DOMAIN file
      <4>1. Owner(table, s) = {i} /\ RowOf(table, s) = table.held[i].vec
        BY <1>1, <2>1, RowOfOwner, Zenon
      <4>2. s \in Slots
        BY <1>1, <2>1, TableTypes
      <4>. QED
        BY <1>1, <2>1, <4>1, <4>2, FileIs
    <3>2. CASE s \in put \cup forgot
      BY <1>13, <1>18, <1>19, <3>1, <3>2
    <3>3. CASE s \notin put \cup forgot
      <4>1. i \notin todo
        BY <2>1, <3>3 DEF put
      <4>2. i \notin Changing
        BY <1>10, <1>12, <2>1, <4>1, ChangingIs
      <4>3. s \in spoiled \/ file[s] = table.held[i].vec
        BY <1>11, <2>1, <4>2 DEF IInv, RowsMatchTable
      <4>. QED
        BY <1>13, <1>19, <3>1, <3>3, <4>3
    <3>. QED
      BY <3>2, <3>3
  <2>. QED
    BY <1>2, <1>13, <2>1 DEF RowsMatchTable
<1>22. NothingLeft'
  <2>1. ASSUME NEW s \in DOMAIN file \ spoiled', Owner(Latest, s) = {}
        PROVE  \/ file'[s] = Blank
               \/ Owner(table, s) = {} /\ \E q \in Procs : s \in ToBlank(q)'
    <3>1. CASE s \in blank
      BY <1>13, <2>1, <3>1
    <3>2. CASE s \in put \ blank
      <4>1. RowOf(table, s) = RowOf(Latest, s)
        BY <1>19, <2>1, <3>2, LatestRow
      <4>2. RowOf(Latest, s) = Blank
        BY <2>1, OwnerOfRow
      <4>. QED
        BY <1>13, <2>1, <3>2, <4>1, <4>2
    <3>3. CASE s \notin put \cup forgot
      <4>1. file'[s] = file[s] /\ s \notin spoiled
        BY <1>13, <1>19, <2>1, <3>3
      <4>2. \/ file[s] = Blank
            \/ Owner(table, s) = {} /\ \E q \in Procs : s \in ToBlank(q)
        BY <2>1, <4>1 DEF IInv, NothingLeft
      <4>3. CASE Owner(table, s) = {} /\ s \in ToBlank(p)
        <5>1. PICK i \in todo \cap DOMAIN map : s = map[i]
          BY <1>12, <4>3
        <5>2. i \in back
          BY <3>3, <5>1 DEF forgot
        <5>3. s \in moved
          BY <3>3, <5>1, <5>2 DEF moved
        <5>. QED
          BY <1>19, <2>1, <3>3, <4>3, <5>3
      <4>. QED
        BY <1>10, <4>1, <4>2, <4>3
    <3>. QED
      BY <1>18, <3>1, <3>2, <3>3
  <2>. QED
    BY <1>10, <1>13, <2>1 DEF NothingLeft
<1>23. HasFile'
  BY <1>1, <1>2, <1>13 DEF IInv, HasFile
<1>24. Watching'
  <2>1. ReadsOn(p) => ReadsOn(p)'
    BY <1>2, <1>4, <1>9, <1>10, <1>12 DEF ReadsOn
  <2>2. ASSUME NEW q \in Procs, NEW t \in Threads
        PROVE  Watches(q, t)'
    <3>1. CASE q = p
      BY <1>1, <1>2, <1>9, <1>10, <2>1, <3>1, WatchesStay DEF IInv, Watching
    <3>2. CASE q # p
      BY <1>2, <1>10, <3>2, WatchesStay DEF IInv, Watching
    <3>. QED
      BY <3>1, <3>2
  <2>. QED
    BY <2>2 DEF Watching
<1>25. Loading'
  <2>1. ASSUME NEW q \in Procs
        PROVE  Loads(q)'
    <3>1. CASE q = p
      BY <1>9, <1>10, <3>1 DEF Loads
    <3>2. CASE q # p
      BY <1>1, <1>2, <1>10, <3>2, MappedIs, LoadsStay DEF IInv, Loading
    <3>. QED
      BY <3>1, <3>2
  <2>. QED
    BY <2>1 DEF Loading
<1>. QED
  BY <1>14, <1>15, <1>16, <1>17, <1>20, <1>21, <1>22, <1>23, <1>24, <1>25 DEF IInv

-----------------------------------------------------------------------------
(* What a watermark has passed                                             *)

(* What p knows of a table that stays: it reads no further, and forgets    *)
(* only what it has changed.                                               *)
LEMMA AccountsGrow ==
    ASSUME NEW p \in Procs, Accounts(p), handle[p] # Shut, table' = table, passed'[p] = passed[p],
           handle'[p].seen = handle[p].seen,
           \A i \in DOMAIN handle[p].map : i \in DOMAIN handle'[p].map \/ i \in ChangedBy(p)',
           \A i \in DOMAIN table.held \cap ChangedBy(p) : i \in DOMAIN handle'[p].map \/ i \in ChangedBy(p)'
    PROVE  Accounts(p)'
  BY DEF Accounts

(* A process that has read nothing takes nothing for read.                 *)
LEMMA AccountsAnew ==
    ASSUME NEW p \in Procs, Good(table), table' = table, handle'[p].seen = Unread
    PROVE  Accounts(p)'
<1>1. ASSUME NEW i \in DOMAIN table.held
      PROVE  ~ (table.held[i].seq <= Unread[Kind(i)])
  <2>1. table.held[i].seq \in Nat \ {0}
    BY <1>1, TableTypes DEF Held
  <2>2. Unread[Kind(i)] = 0
    BY DEF Unread, Kind, Kinds
  <2>. QED
    BY <2>1, <2>2
<1>. QED
  BY <1>1 DEF Accounts

(* Only the process that takes a step has to account anew.                 *)
LEMMA AccountingStays ==
    ASSUME Accounting, NEW p \in Procs, Accounts(p)', table' = table,
           passed' \in [Procs -> SUBSET (Ids \X Nat)],
           \A q \in Procs \ {p} : passed'[q] = passed[q] /\ handle'[q] = handle[q],
           txn' = txn \/ txn.by \notin Procs \ {p}
    PROVE  Accounting'
<1>1. ASSUME NEW q \in Procs \ {p}
      PROVE  Accounts(q)'
  <2>1. Accounts(q) /\ passed'[q] = passed[q] /\ handle'[q] = handle[q]
    BY DEF Accounting
  <2>2. \A i \in ChangedBy(q) : i \in ChangedBy(q)'
    BY <2>1 DEF ChangedBy
  <2>. QED
    BY <2>1, <2>2 DEF Accounts
<1>. QED
  BY <1>1 DEF Accounting

(* The steps by which a process comes and goes.                            *)
LEMMA AccountsComing ==
    ASSUME IInv, Accounting, NEW p \in Procs, Open(p) \/ Fill(p) \/ Close(p) \/ Crash(p)
    PROVE  Accounting'
<1>1. Typed /\ Stepping /\ Good(table) /\ handle \in [Procs -> {Shut} \cup Handles]
  BY DEF IInv, Typed
<1>2. ASSUME Open(p)
      PROVE  Accounting'
  <2>. DEFINE filling == [Attached EXCEPT !.step = "filling"]
  <2>1. filling.seen = Unread
    BY OpenedIs DEF Handles
  <2>. HIDE DEF filling
  <2>2. PICK h : handle' = [handle EXCEPT ![p] = h] /\ h.seen = Unread
    BY <1>2, <2>1, OpenedIs DEF Open, filling
  <2>3. handle'[p] = h /\ \A q \in Procs \ {p} : handle'[q] = handle[q]
    BY <1>1, <2>2
  <2>4. table' = table /\ txn' = txn /\ passed' = passed
    BY <1>2 DEF Open
  <2>5. Accounts(p)'
    BY <1>1, <2>2, <2>3, <2>4, AccountsAnew
  <2>. QED
    BY <2>3, <2>4, <2>5, AccountingStays DEF Accounting
<1>3. ASSUME Fill(p)
      PROVE  Accounting'
  <2>. DEFINE map == [i \in DOMAIN table.held |-> table.held[i].slot]
  <2>1. handle' = [handle EXCEPT ![p].map = map, ![p].step = "filled"]
    BY <1>3 DEF Fill
  <2>2. PICK g, h : /\ g = [handle[p] EXCEPT !.map = map] /\ h = [g EXCEPT !.step = "filled"]
                    /\ handle' = [handle EXCEPT ![p] = h]
    BY <2>1, Zenon
  <2>3. /\ handle[p].step = "filling" /\ table' = table /\ txn' = txn /\ passed' = passed
    BY <1>3 DEF Fill
  <2>4. handle[p] \in Handles
    BY <1>1, <2>3, HandleIs DEF Steps
  <2>5. DOMAIN map = DOMAIN table.held
    OBVIOUS
  <2>. HIDE DEF map
  <2>6. h.map = map
    BY <2>2, <2>4 DEF Handles
  <2>7. handle'[p] = h /\ \A q \in Procs \ {p} : handle'[q] = handle[q]
    BY <1>1, <2>2
  <2>8. Accounts(p)'
    BY <2>3, <2>5, <2>6, <2>7 DEF Accounts
  <2>. QED
    BY <2>3, <2>7, <2>8, AccountingStays DEF Accounting
<1>4. ASSUME Close(p) \/ Crash(p)
      PROVE  Accounting'
  <2>1. /\ Gone(p) /\ table' = table
        /\ txn' = txn \/ txn.by = p
    BY <1>4 DEF Close, Crash
  <2>2. /\ handle'[p] = Shut
        /\ passed' \in [Procs -> SUBSET (Ids \X Nat)]
        /\ \A q \in Procs \ {p} : passed'[q] = passed[q] /\ handle'[q] = handle[q]
    BY <1>1, <2>1 DEF Gone, Accounting
  <2>3. Accounts(p)'
    BY <2>2 DEF Accounts
  <2>. QED
    BY <2>1, <2>2, <2>3, AccountingStays
<1>. QED
  BY <1>2, <1>3, <1>4

(* Reading on maps everything it takes for read.                           *)
LEMMA AccountsReading ==
    ASSUME IInv, Accounting, NEW p \in Procs, handle[p] # Shut, NEW h, handle' = [handle EXCEPT ![p] = h],
           h.map = Folded(handle[p], table).map,
           h.todo = handle[p].todo,
           table' = table, txn' = txn, passed' = passed
    PROVE  Accounting'
<1>. DEFINE F == Folded(handle[p], table)
<1>1. Typed /\ Good(table) /\ handle[p] \in Handles
  BY HandleIs DEF IInv, Typed
<1>2. /\ \A i \in DOMAIN handle[p].map : i \in DOMAIN F.map
      /\ \A i \in DOMAIN table.held :
            i \in DOMAIN F.map \/ table.held[i].seq <= handle[p].seen[Kind(i)]
  BY <1>1, FoldedIs, ZenonT(40)
<1>. HIDE DEF F
<1>3. handle'[p] = h /\ \A q \in Procs \ {p} : handle'[q] = handle[q]
  BY <1>1 DEF Typed
<1>4. h.map = F.map
  BY DEF F
<1>5. handle'[p] # Shut => ChangedBy(p)' = ChangedBy(p)
  BY <1>3 DEF ChangedBy
<1>6. Accounts(p)'
  BY <1>2, <1>3, <1>4, <1>5 DEF Accounting, Accounts
<1>. QED
  BY <1>3, <1>6, AccountingStays DEF Accounting

(* The steps of a search, and of the load before the first.                *)
LEMMA AccountsSearching ==
    ASSUME IInv, Accounting, NEW p \in Procs, NEW t \in Threads, Load(p, t) \/ Note(p, t) \/ Search(p, t)
    PROVE  Accounting'
<1>1. /\ Typed /\ Stepping /\ Good(table) /\ handle \in [Procs -> {Shut} \cup Handles]
  BY DEF IInv, Typed
<1>2. ASSUME Load(p, t)
      PROVE  Accounting'
  <2>1. PICK f, g, h : /\ f = [Folded(handle[p], table) EXCEPT !.attached = TRUE]
                       /\ g = [f EXCEPT !.step = "mapped"] /\ h = [g EXCEPT !.on = t]
                       /\ handle' = [handle EXCEPT ![p] = h]
    BY <1>2, Zenon DEF Load
  <2>2. handle[p] \in Handles /\ handle[p] # Shut
    BY <1>1, <1>2, HandleIs DEF Load, IsOpen, Steps
  <2>. DEFINE F == Folded(handle[p], table)
  <2>3. F \in Handles /\ F.todo = handle[p].todo
    BY <1>1, <2>2, FoldedIs, ZenonT(40)
  <2>4. f = [F EXCEPT !.attached = TRUE]
    BY <2>1
  <2>. HIDE DEF F
  <2>5. h.map = F.map /\ h.todo = F.todo
    <3>1. f \in Handles /\ f.map = F.map /\ f.todo = F.todo
      BY <2>3, <2>4 DEF Handles
    <3>2. g \in Handles /\ g.map = F.map /\ g.todo = F.todo
      BY <2>1, <3>1 DEF Handles, Steps
    <3>. QED
      BY <2>1, <3>2 DEF Handles
  <2>6. table' = table /\ txn' = txn /\ passed' = passed
    BY <1>2 DEF Load
  <2>. QED
    BY <2>1, <2>2, <2>3, <2>5, <2>6, AccountsReading DEF F
<1>3. ASSUME Search(p, t)
      PROVE  Accounting'
  <2>1. table' = table /\ txn' = txn /\ passed' = passed
    BY <1>3 DEF Search
  <2>2. CASE handle' = handle
    <3>1. \A q \in Procs : ChangedBy(q)' = ChangedBy(q)
      BY <2>1, <2>2 DEF ChangedBy
    <3>. QED
      BY <2>1, <2>2, <3>1 DEF Accounting, Accounts
  <2>3. CASE handle' = [handle EXCEPT ![p] = Folded(@, table)]
    <3>1. handle[p] # Shut /\ handle[p] \in Handles
      BY <1>1, <1>3, HandleIs DEF Search, MaySearch, IsOpen, Steps
    <3>2. Folded(handle[p], table).todo = handle[p].todo
      BY <1>1, <3>1, FoldedIs, ZenonT(40)
    <3>. QED
      BY <2>1, <2>3, <3>1, <3>2, AccountsReading
  <2>. QED
    BY <1>3, <2>2, <2>3 DEF Search
<1>4. ASSUME Note(p, t)
      PROVE  Accounting'
  <2>1. /\ table' = table /\ txn' = txn
        /\ handle[p].step \in {"mapped", "filled"}
    BY <1>4 DEF Note
  <2>2. handle[p] \in Handles /\ handle[p] # Shut
    BY <1>1, <2>1, HandleIs DEF Steps
  <2>3. PICK d, f, g : /\ d = [handle[p] EXCEPT !.step = "open"] /\ f = [d EXCEPT !.loaded = TRUE]
                       /\ g = [f EXCEPT !.on = Nobody]
    OBVIOUS
  <2>4. /\ g \in Handles /\ g.map = handle[p].map /\ g.todo = handle[p].todo /\ g.seen = handle[p].seen
    <3>1. d \in Handles /\ d.map = handle[p].map /\ d.todo = handle[p].todo /\ d.seen = handle[p].seen
      BY <2>2, <2>3 DEF Handles, Steps
    <3>2. f \in Handles /\ f.map = handle[p].map /\ f.todo = handle[p].todo /\ f.seen = handle[p].seen
      BY <2>3, <3>1 DEF Handles
    <3>. QED
      BY <2>3, <3>2 DEF Handles
  <2>5. CASE /\ handle' = [handle EXCEPT ![p].step = "open", ![p].loaded = TRUE, ![p].on = Nobody]
             /\ passed' = passed
    <3>1. handle' = [handle EXCEPT ![p] = g]
      BY <2>3, <2>5, Zenon
    <3>2. handle'[p] = g /\ \A q \in Procs \ {p} : handle'[q] = handle[q]
      BY <1>1, <3>1
    <3>3. g # Shut => ChangedBy(p)' = ChangedBy(p)
      BY <2>1, <2>2, <2>4, <3>2 DEF ChangedBy
    <3>4. Accounts(p)'
      BY <2>1, <2>2, <2>4, <2>5, <3>2, <3>3 DEF Accounting, Accounts
    <3>. QED
      BY <2>1, <2>5, <3>2, <3>4, AccountingStays DEF Accounting
  <2>6. CASE /\ handle' = [handle EXCEPT ![p].step = "open", ![p].loaded = TRUE, ![p].on = Nobody,
                                         ![p].seen = [k \in Kinds |-> MaxSeq(table, k)]]
             /\ passed' = [passed EXCEPT ![p] = Numbered(table, DOMAIN table.held \ DOMAIN handle[p].map)]
    <3>. DEFINE N == Numbered(table, DOMAIN table.held \ DOMAIN handle[p].map)
    <3>1. PICK h : h = [g EXCEPT !.seen = [k \in Kinds |-> MaxSeq(table, k)]] /\ handle' = [handle EXCEPT ![p] = h]
      BY <2>3, <2>6, Zenon
    <3>2. h.map = handle[p].map
      BY <2>4, <3>1 DEF Handles
    <3>3. handle'[p] = h /\ \A q \in Procs \ {p} : handle'[q] = handle[q]
      BY <1>1, <3>1
    <3>4. /\ N \subseteq Ids \X Nat
          /\ \A i \in DOMAIN table.held : i \in DOMAIN handle[p].map \/ <<i, table.held[i].seq>> \in N
      BY <1>1, TableTypes DEF Numbered
    <3>5. /\ passed' \in [Procs -> SUBSET (Ids \X Nat)] /\ passed'[p] = N
          /\ \A q \in Procs \ {p} : passed'[q] = passed[q]
      BY <2>6, <3>4 DEF Accounting
    <3>. HIDE DEF N
    <3>6. Accounts(p)'
      BY <2>1, <3>2, <3>3, <3>4, <3>5 DEF Accounts
    <3>. QED
      BY <2>1, <3>3, <3>5, <3>6, AccountingStays
  <2>. QED
    BY <1>4, <2>5, <2>6 DEF Note
<1>. QED
  BY <1>2, <1>3, <1>4

(* What p writes it maps, and what it erases it has changed.               *)
LEMMA AccountsWriting ==
    ASSUME IInv, Accounting, NEW p \in Procs, txn.by = p, NEW X \in SUBSET Ids,
           NEW a \in BOOLEAN, NEW m \in Maps, NEW d,
           txn' = [txn EXCEPT !.draft = d, !.touched = @ \cup X],
           handle' = [handle EXCEPT ![p].attached = a, ![p].map = m],
           \A i \in DOMAIN handle[p].map : i \in DOMAIN m \/ i \in X,
           table' = table, passed' = passed
    PROVE  Accounting'
<1>1. Typed /\ Stepping /\ IsTxn /\ handle[p] # Shut /\ handle[p] \in Handles
  BY BatchIs, HandleIs DEF IInv
<1>2. PICK g, h : /\ g = [handle[p] EXCEPT !.attached = a] /\ h = [g EXCEPT !.map = m]
                  /\ handle' = [handle EXCEPT ![p] = h]
  BY Zenon
<1>3. h.map = m /\ h.todo = handle[p].todo /\ h.seen = handle[p].seen /\ h # Shut
  <2>1. g \in Handles /\ g.todo = handle[p].todo /\ g.seen = handle[p].seen
    BY <1>1, <1>2 DEF Handles
  <2>2. h \in Handles /\ h.map = m /\ h.todo = handle[p].todo /\ h.seen = handle[p].seen
    BY <1>2, <2>1 DEF Handles
  <2>. QED
    BY <2>2 DEF Handles, Shut, Steps
<1>4. handle'[p] = h /\ \A q \in Procs \ {p} : handle'[q] = handle[q]
  BY <1>1, <1>2 DEF Typed
<1>5. txn'.by = p /\ txn'.touched = txn.touched \cup X
  <2>1. PICK u : u = [txn EXCEPT !.draft = d] /\ txn' = [u EXCEPT !.touched = txn.touched \cup X]
    BY Zenon
  <2>2. txn \in [by : {p}, on : {txn.on}, draft : {Draft}, touched : {txn.touched}, cleared : {txn.cleared}]
    BY <1>1 DEF IsTxn
  <2>3. u \in [by : {p}, on : {txn.on}, draft : {d}, touched : {txn.touched}, cleared : {txn.cleared}]
    BY <2>1, <2>2
  <2>. QED
    BY <2>1, <2>3
<1>6. \A i \in ChangedBy(p) \cup X : i \in ChangedBy(p)'
  BY <1>1, <1>3, <1>4, <1>5 DEF ChangedBy
<1>7. Accounts(p)'
  BY <1>1, <1>3, <1>4, <1>6, AccountsGrow DEF Accounting
<1>. QED
  BY <1>4, <1>7, AccountingStays DEF Accounting

(* The steps of a batch.                                                   *)
LEMMA AccountsBatch ==
    ASSUME IInv, Accounting, NEW p \in Procs,
           \/ \E t \in Threads : Begin(p, t)
           \/ \E i \in Ids : \E v \in VectorsOf(i) : SetEmbedding(p, i, v)
           \/ \E S \in SUBSET Ids : Erase(p, S)
           \/ Clear(p)
    PROVE  Accounting'
<1>1. Typed /\ Stepping /\ Good(table) /\ handle \in [Procs -> {Shut} \cup Handles]
  BY DEF IInv, Typed
<1>2. ASSUME NEW t \in Threads, Begin(p, t)
      PROVE  Accounting'
  <2>1. /\ table' = table /\ handle' = handle /\ passed' = passed /\ txn.by \notin Procs
    BY <1>1, <1>2, BatchIs DEF Begin
  <2>2. \A i \in ChangedBy(p) : i \in ChangedBy(p)'
    BY <2>1 DEF ChangedBy
  <2>3. Accounts(p)'
    BY <2>1, <2>2 DEF Accounting, Accounts
  <2>. QED
    BY <2>1, <2>3, AccountingStays DEF Accounting
<1>3. ASSUME NEW i \in Ids, NEW v \in VectorsOf(i), SetEmbedding(p, i, v)
      PROVE  Accounting'
  <2>. DEFINE d    == Upsert(Draft, i, v)
              slot == d.held[i].slot
              map  == Learnt(handle[p].map, [j \in {i} |-> slot])
  <2>1. txn.by = p /\ i \in Draft.owners /\ Good(Draft) /\ handle[p] \in Handles
    BY <1>1, <1>3, BatchIs, HandleIs DEF SetEmbedding, IsTxn
  <2>2. Good(d) /\ i \in DOMAIN d.held
    <3>1. /\ Good(d) /\ d.owners = Draft.owners
          /\ DOMAIN d.held = DOMAIN Draft.held \cup {i}
          /\ d.held[i].vec = v
          /\ i \in DOMAIN Draft.held => d.held[i].slot = Draft.held[i].slot
          /\ \A j \in DOMAIN Draft.held \ {i} : d.held[j] = Draft.held[j]
      BY <2>1, UpsertGood, ZenonT(40)
    <3>. HIDE DEF d
    <3>. QED
      BY <3>1
  <2>3. /\ txn' = [txn EXCEPT !.draft = d, !.touched = @ \cup {i}]
        /\ table' = table /\ passed' = passed
    BY <1>3 DEF SetEmbedding
  <2>4. handle' = [handle EXCEPT ![p].attached = TRUE, ![p].map = map]
    BY <1>3 DEF SetEmbedding
  <2>. HIDE DEF d
  <2>5. slot \in Slots
    BY <2>2, TableTypes
  <2>6. map = [j \in DOMAIN handle[p].map \cup {i} |-> IF j = i THEN slot ELSE handle[p].map[j]]
    BY DEF Learnt
  <2>. HIDE DEF slot, map
  <2>7. /\ DOMAIN map = DOMAIN handle[p].map \cup {i} /\ map = [j \in DOMAIN map |-> map[j]]
        /\ \A j \in DOMAIN map : map[j] \in Slots
        /\ DOMAIN map \subseteq Ids
    BY <2>1, <2>5, <2>6, MapIs DEF Handles
  <2>8. map \in Maps
    BY <2>7, MapOf
  <2>. QED
    BY <2>1, <2>3, <2>4, <2>7, <2>8, AccountsWriting
<1>4. ASSUME NEW S \in SUBSET Ids, Erase(p, S)
      PROVE  Accounting'
  <2>. DEFINE d    == Without(Draft, S)
              old  == handle[p].map
              map  == Restrict(old, DOMAIN old \ S)
  <2>1. txn.by = p /\ handle[p] \in Handles
    BY <1>1, <1>4, BatchIs, HandleIs DEF Erase
  <2>2. txn' = [txn EXCEPT !.draft = d, !.touched = @ \cup S] /\ table' = table /\ passed' = passed
    BY <1>4 DEF Erase
  <2>3. PICK a \in BOOLEAN : handle' = [handle EXCEPT ![p].attached = a, ![p].map = map]
    BY <1>4 DEF Erase
  <2>4. map = [i \in DOMAIN old \ S |-> old[i]]
    BY DEF Restrict
  <2>. HIDE DEF d, map
  <2>5. /\ DOMAIN map = DOMAIN old \ S /\ map = [i \in DOMAIN map |-> map[i]]
        /\ \A i \in DOMAIN map : map[i] \in Slots
        /\ DOMAIN map \subseteq Ids
    BY <2>1, <2>4, MapIs DEF Handles
  <2>6. map \in Maps
    BY <2>5, MapOf
  <2>. QED
    BY <2>1, <2>2, <2>3, <2>5, <2>6, AccountsWriting
<1>5. ASSUME Clear(p)
      PROVE  Accounting'
  <2>1. /\ txn.by = p /\ table' = table /\ handle' = [handle EXCEPT ![p] = Opened]
        /\ passed' = [passed EXCEPT ![p] = {}]
    BY <1>5 DEF Clear
  <2>2. handle'[p].seen = Unread /\ \A q \in Procs \ {p} : handle'[q] = handle[q]
    BY <1>1, <2>1, OpenedIs
  <2>3. /\ passed' \in [Procs -> SUBSET (Ids \X Nat)]
        /\ \A q \in Procs \ {p} : passed'[q] = passed[q]
    BY <2>1 DEF Accounting
  <2>4. Accounts(p)'
    BY <1>1, <2>1, <2>2, AccountsAnew
  <2>. QED
    BY <2>1, <2>2, <2>3, <2>4, AccountingStays
<1>. QED
  BY <1>2, <1>3, <1>4, <1>5

(* A batch is committed: its writer has mapped what it wrote, and to the   *)
(* others it is above the watermark or known to be numbered again.         *)
LEMMA AccountsCommit ==
    ASSUME IInv, Accounting, NEW p \in Procs, Commit(p)
    PROVE  Accounting'
<1>1. /\ txn.by = p /\ txn' = NoTxn /\ table' = Draft /\ handle' = handle
      /\ passed' = [q \in Procs |-> IF q = p THEN passed[q]
                                    ELSE passed[q] \cup Numbered(Draft, NumberedAgain(q))]
  BY DEF Commit
<1>2. /\ Typed /\ Stepping /\ txn # NoTxn /\ Good(Draft) /\ handle[p].todo = {} /\ NoTxn.by \notin Procs
  <2>1. Typed /\ Stepping /\ IsTxn /\ txn # NoTxn /\ handle[p] # Shut /\ NoTxn.by \notin Procs
    BY <1>1, BatchIs DEF IInv
  <2>. QED
    BY <1>1, <2>1 DEF Stepping, StepFits, IsTxn
<1>3. passed' \in [Procs -> SUBSET (Ids \X Nat)]
  <2>1. ASSUME NEW q \in Procs
        PROVE  Numbered(Draft, NumberedAgain(q)) \subseteq Ids \X Nat
    BY <1>2, TableTypes DEF Numbered, NumberedAgain
  <2>. QED
    BY <1>1, <2>1 DEF Accounting
<1>4. \A i \in DOMAIN Draft.held \ txn.touched : i \in DOMAIN table.held /\ Draft.held[i] = table.held[i]
  <2>1. DOMAIN Draft.held \subseteq Ids
    BY <1>2, TableTypes
  <2>2. txn.cleared => DOMAIN Draft.held \subseteq txn.touched
    BY <1>2 DEF IInv, Writing, Cleans
  <2>3. ~ txn.cleared => Diverges
    BY <1>2 DEF IInv, Writing
  <2>. QED
    BY <2>1, <2>2, <2>3 DEF Diverges
<1>5. ASSUME NEW q \in Procs
      PROVE  Accounts(q)'
  <2>1. SUFFICES ASSUME handle[q] # Shut, NEW i \in DOMAIN Draft.held,
                        Draft.held[i].seq <= handle[q].seen[Kind(i)],
                        i \notin DOMAIN handle[q].map, i \notin ChangedBy(q)'
                 PROVE  <<i, Draft.held[i].seq>> \in passed'[q]
    BY <1>1 DEF Accounts
  <2>2. ChangedBy(q)' = handle[q].todo
    BY <1>1, <1>2, <2>1 DEF ChangedBy
  <2>3. CASE q = p
    <3>1. i \notin txn.touched
      BY <1>1, <1>2, <2>1, <2>3 DEF IInv, Writing
    <3>2. i \in DOMAIN table.held /\ Draft.held[i] = table.held[i]
      BY <1>4, <2>1, <3>1
    <3>3. i \notin ChangedBy(p)
      BY <1>2, <3>1 DEF ChangedBy
    <3>4. <<i, table.held[i].seq>> \in passed[q]
      BY <2>1, <2>3, <3>2, <3>3 DEF Accounting, Accounts
    <3>. QED
      BY <1>1, <2>3, <3>2, <3>4
  <2>4. CASE q # p
    <3>1. passed'[q] = passed[q] \cup Numbered(Draft, NumberedAgain(q))
      BY <1>1, <2>4
    <3>2. CASE i \in NumberedAgain(q)
      BY <3>1, <3>2 DEF Numbered
    <3>3. CASE i \notin NumberedAgain(q)
      <4>1. i \in DOMAIN table.held /\ Draft.held[i].seq = table.held[i].seq
        BY <2>1, <3>3 DEF NumberedAgain
      <4>2. i \notin ChangedBy(q)
        BY <1>1, <2>1, <2>2, <2>4 DEF ChangedBy
      <4>3. <<i, table.held[i].seq>> \in passed[q]
        BY <2>1, <4>1, <4>2 DEF Accounting, Accounts
      <4>. QED
        BY <3>1, <4>1, <4>3
    <3>. QED
      BY <3>2, <3>3
  <2>. QED
    BY <2>3, <2>4
<1>. QED
  BY <1>3, <1>5 DEF Accounting

(* A batch is rolled back, and what it touched is put right.               *)
LEMMA AccountsRollback ==
    ASSUME IInv, Accounting, NEW p \in Procs, Rollback(p) \/ Repair(p)
    PROVE  Accounting'
<1>1. Typed /\ Stepping /\ Good(table) /\ handle \in [Procs -> {Shut} \cup Handles] /\ NoTxn.by \notin Procs
  BY BatchIs DEF IInv, Typed
<1>2. ASSUME Rollback(p), txn.cleared /\ Refill(p)
      PROVE  Accounting'
  <2>. DEFINE M    == [i \in DOMAIN table.held |-> table.held[i].slot]
              S    == [k \in Kinds |-> MaxSeq(table, k)]
              full == [Attached EXCEPT !.loaded = TRUE, !.map = M, !.seen = S]
  <2>1. txn.by = p /\ table' = table /\ passed' = passed
    BY <1>2 DEF Rollback
  <2>2. \/ handle' = [handle EXCEPT ![p] = Opened]
        \/ handle' = [handle EXCEPT ![p] = Attached]
        \/ handle' = [handle EXCEPT ![p] = full]
    BY <1>2 DEF Refill
  <2>3. full.map = M
    <3>1. PICK f, g : /\ f = [Attached EXCEPT !.loaded = TRUE] /\ g = [f EXCEPT !.map = M]
                      /\ full = [g EXCEPT !.seen = S]
      BY Zenon
    <3>. HIDE DEF full, M, S
    <3>2. f \in Handles
      BY <3>1, OpenedIs DEF Handles
    <3>3. g.map = M /\ DOMAIN g = DOMAIN f
      BY <3>1, <3>2 DEF Handles
    <3>. QED
      BY <3>1, <3>3
  <2>4. DOMAIN M = DOMAIN table.held
    OBVIOUS
  <2>. HIDE DEF full, M, S
  <2>5. \A q \in Procs \ {p} : handle'[q] = handle[q]
    BY <1>1, <2>2
  <2>6. handle'[p].seen = Unread \/ DOMAIN handle'[p].map = DOMAIN table.held
    BY <1>1, <2>2, <2>3, <2>4, OpenedIs
  <2>7. Accounts(p)'
    <3>1. CASE handle'[p].seen = Unread
      BY <1>1, <2>1, <3>1, AccountsAnew
    <3>2. CASE DOMAIN handle'[p].map = DOMAIN table.held
      BY <2>1, <3>2 DEF Accounts
    <3>. QED
      BY <2>6, <3>1, <3>2
  <2>. QED
    BY <2>1, <2>5, <2>7, AccountingStays DEF Accounting
<1>3. ASSUME Rollback(p), ~ (txn.cleared /\ Refill(p))
      PROVE  Accounting'
  <2>1. /\ txn.by = p /\ txn' = NoTxn /\ table' = table /\ passed' = passed
        /\ handle' = [handle EXCEPT ![p].step = "repairing", ![p].on = txn.on, ![p].todo = txn.touched]
    BY <1>3 DEF Rollback
  <2>2. handle[p] # Shut /\ handle[p] \in Handles /\ handle[p].todo = {} /\ IsTxn
    <3>1. handle[p] # Shut /\ IsTxn
      BY <1>1, <2>1, BatchIs
    <3>. QED
      BY <1>1, <2>1, <3>1, HandleIs DEF Stepping, StepFits
  <2>3. PICK f, g, h : /\ f = [handle[p] EXCEPT !.step = "repairing"] /\ g = [f EXCEPT !.on = txn.on]
                       /\ h = [g EXCEPT !.todo = txn.touched] /\ handle' = [handle EXCEPT ![p] = h]
    BY <2>1, ZenonT(40)
  <2>4. h.map = handle[p].map /\ h.seen = handle[p].seen /\ h.todo = txn.touched /\ h.step = "repairing"
    <3>1. f \in Handles /\ f.map = handle[p].map /\ f.seen = handle[p].seen /\ f.step = "repairing"
      BY <2>2, <2>3 DEF Handles, Steps
    <3>2. g \in Handles /\ g.map = handle[p].map /\ g.seen = handle[p].seen /\ g.step = "repairing"
      <4>1. txn.on \in Threads \cup {Nobody}
        BY <2>2 DEF IsTxn
      <4>. QED
        BY <2>3, <3>1, <4>1 DEF Handles
    <3>. QED
      BY <2>3, <3>2 DEF Handles
  <2>5. handle'[p] = h /\ \A q \in Procs \ {p} : handle'[q] = handle[q]
    BY <1>1, <2>3
  <2>6. \A i \in ChangedBy(p) : i \in ChangedBy(p)'
    <3>1. h # Shut
      BY <2>4 DEF Shut
    <3>. QED
      BY <2>2, <2>4, <2>5, <3>1 DEF ChangedBy
  <2>7. Accounts(p)'
    BY <2>1, <2>2, <2>4, <2>5, <2>6, AccountsGrow DEF Accounting
  <2>. QED
    BY <2>1, <2>5, <2>7, AccountingStays DEF Accounting
<1>4. ASSUME Repair(p)
      PROVE  Accounting'
  <2>. DEFINE map  == handle[p].map
              todo == handle[p].todo
              back == todo \cap DOMAIN table.held
              gone == todo \ back
              new  == Learnt(Restrict(map, DOMAIN map \ gone), [i \in back |-> table.held[i].slot])
  <2>1. /\ handle[p].step = "repairing" /\ table' = table /\ txn' = txn /\ passed' = passed
        /\ handle' = [handle EXCEPT ![p].map = new, ![p].step = "open", ![p].todo = {}, ![p].on = Nobody]
    BY <1>4 DEF Repair
  <2>2. handle[p] \in Handles /\ handle[p] # Shut /\ txn.by # p
    BY <1>1, <2>1, HandleIs DEF Stepping, StepFits, Steps
  <2>3. DOMAIN new = (DOMAIN map \ gone) \cup back
    BY DEF Learnt, Restrict
  <2>. HIDE DEF new
  <2>4. PICK e, f, g, h : /\ e = [handle[p] EXCEPT !.map = new] /\ f = [e EXCEPT !.step = "open"]
                          /\ g = [f EXCEPT !.todo = {}] /\ h = [g EXCEPT !.on = Nobody]
                          /\ handle' = [handle EXCEPT ![p] = h]
    BY <2>1, Zenon
  <2>5. h.map = new /\ h.seen = handle[p].seen
    <3>1. e.map = new /\ e.seen = handle[p].seen /\ DOMAIN e = DOMAIN handle[p]
      BY <2>2, <2>4 DEF Handles
    <3>2. f.map = new /\ f.seen = handle[p].seen /\ DOMAIN f = DOMAIN handle[p]
      BY <2>4, <3>1
    <3>3. g.map = new /\ g.seen = handle[p].seen /\ DOMAIN g = DOMAIN handle[p]
      BY <2>4, <3>2
    <3>. QED
      BY <2>4, <3>3
  <2>6. handle'[p] = h /\ \A q \in Procs \ {p} : handle'[q] = handle[q]
    BY <1>1, <2>4
  <2>7. ChangedBy(p) = todo
    BY <2>2 DEF ChangedBy
  <2>8. Accounts(p)'
    <3>1. \A i \in DOMAIN table.held : i \in DOMAIN map \/ i \in todo => i \in DOMAIN new
      BY <2>3
    <3>. QED
      BY <2>1, <2>2, <2>5, <2>6, <2>7, <3>1 DEF Accounting, Accounts
  <2>. QED
    BY <2>1, <2>6, <2>8, AccountingStays DEF Accounting
<1>. QED
  BY <1>2, <1>3, <1>4

(* Every step keeps count of what the watermarks have passed.              *)
LEMMA AccountingKept ==
    ASSUME IInv, Accounting, [Next]_vars
    PROVE  Accounting'
<1>1. CASE table' = table /\ txn' = txn /\ handle' = handle /\ passed' = passed
  <2>1. \A q \in Procs : ChangedBy(q)' = ChangedBy(q)
    BY <1>1 DEF ChangedBy
  <2>. QED
    BY <1>1, <2>1 DEF Accounting, Accounts
<1>2. CASE UNCHANGED vars
  BY <1>1, <1>2 DEF vars
<1>3. CASE DeleteFile
  BY <1>1, <1>3 DEF DeleteFile
<1>. QED
  BY <1>2, <1>3, AccountsComing, AccountsSearching, AccountsBatch, AccountsCommit, AccountsRollback DEF Next

-----------------------------------------------------------------------------
(* The theorems                                                            *)

(* Every step keeps the invariant.                                         *)
LEMMA NextKeeps ==
    ASSUME IInv, [Next]_vars
    PROVE  IInv'
<1>1. CASE UNCHANGED vars
  <2>1. /\ table' = table /\ txn' = txn /\ file' = file /\ handle' = handle /\ line' = line
        /\ version' = version /\ commits' = commits /\ spoiled' = spoiled /\ missed' = missed
    BY <1>1 DEF vars
  <2>2. Typed' /\ Stepping' /\ Writing' /\ Known' /\ MapPointsHome'
    BY <2>1 DEF IInv, Typed, IsTxn, Draft, Stepping, StepFits, Writing, Cleans, Diverges, Alone,
                Known, Knows, ChangedBy, MapPointsHome
  <2>3. RowsMatchTable' /\ NothingLeft' /\ HasFile'
    <3>1. \A q \in Procs : ChangedBy(q)' = ChangedBy(q) /\ ToBlank(q)' = ToBlank(q)
      BY <2>1 DEF ChangedBy, ToBlank
    <3>2. /\ Changing' = Changing /\ Latest' = Latest
          /\ \A s : Owner(table, s)' = Owner(table, s) /\ Owner(Latest, s)' = Owner(Latest, s)
      BY <2>1, <3>1 DEF Changing, Latest, Draft, Owner
    <3>. QED
      BY <2>1, <3>1, <3>2 DEF IInv, RowsMatchTable, NothingLeft, HasFile
  <2>4. Watching' /\ Loading'
    BY <2>1 DEF IInv, Watching, Watches, Loading, Loads, ReadsOn, ChangedBy
  <2>. QED
    BY <2>2, <2>3, <2>4 DEF IInv
<1>2. CASE DeleteFile
  BY <1>2, DeleteFileKeeps
<1>3. ASSUME NEW p \in Procs, Rollback(p)
      PROVE  IInv'
  <2>1. txn.by = p /\ txn' = NoTxn /\ table' = table /\ commits' = commits
    BY <1>3 DEF Rollback
  <2>2. CASE txn.cleared /\ Refill(p)
    BY <2>1, <2>2, RefillKeeps
  <2>3. CASE /\ ~ txn.cleared
             /\ handle' = [handle EXCEPT ![p].step = "repairing", ![p].on = txn.on, ![p].todo = txn.touched]
             /\ file' = file /\ line' = line /\ version' = version /\ spoiled' = spoiled /\ missed' = missed
    BY <2>1, <2>3, RollbackKeeps, Zenon
  <2>. QED
    BY <1>3, <2>2, <2>3 DEF Rollback
<1>4. ASSUME NEW p \in Procs,
             \/ Open(p) \/ Fill(p) \/ Close(p) \/ Crash(p)
             \/ Clear(p) \/ Commit(p) \/ Rollback(p) \/ Repair(p)
      PROVE  IInv'
  BY <1>3, <1>4, OpenKeeps, FillKeeps, CloseKeeps, CrashKeeps, ClearKeeps, CommitKeeps, RepairKeeps
<1>5. ASSUME NEW p \in Procs, NEW t \in Threads,
             Begin(p, t) \/ Load(p, t) \/ Note(p, t) \/ Search(p, t)
      PROVE  IInv'
  BY <1>5, BeginKeeps, LoadKeeps, NoteKeeps, SearchKeeps
<1>6. ASSUME NEW p \in Procs, NEW i \in Ids, NEW v \in VectorsOf(i), SetEmbedding(p, i, v)
      PROVE  IInv'
  BY <1>6, SetEmbeddingKeeps
<1>7. ASSUME NEW p \in Procs, NEW S \in SUBSET Ids, Erase(p, S)
      PROVE  IInv'
  BY <1>7, EraseKeeps
<1>. QED
  BY <1>1, <1>2, <1>4, <1>5, <1>6, <1>7 DEF Next

(* The invariant holds in every state the stores can reach.                *)
THEOREM Invariance == Spec => [](IInv /\ Accounting)
<1>1. Init => IInv /\ Accounting
  <2>1. Init => Accounting
    BY DEF Init, Accounting, Accounts
  <2>. QED
    BY <2>1, InitKeeps
<1>2. IInv /\ Accounting /\ [Next]_vars => (IInv /\ Accounting)'
  BY NextKeeps, AccountingKept
<1>. QED
  BY <1>1, <1>2, PTL DEF Spec

(* Every variable has its type, however the processes interleave.          *)
THEOREM TypeCorrect == Spec => []TypeOK
<1>1. ASSUME IInv, Accounting
      PROVE  TypeOK
  <2>1. Typed /\ Stepping
    BY <1>1 DEF IInv
  <2>2. IsTable(table) /\ (txn # NoTxn => IsTxn /\ IsTable(txn.draft))
    BY <2>1 DEF Typed, IsTxn, Good, Draft
  <2>3. ASSUME NEW p \in Procs, handle[p] # Shut
        PROVE  /\ handle[p].step \in Steps
               /\ handle[p].map \in [DOMAIN handle[p].map -> Slots]
               /\ handle[p].seen \in [Kinds -> Nat] /\ handle[p].todo \subseteq Ids
               /\ handle[p].loaded => handle[p].attached
    <3>1. handle[p] \in Handles
      BY <2>1, <2>3, HandleIs
    <3>. QED
      BY <2>1, <2>3, <3>1 DEF Handles, Maps, Stepping, StepFits
  <2>. QED
    BY <1>1, <2>1, <2>2, <2>3 DEF Typed, TypeOK, Steps, IsTxn, Accounting
<1>. QED
  BY <1>1, Invariance, PTL

(* No row is owned twice, and none is lost (_vector_upsert, _erase_row,    *)
(* purge).                                                                 *)
THEOREM OneOwnerEach == Spec => []RowsHaveOneOwner
<1>1. ASSUME NEW t, Good(t)
      PROVE  /\ Cardinality(Used(t)) = Cardinality(DOMAIN t.held)
             /\ Used(t) \cap t.free = {}
             /\ \A s \in Used(t) \cup t.free : 0 .. s \subseteq Used(t) \cup t.free
  <2>. DEFINE f == [i \in DOMAIN t.held |-> t.held[i].slot]
  <2>1. f \in Surjection(DOMAIN t.held, Used(t)) /\ f \in Injection(DOMAIN t.held, Used(t))
    BY <1>1 DEF Injection, Surjection, IsInjective, Used, Good
  <2>2. IsFiniteSet(DOMAIN t.held)
    BY <1>1, TableTypes
  <2>. QED
    BY <1>1, <2>1, <2>2, FS_Surjection DEF Good
<1>2. ASSUME IInv
      PROVE  RowsHaveOneOwner
  <2>1. Good(table) /\ (txn # NoTxn => Good(Draft))
    BY <1>2 DEF IInv, Typed, IsTxn
  <2>2. \A t \in {table} \cup (IF txn = NoTxn THEN {} ELSE {Draft}) : Good(t)
    BY <2>1
  <2>. QED
    BY <1>1, <2>2 DEF RowsHaveOneOwner, Used
<1>. QED
  BY <1>2, Invariance, PTL

(* The row of a vector nobody is changing holds it.                        *)
THEOREM RowsMatch == Spec => []RowsMatchTable
<1>1. IInv => RowsMatchTable
  BY DEF IInv
<1>. QED
  BY <1>1, Invariance, PTL

(* What is in a map and still stored is where the map says.                *)
THEOREM MapsPointHome == Spec => []MapPointsHome
<1>1. IInv => MapPointsHome
  BY DEF IInv
<1>. QED
  BY <1>1, Invariance, PTL

(* When nothing is being changed, a row nobody owns is blank.              *)
THEOREM ErasedIsGone == Spec => []ErasedLeavesNothing
<1>1. ASSUME IInv
      PROVE  ErasedLeavesNothing
  <2>1. SUFFICES ASSUME txn = NoTxn, Changing = {}, NEW s \in DOMAIN file \ spoiled, Owner(table, s) = {}
                 PROVE  file[s] = Blank
    BY DEF ErasedLeavesNothing
  <2>2. ASSUME NEW p \in Procs
        PROVE  ToBlank(p) = {}
    <3>1. ChangedBy(p) = {}
      BY <2>1, <2>2, ChangingIs
    <3>. QED
      BY <3>1 DEF ToBlank, ChangedBy
  <2>. QED
    BY <1>1, <2>1, <2>2 DEF IInv, NothingLeft, Latest
<1>. QED
  BY <1>1, Invariance, PTL

(* A thread that finds no commit to read has every vector in its map,      *)
(* whoever wrote it, but what its watermark is known to have passed        *)
(* (_ensure_index).                                                        *)
THEOREM NothingInvisible == Spec => []SearchFolds
<1>1. ASSUME IInv, Accounting
      PROVE  SearchFolds
  <2>1. SUFFICES ASSUME NEW p \in Procs, NEW t \in Threads, Trusts(p, t), <<p, t>> \notin missed
                 PROVE  Current(p)
    BY DEF SearchFolds
  <2>2. Typed /\ Watches(p, t) /\ t \in Lines
    BY <1>1, LinesAre DEF IInv, Watching
  <2>3. handle[p] # Shut /\ handle[p].loaded /\ Looked(p, t).n = version[p][t]
    BY <2>1 DEF Trusts, MaySearch, IsOpen, Shut
  <2>4. /\ line[p][t].n \in Nat /\ version[p][t] <= line[p][t].n
        /\ Looked(p, t).at = commits /\ Looked(p, t).n \in Nat /\ line[p][t].n <= Looked(p, t).n
        /\ Looked(p, t).n = line[p][t].n => Looked(p, t) = line[p][t]
    BY <2>1, <2>2, LookedIs DEF Watches
  <2>5. version[p][t] = line[p][t].n /\ Looked(p, t) = line[p][t] /\ line[p][t].at = commits
    BY <2>2, <2>3, <2>4 DEF Typed
  <2>6. line[p][t].n # 0
    <3>1. SUFFICES ASSUME line[p][t].n = 0
                   PROVE  FALSE
      OBVIOUS
    <3>2. line[p][t].at = 0
      BY <2>2, <3>1 DEF Watches
    <3>3. line[p][t] \in [at : 0 .. commits, n : Nat]
      BY <2>2 DEF Typed
    <3>4. line[p][t] = Unlooked
      BY <3>1, <3>2, <3>3 DEF Unlooked
    <3>5. Looked(p, t).n = 1
      BY <3>4 DEF Looked, Fresh, Unlooked
    <3>. QED
      BY <2>5, <3>1, <3>5
  <2>7. ReadsOn(p)
    BY <2>1, <2>2, <2>3, <2>5, <2>6 DEF Watches
  <2>8. Accounts(p)
    BY <1>1 DEF Accounting
  <2>. QED
    BY <2>3, <2>7, <2>8 DEF ReadsOn, Accounts, Current
<1>. QED
  BY <1>1, Invariance, PTL

=============================================================================
