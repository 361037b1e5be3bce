--------------------------- MODULE HandlesProofs ----------------------------
(***************************************************************************)
(* Theorems of Handles, for any number of processes and any widths.        *)
(***************************************************************************)
EXTENDS Handles, FiniteSetTheorems, TLAPS

-----------------------------------------------------------------------------
(* The invariant                                                           *)

Widths == SUBSET (Nat \ {0})

Typed ==
    /\ stage \in [Procs -> Stages]
    /\ shared \subseteq Procs /\ creator \subseteq Procs
    /\ exclusive \subseteq Procs /\ writer \subseteq Procs
    /\ schema \subseteq Parts
    /\ rows \in Widths /\ before \in Widths /\ IsFiniteSet(rows) /\ IsFiniteSet(before)
    /\ header \in Nat /\ dim \in [Procs -> Nat]
    /\ cleared \subseteq Procs /\ torn \subseteq Procs /\ lapsed \subseteq Procs

InBatch == {"batch", "asking", "refused", "alone"}

(* Where a process holds the shared lock, and where it maps the file. *)
Sharing == Opening \cup {"open", "closing"}

MayMap == InBatch \cup {"open", "handing"}

(* Who holds which lock, by where each process stands: the shared lock and *)
(* the exclusive one are never held together.                              *)
LocksHeld ==
    /\ \A p, q \in writer : p = q
    /\ \A p, q \in exclusive : p = q
    /\ \A p, q \in creator : p = q
    /\ \A p \in Procs :
          /\ p \in writer <=> stage[p] \in InBatch
          /\ p \in creator <=> stage[p] = "stepping"
          /\ p \in exclusive => stage[p] \in {"alone", "batch"}
          /\ stage[p] = "alone" => p \in exclusive
          /\ stage[p] \in Sharing => p \in shared
          /\ stage[p] = "batch" => p \in exclusive \cup shared
    /\ exclusive # {} => shared = {}
    /\ cleared \subseteq exclusive

(* Only a store that has opened maps the file, and the step is finished    *)
(* before a store attaches.                                                *)
OpenedFirst ==
    /\ \A p \in Procs : dim[p] # 0 => stage[p] \in MayMap
    /\ \A p \in Procs : stage[p] = "attaching" => schema = Parts
    /\ FinishedWhenOpen

(* A map that vectors are behind. *)
Sound(q) == dim[q] # 0 /\ q \notin lapsed

(* Such a map is of the file's width, which is that of a vector stored:    *)
(* before the open transaction too, unless it stored the first.  While a   *)
(* clear is not committed no other process has one.  A map that was cut    *)
(* had no vectors behind it.                                               *)
MapsAgree ==
    /\ writer = {} => before = rows
    /\ cleared = {} => before \subseteq rows
    /\ \A q \in Procs : Sound(q) =>
          /\ header = dim[q] /\ dim[q] \in rows
          /\ q \in cleared \/ dim[q] \in before \/ (before = {} /\ q \in writer)
          /\ cleared \subseteq {q}
    /\ \A q \in torn : q \in lapsed /\ dim[q] # 0

IInv == Typed /\ LocksHeld /\ OpenedFirst /\ MapsAgree

(* What a step does to the maps of others, and to the width. *)
CutsOnlyLapsed == \A q \in torn' \ torn : stage[q] = "handing" \/ q \in lapsed

KeepsWidth ==
    Cardinality(rows') > 1 =>
        \/ Cardinality(rows) > 1
        \/ rows' = before
        \/ writer \cap lapsed # {}

Safe == CutsOnlyLapsed /\ KeepsWidth

-----------------------------------------------------------------------------
(* Steps that leave the vectors alone                                      *)

LEMMA SetsOfOne ==
    ASSUME NEW S, \A x, y \in S : x = y
    PROVE  Cardinality(S) <= 1
<1>1. CASE S = {}
  BY <1>1, FS_EmptySet
<1>2. CASE S # {}
  <2>1. PICK x \in S : S = {x}
    BY <1>2
  <2>. QED
    BY <2>1, FS_Singleton
<1>. QED
  BY <1>1, <1>2

LEMMA OfOneAtMost ==
    ASSUME NEW S, IsFiniteSet(S), Cardinality(S) <= 1, NEW x \in S
    PROVE  S = {x}
  BY FS_EmptySet, FS_Singleton, FS_CardinalityType

LEMMA IInvTypes ==
    ASSUME IInv
    PROVE  TypeOK
<1>1. Cardinality(creator) <= 1 /\ Cardinality(exclusive) <= 1 /\ Cardinality(writer) <= 1
  BY SetsOfOne DEF IInv, LocksHeld
<1>2. cleared \subseteq writer
  BY DEF IInv, Typed, LocksHeld, InBatch
<1>. QED
  BY <1>1, <1>2 DEF IInv, Typed, TypeOK

LEMMA VectorsKept ==
    ASSUME IInv, UNCHANGED <<writer, vectors>>
    PROVE  MapsAgree' /\ Safe
<1>1. MapsAgree'
  BY DEF IInv, MapsAgree, Sound, vectors
<1>. QED
  BY <1>1 DEF Safe, CutsOnlyLapsed, KeepsWidth, vectors

LEMMA OpenStep ==
    ASSUME IInv, NEW p \in Procs, Open(p)
    PROVE  IInv' /\ Safe
<1>1. Typed'
  BY DEF IInv, Typed, Open, Go, locks, vectors, Stages, Opening, BetweenLocks, Parts
<1>2. LocksHeld'
  BY DEF IInv, Typed, LocksHeld, Open, Go, locks, vectors, Opening, InBatch, Sharing
<1>3. OpenedFirst'
  BY DEF IInv, Typed, OpenedFirst, FinishedWhenOpen, Open, Go, locks, vectors,
         Opening, InBatch, MayMap, Parts
<1>4. MapsAgree' /\ Safe
  BY VectorsKept DEF Open, locks
<1>. QED
  BY <1>1, <1>2, <1>3, <1>4 DEF IInv

LEMMA CheckStep ==
    ASSUME IInv, NEW p \in Procs, Check(p)
    PROVE  IInv' /\ Safe
<1>1. Typed'
  BY DEF IInv, Typed, Check, NeedsSchemaStep, Go, locks, vectors, Stages, Opening, BetweenLocks, Parts
<1>2. LocksHeld'
  BY DEF IInv, Typed, LocksHeld, Check, NeedsSchemaStep, Go, locks, vectors, Opening, InBatch, Sharing
<1>3. OpenedFirst'
  BY DEF IInv, Typed, OpenedFirst, FinishedWhenOpen, Check, NeedsSchemaStep, Go, locks, vectors,
         Opening, InBatch, MayMap, Parts
<1>4. MapsAgree' /\ Safe
  BY VectorsKept DEF Check, locks
<1>. QED
  BY <1>1, <1>2, <1>3, <1>4 DEF IInv

LEMMA ReserveStep ==
    ASSUME IInv, NEW p \in Procs, Reserve(p)
    PROVE  IInv' /\ Safe
<1>1. Typed'
  BY DEF IInv, Typed, Reserve, Go, locks, vectors, Stages, Opening, BetweenLocks, Parts
<1>2. LocksHeld'
  BY DEF IInv, Typed, LocksHeld, Reserve, Go, locks, vectors, Opening, InBatch, Sharing
<1>3. OpenedFirst'
  BY DEF IInv, Typed, OpenedFirst, FinishedWhenOpen, Reserve, Go, locks, vectors,
         Opening, InBatch, MayMap, Parts
<1>4. MapsAgree' /\ Safe
  BY VectorsKept DEF Reserve, locks
<1>. QED
  BY <1>1, <1>2, <1>3, <1>4 DEF IInv

LEMMA RunPartStep ==
    ASSUME IInv, NEW p \in Procs, RunPart(p)
    PROVE  IInv' /\ Safe
<1>1. Typed'
  BY DEF IInv, Typed, RunPart, NeedsSchemaStep, NextPart, Go, locks, vectors, Stages, Opening, BetweenLocks, Parts
<1>2. LocksHeld'
  BY DEF IInv, Typed, LocksHeld, RunPart, NeedsSchemaStep, NextPart, Go, locks, vectors, Opening, InBatch, Sharing
<1>3. OpenedFirst'
  BY DEF IInv, Typed, OpenedFirst, FinishedWhenOpen, RunPart, NeedsSchemaStep, NextPart, Go, locks, vectors,
         Opening, InBatch, MayMap, Parts
<1>4. MapsAgree' /\ Safe
  BY VectorsKept DEF RunPart, locks
<1>. QED
  BY <1>1, <1>2, <1>3, <1>4 DEF IInv

LEMMA EndStepStep ==
    ASSUME IInv, NEW p \in Procs, EndStep(p)
    PROVE  IInv' /\ Safe
<1>1. Typed'
  BY DEF IInv, Typed, EndStep, Go, locks, vectors, Stages, Opening, BetweenLocks, Parts
<1>2. LocksHeld'
  BY DEF IInv, Typed, LocksHeld, EndStep, Go, locks, vectors, Opening, InBatch, Sharing
<1>3. OpenedFirst'
  BY DEF IInv, Typed, OpenedFirst, FinishedWhenOpen, EndStep, Go, locks, vectors,
         Opening, InBatch, MayMap, Parts
<1>4. MapsAgree' /\ Safe
  BY VectorsKept DEF EndStep, locks
<1>. QED
  BY <1>1, <1>2, <1>3, <1>4 DEF IInv

LEMMA AskStep ==
    ASSUME IInv, NEW p \in Procs, Ask(p)
    PROVE  IInv' /\ Safe
<1>1. Typed'
  BY DEF IInv, Typed, Ask, Go, locks, vectors, Stages, Opening, BetweenLocks, Parts
<1>2. LocksHeld'
  BY DEF IInv, Typed, LocksHeld, Ask, Go, locks, vectors, Opening, InBatch, Sharing
<1>3. OpenedFirst'
  BY DEF IInv, Typed, OpenedFirst, FinishedWhenOpen, Ask, Go, locks, vectors,
         Opening, InBatch, MayMap, Parts
<1>4. MapsAgree' /\ Safe
  BY VectorsKept DEF Ask, locks
<1>. QED
  BY <1>1, <1>2, <1>3, <1>4 DEF IInv

LEMMA GrantedStep ==
    ASSUME IInv, NEW p \in Procs, Granted(p)
    PROVE  IInv' /\ Safe
<1>1. Typed'
  BY DEF IInv, Typed, Granted, Go, locks, vectors, Stages, Opening, BetweenLocks, Parts
<1>2. LocksHeld'
  BY DEF IInv, Typed, LocksHeld, Granted, Go, locks, vectors, Opening, InBatch, Sharing
<1>3. OpenedFirst'
  BY DEF IInv, Typed, OpenedFirst, FinishedWhenOpen, Granted, Go, locks, vectors,
         Opening, InBatch, MayMap, Parts
<1>4. MapsAgree' /\ Safe
  BY VectorsKept DEF Granted, locks
<1>. QED
  BY <1>1, <1>2, <1>3, <1>4 DEF IInv

LEMMA RefusedStep ==
    ASSUME IInv, NEW p \in Procs, Refused(p)
    PROVE  IInv' /\ Safe
<1>1. Typed'
  BY DEF IInv, Typed, Refused, Go, locks, vectors, Stages, Opening, BetweenLocks, Parts
<1>2. LocksHeld'
  BY DEF IInv, Typed, LocksHeld, Refused, Go, locks, vectors, Opening, InBatch, Sharing
<1>3. OpenedFirst'
  BY DEF IInv, Typed, OpenedFirst, FinishedWhenOpen, Refused, Go, locks, vectors,
         Opening, InBatch, MayMap, Parts
<1>4. MapsAgree' /\ Safe
  BY VectorsKept DEF Refused, locks
<1>. QED
  BY <1>1, <1>2, <1>3, <1>4 DEF IInv

LEMMA ShareRefusedStep ==
    ASSUME IInv, NEW p \in Procs, ShareRefused(p)
    PROVE  IInv' /\ Safe
<1>1. Typed'
  BY DEF IInv, Typed, ShareRefused, Go, locks, vectors, Stages, Opening, BetweenLocks, Parts
<1>2. LocksHeld'
  BY DEF IInv, Typed, LocksHeld, ShareRefused, Go, locks, vectors, Opening, InBatch, Sharing
<1>3. OpenedFirst'
  BY DEF IInv, Typed, OpenedFirst, FinishedWhenOpen, ShareRefused, Go, locks, vectors,
         Opening, InBatch, MayMap, Parts
<1>4. MapsAgree' /\ Safe
  BY VectorsKept DEF ShareRefused, locks
<1>. QED
  BY <1>1, <1>2, <1>3, <1>4 DEF IInv

LEMMA ShareAgainStep ==
    ASSUME IInv, NEW p \in Procs, ShareAgain(p)
    PROVE  IInv' /\ Safe
<1>1. Typed'
  BY DEF IInv, Typed, ShareAgain, Go, locks, vectors, Stages, Opening, BetweenLocks, Parts
<1>2. LocksHeld'
  BY DEF IInv, Typed, LocksHeld, ShareAgain, Go, locks, vectors, Opening, InBatch, Sharing
<1>3. OpenedFirst'
  BY DEF IInv, Typed, OpenedFirst, FinishedWhenOpen, ShareAgain, Go, locks, vectors,
         Opening, InBatch, MayMap, Parts
<1>4. MapsAgree' /\ Safe
  BY VectorsKept DEF ShareAgain, locks
<1>. QED
  BY <1>1, <1>2, <1>3, <1>4 DEF IInv

LEMMA LeaveStep ==
    ASSUME IInv, NEW p \in Procs, Leave(p)
    PROVE  IInv' /\ Safe
<1>1. Typed'
  BY DEF IInv, Typed, Leave, Go, locks, vectors, Stages, Opening, BetweenLocks, Parts
<1>2. LocksHeld'
  BY DEF IInv, Typed, LocksHeld, Leave, Go, locks, vectors, Opening, InBatch, Sharing
<1>3. OpenedFirst'
  BY DEF IInv, Typed, OpenedFirst, FinishedWhenOpen, Leave, Go, locks, vectors,
         Opening, InBatch, MayMap, Parts
<1>4. MapsAgree' /\ Safe
  BY VectorsKept DEF Leave, locks
<1>. QED
  BY <1>1, <1>2, <1>3, <1>4 DEF IInv

-----------------------------------------------------------------------------
(* Steps that map the file                                                 *)

(* A process that maps the file for the width of the vectors there are     *)
(* cuts no map that vectors are behind.                                    *)
LEMMA AttachedAlike ==
    ASSUME IInv, NEW p \in Procs, NEW w \in Nat \ {0}, Attached(p, w),
           \A q \in Procs \ {p} : Sound(q) => dim[q] = w
    PROVE  /\ dim' = [dim EXCEPT ![p] = w] /\ header' = w /\ header' \in Nat
           /\ dim' \in [Procs -> Nat] /\ torn' \subseteq Procs
           /\ \A q \in torn' : q \in lapsed /\ dim'[q] # 0
<1>1. dim' = [dim EXCEPT ![p] = w] /\ header' = w
  BY DEF Attached
<1>2. \A q \in torn : q \in lapsed /\ dim[q] # 0
  BY DEF IInv, MapsAgree
<1>3. ASSUME NEW q \in Mapping \ {p}, header # w
      PROVE  q \in lapsed /\ dim[q] # 0 /\ q \in Procs
  BY <1>3 DEF IInv, MapsAgree, Mapping, Sound
<1>4. torn' = IF header # w THEN (torn \ {p}) \cup (Mapping \ {p}) ELSE torn
  BY DEF Attached
<1>5. dim \in [Procs -> Nat] /\ torn \subseteq Procs
  BY DEF IInv, Typed
<1>6. CASE header # w
  BY <1>1, <1>2, <1>3, <1>4, <1>5, <1>6
<1>7. CASE header = w
  BY <1>1, <1>2, <1>4, <1>5, <1>7
<1>. QED
  BY <1>6, <1>7

(* Of what a reader that shares the lock sees, every sound map is.         *)
LEMMA SeenAlike ==
    ASSUME IInv, NEW p \in Procs, p \in shared, p \notin writer, NEW w \in Visible(p),
           Visible(p) = {w}
    PROVE  /\ w \in Nat \ {0} /\ w \in rows /\ w \in before /\ cleared = {}
           /\ \A q \in Procs : Sound(q) => dim[q] = w
<1>1. cleared = {}
  BY DEF IInv, LocksHeld
<1>2. Visible(p) = before
  BY DEF Visible, IInv, MapsAgree
<1>3. before \subseteq rows /\ before \in Widths
  BY <1>1 DEF IInv, MapsAgree, Typed
<1>4. \A q \in Procs : Sound(q) => dim[q] \in before
  BY <1>1, <1>2 DEF IInv, MapsAgree
<1>. QED
  BY <1>1, <1>2, <1>3, <1>4 DEF Widths

LEMMA FirstMapped ==
    ASSUME IInv, NEW p \in Procs, p \in shared, p \notin writer, NEW w \in Visible(p),
           Visible(p) = {w}, Attached(p, w), UNCHANGED <<writer, rows, before, cleared, lapsed>>
    PROVE  MapsAgree' /\ Safe /\ header' \in Nat /\ dim' = [dim EXCEPT ![p] = w]
           /\ dim' \in [Procs -> Nat] /\ torn' \subseteq Procs
<1>1. /\ w \in Nat \ {0} /\ w \in rows /\ w \in before /\ cleared = {}
      /\ \A q \in Procs : Sound(q) => dim[q] = w
  BY SeenAlike
<1>2. /\ dim' = [dim EXCEPT ![p] = w] /\ header' = w /\ header' \in Nat
      /\ dim' \in [Procs -> Nat] /\ torn' \subseteq Procs
      /\ \A q \in torn' : q \in lapsed /\ dim'[q] # 0
  BY <1>1, AttachedAlike
<1>3. MapsAgree'
  BY <1>1, <1>2 DEF IInv, Typed, MapsAgree, Sound
<1>4. Safe
  BY <1>2 DEF Safe, CutsOnlyLapsed, KeepsWidth
<1>. QED
  BY <1>2, <1>3, <1>4

LEMMA VisibleFinite ==
    ASSUME IInv, NEW p \in Procs
    PROVE  IsFiniteSet(Visible(p))
  BY DEF IInv, Typed, Visible

LEMMA LoadStep ==
    ASSUME IInv, NEW p \in Procs, Load(p)
    PROVE  IInv' /\ Safe
<1>1. PICK w \in Visible(p) : Attached(p, w)
  BY DEF Load
<1>2. Visible(p) = {w}
  BY <1>1, VisibleFinite, OfOneAtMost DEF Load
<1>3. p \in shared /\ p \notin writer
  BY DEF Load, IInv, LocksHeld, Sharing, InBatch
<1>4. MapsAgree' /\ Safe /\ header' \in Nat /\ dim' = [dim EXCEPT ![p] = w]
      /\ dim' \in [Procs -> Nat] /\ torn' \subseteq Procs
  BY <1>1, <1>2, <1>3, FirstMapped DEF Load, locks
<1>5. Typed'
  BY <1>4 DEF Load, locks, IInv, Typed
<1>6. LocksHeld'
  BY DEF Load, locks, IInv, LocksHeld
<1>7. OpenedFirst'
  BY <1>4 DEF Load, IInv, Typed, OpenedFirst, FinishedWhenOpen, MayMap
<1>. QED
  BY <1>4, <1>5, <1>6, <1>7 DEF IInv

LEMMA AttachStep ==
    ASSUME IInv, NEW p \in Procs, Attach(p)
    PROVE  IInv' /\ Safe
<1>1. CASE Cardinality(Visible(p)) > 1
  <2>1. Go(p, "closed") /\ shared' = shared \ {p}
        /\ UNCHANGED <<creator, exclusive, writer, schema, vectors>>
    BY <1>1 DEF Attach, NotAttached, vectors
  <2>2. Typed'
    BY <2>1 DEF Go, vectors, IInv, Typed, Stages
  <2>3. LocksHeld'
    BY <2>1 DEF Attach, Go, vectors, IInv, Typed, LocksHeld, Opening, InBatch, Sharing
  <2>4. OpenedFirst'
    BY <2>1 DEF Attach, Go, vectors, IInv, Typed, OpenedFirst, FinishedWhenOpen, Opening, InBatch, MayMap
  <2>5. MapsAgree' /\ Safe
    BY <2>1, VectorsKept
  <2>. QED
    BY <2>2, <2>3, <2>4, <2>5 DEF IInv
<1>2. CASE ~ Cardinality(Visible(p)) > 1
  <2>1. Go(p, "open") /\ UNCHANGED <<shared, creator, exclusive, writer, schema, rows, before, cleared, lapsed>>
    BY <1>2 DEF Attach
  <2>2. p \in shared /\ p \notin writer /\ Cardinality(Visible(p)) <= 1
    BY <1>2, VisibleFinite, FS_CardinalityType DEF Attach, IInv, LocksHeld, Sharing, Opening, InBatch
  <2>3. LocksHeld'
    BY <2>1 DEF Attach, Go, IInv, Typed, LocksHeld, Opening, InBatch, Sharing
  <2>4. schema = Parts
    BY DEF Attach, IInv, OpenedFirst
  <2>5. CASE Visible(p) = {}
    <3>1. UNCHANGED <<writer, vectors>>
      BY <1>2, <2>1, <2>5 DEF Attach, NotAttached, vectors
    <3>2. Typed'
      BY <2>1, <3>1 DEF Go, vectors, IInv, Typed, Stages
    <3>3. OpenedFirst'
      BY <2>1, <2>4, <3>1 DEF Go, vectors, IInv, Typed, OpenedFirst, FinishedWhenOpen, MayMap
    <3>. QED
      BY <2>3, <3>1, <3>2, <3>3, VectorsKept DEF IInv
  <2>6. CASE Visible(p) # {}
    <3>1. PICK w \in Visible(p) : Attached(p, w)
      BY <1>2, <2>6 DEF Attach
    <3>2. Visible(p) = {w}
      BY <2>2, <3>1, VisibleFinite, OfOneAtMost
    <3>3. MapsAgree' /\ Safe /\ header' \in Nat /\ dim' = [dim EXCEPT ![p] = w]
          /\ dim' \in [Procs -> Nat] /\ torn' \subseteq Procs
      BY <2>1, <2>2, <3>1, <3>2, FirstMapped
    <3>4. Typed'
      BY <2>1, <3>3 DEF Go, IInv, Typed, Stages
    <3>5. OpenedFirst'
      BY <2>1, <2>4, <3>3 DEF Go, IInv, Typed, OpenedFirst, FinishedWhenOpen, MayMap
    <3>. QED
      BY <2>3, <3>3, <3>4, <3>5 DEF IInv
  <2>. QED
    BY <2>5, <2>6
<1>. QED
  BY <1>1, <1>2

-----------------------------------------------------------------------------
(* Transactions                                                            *)

LEMMA OnlyWriter ==
    ASSUME IInv, NEW p \in Procs, p \in writer
    PROVE  writer = {p} /\ exclusive \subseteq {p} /\ cleared \subseteq {p}
<1>1. writer = {p}
  BY DEF IInv, LocksHeld
<1>2. exclusive \subseteq writer
  BY DEF IInv, Typed, LocksHeld, InBatch
<1>. QED
  BY <1>1, <1>2 DEF IInv, LocksHeld

LEMMA BeginStep ==
    ASSUME IInv, NEW p \in Procs, Begin(p)
    PROVE  IInv' /\ Safe
<1>1. exclusive = {} /\ cleared = {}
  BY DEF Begin, IInv, Typed, LocksHeld, InBatch
<1>2. Typed'
  BY DEF Begin, Go, IInv, Typed, Stages
<1>3. LocksHeld'
  BY <1>1 DEF Begin, Go, IInv, Typed, LocksHeld, Opening, InBatch, Sharing
<1>4. OpenedFirst'
  BY DEF Begin, Go, IInv, Typed, OpenedFirst, FinishedWhenOpen, Opening, InBatch, MayMap
<1>5. MapsAgree'
  BY <1>1 DEF Begin, IInv, MapsAgree, Sound
<1>6. Safe
  BY DEF Begin, Safe, CutsOnlyLapsed, KeepsWidth
<1>. QED
  BY <1>2, <1>3, <1>4, <1>5, <1>6 DEF IInv

LEMMA SetVectorStep ==
    ASSUME IInv, NEW p \in Procs, SetVector(p)
    PROVE  IInv' /\ Safe
<1>1. p \in writer /\ writer = {p} /\ cleared \subseteq {p}
  BY OnlyWriter DEF SetVector, IInv, LocksHeld, InBatch
<1>2. Width[p] \in Nat \ {0}
  BY HandlesAssumption
<1>3. UNCHANGED <<stage, locks, schema, before, cleared, lapsed>>
  BY DEF SetVector
<1>4. /\ dim \in [Procs -> Nat] /\ rows \in Widths /\ IsFiniteSet(rows)
      /\ cleared = {} => before \subseteq rows
      /\ \A q \in Procs : Sound(q) => dim[q] \in rows
  BY DEF IInv, Typed, MapsAgree
<1>5. rows' = IF Bound(p) \subseteq {Width[p]} THEN rows \cup {Width[p]} ELSE rows
  BY DEF SetVector
<1>6. PICK w \in Bound(p) \cup (IF Bound(p) = {} THEN {Width[p]} ELSE {}) :
         IF dim[p] = w THEN NotAttached ELSE Attached(p, w)
  BY DEF SetVector
<1>7. rows' \in Widths /\ IsFiniteSet(rows')
  <2>1. IsFiniteSet(rows \cup {Width[p]})
    BY <1>4, FS_AddElement
  <2>. QED
    BY <1>2, <1>4, <1>5, <2>1 DEF Widths
<1>8. LocksHeld'
  BY <1>3 DEF IInv, LocksHeld, locks
<1>9. CASE dim[p] # 0
  <2>1. Bound(p) = {dim[p]} /\ w = dim[p]
    BY <1>6, <1>9 DEF Bound
  <2>2. UNCHANGED <<dim, header, torn>>
    BY <1>6, <2>1 DEF NotAttached
  <2>3. Typed' /\ OpenedFirst'
    BY <1>3, <1>7, <2>2 DEF IInv, Typed, OpenedFirst, FinishedWhenOpen, locks
  <2>4. rows \subseteq rows'
    BY <1>5
  <2>5. MapsAgree'
    BY <1>1, <1>3, <2>2, <2>4 DEF IInv, MapsAgree, Sound, locks
  <2>6. KeepsWidth
    <3>1. CASE p \in lapsed
      BY <1>1, <3>1 DEF KeepsWidth
    <3>2. CASE p \notin lapsed
      <4>1. rows' = rows
        BY <1>4, <1>5, <1>9, <2>1, <3>2 DEF Sound
      <4>. QED
        BY <4>1 DEF KeepsWidth
    <3>. QED
      BY <3>1, <3>2
  <2>. QED
    BY <1>8, <2>2, <2>3, <2>5, <2>6 DEF IInv, Safe, CutsOnlyLapsed
<1>10. CASE dim[p] = 0
  <2>1. Bound(p) = rows /\ Cardinality(rows) <= 1
    BY <1>10 DEF SetVector, Bound
  <2>2. w \in Nat \ {0} /\ rows \subseteq {w} /\ (rows = {} => w = Width[p])
    <3>1. CASE rows = {}
      BY <1>2, <1>6, <2>1, <3>1
    <3>2. CASE rows # {}
      <4>1. w \in rows
        BY <1>6, <2>1, <3>2
      <4>2. rows = {w}
        BY <1>4, <2>1, <4>1, OfOneAtMost
      <4>. QED
        BY <1>4, <4>2 DEF Widths
    <3>. QED
      BY <3>1, <3>2
  <2>3. rows' = {w}
    BY <1>5, <1>6, <2>1, <2>2
  <2>4. Attached(p, w)
    BY <1>6, <1>10, <2>2
  <2>5. /\ dim' = [dim EXCEPT ![p] = w] /\ header' = w /\ header' \in Nat
        /\ dim' \in [Procs -> Nat] /\ torn' \subseteq Procs
        /\ \A q \in torn' : q \in lapsed /\ dim'[q] # 0
    BY <1>4, <2>2, <2>4, AttachedAlike
  <2>6. Typed'
    BY <1>3, <1>7, <2>5 DEF IInv, Typed, locks
  <2>7. OpenedFirst'
    BY <1>3, <2>5 DEF SetVector, IInv, Typed, OpenedFirst, FinishedWhenOpen, MayMap, InBatch
  <2>8. MapsAgree'
    <3>1. writer' = {p} /\ cleared' = cleared /\ before' = before /\ lapsed' = lapsed
      BY <1>1, <1>3 DEF locks
    <3>2. cleared = {} => before = {} \/ before = {w}
      BY <1>4, <2>2
    <3>3. ASSUME NEW q \in Procs, Sound(q)'
          PROVE  /\ header' = dim'[q] /\ dim'[q] \in rows'
                 /\ q \in cleared' \/ dim'[q] \in before' \/ (before' = {} /\ q \in writer')
                 /\ cleared' \subseteq {q}
      <4>1. CASE q = p
        BY <1>1, <1>4, <2>3, <2>5, <3>1, <3>2, <4>1
      <4>2. CASE q # p
        <5>1. Sound(q) /\ dim'[q] = dim[q]
          BY <1>4, <2>5, <3>1, <3>3, <4>2 DEF Sound
        <5>2. dim[q] = w
          BY <1>4, <2>2, <5>1
        <5>. QED
          BY <1>1, <2>3, <2>5, <3>1, <4>2, <5>1, <5>2 DEF IInv, MapsAgree
      <4>. QED
        BY <4>1, <4>2
    <3>4. cleared' = {} => before' \subseteq rows'
      BY <2>3, <3>1, <3>2
    <3>. QED
      BY <2>5, <3>1, <3>3, <3>4 DEF MapsAgree
  <2>9. Safe
    <3>1. Cardinality(rows') = 1
      BY <2>3, FS_Singleton
    <3>. QED
      BY <2>5, <3>1 DEF Safe, CutsOnlyLapsed, KeepsWidth
  <2>. QED
    BY <1>8, <2>6, <2>7, <2>8, <2>9 DEF IInv
<1>. QED
  BY <1>4, <1>9, <1>10

(* Alone with the lock, only stores between their locks may map the file.  *)
LEMMA ClearStep ==
    ASSUME IInv, NEW p \in Procs, Clear(p)
    PROVE  IInv' /\ Safe
<1>1. p \in writer /\ p \in exclusive /\ writer = {p} /\ shared = {}
  BY OnlyWriter DEF Clear, IInv, LocksHeld, InBatch
<1>2. /\ rows' = {} /\ before' = before /\ cleared' = {p} /\ Go(p, "batch")
      /\ lapsed' = (lapsed \cup Mapping) \ {p} /\ UNCHANGED <<locks, schema>>
      /\ dim' = [dim EXCEPT ![p] = 0]
      /\ header' = IF dim[p] # 0 THEN 0 ELSE header
      /\ torn' = IF dim[p] # 0 THEN (torn \ {p}) \cup (Mapping \ {p}) ELSE torn
  BY DEF Clear, ResetFile
<1>3. Typed'
  BY <1>2, FS_EmptySet DEF Go, locks, IInv, Typed, Stages, Mapping, Widths
<1>4. LocksHeld'
  BY <1>1, <1>2 DEF Clear, Go, locks, IInv, Typed, LocksHeld, Opening, InBatch, Sharing
<1>5. OpenedFirst'
  BY <1>2 DEF Clear, Go, IInv, Typed, OpenedFirst, FinishedWhenOpen, Opening, InBatch, MayMap
<1>6. MapsAgree'
  BY <1>1, <1>2 DEF IInv, Typed, MapsAgree, Sound, Mapping, locks
<1>7. Safe
  <2>1. \A q \in Mapping \ {p} : stage[q] = "handing"
    BY <1>1 DEF IInv, LocksHeld, OpenedFirst, Mapping, MayMap, Sharing, InBatch
  <2>2. Cardinality(rows') = 0
    BY <1>2, FS_EmptySet
  <2>. QED
    BY <1>2, <2>1, <2>2 DEF Safe, CutsOnlyLapsed, KeepsWidth
<1>. QED
  BY <1>3, <1>4, <1>5, <1>6, <1>7 DEF IInv

LEMMA CommitStep ==
    ASSUME IInv, NEW p \in Procs, Commit(p)
    PROVE  IInv' /\ Safe
<1>1. p \in writer /\ writer = {p} /\ exclusive \subseteq {p}
  BY OnlyWriter DEF Commit, IInv, LocksHeld, InBatch
<1>2. Typed'
  BY DEF Commit, Ended, Go, IInv, Typed, Stages, BetweenLocks
<1>3. LocksHeld'
  BY <1>1 DEF Commit, Ended, Go, IInv, Typed, LocksHeld, Opening, InBatch, Sharing
<1>4. OpenedFirst'
  BY DEF Commit, Ended, Go, IInv, Typed, OpenedFirst, FinishedWhenOpen, Opening, InBatch, MayMap
<1>5. MapsAgree'
  BY DEF Commit, Ended, IInv, MapsAgree, Sound
<1>6. Safe
  BY DEF Commit, Safe, CutsOnlyLapsed, KeepsWidth
<1>. QED
  BY <1>2, <1>3, <1>4, <1>5, <1>6 DEF IInv

LEMMA RollbackStep ==
    ASSUME IInv, NEW p \in Procs, Rollback(p)
    PROVE  IInv' /\ Safe
<1>1. p \in writer /\ writer = {p} /\ exclusive \subseteq {p} /\ cleared \subseteq {p}
  BY OnlyWriter DEF Rollback, IInv, LocksHeld, InBatch
<1>2. /\ rows' = before /\ before' = before /\ writer' = {} /\ cleared' = {}
      /\ exclusive' = exclusive \ {p} /\ UNCHANGED <<shared, creator, schema>>
      /\ Go(p, IF p \in exclusive THEN "handing" ELSE "open")
  BY DEF Rollback, Ended
<1>3. LocksHeld'
  BY <1>1, <1>2 DEF Rollback, Go, IInv, Typed, LocksHeld, Opening, InBatch, Sharing
<1>4. KeepsWidth
  BY <1>2 DEF KeepsWidth
<1>5. schema = Parts
  BY DEF Rollback, IInv, OpenedFirst, FinishedWhenOpen, Opening
<1>6. CASE p \notin cleared
  <2>1. /\ cleared = {} /\ UNCHANGED <<dim, header, torn>>
        /\ lapsed' = IF dim[p] # 0 /\ before = {} THEN lapsed \cup {p} ELSE lapsed
    BY <1>1, <1>6 DEF Rollback, NotAttached
  <2>2. Typed'
    BY <1>2, <2>1 DEF Go, IInv, Typed, Stages, BetweenLocks
  <2>3. OpenedFirst'
    BY <1>2, <1>5, <2>1 DEF Go, IInv, Typed, OpenedFirst, FinishedWhenOpen, MayMap
  <2>4. MapsAgree'
    BY <1>1, <1>2, <2>1 DEF IInv, MapsAgree, Sound
  <2>5. CutsOnlyLapsed
    BY <2>1 DEF CutsOnlyLapsed
  <2>. QED
    BY <1>3, <1>4, <2>2, <2>3, <2>4, <2>5 DEF IInv, Safe
<1>7. CASE p \in cleared
  <2>1. \A q \in Procs \ {p} : ~ Sound(q)
    BY <1>7 DEF IInv, MapsAgree
  <2>2. \A q \in Mapping \ {p} : q \in Procs /\ q \in lapsed /\ dim[q] # 0
    BY <2>1 DEF Mapping, Sound
  <2>3. lapsed' = lapsed
    BY <1>7 DEF Rollback
  <2>4. \A q \in torn : q \in Procs /\ q \in lapsed /\ dim[q] # 0
    BY DEF IInv, Typed, MapsAgree
  <2>5. CASE Cardinality(before) = 1
    <3>1. PICK w \in before : /\ dim' = [dim EXCEPT ![p] = w] /\ header' = w
                              /\ torn' = (torn \ {p}) \cup (Mapping \ {p})
      BY <1>7, <2>5 DEF Rollback
    <3>2. w \in Nat \ {0}
      BY <3>1 DEF IInv, Typed, Widths
    <3>3. Typed'
      BY <1>2, <2>2, <2>3, <3>1, <3>2 DEF Go, IInv, Typed, Stages, BetweenLocks
    <3>4. OpenedFirst'
      BY <1>2, <1>5, <3>1 DEF Go, IInv, Typed, OpenedFirst, FinishedWhenOpen, MayMap
    <3>5. MapsAgree'
      BY <1>2, <2>1, <2>2, <2>3, <2>4, <3>1 DEF IInv, Typed, MapsAgree, Sound
    <3>6. CutsOnlyLapsed
      BY <2>2, <3>1 DEF CutsOnlyLapsed
    <3>. QED
      BY <1>3, <1>4, <3>3, <3>4, <3>5, <3>6 DEF IInv, Safe
  <2>6. CASE Cardinality(before) # 1
    <3>1. /\ dim' = [dim EXCEPT ![p] = 0]
          /\ header' = IF dim[p] # 0 THEN 0 ELSE header
          /\ torn' = IF dim[p] # 0 THEN (torn \ {p}) \cup (Mapping \ {p}) ELSE torn
      BY <1>7, <2>6 DEF Rollback, ResetFile
    <3>2. Typed'
      BY <1>2, <2>2, <2>3, <3>1 DEF Go, IInv, Typed, Stages, BetweenLocks
    <3>3. OpenedFirst'
      BY <1>2, <1>5, <3>1 DEF Go, IInv, Typed, OpenedFirst, FinishedWhenOpen, MayMap
    <3>4. MapsAgree'
      BY <1>2, <2>1, <2>2, <2>3, <2>4, <3>1 DEF IInv, Typed, MapsAgree, Sound
    <3>5. CutsOnlyLapsed
      BY <2>2, <3>1 DEF CutsOnlyLapsed
    <3>. QED
      BY <1>3, <1>4, <3>2, <3>3, <3>4, <3>5 DEF IInv, Safe
  <2>. QED
    BY <2>5, <2>6
<1>. QED
  BY <1>6, <1>7

-----------------------------------------------------------------------------
(* Closing and dying                                                       *)

LEMMA UnmapStep ==
    ASSUME IInv, NEW p \in Procs, Unmap(p)
    PROVE  IInv' /\ Safe
<1>1. Typed'
  BY DEF Unmap, Unmapped, Go, locks, IInv, Typed, Stages
<1>2. LocksHeld'
  BY DEF Unmap, Go, locks, IInv, Typed, LocksHeld, Opening, InBatch, Sharing
<1>3. OpenedFirst'
  BY DEF Unmap, Unmapped, Go, IInv, Typed, OpenedFirst, FinishedWhenOpen, Opening
<1>4. p \notin writer
  BY DEF Unmap, IInv, LocksHeld, InBatch
<1>5. MapsAgree'
  BY <1>4 DEF Unmap, Unmapped, locks, IInv, Typed, MapsAgree, Sound
<1>6. Safe
  BY DEF Unmap, Unmapped, Safe, CutsOnlyLapsed, KeepsWidth
<1>. QED
  BY <1>1, <1>2, <1>3, <1>5, <1>6 DEF IInv

LEMMA CrashStep ==
    ASSUME IInv, NEW p \in Procs, Crash(p)
    PROVE  IInv' /\ Safe
<1>1. /\ shared' = shared \ {p} /\ creator' = creator \ {p} /\ exclusive' = exclusive \ {p}
      /\ writer' = writer \ {p} /\ cleared' = cleared \ {p} /\ Go(p, "closed")
      /\ rows' = IF p \in writer THEN before ELSE rows
      /\ UNCHANGED <<schema, before, header>>
      /\ dim' = [dim EXCEPT ![p] = 0] /\ torn' = torn \ {p} /\ lapsed' = lapsed \ {p}
  BY DEF Crash, Unmapped
<1>2. Typed'
  BY <1>1 DEF Go, IInv, Typed, Stages
<1>3. LocksHeld'
  BY <1>1 DEF Go, IInv, Typed, LocksHeld, Opening, InBatch, Sharing
<1>4. OpenedFirst'
  BY <1>1 DEF Go, IInv, Typed, OpenedFirst, FinishedWhenOpen
<1>5. CASE p \in writer
  <2>1. writer' = {} /\ cleared \subseteq {p} /\ writer = {p}
    BY <1>1, <1>5, OnlyWriter
  <2>2. MapsAgree'
    BY <1>1, <1>5, <2>1 DEF IInv, Typed, MapsAgree, Sound
  <2>3. Safe
    BY <1>1, <1>5 DEF Safe, CutsOnlyLapsed, KeepsWidth
  <2>. QED
    BY <1>2, <1>3, <1>4, <2>2, <2>3 DEF IInv
<1>6. CASE p \notin writer
  <2>1. p \notin cleared /\ writer' = writer /\ cleared' = cleared /\ rows' = rows
    BY <1>1, <1>6 DEF IInv, Typed, LocksHeld, InBatch
  <2>2. MapsAgree'
    BY <1>1, <1>6, <2>1 DEF IInv, Typed, MapsAgree, Sound
  <2>3. Safe
    BY <1>1, <2>1 DEF Safe, CutsOnlyLapsed, KeepsWidth
  <2>. QED
    BY <1>2, <1>3, <1>4, <2>2, <2>3 DEF IInv
<1>. QED
  BY <1>5, <1>6

-----------------------------------------------------------------------------
(* The theorems                                                            *)

LEMMA InitIInv ==
    ASSUME Init
    PROVE  IInv
<1>1. Typed
  BY FS_EmptySet DEF Init, Typed, Stages, Parts, Widths
<1>2. LocksHeld /\ OpenedFirst /\ MapsAgree
  BY DEF Init, LocksHeld, OpenedFirst, FinishedWhenOpen, MapsAgree, Sound, Opening, InBatch, Sharing
<1>. QED
  BY <1>1, <1>2 DEF IInv

LEMMA NextStep ==
    ASSUME IInv, Next
    PROVE  IInv' /\ Safe
<1>1. PICK p \in Procs :
         \/ Open(p) \/ Reserve(p) \/ RunPart(p)
         \/ Load(p) \/ Begin(p) \/ SetVector(p) \/ Ask(p) \/ EndBatch(p)
         \/ Proceed(p)
         \/ Unmap(p) \/ Crash(p)
  BY Zenon DEF Next
<1>2. CASE Proceed(p)
  BY <1>2, CheckStep, EndStepStep, AttachStep, GrantedStep, RefusedStep, ShareRefusedStep,
     ClearStep, ShareAgainStep, LeaveStep, Zenon DEF Proceed
<1>3. CASE EndBatch(p)
  BY <1>3, CommitStep, RollbackStep, Zenon DEF EndBatch
<1>4. CASE Open(p) \/ Reserve(p) \/ RunPart(p)
  BY <1>4, OpenStep, ReserveStep, RunPartStep, Zenon
<1>5. CASE Load(p) \/ Begin(p) \/ SetVector(p) \/ Ask(p) \/ Unmap(p) \/ Crash(p)
  BY <1>5, LoadStep, BeginStep, SetVectorStep, AskStep, UnmapStep, CrashStep, Zenon
<1>. QED
  BY <1>1, <1>2, <1>3, <1>4, <1>5, Zenon

LEMMA IInvKept == IInv /\ [Next]_vars => IInv'
<1>1. ASSUME IInv, UNCHANGED vars
      PROVE  IInv'
  BY <1>1 DEF vars, locks, vectors, IInv, Typed, LocksHeld, OpenedFirst, FinishedWhenOpen,
              MapsAgree, Sound
<1>. QED
  BY <1>1, NextStep

(* Type correctness; at most one process has the file reserved, has it     *)
(* exclusively, or writes.                                                 *)
THEOREM TypeCorrect == Spec => []TypeOK
<1>1. Init => IInv
  BY InitIInv
<1>2. IInv => TypeOK
  BY IInvTypes
<1>. QED
  BY <1>1, <1>2, IInvKept, PTL DEF Spec

(* No store opens a half-made file, however many run the step and die.     *)
THEOREM OpensFinished == Spec => []FinishedWhenOpen
<1>1. Init => IInv
  BY InitIInv
<1>2. IInv => FinishedWhenOpen
  BY DEF IInv, OpenedFirst
<1>. QED
  BY <1>1, <1>2, IInvKept, PTL DEF Spec

(* Clearing waits for the exclusive lock, and attaching goes by what is    *)
(* stored, so that no process loses a map that vectors are behind.         *)
THEOREM MapsStay == Spec => NoMapIsCut
<1>1. Init => IInv
  BY InitIInv
<1>2. IInv /\ [Next]_vars => [\A p \in torn' \ torn : stage[p] = "handing" \/ p \in lapsed]_vars
  BY NextStep DEF Safe, CutsOnlyLapsed
<1>. QED
  BY <1>1, <1>2, IInvKept, PTL DEF Spec, NoMapIsCut

(* Each process checks a vector against its map or the first one stored,   *)
(* and that is enough for all of them, but for a map left without vectors. *)
THEOREM WidthStays == Spec => OneWidth
<1>1. Init => IInv
  BY InitIInv
<1>2. IInv /\ [Next]_vars => [Cardinality(rows') > 1 =>
                                 \/ Cardinality(rows) > 1
                                 \/ rows' = before
                                 \/ writer \cap lapsed # {}]_vars
  BY NextStep DEF Safe, KeepsWidth
<1>. QED
  BY <1>1, <1>2, IInvKept, PTL DEF Spec, OneWidth

=============================================================================
