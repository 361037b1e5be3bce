-------------------------- MODULE DocumentsProofs ---------------------------
(***************************************************************************)
(* Theorems of Documents, for every value of its constants.                *)
(***************************************************************************)
EXTENDS Documents, FiniteSetTheorems, TLAPS

-----------------------------------------------------------------------------
(* The ids a call gives out                                                *)

(* There are ids enough for the new chunks of a document, one each.        *)
LEMMA FreshExists ==
    ASSUME NEW S, IsFiniteSet(S), NEW n \in Nat
    PROVE  \E f \in [S -> n + 1 .. n + Cardinality(S)] :
              \A x, y \in S : f[x] = f[y] => x = y
<1>1. Cardinality(S) \in Nat /\ ExistsBijection(1 .. Cardinality(S), S)
  BY FS_CardinalityType
<1>2. PICK g \in Bijection(1 .. Cardinality(S), S) : TRUE
  BY <1>1, Zenon DEF ExistsBijection
<1>3. /\ g \in [1 .. Cardinality(S) -> S]
      /\ \A x \in S : \E i \in 1 .. Cardinality(S) : g[i] = x
  BY <1>2, Zenon DEF Bijection, Injection, Surjection
<1>. DEFINE h == [x \in S |-> CHOOSE i \in 1 .. Cardinality(S) : g[i] = x]
            f == [x \in S |-> n + h[x]]
<1>4. \A x \in S : h[x] \in 1 .. Cardinality(S) /\ g[h[x]] = x
  BY <1>3, Zenon
<1>. HIDE DEF h
<1>5. f \in [S -> n + 1 .. n + Cardinality(S)]
  BY <1>1, <1>4
<1>6. \A x, y \in S : f[x] = f[y] => x = y
  <2>. SUFFICES ASSUME NEW x \in S, NEW y \in S, f[x] = f[y]
                PROVE  x = y
    OBVIOUS
  <2>1. h[x] = h[y]
    BY <1>1, <1>4
  <2>. QED
    BY <2>1, <1>4, Zenon
<1>. QED
  BY <1>5, <1>6, Zenon

-----------------------------------------------------------------------------
(* The invariant                                                           *)

Facts(n) == [says : Pieces, cites : SUBSET (1 .. n), retired : BOOLEAN]

Ids(n) == SUBSET (1 .. n)

(* A document of n ids. *)
IsDocument(d, n) ==
    /\ d = [id |-> d.id, content |-> d.content, status |-> d.status, chunk |-> d.chunk,
            returned |-> d.returned]
    /\ d.id \in 1 .. n /\ d.content \in Contents /\ d.status \in Statuses
    /\ d.chunk \in [d.content -> 1 .. n] /\ d.returned \in BOOLEAN

Held(n) ==
    [stage : {"stored", "gathered", "extracting", "answered", "reconciled"},
     id : Nat, content : Contents, extract : BOOLEAN, fresh : Ids(n), kept : Ids(n),
     previous : SUBSET Statuses, reading : Ids(n), outcome : {"done", "failed"}]

Typed ==
    /\ serial \in Nat
    /\ \A d \in doc : IsDocument(d, serial)
    /\ \A d, e \in doc : d = e
    /\ turns \in [DOMAIN turns -> Pieces] /\ DOMAIN turns \subseteq 1 .. serial
    /\ facts \subseteq Facts(serial)
    /\ call \in [Calls -> {Idle} \cup Held(serial)]
    /\ read \subseteq 1 .. serial

IInv == Typed /\ ClaimsAreBacked /\ TextGoesWithDocument

LEMMA IInvTypes ==
    ASSUME IInv
    PROVE  TypeOK
<1>1. Cardinality(doc) <= 1
  <2>1. CASE doc = {}
    BY <2>1, FS_EmptySet
  <2>2. CASE doc # {}
    <3>1. PICK d \in doc : TRUE
      BY <2>2
    <3>2. doc = {d}
      BY <3>1, Zenon DEF IInv, Typed
    <3>. QED
      BY <3>2, FS_Singleton
  <2>. QED
    BY <2>1, <2>2
<1>2. facts \subseteq [says : Pieces, cites : SUBSET (1 .. serial), retired : BOOLEAN]
  BY DEF IInv, Typed, Facts
<1>. QED
  BY <1>1, <1>2, Zenon DEF IInv, Typed, TypeOK, IsDocument

(* More ids do not hurt. *)
LEMMA MoreIds ==
    ASSUME NEW m \in Nat, NEW n \in Nat, m <= n
    PROVE  /\ 1 .. m \subseteq 1 .. n
           /\ Facts(m) \subseteq Facts(n)
           /\ Held(m) \subseteq Held(n)
           /\ \A d : IsDocument(d, m) => IsDocument(d, n)
<1>1. 1 .. m \subseteq 1 .. n
  OBVIOUS
<1>2. Facts(m) \subseteq Facts(n)
  BY <1>1 DEF Facts
<1>3. Held(m) \subseteq Held(n)
  BY <1>1 DEF Held, Ids
<1>4. ASSUME NEW d, IsDocument(d, m)
      PROVE  IsDocument(d, n)
  BY <1>1, <1>4 DEF IsDocument
<1>. QED
  BY <1>1, <1>2, <1>3, <1>4

-----------------------------------------------------------------------------
(* What the helpers do                                                     *)

LEMMA FactChanged ==
    ASSUME NEW n, NEW f \in Facts(n), NEW cites, NEW retired \in BOOLEAN
    PROVE  [f EXCEPT !.cites = cites, !.retired = retired]
              = [says |-> f.says, cites |-> cites, retired |-> retired]
<1>. DEFINE h == [f EXCEPT !.cites = cites]
<1>1. h = [says |-> f.says, cites |-> cites, retired |-> f.retired]
  BY DEF Facts
<1>2. [f EXCEPT !.cites = cites, !.retired = retired] = [h EXCEPT !.retired = retired]
  BY Zenon
<1>3. f.says \in Pieces /\ f.retired \in BOOLEAN
  BY DEF Facts
<1>. HIDE DEF h
<1>4. h \in [says : Pieces, cites : {cites}, retired : BOOLEAN] /\ h.says = f.says /\ h.cites = cites
  BY <1>1, <1>3
<1>5. [h EXCEPT !.retired = retired] = [says |-> f.says, cites |-> cites, retired |-> retired]
  BY <1>4
<1>. QED
  BY <1>2, <1>5, Zenon

(* A released claim is a claim, cites none of the doomed turns, and is      *)
(* retired if it cites none at all.                                         *)
LEMMA ReleasedBacked ==
    ASSUME IInv, NEW D
    PROVE  /\ Released(D) \subseteq Facts(serial)
           /\ \A f \in Released(D) : /\ f.cites \subseteq DOMAIN turns \ D
                                     /\ f.cites = {} => f.retired
           /\ \A f \in Released(D) : \A e \in f.cites : Citing(e) # {}
           /\ \A e \in DOMAIN turns \ D :
                 Citing(e) # {} => \E f \in Released(D) : e \in f.cites
<1>. DEFINE R(f) == [f EXCEPT !.cites = @ \ D,
                              !.retired = @ \/ (f.cites # {} /\ f.cites \subseteq D)]
<1>1. Released(D) = {R(f) : f \in facts}
  BY DEF Released
<1>2. ASSUME NEW f \in facts
      PROVE  /\ R(f) \in Facts(serial)
             /\ R(f).cites = f.cites \ D
             /\ R(f).cites \subseteq DOMAIN turns \ D
             /\ R(f).cites = {} => R(f).retired
  <2>1. f \in Facts(serial) /\ f.cites \subseteq DOMAIN turns /\ (f.cites = {} => f.retired)
    BY DEF IInv, Typed, ClaimsAreBacked
  <2>2. (f.retired \/ (f.cites # {} /\ f.cites \subseteq D)) \in BOOLEAN
    BY <2>1 DEF Facts
  <2>3. R(f) = [says |-> f.says, cites |-> f.cites \ D,
                retired |-> f.retired \/ (f.cites # {} /\ f.cites \subseteq D)]
    BY <2>1, <2>2, FactChanged, Zenon
  <2>. HIDE DEF R
  <2>4. R(f) \in Facts(serial)
    BY <2>1, <2>2, <2>3 DEF Facts
  <2>5. R(f).cites = f.cites \ D /\ R(f).cites \subseteq DOMAIN turns \ D
    BY <2>1, <2>3
  <2>6. R(f).retired = (f.retired \/ (f.cites # {} /\ f.cites \subseteq D))
    BY <2>3
  <2>. QED
    BY <2>1, <2>4, <2>5, <2>6
<1>. HIDE DEF R
<1>3. \A e \in DOMAIN turns \ D :
         Citing(e) # {} => \E f \in Released(D) : e \in f.cites
  <2>. SUFFICES ASSUME NEW e \in DOMAIN turns \ D, NEW f \in facts, e \in f.cites
                PROVE  \E g \in Released(D) : e \in g.cites
    BY DEF Citing
  <2>1. R(f) \in Released(D) /\ e \in R(f).cites
    BY <1>1, <1>2
  <2>. QED
    BY <2>1, Zenon
<1>4. \A f \in Released(D) : \A e \in f.cites : Citing(e) # {}
  BY <1>1, <1>2 DEF Citing
<1>. QED
  BY <1>1, <1>2, <1>3, <1>4, Zenon

(* What is learned from stored turns cites only stored turns, and no claim *)
(* loses a turn by it.                                                     *)
LEMMA LearnedBacked ==
    ASSUME IInv, NEW E, E \subseteq DOMAIN turns
    PROVE  /\ Learned(E) \subseteq Facts(serial)
           /\ \A f \in Learned(E) : f.cites \subseteq DOMAIN turns /\ (f.cites = {} => f.retired)
           /\ \A f \in facts : \E g \in Learned(E) : f.cites \subseteq g.cites
           /\ \A g \in Learned(E) : \A e \in g.cites : e \in E \/ Citing(e) # {}
<1>. DEFINE Again(f) == IF f.retired THEN f
                        ELSE [f EXCEPT !.cites = @ \cup {e \in E : turns[e] = f.says}]
            New(x) == [says |-> x, cites |-> {e \in E : turns[e] = x}, retired |-> FALSE]
<1>1. \A g \in Learned(E) : \/ \E f \in facts : g = Again(f)
                           \/ \E x \in {turns[e] : e \in E} : g = New(x)
  BY DEF Learned
<1>2. ASSUME NEW f \in facts
      PROVE  /\ Again(f) \in Facts(serial) /\ f.cites \subseteq Again(f).cites
             /\ Again(f).cites \subseteq DOMAIN turns
             /\ Again(f).cites \subseteq f.cites \cup E
             /\ Again(f).cites = {} => Again(f).retired
  <2>1. f \in Facts(serial) /\ f.cites \subseteq DOMAIN turns /\ (f.cites = {} => f.retired)
    BY DEF IInv, Typed, ClaimsAreBacked
  <2>2. DOMAIN turns \subseteq 1 .. serial
    BY DEF IInv, Typed
  <2>3. CASE f.retired
    BY <2>1, <2>3
  <2>4. CASE ~ f.retired
    <3>1. Again(f) = [says |-> f.says, cites |-> f.cites \cup {e \in E : turns[e] = f.says},
                      retired |-> f.retired]
      BY <2>1, <2>4 DEF Facts
    <3>. HIDE DEF Again
    <3>. QED
      BY <2>1, <2>2, <2>4, <3>1 DEF Facts
  <2>. QED
    BY <2>3, <2>4
<1>3. ASSUME NEW x \in {turns[e] : e \in E}
      PROVE  /\ New(x) \in Facts(serial) /\ New(x).cites \subseteq DOMAIN turns
             /\ New(x).cites # {} /\ New(x).cites \subseteq E
  BY DEF IInv, Typed, Facts
<1>4. \A f \in facts : Again(f) \in Learned(E)
  BY DEF Learned
<1>. HIDE DEF Again, New
<1>5. \A g \in Learned(E) : \A e \in g.cites : e \in E \/ Citing(e) # {}
  BY <1>1, <1>2, <1>3 DEF Citing
<1>. QED
  BY <1>1, <1>2, <1>3, <1>4, <1>5, Zenon

(* A status is written onto the document it finds, and changes nothing else. *)
LEMMA StatusOnly ==
    ASSUME IInv, NEW p, NEW status \in Statuses
    PROVE  /\ \A d \in WithStatus(p, status) :
                 \E b \in doc : /\ d.id = b.id /\ d.content = b.content
                               /\ d.chunk = b.chunk /\ d.returned = b.returned
                               /\ \/ d.status = b.status
                                  \/ d.status = status /\ d.id = p.id /\ d.content = p.content
           /\ \A b \in doc : \E d \in WithStatus(p, status) : d.chunk = b.chunk
           /\ \A d \in WithStatus(p, status) : IsDocument(d, serial)
           /\ \A d, e \in WithStatus(p, status) : d = e
<1>. DEFINE W(d) == IF d \in SameContent(p) THEN [d EXCEPT !.status = status] ELSE d
<1>1. WithStatus(p, status) = {W(d) : d \in doc}
  BY DEF WithStatus
<1>2. ASSUME NEW b \in doc
      PROVE  /\ W(b).id = b.id /\ W(b).content = b.content
             /\ W(b).chunk = b.chunk /\ W(b).returned = b.returned
             /\ \/ W(b).status = b.status
                \/ W(b).status = status /\ W(b).id = p.id /\ W(b).content = p.content
             /\ IsDocument(W(b), serial)
  <2>1. IsDocument(b, serial)
    BY DEF IInv, Typed
  <2>2. CASE b \in SameContent(p)
    <3>1. W(b) = [id |-> b.id, content |-> b.content, status |-> status,
                  chunk |-> b.chunk, returned |-> b.returned]
      BY <2>1, <2>2 DEF IsDocument
    <3>2. b.id = p.id /\ b.content = p.content
      BY <2>2 DEF SameContent
    <3>. HIDE DEF W
    <3>. QED
      BY <2>1, <3>1, <3>2 DEF IsDocument
  <2>3. CASE b \notin SameContent(p)
    BY <2>1, <2>3
  <2>. QED
    BY <2>2, <2>3
<1>. HIDE DEF W
<1>3. \A b, c \in doc : b = c
  BY DEF IInv, Typed
<1>4. ASSUME NEW d \in WithStatus(p, status)
      PROVE  /\ IsDocument(d, serial)
             /\ \E b \in doc : /\ d.id = b.id /\ d.content = b.content
                               /\ d.chunk = b.chunk /\ d.returned = b.returned
                               /\ \/ d.status = b.status
                                  \/ d.status = status /\ d.id = p.id /\ d.content = p.content
  <2>1. PICK b \in doc : d = W(b)
    BY <1>1
  <2>. QED
    BY <1>2, <2>1, Zenon
<1>5. \A b \in doc : \E d \in WithStatus(p, status) : d.chunk = b.chunk
  BY <1>1, <1>2
<1>6. \A d, e \in WithStatus(p, status) : d = e
  BY <1>1, <1>3, Zenon
<1>. QED
  BY <1>4, <1>5, <1>6, Zenon

-----------------------------------------------------------------------------
(* The steps                                                               *)

(* What a store leaves: the document, the chunks it kept and the new ones,  *)
(* and every other call as it was.                                         *)
Opens(c, v) ==
    \E d \in doc' :
       /\ doc' = {d} /\ d.content = v /\ d.status = "queued"
       /\ \/ doc = {} /\ d.id = serial + 1
          \/ \E b \in doc : d.id = b.id
       /\ serial <= serial' /\ d.id <= serial'
       /\ \A b \in doc : b.content = v => d.chunk = b.chunk
       /\ ~ d.returned =>
             \A b \in doc : /\ ~ b.returned
                            /\ b.content # v => \A x \in Calls : \/ call[x] = Idle
                                                               \/ call[x].id # b.id
                                                               \/ call[x].content # v
       /\ \A x \in Calls \ {c} : call'[x] = call[x]
       /\ call'[c].stage = "stored" /\ call'[c].id = d.id /\ call'[c].content = v
       /\ call'[c].previous = {b.status : b \in doc}
       /\ call'[c].fresh \cup call'[c].kept = Range(d.chunk)
       /\ call'[c].kept \subseteq ChunkTurns /\ call'[c].fresh \cap 1 .. serial = {}
       /\ read \cap Range(d.chunk) \subseteq read'
       /\ \A g \in facts' : \A e \in g.cites : Citing(e) # {}

(* A store holds the new chunks under fresh ids and the kept ones under     *)
(* theirs, and drops only turns that the document held and holds no more.   *)
LEMMA StoreStep ==
    ASSUME IInv, NEW c \in Calls, NEW v \in Contents, NEW extract \in BOOLEAN,
           Store(c, v, extract)
    PROVE  /\ IInv'
           /\ call[c] = Idle /\ call'[c] # Idle
           /\ Opens(c, v)
<1>. DEFINE old     == UNION {{<<x, d.chunk[x]>> : x \in d.content} : d \in doc}
            held    == {p[2] : p \in old}
            new     == {x \in v : \A p \in old : p[1] # x}
            first   == IF doc = {} THEN serial + 1 ELSE serial
            last    == first + Cardinality(new)
            fresh   == CHOOSE f \in [new -> first + 1 .. last] :
                          \A x, y \in new : f[x] = f[y] => x = y
            chunk   == [x \in v |-> IF x \in new THEN fresh[x]
                                    ELSE CHOOSE e \in held : <<x, e>> \in old]
            dropped == held \ Range(chunk)
            id      == IF doc = {} THEN serial + 1 ELSE (CHOOSE d \in doc : TRUE).id
            back    == \E d \in doc, b \in Calls :
                          /\ call[b] # Idle /\ call[b].id = d.id /\ call[b].content = v
                          /\ d.content # v
            kept    == Range(chunk) \ Range(fresh)
            known   == {d.status : d \in doc}
            again   == back \/ \E d \in doc : d.returned
            stored  == [stage |-> "stored", id |-> id, content |-> v, extract |-> extract,
                        fresh |-> Range(fresh), kept |-> kept, previous |-> known,
                        reading |-> {}, outcome |-> "done"]
            row     == [id |-> id, content |-> v, status |-> "queued", chunk |-> chunk,
                        returned |-> again]
            table   == [e \in (DOMAIN turns \ dropped) \cup Range(fresh) |->
                           IF e \in DOMAIN turns THEN turns[e]
                           ELSE CHOOSE x \in new : fresh[x] = e]
<1>1. /\ call[c] = Idle
      /\ call' = [call EXCEPT ![c] = stored]
      /\ doc' = {row}
      /\ turns' = table
      /\ facts' = Released(dropped)
      /\ serial' = last
      /\ read' = read \ dropped
  BY Zenon DEF Store
<1>2. /\ held = ChunkTurns /\ held \subseteq DOMAIN turns /\ DOMAIN turns \subseteq 1 .. serial
      /\ \A x : (\E p \in old : p[1] = x) => \E e \in held : <<x, e>> \in old
      /\ \A d \in doc : \A x \in d.content : <<x, d.chunk[x]>> \in old
      /\ \A x, e : <<x, e>> \in old => \E d \in doc : x \in d.content /\ e = d.chunk[x]
  <2>1. \A d \in doc : d.chunk \in [d.content -> 1 .. serial]
    BY DEF IInv, Typed, IsDocument
  <2>2. \A p \in old : p = <<p[1], p[2]>>
    OBVIOUS
  <2>3. \A e \in held : \E d \in doc : \E x \in d.content : e = d.chunk[x]
    OBVIOUS
  <2>4. \A d \in doc : \A x \in d.content : d.chunk[x] \in held
    <3>. TAKE d \in doc
    <3>. TAKE x \in d.content
    <3>1. <<x, d.chunk[x]>> \in {<<y, d.chunk[y]>> : y \in d.content}
      OBVIOUS
    <3>2. <<x, d.chunk[x]>> \in old
      BY <3>1, Zenon
    <3>3. <<x, d.chunk[x]>>[2] = d.chunk[x]
      OBVIOUS
    <3>. HIDE DEF old
    <3>. QED
      BY <3>2, <3>3
  <2>5. \A x : (\E p \in old : p[1] = x) => \E e \in held : <<x, e>> \in old
    <3>. HIDE DEF old
    <3>. QED
      BY <2>2
  <2>6. \A d \in doc : DOMAIN d.chunk = d.content
    BY <2>1
  <2>8. \A d \in doc : \A x \in d.content : <<x, d.chunk[x]>> \in old
    <3>. TAKE d \in doc
    <3>. TAKE x \in d.content
    <3>1. <<x, d.chunk[x]>> \in {<<y, d.chunk[y]>> : y \in d.content}
      OBVIOUS
    <3>. QED
      BY <3>1, Zenon
  <2>9. \A x, e : <<x, e>> \in old => \E d \in doc : x \in d.content /\ e = d.chunk[x]
    OBVIOUS
  <2>. HIDE DEF held, old
  <2>7. held = ChunkTurns
    BY <2>3, <2>4, <2>6 DEF ChunkTurns, Range
  <2>. QED
    BY <2>5, <2>7, <2>8, <2>9 DEF IInv, Typed, TextGoesWithDocument
<1>3. new \subseteq v /\ (\A x \in v \ new : \E p \in old : p[1] = x)
  BY Zenon
<1>20. \A x, e : <<x, e>> \in old => x \notin new
  <2>. HIDE DEF old
  <2>. QED
    OBVIOUS
<1>. HIDE DEF old, new
<1>4. IsFiniteSet(new) /\ Cardinality(new) \in Nat
  BY <1>3, DocumentsAssumption, FS_Subset, FS_CardinalityType
<1>5. /\ serial \in Nat /\ first \in Nat /\ last \in Nat
      /\ serial <= first /\ first <= last /\ id \in 1 .. last
  BY <1>4 DEF IInv, Typed, IsDocument
<1>6. fresh \in [new -> first + 1 .. last] /\ \A x, y \in new : fresh[x] = fresh[y] => x = y
  <2>. HIDE DEF first
  <2>1. \E f \in [new -> first + 1 .. last] : \A x, y \in new : f[x] = f[y] => x = y
    BY <1>4, <1>5, FreshExists
  <2>. HIDE DEF last
  <2>. QED
    BY <2>1, Zenon
<1>. HIDE DEF fresh, first, last
<1>7. /\ \A x \in new : fresh[x] \in 1 .. last /\ fresh[x] \notin 1 .. serial
      /\ Range(fresh) = {fresh[x] : x \in new}
  BY <1>5, <1>6 DEF Range
<1>8. \A x \in v : chunk[x] = IF x \in new THEN fresh[x] ELSE CHOOSE e \in held : <<x, e>> \in old
  BY Zenon
<1>9. \A x \in v : IF x \in new THEN chunk[x] = fresh[x] ELSE chunk[x] \in held
  BY <1>2, <1>3, <1>8, Zenon
<1>10. /\ DOMAIN chunk = v /\ chunk = [x \in v |-> chunk[x]]
       /\ Range(chunk) = {chunk[x] : x \in v}
  <2>1. DOMAIN chunk = v
    OBVIOUS
  <2>2. chunk = [x \in v |-> chunk[x]]
    OBVIOUS
  <2>. HIDE DEF chunk
  <2>. QED
    BY <2>1, <2>2 DEF Range
<1>. HIDE DEF held, chunk
<1>11. /\ Range(chunk) \subseteq held \cup Range(fresh)
       /\ Range(fresh) \subseteq Range(chunk)
       /\ Range(chunk) \subseteq 1 .. last
       /\ Range(fresh) \subseteq 1 .. last
       /\ Range(fresh) \cap 1 .. serial = {}
  BY <1>2, <1>3, <1>5, <1>7, <1>9, <1>10
<1>12. known \subseteq Statuses /\ again \in BOOLEAN /\ kept \subseteq 1 .. last
  <2>1. \A d \in doc : d.status \in Statuses /\ d.returned \in BOOLEAN
    BY DEF IInv, Typed, IsDocument
  <2>. QED
    BY <1>11, <2>1
<1>13. IsDocument(row, last)
  <2>. HIDE DEF again, id
  <2>1. chunk \in [v -> 1 .. last]
    BY <1>10, <1>11
  <2>. QED
    BY <1>5, <1>12, <2>1 DEF IsDocument, Statuses
<1>14. stored \in Held(last) /\ stored # Idle
  <2>. HIDE DEF known, id, kept
  <2>1. id \in Nat
    BY <1>5
  <2>2. stored.stage # Idle.stage
    BY DEF Idle
  <2>. QED
    BY <1>11, <1>12, <2>1, <2>2 DEF Held, Ids
<1>15. /\ DOMAIN table = (DOMAIN turns \ dropped) \cup Range(fresh)
       /\ \A e \in DOMAIN table : table[e] \in Pieces
       /\ table = [e \in DOMAIN table |-> table[e]]
  <2>1. \A e \in DOMAIN turns : turns[e] \in Pieces
    BY DEF IInv, Typed
  <2>2. \A x \in new : x \in Pieces
    BY <1>3, DocumentsAssumption
  <2>3. \A e \in Range(fresh) : (CHOOSE x \in new : fresh[x] = e) \in new
    BY <1>7, Zenon
  <2>4. \A e \in (DOMAIN turns \ dropped) \cup Range(fresh) :
           table[e] = IF e \in DOMAIN turns THEN turns[e] ELSE CHOOSE x \in new : fresh[x] = e
    BY Zenon
  <2>. HIDE DEF dropped
  <2>. QED
    BY <2>1, <2>2, <2>3, <2>4
<1>. HIDE DEF row, stored, table, id, again, kept, known
<1>16. Typed'
  <2>1. \A d \in doc' : IsDocument(d, serial')
    BY <1>1, <1>13
  <2>2. \A d, e \in doc' : d = e
    BY <1>1
  <2>3. turns' \in [DOMAIN turns' -> Pieces] /\ DOMAIN turns' \subseteq 1 .. serial'
    BY <1>1, <1>2, <1>5, <1>11, <1>15
  <2>4. facts' \subseteq Facts(serial')
    BY <1>1, <1>5, ReleasedBacked, MoreIds
  <2>5. call' \in [Calls -> {Idle} \cup Held(serial')]
    BY <1>1, <1>5, <1>14, MoreIds DEF IInv, Typed
  <2>6. read' \subseteq 1 .. serial'
    BY <1>1, <1>5 DEF IInv, Typed
  <2>. QED
    BY <1>1, <1>5, <2>1, <2>2, <2>3, <2>4, <2>5, <2>6 DEF Typed
<1>17. ClaimsAreBacked'
  BY <1>1, <1>15, ReleasedBacked DEF ClaimsAreBacked
<1>18. TextGoesWithDocument'
  <2>1. ChunkTurns' = Range(chunk)
    BY <1>1 DEF ChunkTurns, row
  <2>2. Range(chunk) \subseteq DOMAIN turns'
    BY <1>1, <1>2, <1>11, <1>15
  <2>3. ASSUME NEW e \in DOMAIN turns' \ Range(chunk)
        PROVE  \E f \in facts' : e \in f.cites
    <3>1. e \in DOMAIN turns \ dropped /\ e \notin ChunkTurns
      BY <1>1, <1>2, <1>11, <1>15, <2>3
    <3>2. Citing(e) # {}
      BY <3>1 DEF IInv, TextGoesWithDocument
    <3>. QED
      BY <1>1, <3>1, <3>2, ReleasedBacked
  <2>. QED
    BY <2>1, <2>2, <2>3 DEF TextGoesWithDocument, Citing
<1>19. \A b \in doc : b.content = v => chunk = b.chunk
  <2>. SUFFICES ASSUME NEW b \in doc, b.content = v
                PROVE  chunk = b.chunk
    OBVIOUS
  <2>1. b.chunk = [x \in v |-> b.chunk[x]] /\ \A d \in doc : d = b
    BY DEF IInv, Typed, IsDocument
  <2>2. \A x \in v : <<x, b.chunk[x]>> \in old /\ \A e : <<x, e>> \in old => e = b.chunk[x]
    BY <1>2, <2>1
  <2>3. \A x \in v : x \notin new
    BY <1>20, <2>2
  <2>4. \A x \in v : chunk[x] = b.chunk[x]
    <3>. TAKE x \in v
    <3>1. \E e \in held : <<x, e>> \in old
      BY <1>2, <1>3, <2>3
    <3>2. <<x, chunk[x]>> \in old
      BY <1>8, <2>3, <3>1, Zenon
    <3>. QED
      BY <2>2, <3>2
  <2>. QED
    BY <1>10, <2>1, <2>4
<1>21. Opens(c, v)
  <2>1. /\ doc' = {row} /\ row \in doc' /\ row.content = v /\ row.status = "queued"
        /\ row.id = id /\ row.chunk = chunk /\ row.returned = again
    BY <1>1 DEF row
  <2>2. \/ doc = {} /\ id = serial + 1
        \/ \E b \in doc : id = b.id
    BY DEF id
  <2>3. serial <= serial' /\ id <= serial'
    BY <1>1, <1>5 DEF IInv, Typed
  <2>4. ~ again => \A b \in doc : /\ ~ b.returned
                                  /\ b.content # v => \A x \in Calls : \/ call[x] = Idle
                                                                     \/ call[x].id # b.id
                                                                     \/ call[x].content # v
    BY Zenon DEF again
  <2>5. call'[c] = stored /\ \A x \in Calls \ {c} : call'[x] = call[x]
    BY <1>1 DEF IInv, Typed
  <2>6. /\ stored.stage = "stored" /\ stored.id = id /\ stored.content = v
        /\ stored.previous = {b.status : b \in doc}
        /\ stored.fresh = Range(fresh) /\ stored.kept = kept
    BY DEF stored, known
  <2>7. /\ Range(fresh) \cup kept = Range(chunk) /\ kept \subseteq ChunkTurns
        /\ Range(fresh) \cap 1 .. serial = {}
    BY <1>2, <1>11 DEF kept
  <2>8. read \cap Range(chunk) \subseteq read'
    BY <1>1
  <2>9. \A g \in facts' : \A e \in g.cites : Citing(e) # {}
    BY <1>1, ReleasedBacked
  <2>10. /\ \/ doc = {} /\ row.id = serial + 1
            \/ \E b \in doc : row.id = b.id
         /\ serial <= serial' /\ row.id <= serial'
         /\ \A b \in doc : b.content = v => row.chunk = b.chunk
    BY <1>19, <2>1, <2>2, <2>3
  <2>11. /\ call'[c].stage = "stored" /\ call'[c].id = row.id /\ call'[c].content = v
         /\ call'[c].previous = {b.status : b \in doc}
         /\ call'[c].fresh \cup call'[c].kept = Range(row.chunk)
         /\ call'[c].kept \subseteq ChunkTurns /\ call'[c].fresh \cap 1 .. serial = {}
    BY <2>1, <2>5, <2>6, <2>7
  <2>12. read \cap Range(row.chunk) \subseteq read'
    BY <2>1, <2>8
  <2>. QED
    BY <2>1, <2>4, <2>5, <2>9, <2>10, <2>11, <2>12, Zenon DEF Opens
<1>. QED
  BY <1>1, <1>14, <1>16, <1>17, <1>18, <1>21 DEF IInv, Typed

(* What a step that stores no content leaves of the document.              *)
Kept == \A d \in doc' : \E b \in doc : b.id = d.id /\ b.content = d.content /\ b.chunk = d.chunk

(* The steps of a call that write a status, or nothing.                    *)
LEMMA StatusWritten ==
    ASSUME IInv, NEW p, NEW status \in Statuses, doc' = WithStatus(p, status),
           call' \in [Calls -> {Idle} \cup Held(serial)],
           UNCHANGED <<turns, facts, serial, read>>
    PROVE  IInv' /\ Kept
<1>1. ChunkTurns' = ChunkTurns
  BY StatusOnly DEF ChunkTurns
<1>2. Typed'
  BY StatusOnly DEF IInv, Typed
<1>3. ClaimsAreBacked' /\ TextGoesWithDocument'
  BY <1>1 DEF IInv, ClaimsAreBacked, TextGoesWithDocument, Citing
<1>4. Kept
  BY StatusOnly DEF Kept
<1>. QED
  BY <1>2, <1>3, <1>4 DEF IInv

LEMMA NothingWritten ==
    ASSUME IInv, call' \in [Calls -> {Idle} \cup Held(serial)],
           UNCHANGED <<doc, turns, facts, serial, read>>
    PROVE  IInv' /\ Kept
  BY DEF IInv, Typed, ClaimsAreBacked, TextGoesWithDocument, ChunkTurns, Citing, Kept

LEMMA InFlight ==
    ASSUME IInv, NEW c \in Calls, call[c].stage # "idle"
    PROVE  call[c] \in Held(serial)
  BY DEF IInv, Typed, Idle

(* A call's record stays one when a field is set. *)
LEMMA HeldChanged ==
    ASSUME NEW n, NEW q \in Held(n)
    PROVE  /\ \A x \in {"gathered", "extracting", "answered", "reconciled"} :
                 [q EXCEPT !.stage = x] \in Held(n)
           /\ \A E \in Ids(n) : /\ [q EXCEPT !.reading = E] \in Held(n)
                               /\ [q EXCEPT !.fresh = E] \in Held(n)
                               /\ [q EXCEPT !.kept = E] \in Held(n)
           /\ [q EXCEPT !.previous = {}] \in Held(n)
           /\ \A x \in {"done", "failed"} : [q EXCEPT !.outcome = x] \in Held(n)
<1>1. \A x \in {"gathered", "extracting", "answered", "reconciled"} : [q EXCEPT !.stage = x] \in Held(n)
  BY DEF Held
<1>2. \A E \in Ids(n) : [q EXCEPT !.reading = E] \in Held(n)
  BY DEF Held
<1>3. \A E \in Ids(n) : [q EXCEPT !.fresh = E] \in Held(n)
  BY DEF Held
<1>4. \A E \in Ids(n) : [q EXCEPT !.kept = E] \in Held(n)
  BY DEF Held
<1>5. [q EXCEPT !.previous = {}] \in Held(n)
  BY DEF Held
<1>6. \A x \in {"done", "failed"} : [q EXCEPT !.outcome = x] \in Held(n)
  BY DEF Held
<1>. QED
  BY <1>1, <1>2, <1>3, <1>4, <1>5, <1>6, Zenon

LEMMA SkipStep ==
    ASSUME IInv, NEW c \in Calls, Skip(c)
    PROVE  IInv' /\ Kept
<1>. DEFINE outcome == IF call[c].fresh # {} \/ call[c].previous \cap {"done", "failed"} = {}
                       THEN {"stored"} ELSE call[c].previous
<1>1. call[c] \in Held(serial)
  BY InFlight DEF Skip
<1>2. outcome \subseteq Statuses
  BY <1>1 DEF Held, Statuses
<1>3. PICK status \in outcome : doc' = WithStatus(call[c], status)
  BY Zenon DEF Skip
<1>. HIDE DEF outcome
<1>4. call' \in [Calls -> {Idle} \cup Held(serial)]
  BY DEF Skip, IInv, Typed
<1>5. UNCHANGED <<turns, facts, serial, read>>
  BY DEF Skip
<1>. QED
  BY <1>2, <1>3, <1>4, <1>5, StatusWritten

LEMMA StartStep ==
    ASSUME IInv, NEW c \in Calls, Start(c)
    PROVE  IInv' /\ Kept
<1>1. call[c] \in Held(serial)
  BY InFlight DEF Start
<1>. DEFINE marked == [[call[c] EXCEPT !.stage = "extracting"] EXCEPT !.previous = {}]
<1>2. call' = [call EXCEPT ![c] = IF SameContent(call[c]) = {} THEN Idle ELSE marked]
  BY Zenon DEF Start
<1>3. call' \in [Calls -> {Idle} \cup Held(serial)]
  <2>1. [call[c] EXCEPT !.stage = "extracting"] \in Held(serial)
    BY <1>1, HeldChanged
  <2>2. marked \in Held(serial)
    BY <2>1, HeldChanged, Zenon
  <2>. HIDE DEF marked
  <2>. QED
    BY <1>2, <2>2 DEF IInv, Typed
<1>4. doc' = WithStatus(call[c], "extracting") /\ UNCHANGED <<turns, facts, serial, read>>
  BY DEF Start
<1>. QED
  BY <1>3, <1>4, StatusWritten DEF Statuses

LEMMA RecordStep ==
    ASSUME IInv, NEW c \in Calls, Record(c)
    PROVE  IInv' /\ Kept
<1>1. call[c] \in Held(serial)
  BY InFlight DEF Record
<1>2. call[c].outcome \in Statuses
  BY <1>1 DEF Held, Statuses
<1>3. call' \in [Calls -> {Idle} \cup Held(serial)]
  BY DEF Record, IInv, Typed
<1>4. doc' = WithStatus(call[c], call[c].outcome) /\ UNCHANGED <<turns, facts, serial, read>>
  BY DEF Record, Outcome
<1>. QED
  BY <1>2, <1>3, <1>4, StatusWritten

LEMMA GatherStep ==
    ASSUME IInv, NEW c \in Calls, Gather(c)
    PROVE  IInv' /\ Kept
<1>. DEFINE p == call[c]
            reading == p.fresh \cup Retried(p)
<1>1. p \in Held(serial)
  BY InFlight DEF Gather
<1>2. reading \subseteq 1 .. serial
  BY <1>1 DEF Held, Ids, Retried, Unread
<1>. DEFINE gathered == [[[[p EXCEPT !.stage = "gathered"] EXCEPT !.reading = reading]
                           EXCEPT !.fresh = {}] EXCEPT !.kept = {}]
<1>3. call' = [call EXCEPT ![c] = gathered]
  BY Zenon DEF Gather
<1>4. gathered \in Held(serial)
  <2>. HIDE DEF p, reading
  <2>1. reading \in Ids(serial) /\ {} \in Ids(serial)
    BY <1>2 DEF Ids
  <2>2. [p EXCEPT !.stage = "gathered"] \in Held(serial)
    BY <1>1, HeldChanged
  <2>3. [[p EXCEPT !.stage = "gathered"] EXCEPT !.reading = reading] \in Held(serial)
    BY <2>1, <2>2, HeldChanged, Zenon
  <2>4. [[[p EXCEPT !.stage = "gathered"] EXCEPT !.reading = reading] EXCEPT !.fresh = {}]
           \in Held(serial)
    BY <2>1, <2>3, HeldChanged, Zenon
  <2>. QED
    BY <2>1, <2>4, HeldChanged, Zenon
<1>. HIDE DEF gathered
<1>5. call' \in [Calls -> {Idle} \cup Held(serial)]
  BY <1>3, <1>4 DEF IInv, Typed
<1>6. UNCHANGED <<doc, turns, facts, serial, read>>
  BY DEF Gather
<1>. QED
  BY <1>5, <1>6, NothingWritten

LEMMA AnsweredStep ==
    ASSUME IInv, NEW c \in Calls, NEW E \in SUBSET call[c].reading, Answered(c, E)
    PROVE  IInv' /\ Kept
<1>. DEFINE p == call[c]
            asked == {e \in p.reading : Citing(e) = {}}
            outcome == IF E = asked THEN "done" ELSE "failed"
<1>1. p \in Held(serial)
  BY InFlight DEF Answered
<1>2. E \in Ids(serial) /\ outcome \in {"done", "failed"}
  BY <1>1 DEF Held, Ids
<1>3. call' = [call EXCEPT ![c] = [[[p EXCEPT !.stage = "answered"] EXCEPT !.reading = E]
                                      EXCEPT !.outcome = outcome]]
  BY Zenon DEF Answered
<1>4. [[[p EXCEPT !.stage = "answered"] EXCEPT !.reading = E] EXCEPT !.outcome = outcome]
         \in Held(serial)
  <2>. HIDE DEF p, outcome
  <2>1. [p EXCEPT !.stage = "answered"] \in Held(serial)
    BY <1>1, HeldChanged
  <2>2. [[p EXCEPT !.stage = "answered"] EXCEPT !.reading = E] \in Held(serial)
    BY <1>2, <2>1, HeldChanged, Zenon
  <2>. QED
    BY <1>2, <2>2, HeldChanged, Zenon
<1>. HIDE DEF p, outcome
<1>5. call' \in [Calls -> {Idle} \cup Held(serial)]
  BY <1>3, <1>4 DEF IInv, Typed
<1>6. UNCHANGED <<doc, turns, facts, serial, read>>
  BY DEF Answered
<1>. QED
  BY <1>5, <1>6, NothingWritten

LEMMA ReconcileStep ==
    ASSUME IInv, NEW c \in Calls, Reconcile(c)
    PROVE  IInv' /\ Kept
<1>. DEFINE E == StillStored(call[c].reading)
<1>. DEFINE learned == [[call[c] EXCEPT !.stage = "reconciled"] EXCEPT !.reading = {}]
<1>1. learned \in Held(serial)
  <2>1. {} \in Ids(serial)
    BY DEF Ids
  <2>2. call[c] \in Held(serial)
    BY InFlight DEF Reconcile
  <2>3. [call[c] EXCEPT !.stage = "reconciled"] \in Held(serial)
    BY <2>2, HeldChanged
  <2>. QED
    BY <2>1, <2>3, HeldChanged, Zenon
<1>2. call' \in [Calls -> {Idle} \cup Held(serial)]
  <2>1. call' = [call EXCEPT ![c] = learned]
    BY Zenon DEF Reconcile
  <2>. HIDE DEF learned
  <2>. QED
    BY <1>1, <2>1 DEF IInv, Typed
<1>3. E \subseteq DOMAIN turns /\ DOMAIN turns \subseteq 1 .. serial
  BY DEF StillStored, IInv, Typed
<1>4. facts' = Learned(E) /\ read' = read \cup E /\ UNCHANGED <<doc, turns, serial>>
  BY DEF Reconcile
<1>. HIDE DEF E
<1>5. Typed'
  BY <1>2, <1>3, <1>4, LearnedBacked DEF IInv, Typed
<1>6. ClaimsAreBacked'
  BY <1>3, <1>4, LearnedBacked DEF ClaimsAreBacked
<1>7. TextGoesWithDocument'
  <2>1. ChunkTurns' = ChunkTurns
    BY <1>4 DEF ChunkTurns
  <2>2. ASSUME NEW e \in DOMAIN turns \ ChunkTurns
        PROVE  \E g \in facts' : e \in g.cites
    <3>1. PICK f \in facts : e \in f.cites
      BY DEF IInv, TextGoesWithDocument, Citing
    <3>. QED
      BY <1>3, <1>4, <3>1, LearnedBacked
  <2>. QED
    BY <1>4, <2>1, <2>2 DEF IInv, TextGoesWithDocument, Citing
<1>. QED
  BY <1>4, <1>5, <1>6, <1>7 DEF IInv, Kept

LEMMA DeleteStep ==
    ASSUME IInv, Delete
    PROVE  IInv' /\ Kept
<1>1. /\ doc' = {} /\ facts' = Released(ChunkTurns) /\ turns' = Without(ChunkTurns)
      /\ read' = read \ ChunkTurns /\ UNCHANGED <<call, serial>>
  BY DEF Delete
<1>2. DOMAIN turns' = DOMAIN turns \ ChunkTurns /\ turns' \in [DOMAIN turns' -> Pieces]
  BY <1>1 DEF Without, IInv, Typed
<1>3. Typed'
  BY <1>1, <1>2, ReleasedBacked DEF IInv, Typed
<1>4. ClaimsAreBacked'
  BY <1>1, <1>2, ReleasedBacked DEF ClaimsAreBacked
<1>5. TextGoesWithDocument'
  <2>1. ChunkTurns' = {}
    BY <1>1 DEF ChunkTurns
  <2>2. \A e \in DOMAIN turns \ ChunkTurns : \E f \in facts' : e \in f.cites
    BY <1>1, ReleasedBacked DEF IInv, TextGoesWithDocument
  <2>. QED
    BY <1>2, <2>1, <2>2 DEF TextGoesWithDocument, Citing
<1>. QED
  BY <1>1, <1>3, <1>4, <1>5 DEF IInv, Kept

LEMMA ConverseStep ==
    ASSUME IInv, NEW x \in Pieces, Converse(x)
    PROVE  IInv' /\ Kept
<1>. DEFINE told == serial + 1
            New  == [says |-> x, cites |-> {told}, retired |-> FALSE]
            Counted(f) == IF f \in LiveOf(x) THEN [f EXCEPT !.cites = @ \cup {told}] ELSE f
<1>1. /\ serial' = told /\ UNCHANGED <<doc, call, read>>
      /\ turns' = [e \in DOMAIN turns \cup {told} |-> IF e \in DOMAIN turns THEN turns[e] ELSE x]
      /\ facts' = IF LiveOf(x) = {} THEN facts \cup {New} ELSE {Counted(f) : f \in facts}
  BY Zenon DEF Converse
<1>2. serial \in Nat /\ told \in Nat /\ serial <= told /\ told \in 1 .. told
  BY DEF IInv, Typed
<1>3. /\ DOMAIN turns' = DOMAIN turns \cup {told} /\ turns' \in [DOMAIN turns' -> Pieces]
      /\ DOMAIN turns' \subseteq 1 .. told
  BY <1>1, <1>2, MoreIds DEF IInv, Typed
<1>4. New \in Facts(told) /\ New.cites = {told}
  BY <1>2 DEF Facts
<1>5. ASSUME NEW f \in facts
      PROVE  /\ f \in Facts(told) /\ Counted(f) \in Facts(told)
             /\ f.cites \subseteq Counted(f).cites
             /\ Counted(f).cites \subseteq f.cites \cup {told}
             /\ Counted(f).cites = {} => Counted(f).retired
             /\ f \in LiveOf(x) => told \in Counted(f).cites
  <2>1. f \in Facts(told) /\ (f.cites = {} => f.retired)
    BY <1>2, MoreIds DEF IInv, Typed, ClaimsAreBacked
  <2>2. CASE f \in LiveOf(x)
    <3>1. Counted(f) = [says |-> f.says, cites |-> f.cites \cup {told}, retired |-> f.retired]
      BY <2>1, <2>2 DEF Facts
    <3>. HIDE DEF Counted
    <3>. QED
      BY <1>2, <2>1, <3>1 DEF Facts
  <2>3. CASE f \notin LiveOf(x)
    BY <2>1, <2>3
  <2>. QED
    BY <2>2, <2>3
<1>. HIDE DEF told, New, Counted
<1>6. /\ facts' \subseteq Facts(told)
      /\ \A f \in facts' : f.cites \subseteq DOMAIN turns' /\ (f.cites = {} => f.retired)
      /\ \A f \in facts : \E g \in facts' : f.cites \subseteq g.cites
      /\ \E g \in facts' : told \in g.cites
  <2>1. \A f \in facts : f.cites \subseteq DOMAIN turns /\ (f.cites = {} => f.retired)
    BY DEF IInv, ClaimsAreBacked
  <2>2. CASE LiveOf(x) = {}
    <3>1. facts' = facts \cup {New}
      BY <1>1, <2>2
    <3>. QED
      BY <1>3, <1>4, <1>5, <2>1, <3>1
  <2>3. CASE LiveOf(x) # {}
    <3>1. facts' = {Counted(f) : f \in facts}
      BY <1>1, <2>3
    <3>2. PICK f \in facts : f \in LiveOf(x)
      BY <2>3 DEF LiveOf
    <3>. QED
      BY <1>3, <1>5, <2>1, <3>1, <3>2
  <2>. QED
    BY <2>2, <2>3
<1>7. Typed'
  BY <1>1, <1>2, <1>3, <1>6, MoreIds DEF IInv, Typed
<1>8. ClaimsAreBacked'
  BY <1>6 DEF ClaimsAreBacked
<1>9. TextGoesWithDocument'
  <2>1. ChunkTurns' = ChunkTurns
    BY <1>1 DEF ChunkTurns
  <2>2. \A e \in DOMAIN turns \ ChunkTurns : \E f \in facts' : e \in f.cites
    BY <1>6 DEF IInv, TextGoesWithDocument, Citing
  <2>. QED
    BY <1>3, <1>6, <2>1, <2>2 DEF IInv, TextGoesWithDocument, Citing
<1>. QED
  BY <1>1, <1>7, <1>8, <1>9 DEF IInv, Kept

LEMMA EraseStep ==
    ASSUME IInv, NEW f \in facts, Erase(f)
    PROVE  IInv' /\ Kept
<1>. DEFINE D == Unheld(Orphans(f))
<1>1. /\ facts' = facts \ {f} /\ turns' = Without(D) /\ read' = read \ D
      /\ UNCHANGED <<doc, call, serial>>
  BY DEF Erase
<1>2. \A e \in D : e \notin ChunkTurns /\ \A g \in facts : e \in g.cites => g = f
  BY DEF Unheld, Orphans, Citing
<1>3. \A e : e \in f.cites /\ e \notin ChunkTurns /\ e \notin D =>
                \E g \in facts \ {f} : e \in g.cites
  BY DEF Unheld, Orphans, Citing
<1>. HIDE DEF D
<1>4. DOMAIN turns' = DOMAIN turns \ D /\ turns' \in [DOMAIN turns' -> Pieces]
  BY <1>1 DEF Without, IInv, Typed
<1>5. Typed'
  BY <1>1, <1>4 DEF IInv, Typed
<1>6. ClaimsAreBacked'
  BY <1>1, <1>2, <1>4 DEF IInv, ClaimsAreBacked
<1>7. TextGoesWithDocument'
  <2>1. ChunkTurns' = ChunkTurns /\ ChunkTurns \subseteq DOMAIN turns'
    BY <1>1, <1>2, <1>4 DEF ChunkTurns, IInv, TextGoesWithDocument
  <2>2. ASSUME NEW e \in DOMAIN turns' \ ChunkTurns
        PROVE  \E g \in facts' : e \in g.cites
    <3>1. PICK g \in facts : e \in g.cites
      BY <1>4, <2>2 DEF IInv, TextGoesWithDocument, Citing
    <3>. QED
      BY <1>1, <1>3, <1>4, <2>2, <3>1
  <2>. QED
    BY <2>1, <2>2 DEF TextGoesWithDocument, Citing
<1>. QED
  BY <1>1, <1>5, <1>6, <1>7 DEF IInv, Kept

-----------------------------------------------------------------------------
(* The theorems                                                            *)

LEMMA InitIInv ==
    ASSUME Init
    PROVE  IInv
<1>1. Typed
  BY DEF Init, Typed
<1>2. ChunkTurns = {} /\ DOMAIN turns = {}
  BY DEF Init, ChunkTurns
<1>. QED
  BY <1>1, <1>2 DEF Init, IInv, ClaimsAreBacked, TextGoesWithDocument

(* A caller has stored content. *)
Stored == \E c \in Calls : call[c] = Idle /\ call'[c] # Idle

LEMMA NextStep ==
    ASSUME IInv, Next
    PROVE  IInv' /\ (Stored \/ Kept)
<1>1. ASSUME NEW c \in Calls, NEW v \in Contents, NEW extract \in BOOLEAN, Add(c, v, extract)
      PROVE  IInv' /\ Stored
  <2>1. Store(c, v, extract)
    BY <1>1, Zenon DEF Add
  <2>. QED
    BY <2>1, StoreStep DEF Stored
<1>2. ASSUME NEW c \in Calls, AddAgain(c)
      PROVE  IInv' /\ Stored
  <2>1. PICK d \in doc : Store(c, d.content, TRUE)
    BY <1>2, Zenon DEF AddAgain
  <2>2. d.content \in Contents
    BY DEF IInv, Typed, IsDocument
  <2>. QED
    BY <2>1, <2>2, StoreStep DEF Stored
<1>3. ASSUME NEW c \in Calls, Advance(c)
      PROVE  IInv' /\ Kept
  BY <1>3, SkipStep, GatherStep, StartStep, ReconcileStep, RecordStep, Zenon DEF Advance
<1>4. ASSUME NEW c \in Calls, NEW E \in SUBSET call[c].reading, Answered(c, E)
      PROVE  IInv' /\ Kept
  BY <1>4, AnsweredStep
<1>5. ASSUME NEW c \in Calls, Crash(c)
      PROVE  IInv' /\ Kept
  <2>1. call' \in [Calls -> {Idle} \cup Held(serial)]
    BY <1>5 DEF Crash, IInv, Typed
  <2>. QED
    BY <1>5, <2>1, NothingWritten DEF Crash
<1>6. ASSUME Mishap
      PROVE  IInv' /\ Kept
  BY <1>5, <1>6, DeleteStep, ConverseStep, EraseStep, Zenon DEF Mishap
<1>. QED
  BY <1>1, <1>2, <1>3, <1>4, <1>6, Zenon DEF Next

LEMMA IInvKept == IInv /\ [Next]_vars => IInv'
<1>1. ASSUME IInv, UNCHANGED vars
      PROVE  IInv'
  BY <1>1, NothingWritten DEF vars, IInv, Typed
<1>. QED
  BY <1>1, NextStep

(* Type correctness of the documents, their turns and the claims.          *)
THEOREM TypeCorrect == Spec => []TypeOK
<1>1. Init => IInv
  BY InitIInv
<1>2. IInv => TypeOK
  BY IInvTypes
<1>. QED
  BY <1>1, <1>2, IInvKept, PTL DEF Spec

(* However calls, deletions, erasures and crashes fall between each other, *)
(* a claim cites only what is stored, and stands only while a turn backs   *)
(* it: storing and deleting release the claims of a chunk in the           *)
(* transaction that erases it, and nothing is learned of an erased one.    *)
THEOREM ClaimsStayBacked == Spec => []ClaimsAreBacked
<1>1. Init => IInv
  BY InitIInv
<1>2. IInv => ClaimsAreBacked
  BY DEF IInv
<1>. QED
  BY <1>1, <1>2, IInvKept, PTL DEF Spec

(* The text of a document is stored exactly while the document lists it:   *)
(* an erasure of a claim leaves it, and an update or a deletion erases it. *)
THEOREM TextStaysWithDocument == Spec => []TextGoesWithDocument
<1>1. Init => IInv
  BY InitIInv
<1>2. IInv => TextGoesWithDocument
  BY DEF IInv
<1>. QED
  BY <1>1, <1>2, IInvKept, PTL DEF Spec

(* Only a caller's store makes a document or changes its content: a call   *)
(* that was under way when it went cannot bring it back, because a status  *)
(* is only written onto a document that is there.                          *)
THEOREM StoredByCallersOnly == Spec => OnlyCallersStore
<1>. DEFINE A == \A d \in doc' :
                   \/ \E c \in Calls : call[c] = Idle /\ call'[c] # Idle
                   \/ \E b \in doc : b.id = d.id /\ b.content = d.content /\ b.chunk = d.chunk
<1>1. Init => IInv
  BY InitIInv
<1>2. IInv /\ [Next]_vars => [A]_vars
  <2>1. ASSUME IInv, Next
        PROVE  A
    BY <2>1, NextStep, Zenon DEF Stored, Kept
  <2>. QED
    BY <2>1
<1>. QED
  BY <1>1, <1>2, IInvKept, PTL DEF Spec, OnlyCallersStore

-----------------------------------------------------------------------------
(* Done means read                                                         *)

(* What a model has still to read of a document, when it has read R.       *)
Left(d, R) == Range(d.chunk) \ R

(* A call of a document's present content will have read all of it when it *)
(* says so: it is still to read what is left, or what is left is not its   *)
(* to find, because the content was read in full when it was stored again. *)
Owes(p, d, R) ==
    /\ p.stage = "stored" =>
          /\ p.fresh \cup p.kept = Range(d.chunk)
          /\ p.previous = {} \/ "done" \in p.previous => p.kept \subseteq R
    /\ p.stage \in {"gathered", "extracting"} => Left(d, R) \subseteq p.reading
    /\ p.stage = "answered" /\ p.outcome = "done" => Left(d, R) \subseteq p.reading
    /\ p.stage = "reconciled" /\ p.outcome = "done" => Left(d, R) = {}

(* A call that holds what the document now is. *)
Of(p, d) == p # Idle /\ p.id = d.id /\ p.content = d.content

ReadingInv ==
    /\ \A c \in Calls : call[c] # Idle => call[c].id <= serial
    /\ \A e \in ChunkTurns : Citing(e) # {} => e \in read
    /\ \A d \in doc : ~ d.returned =>
          /\ d.status = "done" => Left(d, read) = {}
          /\ \A c \in Calls : Of(call[c], d) => Owes(call[c], d, read)

LEMMA OwesStill ==
    ASSUME NEW p, NEW b, NEW d, NEW Q, NEW R, Owes(p, b, Q), d.chunk = b.chunk,
           Q \cap Range(b.chunk) \subseteq R
    PROVE  Owes(p, d, R)
  BY DEF Owes, Left

(* The steps that store nothing keep the document, and of its chunks what  *)
(* was read stays read.                                                    *)
LEMMA ReadingKept ==
    ASSUME IInv, IInv', ReadingInv, serial <= serial',
           \A d \in doc' : \E b \in doc :
              /\ d.id = b.id /\ d.content = b.content /\ d.chunk = b.chunk
              /\ d.returned = b.returned
              /\ d.status = "done" => b.status = "done" \/ d.returned \/ Left(d, read') = {},
           read \cap ChunkTurns \subseteq read',
           \A e \in ChunkTurns' : Citing(e)' # {} => e \in read',
           \A c \in Calls :
              \/ call'[c] = Idle
              \/ call'[c] = call[c]
              \/ /\ call[c] # Idle
                 /\ call'[c].id = call[c].id /\ call'[c].content = call[c].content
                 /\ \A d \in doc' : Of(call'[c], d) /\ ~ d.returned => Owes(call'[c], d, read')
    PROVE  ReadingInv'
<1>1. \A c \in Calls : call'[c] # Idle => call'[c].id <= serial'
  <2>. SUFFICES ASSUME NEW c \in Calls, call'[c] # Idle
                PROVE  call'[c].id <= serial'
    OBVIOUS
  <2>1. call[c] # Idle /\ call'[c].id = call[c].id
    BY Zenon
  <2>2. call[c] \in Held(serial) /\ serial \in Nat /\ serial' \in Nat
    BY <2>1 DEF IInv, Typed
  <2>3. call[c].id \in Nat /\ call[c].id <= serial
    BY <2>1, <2>2 DEF Held, ReadingInv
  <2>. QED
    BY <2>1, <2>2, <2>3
<1>2. ASSUME NEW d \in doc', ~ d.returned
      PROVE  /\ d.status = "done" => Left(d, read') = {}
             /\ \A c \in Calls : Of(call'[c], d) => Owes(call'[c], d, read')
  <2>1. PICK b \in doc : /\ d.id = b.id /\ d.content = b.content /\ d.chunk = b.chunk
                         /\ d.returned = b.returned
                         /\ d.status = "done" => \/ b.status = "done" \/ d.returned
                                                 \/ Left(d, read') = {}
    BY Zenon
  <2>2. Range(b.chunk) \subseteq ChunkTurns
    BY DEF ChunkTurns
  <2>3. read \cap Range(b.chunk) \subseteq read'
    BY <2>2
  <2>4. d.status = "done" => Left(d, read') = {}
    BY <1>2, <2>1, <2>3 DEF ReadingInv, Left
  <2>5. ASSUME NEW c \in Calls, Of(call'[c], d)
        PROVE  Owes(call'[c], d, read')
    <3>1. CASE call'[c] = call[c]
      <4>1. Of(call[c], b)
        BY <2>1, <2>5, <3>1 DEF Of
      <4>2. Owes(call[c], b, read)
        BY <1>2, <2>1, <4>1 DEF ReadingInv
      <4>. QED
        BY <2>1, <2>3, <3>1, <4>2, OwesStill
    <3>2. CASE call'[c] # call[c]
      BY <1>2, <2>5, <3>2 DEF Of
    <3>. QED
      BY <3>1, <3>2
  <2>. QED
    BY <2>4, <2>5
<1>. QED
  BY <1>1, <1>2 DEF ReadingInv

LEMMA ReadingStored ==
    ASSUME IInv, IInv', ReadingInv, NEW c \in Calls, NEW v \in Contents, call[c] = Idle,
           Opens(c, v)
    PROVE  ReadingInv'
<1>1. PICK d \in doc' :
       /\ doc' = {d} /\ d.content = v /\ d.status = "queued"
       /\ \/ doc = {} /\ d.id = serial + 1
          \/ \E b \in doc : d.id = b.id
       /\ serial <= serial' /\ d.id <= serial'
       /\ \A b \in doc : b.content = v => d.chunk = b.chunk
       /\ ~ d.returned =>
             \A b \in doc : /\ ~ b.returned
                            /\ b.content # v => \A x \in Calls : \/ call[x] = Idle
                                                               \/ call[x].id # b.id
                                                               \/ call[x].content # v
       /\ \A x \in Calls \ {c} : call'[x] = call[x]
       /\ call'[c].stage = "stored" /\ call'[c].id = d.id /\ call'[c].content = v
       /\ call'[c].previous = {b.status : b \in doc}
       /\ call'[c].fresh \cup call'[c].kept = Range(d.chunk)
       /\ call'[c].kept \subseteq ChunkTurns /\ call'[c].fresh \cap 1 .. serial = {}
       /\ read \cap Range(d.chunk) \subseteq read'
       /\ \A g \in facts' : \A e \in g.cites : Citing(e) # {}
  BY Zenon DEF Opens
<1>. DEFINE p == call'[c]
<1>2. serial \in Nat /\ serial' \in Nat /\ ChunkTurns' = Range(d.chunk)
  BY <1>1 DEF IInv, Typed, ChunkTurns
<1>3. \A x \in Calls : call'[x] # Idle => call'[x].id <= serial'
  <2>. SUFFICES ASSUME NEW x \in Calls, call'[x] # Idle, x # c
                PROVE  call'[x].id <= serial'
    BY <1>1
  <2>1. call'[x] = call[x] /\ call[x] \in Held(serial) /\ call[x].id <= serial
    BY <1>1 DEF IInv, Typed, ReadingInv
  <2>. QED
    BY <1>1, <1>2, <2>1 DEF Held
<1>4. \A e \in ChunkTurns' : Citing(e)' # {} => e \in read'
  <2>. SUFFICES ASSUME NEW e \in Range(d.chunk), NEW g \in facts', e \in g.cites
                PROVE  e \in read'
    BY <1>2 DEF Citing
  <2>1. Citing(e) # {}
    BY <1>1
  <2>2. e \in 1 .. serial
    BY <2>1 DEF Citing, IInv, Typed, ClaimsAreBacked
  <2>3. e \in ChunkTurns
    BY <1>1, <2>2
  <2>. QED
    BY <1>1, <2>1, <2>3 DEF ReadingInv
<1>5. ASSUME ~ d.returned
      PROVE  \A x \in Calls : Of(call'[x], d) => Owes(call'[x], d, read')
  <2>1. Owes(p, d, read')
    <3>1. ASSUME p.previous = {}
          PROVE  p.kept \subseteq read'
      BY <1>1, <3>1 DEF ChunkTurns
    <3>2. ASSUME "done" \in p.previous
          PROVE  p.kept \subseteq read'
      <4>1. PICK b \in doc : b.status = "done"
        BY <1>1, <3>2
      <4>2. ~ b.returned
        BY <1>1, <1>5
      <4>3. Range(b.chunk) \subseteq read
        BY <4>1, <4>2 DEF ReadingInv, Left
      <4>4. ChunkTurns = Range(b.chunk)
        <5>1. doc = {b}
          BY DEF IInv, Typed
        <5>. QED
          BY <5>1 DEF ChunkTurns
      <4>. QED
        BY <1>1, <4>3, <4>4
    <3>. QED
      BY <1>1, <3>1, <3>2 DEF Owes
  <2>2. ASSUME NEW x \in Calls, x # c, Of(call'[x], d)
        PROVE  Owes(call'[x], d, read')
    <3>1. call'[x] = call[x]
      BY <1>1, <2>2
    <3>2. call[x] # Idle /\ call[x].id = d.id /\ call[x].content = v
      BY <1>1, <2>2, <3>1 DEF Of
    <3>3. doc # {}
      <4>1. d.id <= serial
        BY <3>2 DEF ReadingInv
      <4>. QED
        BY <1>1, <1>2, <4>1
    <3>4. PICK b \in doc : d.id = b.id
      BY <1>1, <3>3
    <3>5. ~ b.returned /\ b.content = v
      BY <1>1, <1>5, <3>2, <3>4
    <3>6. Owes(call[x], b, read) /\ d.chunk = b.chunk
      BY <1>1, <3>2, <3>4, <3>5 DEF ReadingInv, Of
    <3>7. Owes(call[x], d, read')
      BY <1>1, <3>6, OwesStill
    <3>. QED
      BY <3>1, <3>7
  <2>. QED
    BY <2>1, <2>2
<1>. QED
  BY <1>1, <1>3, <1>4, <1>5 DEF ReadingInv

(* A status that says done is written by a call that owes nothing.         *)
LEMMA ReadingStatus ==
    ASSUME IInv, IInv', ReadingInv, NEW c \in Calls, NEW status \in Statuses,
           call[c] # Idle, doc' = WithStatus(call[c], status),
           UNCHANGED <<turns, facts, serial, read>>,
           status = "done" => \A d \in doc : Of(call[c], d) /\ ~ d.returned => Left(d, read) = {},
           \A x \in Calls \ {c} : call'[x] = call[x],
           \/ call'[c] = Idle
           \/ /\ call'[c].id = call[c].id /\ call'[c].content = call[c].content
              /\ \A d \in doc : Of(call[c], d) /\ ~ d.returned => Owes(call'[c], d, read)
    PROVE  ReadingInv'
<1>1. serial <= serial' /\ ChunkTurns' = ChunkTurns
  BY StatusOnly DEF ChunkTurns, IInv, Typed
<1>2. \A e \in ChunkTurns' : Citing(e)' # {} => e \in read'
  BY <1>1 DEF ReadingInv, Citing
<1>3. ASSUME NEW d \in doc'
      PROVE  \E b \in doc : /\ d.id = b.id /\ d.content = b.content /\ d.chunk = b.chunk
                            /\ d.returned = b.returned
                            /\ d.status = "done" =>
                                  b.status = "done" \/ d.returned \/ Left(d, read') = {}
  <2>1. PICK b \in doc : /\ d.id = b.id /\ d.content = b.content
                         /\ d.chunk = b.chunk /\ d.returned = b.returned
                         /\ \/ d.status = b.status
                            \/ /\ d.status = status
                               /\ d.id = call[c].id /\ d.content = call[c].content
    BY StatusOnly
  <2>. QED
    BY <2>1 DEF Of, Left
<1>4. ASSUME NEW d \in doc', Of(call'[c], d), ~ d.returned, call'[c] # Idle
      PROVE  Owes(call'[c], d, read')
  <2>1. PICK b \in doc : /\ d.id = b.id /\ d.content = b.content
                         /\ d.chunk = b.chunk /\ d.returned = b.returned
    BY StatusOnly
  <2>2. Owes(call'[c], b, read)
    BY <1>4, <2>1 DEF Of
  <2>. QED
    BY <2>1, <2>2, OwesStill
<1>5. \A x \in Calls :
        \/ call'[x] = Idle
        \/ call'[x] = call[x]
        \/ /\ call[x] # Idle
           /\ call'[x].id = call[x].id /\ call'[x].content = call[x].content
           /\ \A d \in doc' : Of(call'[x], d) /\ ~ d.returned => Owes(call'[x], d, read')
  <2>. TAKE x \in Calls
  <2>. QED
    BY <1>4, Zenon DEF Of
<1>. QED
  BY <1>1, <1>2, <1>3, <1>5, ReadingKept

(* A call that goes on without a word to the document.                     *)
LEMMA ReadingOnward ==
    ASSUME IInv, IInv', ReadingInv, NEW c \in Calls, call[c] # Idle,
           UNCHANGED <<doc, turns, serial>>, read \subseteq read',
           \A e \in ChunkTurns : Citing(e)' # {} => e \in read',
           \A x \in Calls \ {c} : call'[x] = call[x],
           call'[c].id = call[c].id /\ call'[c].content = call[c].content,
           \A d \in doc : Of(call[c], d) /\ ~ d.returned => Owes(call'[c], d, read')
    PROVE  ReadingInv'
<1>1. serial <= serial' /\ ChunkTurns' = ChunkTurns
  BY DEF ChunkTurns, IInv, Typed
<1>2. \A x \in Calls :
        \/ call'[x] = Idle
        \/ call'[x] = call[x]
        \/ /\ call[x] # Idle
           /\ call'[x].id = call[x].id /\ call'[x].content = call[x].content
           /\ \A d \in doc' : Of(call'[x], d) /\ ~ d.returned => Owes(call'[x], d, read')
  BY DEF Of
<1>3. \A d \in doc' : \E b \in doc :
              /\ d.id = b.id /\ d.content = b.content /\ d.chunk = b.chunk
              /\ d.returned = b.returned
              /\ d.status = "done" => b.status = "done" \/ d.returned \/ Left(d, read') = {}
  OBVIOUS
<1>. QED
  BY <1>1, <1>2, <1>3, ReadingKept

LEMMA OwesNow ==
    ASSUME ReadingInv, NEW c \in Calls, NEW d \in doc, Of(call[c], d), ~ d.returned
    PROVE  Owes(call[c], d, read)
  BY DEF ReadingInv

LEMMA SkipReads ==
    ASSUME IInv, IInv', ReadingInv, NEW c \in Calls, Skip(c)
    PROVE  ReadingInv'
<1>. DEFINE p == call[c]
            outcome == IF p.fresh # {} \/ p.previous \cap {"done", "failed"} = {}
                       THEN {"stored"} ELSE p.previous
<1>1. p \in Held(serial) /\ p # Idle /\ p.stage = "stored"
  BY InFlight DEF Skip, Idle
<1>2. PICK status \in outcome : doc' = WithStatus(p, status)
  BY Zenon DEF Skip
<1>3. status \in Statuses
  BY <1>1 DEF Held, Statuses
<1>4. status = "done" => p.fresh = {} /\ "done" \in p.previous
  OBVIOUS
<1>5. status = "done" => \A d \in doc : Of(p, d) /\ ~ d.returned => Left(d, read) = {}
  BY <1>1, <1>4, OwesNow DEF Owes, Left
<1>6. /\ UNCHANGED <<turns, facts, serial, read>>
      /\ call'[c] = Idle /\ \A x \in Calls \ {c} : call'[x] = call[x]
  BY DEF Skip, IInv, Typed
<1>. HIDE DEF outcome
<1>. QED
  BY <1>1, <1>2, <1>3, <1>5, <1>6, ReadingStatus

LEMMA StartReads ==
    ASSUME IInv, IInv', ReadingInv, NEW c \in Calls, Start(c)
    PROVE  ReadingInv'
<1>. DEFINE p == call[c]
            marked == [p EXCEPT !.stage = "extracting", !.previous = {}]
<1>1. p \in Held(serial) /\ p # Idle /\ p.stage = "gathered"
  BY InFlight DEF Start, Idle
<1>2. /\ doc' = WithStatus(p, "extracting") /\ UNCHANGED <<turns, facts, serial, read>>
      /\ call'[c] = Idle \/ call'[c] = marked
      /\ \A x \in Calls \ {c} : call'[x] = call[x]
  BY DEF Start, IInv, Typed
<1>3. /\ marked.id = p.id /\ marked.content = p.content
      /\ marked.stage = "extracting" /\ marked.reading = p.reading
  BY <1>1 DEF Held
<1>4. \A d \in doc : Of(p, d) /\ ~ d.returned => Owes(marked, d, read)
  <2>. HIDE DEF marked
  <2>. QED
    BY <1>1, <1>3, OwesNow DEF Owes
<1>. HIDE DEF marked
<1>5. "extracting" \in Statuses
  BY DEF Statuses
<1>6. \/ call'[c] = Idle
      \/ /\ call'[c].id = p.id /\ call'[c].content = p.content
         /\ \A d \in doc : Of(p, d) /\ ~ d.returned => Owes(call'[c], d, read)
  BY <1>2, <1>3, <1>4
<1>. QED
  BY <1>1, <1>2, <1>5, <1>6, ReadingStatus

LEMMA RecordReads ==
    ASSUME IInv, IInv', ReadingInv, NEW c \in Calls, Record(c)
    PROVE  ReadingInv'
<1>. DEFINE p == call[c]
<1>1. p \in Held(serial) /\ p # Idle
  BY InFlight DEF Record, Idle
<1>2. p.outcome \in Statuses
  BY <1>1 DEF Held, Statuses
<1>3. p.outcome = "done" => \A d \in doc : Of(p, d) /\ ~ d.returned => Left(d, read) = {}
  BY OwesNow DEF Record, Owes
<1>4. /\ doc' = WithStatus(p, p.outcome) /\ UNCHANGED <<turns, facts, serial, read>>
      /\ call'[c] = Idle /\ \A x \in Calls \ {c} : call'[x] = call[x]
  BY DEF Record, Outcome, IInv, Typed
<1>. QED
  BY <1>1, <1>2, <1>3, <1>4, ReadingStatus

(* A kept chunk that is not read again is one a claim cites, or the         *)
(* document had been read in full.                                          *)
LEMMA GatherReads ==
    ASSUME IInv, IInv', ReadingInv, NEW c \in Calls, Gather(c)
    PROVE  ReadingInv'
<1>. DEFINE p == call[c]
            reading == p.fresh \cup Retried(p)
            q == [p EXCEPT !.stage = "gathered", !.reading = reading, !.fresh = {}, !.kept = {}]
<1>1. p \in Held(serial) /\ p # Idle /\ p.stage = "stored"
  BY InFlight DEF Gather, Idle
<1>2. call' = [call EXCEPT ![c] = q]
  BY Zenon DEF Gather
<1>3. /\ q.id = p.id /\ q.content = p.content
      /\ q.stage = "gathered" /\ q.reading = reading
  <2>. HIDE DEF reading
  <2>. QED
    BY <1>1 DEF Held
<1>. HIDE DEF q
<1>4. /\ call'[c] = q /\ \A x \in Calls \ {c} : call'[x] = call[x]
      /\ UNCHANGED <<doc, turns, facts, serial, read>>
  BY <1>2 DEF Gather, IInv, Typed
<1>5. ASSUME NEW d \in doc, Of(p, d), ~ d.returned
      PROVE  Owes(q, d, read)
  <2>1. /\ p.fresh \cup p.kept = Range(d.chunk)
        /\ p.previous = {} \/ "done" \in p.previous => p.kept \subseteq read
    BY <1>1, <1>5, OwesNow DEF Owes
  <2>2. Left(d, read) \subseteq reading
    <3>1. CASE p.previous \subseteq {"done"}
      BY <2>1, <3>1 DEF Left
    <3>2. CASE ~ (p.previous \subseteq {"done"})
      <4>1. Retried(p) = Unread(p.kept)
        BY <3>2 DEF Retried
      <4>2. Range(d.chunk) \subseteq ChunkTurns /\ ChunkTurns \subseteq DOMAIN turns
        BY DEF ChunkTurns, IInv, TextGoesWithDocument
      <4>. QED
        BY <2>1, <4>1, <4>2 DEF Left, Unread, ReadingInv
    <3>. QED
      BY <3>1, <3>2
  <2>. HIDE DEF reading
  <2>. QED
    BY <1>3, <2>2 DEF Owes
<1>6. \A e \in ChunkTurns : Citing(e)' # {} => e \in read'
  BY <1>4 DEF ReadingInv, Citing
<1>. HIDE DEF reading
<1>7. \A d \in doc : Of(p, d) /\ ~ d.returned => Owes(call'[c], d, read')
  BY <1>4, <1>5
<1>8. read \subseteq read' /\ call'[c].id = p.id /\ call'[c].content = p.content
  BY <1>3, <1>4
<1>. QED
  BY <1>1, <1>4, <1>6, <1>7, <1>8, ReadingOnward

(* A model that answered in full read every chunk that no claim cites, and *)
(* those that a claim cites had been read.                                 *)
LEMMA AnsweredReads ==
    ASSUME IInv, IInv', ReadingInv, NEW c \in Calls, NEW E \in SUBSET call[c].reading, Answered(c, E)
    PROVE  ReadingInv'
<1>. DEFINE p == call[c]
            asked == {e \in p.reading : Citing(e) = {}}
            outcome == IF E = asked THEN "done" ELSE "failed"
            q == [p EXCEPT !.stage = "answered", !.reading = E, !.outcome = outcome]
<1>1. p \in Held(serial) /\ p # Idle /\ p.stage = "extracting"
  BY InFlight DEF Answered, Idle
<1>2. call' = [call EXCEPT ![c] = q]
  BY Zenon DEF Answered
<1>3. /\ q.id = p.id /\ q.content = p.content
      /\ q.stage = "answered" /\ q.reading = E /\ q.outcome = outcome
  <2>. HIDE DEF outcome
  <2>. QED
    BY <1>1 DEF Held
<1>. HIDE DEF q
<1>4. /\ call'[c] = q /\ \A x \in Calls \ {c} : call'[x] = call[x]
      /\ UNCHANGED <<doc, turns, facts, serial, read>>
  BY <1>2 DEF Answered, IInv, Typed
<1>5. ASSUME NEW d \in doc, Of(p, d), ~ d.returned
      PROVE  Owes(q, d, read)
  <2>1. Left(d, read) \subseteq p.reading
    BY <1>1, <1>5, OwesNow DEF Owes
  <2>2. Range(d.chunk) \subseteq ChunkTurns
    BY DEF ChunkTurns
  <2>3. Left(d, read) \subseteq asked
    BY <2>1, <2>2 DEF Left, ReadingInv
  <2>. HIDE DEF asked
  <2>. QED
    BY <1>3, <2>3 DEF Owes
<1>6. \A e \in ChunkTurns : Citing(e)' # {} => e \in read'
  BY <1>4 DEF ReadingInv, Citing
<1>. HIDE DEF outcome
<1>7. \A d \in doc : Of(p, d) /\ ~ d.returned => Owes(call'[c], d, read')
  BY <1>4, <1>5
<1>8. read \subseteq read' /\ call'[c].id = p.id /\ call'[c].content = p.content
  BY <1>3, <1>4
<1>. QED
  BY <1>1, <1>4, <1>6, <1>7, <1>8, ReadingOnward

(* What is reconciled is read: a document's chunks are stored as long as   *)
(* the document lists them.                                                *)
LEMMA ReconcileReads ==
    ASSUME IInv, IInv', ReadingInv, NEW c \in Calls, Reconcile(c)
    PROVE  ReadingInv'
<1>. DEFINE p == call[c]
            E == StillStored(p.reading)
            q == [p EXCEPT !.stage = "reconciled", !.reading = {}]
<1>1. p \in Held(serial) /\ p # Idle /\ p.stage = "answered"
  BY InFlight DEF Reconcile, Idle
<1>2. call' = [call EXCEPT ![c] = q]
  BY Zenon DEF Reconcile
<1>3. /\ q.id = p.id /\ q.content = p.content
      /\ q.stage = "reconciled" /\ q.outcome = p.outcome
  BY <1>1 DEF Held
<1>. HIDE DEF q
<1>4. /\ call'[c] = q /\ \A x \in Calls \ {c} : call'[x] = call[x]
      /\ facts' = Learned(E) /\ read' = read \cup E /\ UNCHANGED <<doc, turns, serial>>
  BY <1>2 DEF Reconcile, IInv, Typed
<1>5. ASSUME NEW d \in doc, Of(p, d), ~ d.returned
      PROVE  Owes(q, d, read')
  <2>1. p.outcome = "done" => Left(d, read) \subseteq p.reading
    BY <1>1, <1>5, OwesNow DEF Owes
  <2>2. Range(d.chunk) \subseteq DOMAIN turns
    BY DEF ChunkTurns, IInv, TextGoesWithDocument
  <2>3. p.outcome = "done" => Left(d, read') = {}
    BY <1>4, <2>1, <2>2 DEF Left, StillStored
  <2>. QED
    BY <1>3, <2>3 DEF Owes
<1>6. E \subseteq DOMAIN turns
  BY DEF StillStored
<1>. HIDE DEF E
<1>7. \A e \in ChunkTurns : Citing(e)' # {} => e \in read'
  <2>. SUFFICES ASSUME NEW e \in ChunkTurns, NEW g \in Learned(E), e \in g.cites
                PROVE  e \in read'
    BY <1>4 DEF Citing
  <2>1. e \in E \/ Citing(e) # {}
    BY <1>6, LearnedBacked
  <2>. QED
    BY <1>4, <2>1 DEF ReadingInv
<1>8. \A d \in doc : Of(p, d) /\ ~ d.returned => Owes(call'[c], d, read')
  BY <1>4, <1>5
<1>9. read \subseteq read' /\ call'[c].id = p.id /\ call'[c].content = p.content
  BY <1>3, <1>4
<1>. QED
  BY <1>1, <1>4, <1>7, <1>8, <1>9, ReadingOnward

(* What happens meanwhile erases the document, or nothing of it.           *)
LEMMA MeanwhileReads ==
    ASSUME IInv, IInv', ReadingInv, serial <= serial', doc' \subseteq doc,
           \A c \in Calls : call'[c] = Idle \/ call'[c] = call[c],
           doc' # {} => read \cap ChunkTurns \subseteq read',
           \A g \in facts' : \A e \in g.cites \cap ChunkTurns : Citing(e) # {}
    PROVE  ReadingInv'
<1>1. CASE doc' = {}
  <2>1. ChunkTurns' = {}
    BY <1>1 DEF ChunkTurns
  <2>2. \A c \in Calls : call'[c] # Idle => call'[c].id <= serial'
    <3>. SUFFICES ASSUME NEW c \in Calls, call'[c] # Idle
                  PROVE  call'[c].id <= serial'
      OBVIOUS
    <3>1. call'[c] = call[c] /\ call[c] \in Held(serial) /\ serial \in Nat /\ serial' \in Nat
      BY DEF IInv, Typed
    <3>2. call[c].id \in Nat /\ call[c].id <= serial
      BY <3>1 DEF Held, ReadingInv
    <3>. QED
      BY <3>1, <3>2
  <2>. QED
    BY <1>1, <2>1, <2>2 DEF ReadingInv
<1>2. CASE doc' # {}
  <2>1. ChunkTurns' \subseteq ChunkTurns
    BY DEF ChunkTurns
  <2>2. \A e \in ChunkTurns' : Citing(e)' # {} => e \in read'
    BY <1>2, <2>1 DEF Citing, ReadingInv
  <2>. QED
    BY <1>2, <2>2, ReadingKept
<1>. QED
  BY <1>1, <1>2

LEMMA MishapReads ==
    ASSUME IInv, IInv', ReadingInv, Mishap
    PROVE  ReadingInv'
<1>1. serial \in Nat /\ \A g \in facts : \A e \in g.cites : Citing(e) # {}
  BY DEF IInv, Typed, Citing
<1>2. CASE Delete
  BY <1>1, <1>2, ReleasedBacked, MeanwhileReads DEF Delete
<1>3. ASSUME NEW x \in Pieces, Converse(x)
      PROVE  ReadingInv'
  <2>. DEFINE New == [says |-> x, cites |-> {serial + 1}, retired |-> FALSE]
              Counted(f) == IF f \in LiveOf(x) THEN [f EXCEPT !.cites = @ \cup {serial + 1}] ELSE f
  <2>1. /\ serial' = serial + 1 /\ UNCHANGED <<doc, call, read>>
        /\ facts' = IF LiveOf(x) = {} THEN facts \cup {New} ELSE {Counted(f) : f \in facts}
    BY <1>3, Zenon DEF Converse
  <2>2. serial + 1 \notin ChunkTurns
    BY <1>1 DEF IInv, Typed, TextGoesWithDocument
  <2>3. \A f \in facts : Counted(f).cites \subseteq f.cites \cup {serial + 1}
    BY DEF IInv, Typed, Facts
  <2>4. New.cites = {serial + 1}
    OBVIOUS
  <2>. HIDE DEF New, Counted
  <2>5. \A g \in facts' : \A e \in g.cites \cap ChunkTurns : Citing(e) # {}
    BY <1>1, <2>1, <2>2, <2>3, <2>4
  <2>. QED
    BY <1>1, <2>1, <2>5, MeanwhileReads
<1>4. ASSUME NEW f \in facts, Erase(f)
      PROVE  ReadingInv'
  <2>1. /\ facts' \subseteq facts /\ read' = read \ Unheld(Orphans(f))
        /\ UNCHANGED <<doc, call, serial>>
    BY <1>4 DEF Erase
  <2>2. read \cap ChunkTurns \subseteq read'
    BY <2>1 DEF Unheld
  <2>. QED
    BY <1>1, <2>1, <2>2, MeanwhileReads
<1>5. ASSUME NEW c \in Calls, Crash(c)
      PROVE  ReadingInv'
  <2>1. /\ \A x \in Calls : call'[x] = Idle \/ call'[x] = call[x]
        /\ UNCHANGED <<doc, turns, facts, serial, read>>
    BY <1>5 DEF Crash, IInv, Typed
  <2>. QED
    BY <1>1, <2>1, MeanwhileReads
<1>. QED
  BY <1>2, <1>3, <1>4, <1>5, Zenon DEF Mishap

LEMMA ReadingStep == IInv /\ ReadingInv /\ [Next]_vars => ReadingInv'
<1>. SUFFICES ASSUME IInv, IInv', ReadingInv, Next
              PROVE  ReadingInv'
  <2>1. ASSUME ReadingInv, UNCHANGED vars
        PROVE  ReadingInv'
    BY <2>1 DEF vars, ReadingInv, ChunkTurns, Citing
  <2>. QED
    BY <2>1, IInvKept
<1>1. ASSUME NEW c \in Calls, NEW v \in Contents, NEW extract \in BOOLEAN, Store(c, v, extract)
      PROVE  ReadingInv'
  BY <1>1, StoreStep, ReadingStored
<1>2. \A d \in doc : d.content \in Contents
  BY DEF IInv, Typed, IsDocument
<1>3. CASE \E c \in Calls, v \in Contents, extract \in BOOLEAN : Add(c, v, extract)
  BY <1>1, <1>3, Zenon DEF Add
<1>4. CASE \E c \in Calls : AddAgain(c)
  BY <1>1, <1>2, <1>4 DEF AddAgain
<1>5. CASE \E c \in Calls : Advance(c)
  BY <1>5, SkipReads, GatherReads, StartReads, ReconcileReads, RecordReads, Zenon DEF Advance
<1>6. CASE \E c \in Calls : \E E \in SUBSET call[c].reading : Answered(c, E)
  BY <1>6, AnsweredReads, Zenon
<1>7. CASE Mishap
  BY <1>7, MishapReads
<1>. QED
  BY <1>3, <1>4, <1>5, <1>6, <1>7, Zenon DEF Next

(* A document that says it is done has been read in full, whatever calls,  *)
(* erasures and deletions went on meanwhile, unless its content had gone   *)
(* and come back under a call in flight: a status is written only onto the *)
(* content it is about, and what a call leaves out as cited was read.      *)
THEOREM DoneIsRead == Spec => []DoneMeansReadOnce
<1>1. Init => IInv /\ ReadingInv
  BY InitIInv DEF Init, ReadingInv, ChunkTurns
<1>2. ReadingInv => DoneMeansReadOnce
  BY DEF ReadingInv, Left, DoneMeansReadOnce, ReadInFull
<1>3. IInv /\ ReadingInv /\ [Next]_vars => IInv' /\ ReadingInv'
  BY IInvKept, ReadingStep
<1>. QED
  BY <1>1, <1>2, <1>3, PTL DEF Spec

=============================================================================
