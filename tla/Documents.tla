----------------------------- MODULE Documents ------------------------------
(***************************************************************************)
(* Documents: DocumentService (memvara/documents/service.py) over the      *)
(* write pipeline.                                                         *)
(*                                                                         *)
(* A document is split into chunks, each stored as a turn that the         *)
(* document holds.  Adding it again with other content keeps the turns of  *)
(* the chunks it still has and erases the rest.  Each call is a chain of   *)
(* transactions with a model between them, and other calls, a deletion or  *)
(* a crash fall between any two.                                           *)
(*                                                                         *)
(* One name in one scope; a chunk states one fact, of a slot of its own,   *)
(* so what Reconciler.apply does is to store it once and count it again.   *)
(***************************************************************************)
EXTENDS Naturals, FiniteSets, Functions

CONSTANTS
    Calls,        \* the calls that may be in flight together
    Pieces,       \* what a chunk may be
    Contents,     \* the texts a document may have, as sets of chunks
    MaxAdds,      \* bound: the calls that store new content
    MaxMishaps    \* bound: deletions, turns elsewhere, erasures and crashes

ASSUME DocumentsAssumption ==
    /\ Contents \subseteq SUBSET Pieces
    /\ {} \notin Contents
    /\ \A v \in Contents : IsFiniteSet(v)
    /\ MaxAdds \in Nat /\ MaxMishaps \in Nat

VARIABLES
    doc,       \* the document of the name, a set of at most one
    turns,     \* the turns stored, chunks and others, from ids to what they say
    facts,     \* the claims: what they say, the turns they cite, and if retired
    call,      \* what each call in flight holds and still needs
    serial,    \* the ids given so far to documents and to turns
    read,      \* history: the turns that a model has read
    adds, mishaps

vars == <<doc, turns, facts, call, serial, read, adds, mishaps>>

Idle == [stage |-> "idle", reading |-> {}]

(* A document holds each of its chunks as a turn.  returned is a history: *)
(* whether content came back that a call in flight had stored before other *)
(* content took its place.                                                 *)
Statuses == {"queued", "extracting", "done", "stored", "failed"}

ChunkTurns == UNION {Range(d.chunk) : d \in doc}

TypeOK ==
    /\ Cardinality(doc) <= 1
    /\ \A d \in doc :
          /\ d.id \in 1 .. serial /\ d.content \in Contents /\ d.status \in Statuses
          /\ d.chunk \in [d.content -> 1 .. serial] /\ d.returned \in BOOLEAN
    /\ turns \in [DOMAIN turns -> Pieces] /\ DOMAIN turns \subseteq 1 .. serial
    /\ facts \subseteq [says : Pieces, cites : SUBSET (1 .. serial), retired : BOOLEAN]
    /\ read \subseteq 1 .. serial

Init ==
    /\ doc = {}
    /\ turns = [e \in {} |-> {}]
    /\ facts = {}
    /\ call = [c \in Calls |-> Idle]
    /\ serial = 0
    /\ read = {}
    /\ adds = 0
    /\ mishaps = 0

-----------------------------------------------------------------------------
(* The claims                                                              *)

Citing(e) == {f \in facts : e \in f.cites}

LiveOf(x) == {f \in facts : f.says = x /\ ~ f.retired}

(* What the reconciler makes of the stored turns E: a live claim is counted *)
(* again, and what no live claim says becomes a claim.                      *)
Learned(E) ==
    LET unheld == {x \in {turns[e] : e \in E} : LiveOf(x) = {}}
    IN  {IF f.retired THEN f
         ELSE [f EXCEPT !.cites = @ \cup {e \in E : turns[e] = f.says}] : f \in facts}
          \cup {[says |-> x, cites |-> {e \in E : turns[e] = x}, retired |-> FALSE] :
                   x \in unheld}

UnlinkedOnly(doomed) == {[f EXCEPT !.cites = @ \ doomed] : f \in facts}

(* _release: the claims lose the turns about to be erased, and a claim that *)
(* has no other is retired.                                                 *)
Released(doomed) ==
    {[f EXCEPT !.cites = @ \ doomed,
               !.retired = @ \/ (f.cites # {} /\ f.cites \subseteq doomed)] : f \in facts}

Without(E) == [e \in DOMAIN turns \ E |-> turns[e]]

-----------------------------------------------------------------------------
(* Storing                                                                 *)

(***************************************************************************)
(* The one transaction of add() and of update() with content: the lookup,  *)
(* the chunks that are new and those that are kept, the document's row,    *)
(* queued, and the release and erasure of the chunks it no longer has.     *)
(***************************************************************************)
Store(c, v, extract) ==
    LET old     == UNION {{<<x, d.chunk[x]>> : x \in d.content} : d \in doc}
        new     == {x \in v : \A p \in old : p[1] # x}
        first   == IF doc = {} THEN serial + 1 ELSE serial
        last    == first + Cardinality(new)
        fresh   == CHOOSE f \in [new -> first + 1 .. last] :
                      \A x, y \in new : f[x] = f[y] => x = y
        chunk   == [x \in v |-> IF x \in new THEN fresh[x]
                                ELSE CHOOSE e \in {p[2] : p \in old} : <<x, e>> \in old]
        dropped == {p[2] : p \in old} \ Range(chunk)
        id      == IF doc = {} THEN serial + 1 ELSE (CHOOSE d \in doc : TRUE).id
        back    == \E d \in doc, b \in Calls :
                      /\ call[b] # Idle /\ call[b].id = d.id /\ call[b].content = v
                      /\ d.content # v
    IN  /\ call[c] = Idle
        /\ call' = [call EXCEPT ![c] =
               [stage |-> "stored", id |-> id, content |-> v, extract |-> extract,
                fresh |-> Range(fresh), kept |-> Range(chunk) \ Range(fresh),
                previous |-> {d.status : d \in doc}, reading |-> {}, outcome |-> "done"]]
        /\ doc' = {[id |-> id, content |-> v, status |-> "queued", chunk |-> chunk,
                    returned |-> back \/ \E d \in doc : d.returned]}
        /\ turns' = [e \in (DOMAIN turns \ dropped) \cup Range(fresh) |->
                        IF e \in DOMAIN turns THEN turns[e]
                        ELSE CHOOSE x \in new : fresh[x] = e]
        /\ facts' = Released(dropped)
        /\ serial' = last
        /\ read' = read \ dropped

(* A caller stores content, with or without having it read... *)
Add(c, v, extract) ==
    /\ adds < MaxAdds
    /\ Store(c, v, extract)
    /\ adds' = adds + 1
    /\ UNCHANGED mishaps

(* ...and adds a document again that did not end up read. *)
AddAgain(c) ==
    /\ \E d \in doc : d.status # "done" /\ Store(c, d.content, TRUE)
    /\ UNCHANGED <<adds, mishaps>>

-----------------------------------------------------------------------------
(* Reading                                                                 *)

(* _put_status: only onto the row of the same document and content. *)
SameContent(p) == {d \in doc : d.id = p.id /\ d.content = p.content}

WithStatusWrittenBack(p, status) ==
    {[id |-> p.id, content |-> p.content, status |-> status, returned |-> FALSE,
      chunk |-> [x \in p.content |-> 1]]}

WithStatus(p, status) ==
    {IF d \in SameContent(p) THEN [d EXCEPT !.status = status] ELSE d : d \in doc}

(* _unread: of the kept chunks, those stored that no claim cites. *)
Unread(E) == {e \in E \cap DOMAIN turns : Citing(e) = {}}

(* _finish, when nothing is to be read now. *)
Skip(c) ==
    LET p == call[c]
        outcome == IF p.fresh # {} \/ p.previous \cap {"done", "failed"} = {}
                   THEN {"stored"} ELSE p.previous
    IN  /\ p.stage = "stored" /\ ~ p.extract
        /\ \E status \in outcome : doc' = WithStatus(p, status)
        /\ call' = [call EXCEPT ![c] = Idle]
        /\ UNCHANGED <<turns, facts, serial, read, adds, mishaps>>

RetryUnlessStored(p) == IF p.previous \subseteq {"done", "stored"} THEN {} ELSE Unread(p.kept)

(* What a call reads again: nothing, of a document that was new or done. *)
Retried(p) == IF p.previous \subseteq {"done"} THEN {} ELSE Unread(p.kept)

Gather(c) ==
    LET p == call[c]
    IN  /\ p.stage = "stored" /\ p.extract
        /\ call' = [call EXCEPT ![c].stage = "gathered",
                                ![c].reading = p.fresh \cup Retried(p),
                                ![c].fresh = {}, ![c].kept = {}]
        /\ UNCHANGED <<doc, turns, facts, serial, read, adds, mishaps>>

(* _extract: the document is marked, unless it is another one by now. *)
Start(c) ==
    LET p == call[c]
    IN  /\ p.stage = "gathered" /\ p.reading # {}
        /\ doc' = WithStatus(p, "extracting")
        /\ call' = [call EXCEPT ![c] = IF SameContent(p) = {} THEN Idle
                                       ELSE [p EXCEPT !.stage = "extracting", !.previous = {}]]
        /\ UNCHANGED <<turns, facts, serial, read, adds, mishaps>>

(* reextract leaves out the turns that claims cite, and asks a model, which *)
(* answers for some of the rest, or for all.                                *)
Answered(c, E) ==
    LET p == call[c]
        asked == {e \in p.reading : Citing(e) = {}}
    IN  /\ p.stage = "extracting"
        /\ E \subseteq asked
        /\ call' = [call EXCEPT ![c].stage = "answered", ![c].reading = E,
                                ![c].outcome = IF E = asked THEN "done" ELSE "failed"]
        /\ UNCHANGED <<doc, turns, facts, serial, read, adds, mishaps>>

AnsweredInFull(c) ==
    /\ call[c].stage = "extracting"
    /\ Answered(c, {e \in call[c].reading : Citing(e) = {}})

StillStored(E) == E \cap DOMAIN turns

(* The claim transaction: nothing is learned from a turn erased meanwhile. *)
Reconcile(c) ==
    LET E == StillStored(call[c].reading)
    IN  /\ call[c].stage = "answered"
        /\ facts' = Learned(E)
        /\ read' = read \cup E
        /\ call' = [call EXCEPT ![c].stage = "reconciled", ![c].reading = {}]
        /\ UNCHANGED <<doc, turns, serial, adds, mishaps>>

OutcomeAsBefore(p) ==
    IF p.stage = "gathered" /\ p.previous # {} THEN CHOOSE status \in p.previous : TRUE
    ELSE p.outcome

(* With nothing to read, the document is done. *)
Outcome(p) == p.outcome

Record(c) ==
    LET p == call[c]
    IN  /\ \/ p.stage = "reconciled"
           \/ p.stage = "gathered" /\ p.reading = {}
        /\ doc' = WithStatus(p, Outcome(p))
        /\ call' = [call EXCEPT ![c] = Idle]
        /\ UNCHANGED <<turns, facts, serial, read, adds, mishaps>>

-----------------------------------------------------------------------------
(* What happens meanwhile                                                  *)

(* DocumentService.delete, in one transaction. *)
Delete ==
    /\ doc # {}
    /\ doc' = {}
    /\ facts' = Released(ChunkTurns)
    /\ turns' = Without(ChunkTurns)
    /\ read' = read \ ChunkTurns
    /\ UNCHANGED <<call, serial>>

(* The same fact is stated in a conversation. *)
Converse(x) ==
    /\ serial' = serial + 1
    /\ turns' = [e \in DOMAIN turns \cup {serial + 1} |->
                    IF e \in DOMAIN turns THEN turns[e] ELSE x]
    /\ facts' = IF LiveOf(x) = {}
                THEN facts \cup {[says |-> x, cites |-> {serial + 1}, retired |-> FALSE]}
                ELSE {IF f \in LiveOf(x) THEN [f EXCEPT !.cites = @ \cup {serial + 1}] ELSE f :
                         f \in facts}
    /\ UNCHANGED <<doc, call, read>>

Orphans(f) == {e \in f.cites : Citing(e) = {f}}

AllOf(E) == E

(* _held: the turns of a document stay with it. *)
Unheld(E) == E \ ChunkTurns

(* Memvara.erase, the claim and those of its sources that go with it. *)
Erase(f) ==
    /\ facts' = facts \ {f}
    /\ turns' = Without(Unheld(Orphans(f)))
    /\ read' = read \ Unheld(Orphans(f))
    /\ UNCHANGED <<doc, call, serial>>

Crash(c) ==
    /\ call[c] # Idle
    /\ call' = [call EXCEPT ![c] = Idle]
    /\ UNCHANGED <<doc, turns, facts, serial, read>>

Mishap ==
    /\ mishaps < MaxMishaps
    /\ mishaps' = mishaps + 1
    /\ \/ Delete
       \/ \E x \in Pieces : Converse(x)
       \/ \E f \in facts : Erase(f)
       \/ \E c \in Calls : Crash(c)
    /\ UNCHANGED adds

Advance(c) == Skip(c) \/ Gather(c) \/ Start(c) \/ Reconcile(c) \/ Record(c)

Next ==
    \/ \E c \in Calls, v \in Contents, extract \in BOOLEAN : Add(c, v, extract)
    \/ \E c \in Calls : AddAgain(c)
    \/ \E c \in Calls : Advance(c)
    \/ \E c \in Calls : \E E \in SUBSET call[c].reading : Answered(c, E)
    \/ Mishap

Spec == Init /\ [][Next]_vars

(* A call that is not killed goes on, its model answers in full in the end, *)
(* and a caller adds a document again until it is done.                     *)
FairSpec ==
    /\ Spec
    /\ \A c \in Calls : WF_vars(Advance(c)) /\ SF_vars(AnsweredInFull(c))
    /\ SF_vars(\E c \in Calls : AddAgain(c))

-----------------------------------------------------------------------------
(* Properties                                                              *)

(* Every claim cites only turns that are stored, and one that no turn      *)
(* backs any more has been retired.                                        *)
ClaimsAreBacked ==
    \A f \in facts : f.cites \subseteq DOMAIN turns /\ (f.cites = {} => f.retired)

(* No text outlives its document: a chunk is stored exactly while the      *)
(* document lists it, whatever was in flight when it went.  The other      *)
(* turns are those of conversations, and a claim cites each.               *)
TextGoesWithDocument ==
    /\ ChunkTurns \subseteq DOMAIN turns
    /\ \A e \in DOMAIN turns \ ChunkTurns : Citing(e) # {}

(* A document that says it is done has been read, every chunk of it,       *)
(* unless its content had gone and come back under a call in flight.       *)
ReadInFull(d) == Range(d.chunk) \subseteq read

DoneMeansReadOnce == \A d \in doc : d.status = "done" => ReadInFull(d) \/ d.returned

(* What the code says of a status: that it belongs to the content it       *)
(* describes.                                                              *)
DoneMeansRead ==
    (\A c \in Calls : call[c] = Idle) =>
        \A d \in doc : d.status = "done" => ReadInFull(d)

(* A document that is deleted stays deleted, and one that is stored keeps  *)
(* its content and chunks, until a caller stores content.                  *)
OnlyCallersStore ==
    [][\A d \in doc' :
          \/ \E c \in Calls : call[c] = Idle /\ call'[c] # Idle
          \/ \E b \in doc : b.id = d.id /\ b.content = d.content /\ b.chunk = d.chunk]_vars

(* A document is read in the end, or deleted: no failure of the model, no  *)
(* crash and no other call leaves it queued or extracting for good.        *)
EventuallyDone == (doc # {}) ~> (doc = {} \/ \E d \in doc : d.status = "done")

=============================================================================
