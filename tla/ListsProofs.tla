----------------------------- MODULE ListsProofs -----------------------------
(***************************************************************************)
(* Theorems of Lists, for every value of its constants: what a search      *)
(* answers from a list it did not read itself is still what is stored.     *)
(***************************************************************************)
EXTENDS Lists, WellFoundedInduction, TLAPS

-----------------------------------------------------------------------------
(* The invariant                                                           *)

(* What a search carries from one step to the next.                        *)
Searches ==
    [at : {"noticing", "folding", "asking"}, began : Nat, always : SUBSET Ids, ever : SUBSET Ids]
    \cup [at : {"looking up"}, began : Nat, always : SUBSET Ids, ever : SUBSET Ids, instant : Nat]
    \cup [at : {"reading"}, began : Nat, always : SUBSET Ids, ever : SUBSET Ids, instant : Nat,
          count : Nat]
    \cup [at : {"keeping"}, began : Nat, always : SUBSET Ids, ever : SUBSET Ids, count : Nat,
          since : Nat, until : Nat, read : SUBSET Ids]
    \cup [at : {"scoring"}, began : Nat, always : SUBSET Ids, ever : SUBSET Ids,
          ids : SUBSET Ids, unmapped : SUBSET Ids]
    \cup [at : {"folding again"}, began : Nat, always : SUBSET Ids, ever : SUBSET Ids,
          ids : SUBSET Ids]
    \cup [at : {"answered"}, began : Nat, always : SUBSET Ids, ever : SUBSET Ids,
          ids : SUBSET Ids, unmapped : SUBSET Ids, ended : Nat]

Typed ==
    /\ now \in Nat /\ commits \in Nat /\ watched \in 0 .. commits /\ writes \in Nat
    /\ stored \subseteq Ids /\ used \subseteq Ids /\ map \subseteq Ids /\ folded \subseteq Ids
    /\ batch \in [puts : SUBSET Ids, erases : SUBSET Ids, open : BOOLEAN]
    /\ kept \in {NoList} \cup [ids : SUBSET Ids, unmapped : SUBSET Ids, since : Nat, until : Nat]
    /\ search \in [Threads -> {Idle} \cup Searches]

(* The map has every claim that was read from the database and is stored,  *)
(* but for those being erased; no claim is stored twice.                   *)
Mapping ==
    /\ stored \subseteq used /\ folded \subseteq used
    /\ ~ batch.open => batch.puts = {} /\ batch.erases = {}
    /\ batch.puts \subseteq map \cap used /\ batch.puts \cap stored = {}
    /\ folded \cap stored \subseteq map \cup batch.erases

Running(t) == search[t] # Idle /\ search[t].at # "answered"

(* What a search keeps account of while it runs.                           *)
Accounts(t) ==
    LET s == search[t]
    IN  /\ Running(t) =>
              s.always \subseteq stored \ batch.erases /\ stored \subseteq s.ever /\ s.began <= now
        /\ s.at \in {"looking up", "reading"} => s.instant \in s.began .. now
        /\ s.at \in {"reading", "keeping"} => s.count <= writes

(* The list kept, and those that will be, unless the lists are emptied.    *)
Offered ==
    {l \in [found : SUBSET Ids, since : Nat, until : Nat] :
        \/ kept # NoList /\ l = [found |-> kept.ids \cup kept.unmapped,
                                 since |-> kept.since, until |-> kept.until]
        \/ \E t \in Threads :
              /\ search[t].at = "keeping" /\ search[t].count = writes
              /\ l = [found |-> search[t].read, since |-> search[t].since, until |-> search[t].until]}

(* While a list is answered from, it holds what must be found, and nothing *)
(* that was never stored.                                                  *)
Serves(l, always, ever) ==
    /\ \A k \in always : k \in l.found \/ l.until <= From[k] \/ To[k] <= l.since
    /\ l.found \subseteq ever

(* What is in a list is live for as long as the list is answered from.     *)
Lasting == \A l \in Offered : \A k \in l.found : From[k] <= l.since /\ l.until <= To[k]

(* When every commit has been noticed, and the lists emptied, a list holds *)
(* what is stored.                                                         *)
Noticed ==
    watched = commits /\ watch = {} => \A l \in Offered : Serves(l, stored, stored)

(* A search that has looked for commits may use any list there is.         *)
Served(t) ==
    search[t].at \in {"folding", "looking up"} =>
        \A l \in Offered : Serves(l, search[t].always, search[t].ever)

(* What a search has found is all it must, and all of it was live; and so  *)
(* is what it answered.                                                    *)
Finds(s, found, sure) ==
    /\ \A k \in s.always : From[k] <= s.began /\ now < To[k] => k \in found
    /\ \A k \in sure : k \in s.ever /\ \E i \in s.began .. now : LiveAt(k, i)

Finding(t) ==
    LET s == search[t]
    IN  /\ s.at = "keeping" => Finds(s, s.read, s.read)
        /\ s.at = "scoring" => Finds(s, s.ids \cup s.unmapped, s.ids)
        /\ s.at = "folding again" => Finds(s, s.ids, s.ids)
        /\ s.at = "answered" =>
              /\ \A k \in s.always :
                    (\A i \in During(s) : LiveAt(k, i)) => k \in s.ids \cup s.unmapped
              /\ \A k \in s.ids : k \in s.ever /\ \E i \in During(s) : LiveAt(k, i)

IInv ==
    /\ Typed /\ Mapping /\ Lasting /\ Noticed
    /\ \A t \in Threads : Accounts(t) /\ Served(t) /\ Finding(t)

-----------------------------------------------------------------------------
(* What a search carries                                                   *)

(* What a search carries is told by where it is.                           *)
LEMMA SearchIs ==
    ASSUME NEW s \in {Idle} \cup Searches
    PROVE  /\ s = Idle <=> s.at = "idle"
           /\ s # Idle => s.began \in Nat /\ s.always \in SUBSET Ids /\ s.ever \in SUBSET Ids
           /\ s.at \in {"looking up", "reading"} => s.instant \in Nat
           /\ s.at \in {"reading", "keeping"} => s.count \in Nat
           /\ s.at = "keeping" => s.since \in Nat /\ s.until \in Nat /\ s.read \in SUBSET Ids
           /\ s.at \in {"scoring", "folding again", "answered"} => s.ids \in SUBSET Ids
           /\ s.at \in {"scoring", "answered"} => s.unmapped \in SUBSET Ids
           /\ s.at = "answered" => s.ended \in Nat
<1>0. Idle.at = "idle"
  BY DEF Idle
<1>1. CASE s = Idle
  BY <1>1 DEF Idle
<1>2. CASE s \in [at : {"noticing", "folding", "asking"}, began : Nat,
                  always : SUBSET Ids, ever : SUBSET Ids]
  BY <1>2, <1>0
<1>3. CASE s \in [at : {"looking up"}, began : Nat, always : SUBSET Ids,
                  ever : SUBSET Ids, instant : Nat]
  BY <1>3, <1>0
<1>4. CASE s \in [at : {"reading"}, began : Nat, always : SUBSET Ids, ever : SUBSET Ids,
                  instant : Nat, count : Nat]
  BY <1>4, <1>0
<1>5. CASE s \in [at : {"keeping"}, began : Nat, always : SUBSET Ids, ever : SUBSET Ids,
                  count : Nat, since : Nat, until : Nat, read : SUBSET Ids]
  BY <1>5, <1>0
<1>6. CASE s \in [at : {"scoring"}, began : Nat, always : SUBSET Ids, ever : SUBSET Ids,
                  ids : SUBSET Ids, unmapped : SUBSET Ids]
  BY <1>6, <1>0
<1>7. CASE s \in [at : {"folding again"}, began : Nat, always : SUBSET Ids,
                  ever : SUBSET Ids, ids : SUBSET Ids]
  BY <1>7, <1>0
<1>8. CASE s \in [at : {"answered"}, began : Nat, always : SUBSET Ids,
                  ever : SUBSET Ids, ids : SUBSET Ids, unmapped : SUBSET Ids,
                  ended : Nat]
  BY <1>8, <1>0
<1>. QED
  BY <1>1, <1>2, <1>3, <1>4, <1>5, <1>6, <1>7, <1>8, Zenon DEF Searches

(* A search with another account, and what it shares with the one before.  *)
Accounted(s, a, e) == [s EXCEPT !.always = a, !.ever = e]

SameBut(s, r, a, e) ==
    /\ r \in Searches /\ r.at = s.at /\ r.began = s.began /\ r.always = a /\ r.ever = e
    /\ s.at \in {"looking up", "reading"} => r.instant = s.instant
    /\ s.at \in {"reading", "keeping"} => r.count = s.count
    /\ s.at = "keeping" => r.since = s.since /\ r.until = s.until /\ r.read = s.read
    /\ s.at \in {"scoring", "folding again"} => r.ids = s.ids
    /\ s.at = "scoring" => r.unmapped = s.unmapped

(* A search whose account changes goes on as it was.                       *)
LEMMA AccountChanges ==
    ASSUME NEW s \in Searches, s.at # "answered", NEW a \in SUBSET Ids, NEW e \in SUBSET Ids
    PROVE  SameBut(s, Accounted(s, a, e), a, e)
<1>. DEFINE r == Accounted(s, a, e)
<1>0. r = [s EXCEPT !.always = a, !.ever = e]
  BY Zenon DEF Accounted
<1>. HIDE DEF r
<1>. SUFFICES /\ r \in Searches /\ r.at = s.at /\ r.began = s.began /\ r.always = a /\ r.ever = e
              /\ s.at \in {"looking up", "reading"} => r.instant = s.instant
              /\ s.at \in {"reading", "keeping"} => r.count = s.count
              /\ s.at = "keeping" => r.since = s.since /\ r.until = s.until /\ r.read = s.read
              /\ s.at \in {"scoring", "folding again"} => r.ids = s.ids
              /\ s.at = "scoring" => r.unmapped = s.unmapped
  BY Zenon DEF SameBut, r
<1>1. PICK q : q = [s EXCEPT !.always = a] /\ r = [q EXCEPT !.ever = e]
  BY <1>0, Zenon
<1>2. CASE s \in [at : {"noticing", "folding", "asking"}, began : Nat,
                  always : SUBSET Ids, ever : SUBSET Ids]
  <2>1. /\ q \in [at : {"noticing", "folding", "asking"}, began : Nat,
                  always : SUBSET Ids, ever : SUBSET Ids]
        /\ q.at = s.at /\ q.began = s.began /\ q.always = a
    BY <1>1, <1>2
  <2>2. /\ r \in [at : {"noticing", "folding", "asking"}, began : Nat,
                  always : SUBSET Ids, ever : SUBSET Ids]
        /\ r.at = s.at /\ r.began = s.began /\ r.always = a /\ r.ever = e
    BY <1>1, <2>1
  <2>3. s.at \in {"noticing", "folding", "asking"}
    BY <1>2
  <2>. QED
    BY <2>2, <2>3 DEF Searches
<1>3. CASE s \in [at : {"looking up"}, began : Nat, always : SUBSET Ids,
                  ever : SUBSET Ids, instant : Nat]
  <2>1. /\ q \in [at : {"looking up"}, began : Nat, always : SUBSET Ids,
                  ever : SUBSET Ids, instant : Nat]
        /\ q.began = s.began /\ q.always = a /\ q.instant = s.instant
    BY <1>1, <1>3
  <2>2. /\ r \in [at : {"looking up"}, began : Nat, always : SUBSET Ids,
                  ever : SUBSET Ids, instant : Nat]
        /\ r.began = s.began /\ r.always = a /\ r.ever = e /\ r.instant = s.instant
    BY <1>1, <2>1
  <2>3. s.at = "looking up" /\ r.at = "looking up"
    BY <1>3, <2>2
  <2>. QED
    BY <2>2, <2>3 DEF Searches
<1>4. CASE s \in [at : {"reading"}, began : Nat, always : SUBSET Ids, ever : SUBSET Ids,
                  instant : Nat, count : Nat]
  <2>1. /\ q \in [at : {"reading"}, began : Nat, always : SUBSET Ids, ever : SUBSET Ids,
                  instant : Nat, count : Nat]
        /\ q.began = s.began /\ q.always = a /\ q.instant = s.instant /\ q.count = s.count
    BY <1>1, <1>4
  <2>2. /\ r \in [at : {"reading"}, began : Nat, always : SUBSET Ids, ever : SUBSET Ids,
                  instant : Nat, count : Nat]
        /\ r.began = s.began /\ r.always = a /\ r.ever = e /\ r.instant = s.instant /\ r.count = s.count
    BY <1>1, <2>1
  <2>3. s.at = "reading" /\ r.at = "reading"
    BY <1>4, <2>2
  <2>. QED
    BY <2>2, <2>3 DEF Searches
<1>5. CASE s \in [at : {"keeping"}, began : Nat, always : SUBSET Ids, ever : SUBSET Ids,
                  count : Nat, since : Nat, until : Nat, read : SUBSET Ids]
  <2>1. /\ q \in [at : {"keeping"}, began : Nat, always : SUBSET Ids, ever : SUBSET Ids,
                  count : Nat, since : Nat, until : Nat, read : SUBSET Ids]
        /\ q.began = s.began /\ q.always = a /\ q.count = s.count
        /\ q.since = s.since /\ q.until = s.until /\ q.read = s.read
    BY <1>1, <1>5
  <2>2. /\ r \in [at : {"keeping"}, began : Nat, always : SUBSET Ids, ever : SUBSET Ids,
                  count : Nat, since : Nat, until : Nat, read : SUBSET Ids]
        /\ r.began = s.began /\ r.always = a /\ r.ever = e /\ r.count = s.count
        /\ r.since = s.since /\ r.until = s.until /\ r.read = s.read
    BY <1>1, <2>1
  <2>3. s.at = "keeping" /\ r.at = "keeping"
    BY <1>5, <2>2
  <2>. QED
    BY <2>2, <2>3 DEF Searches
<1>6. CASE s \in [at : {"scoring"}, began : Nat, always : SUBSET Ids, ever : SUBSET Ids,
                  ids : SUBSET Ids, unmapped : SUBSET Ids]
  <2>1. /\ q \in [at : {"scoring"}, began : Nat, always : SUBSET Ids, ever : SUBSET Ids,
                  ids : SUBSET Ids, unmapped : SUBSET Ids]
        /\ q.began = s.began /\ q.always = a /\ q.ids = s.ids /\ q.unmapped = s.unmapped
    BY <1>1, <1>6
  <2>2. /\ r \in [at : {"scoring"}, began : Nat, always : SUBSET Ids, ever : SUBSET Ids,
                  ids : SUBSET Ids, unmapped : SUBSET Ids]
        /\ r.began = s.began /\ r.always = a /\ r.ever = e /\ r.ids = s.ids /\ r.unmapped = s.unmapped
    BY <1>1, <2>1
  <2>3. s.at = "scoring" /\ r.at = "scoring"
    BY <1>6, <2>2
  <2>. QED
    BY <2>2, <2>3 DEF Searches
<1>7. CASE s \in [at : {"folding again"}, began : Nat, always : SUBSET Ids,
                  ever : SUBSET Ids, ids : SUBSET Ids]
  <2>1. /\ q \in [at : {"folding again"}, began : Nat, always : SUBSET Ids,
                  ever : SUBSET Ids, ids : SUBSET Ids]
        /\ q.began = s.began /\ q.always = a /\ q.ids = s.ids
    BY <1>1, <1>7
  <2>2. /\ r \in [at : {"folding again"}, began : Nat, always : SUBSET Ids,
                  ever : SUBSET Ids, ids : SUBSET Ids]
        /\ r.began = s.began /\ r.always = a /\ r.ever = e /\ r.ids = s.ids
    BY <1>1, <2>1
  <2>3. s.at = "folding again" /\ r.at = "folding again"
    BY <1>7, <2>2
  <2>. QED
    BY <2>2, <2>3 DEF Searches
<1>8. s \notin [at : {"answered"}, began : Nat, always : SUBSET Ids, ever : SUBSET Ids,
                ids : SUBSET Ids, unmapped : SUBSET Ids, ended : Nat]
  OBVIOUS
<1>. QED
  BY <1>2, <1>3, <1>4, <1>5, <1>6, <1>7, <1>8, Zenon DEF Searches

-----------------------------------------------------------------------------
(* What a step leaves as it was                                            *)

(* What serves those stored serves every search that is running.           *)
LEMMA ServesAll ==
    ASSUME NEW l, NEW A, NEW B, NEW always, NEW ever, Serves(l, A, B), always \subseteq A, B \subseteq ever
    PROVE  Serves(l, always, ever)
  BY DEF Serves

(* While the lists that are offered stay, so does what they are good for.  *)
LEMMA OffersStay ==
    ASSUME IInv, \A l \in Offered' : l \in Offered, stored' = stored,
           watched' = commits' /\ watch' = {} => watched = commits /\ watch = {}
    PROVE  Lasting' /\ Noticed'
<1>1. Lasting'
  BY DEF IInv, Lasting
<1>2. Noticed'
  <2>1. ASSUME watched' = commits' /\ watch' = {}, NEW l \in Offered'
        PROVE  Serves(l, stored, stored)
    BY <2>1 DEF IInv, Noticed
  <2>. QED
    BY <2>1 DEF Noticed, Serves
<1>. QED
  BY <1>1, <1>2

(* A step of one search leaves the others theirs.                          *)
LEMMA OthersStay ==
    ASSUME IInv, NEW t \in Threads, NEW r \in {Idle} \cup Searches,
           search' = [search EXCEPT ![t] = r], now' = now, stored' = stored, batch' = batch,
           writes' \in Nat, writes <= writes',
           \A l \in Offered' : l \in Offered \/ Serves(l, stored, stored)
    PROVE  /\ search'[t] = r /\ \A u \in Threads \ {t} : search'[u] = search[u]
           /\ search' \in [Threads -> {Idle} \cup Searches]
           /\ \A u \in Threads \ {t} : Accounts(u)' /\ Served(u)' /\ Finding(u)'
<1>1. /\ search'[t] = r /\ \A u \in Threads \ {t} : search'[u] = search[u]
      /\ search' \in [Threads -> {Idle} \cup Searches]
  BY DEF IInv, Typed
<1>2. ASSUME NEW u \in Threads \ {t}
      PROVE  Accounts(u)' /\ Served(u)' /\ Finding(u)'
  <2>1. search'[u] = search[u] /\ search[u] \in {Idle} \cup Searches
    BY <1>1 DEF IInv, Typed
  <2>2. Accounts(u) /\ Served(u) /\ Finding(u)
    BY DEF IInv
  <2>3. Accounts(u)'
    <3>1. search[u].at \in {"reading", "keeping"} => search[u].count <= writes'
      <4>1. search[u].at \in {"reading", "keeping"} => search[u].count \in Nat /\ search[u].count <= writes
        BY <2>1, <2>2, SearchIs DEF Accounts
      <4>. QED
        BY <4>1 DEF IInv, Typed
    <3>. QED
      BY <2>1, <2>2, <3>1 DEF Accounts, Running
  <2>4. Finding(u)'
    BY <2>1, <2>2 DEF Finding, Finds, During
  <2>5. Served(u)'
    <3>1. ASSUME search[u].at \in {"folding", "looking up"}, NEW l \in Offered'
          PROVE  Serves(l, search[u].always, search[u].ever)
      <4>1. CASE l \in Offered
        BY <2>2, <3>1, <4>1 DEF Served
      <4>2. CASE Serves(l, stored, stored)
        <5>1. Running(u)
          BY <2>1, <3>1, SearchIs DEF Running
        <5>2. search[u].always \subseteq stored /\ stored \subseteq search[u].ever
          BY <2>2, <5>1 DEF Accounts
        <5>. QED
          BY <4>2, <5>2, ServesAll
      <4>. QED
        BY <3>1, <4>1, <4>2
    <3>. QED
      BY <2>1, <3>1 DEF Served, Serves
  <2>. QED
    BY <2>3, <2>4, <2>5
<1>. QED
  BY <1>1, <1>2

(* While no search is at a list, and the lists stay, those offered stay.   *)
LEMMA NoneOffered ==
    ASSUME IInv, NEW t \in Threads, NEW r \in {Idle} \cup Searches, r.at # "keeping",
           search' = [search EXCEPT ![t] = r], kept' = kept, writes' = writes
    PROVE  \A l \in Offered' : l \in Offered
<1>1. search'[t] = r /\ \A u \in Threads \ {t} : search'[u] = search[u]
  BY DEF IInv, Typed
<1>. QED
  BY <1>1 DEF Offered

(* Lists that are emptied leave none.                                      *)
LEMMA EmptiedIs ==
    ASSUME IInv, Emptied, \A u \in Threads : search'[u].at = "keeping" => search'[u] = search[u]
    PROVE  Offered' = {} /\ writes' \in Nat /\ writes < writes'
<1>1. writes \in Nat /\ writes' = writes + 1 /\ kept' = NoList
  BY DEF IInv, Typed, Emptied
<1>2. ASSUME NEW u \in Threads, search'[u].at = "keeping"
      PROVE  search'[u].count # writes'
  <2>1. search'[u] = search[u] /\ search[u] \in {Idle} \cup Searches
    BY <1>2 DEF IInv, Typed
  <2>2. search[u].count \in Nat /\ search[u].count <= writes
    BY <1>2, <2>1, SearchIs DEF IInv, Accounts
  <2>. QED
    BY <1>1, <2>1, <2>2
<1>. QED
  BY <1>1, <1>2 DEF Offered

(* What a search goes on with: what changes, and the account it keeps.     *)
LEMMA GoesTo ==
    ASSUME NEW t, NEW c, Goes(t, c), {"began", "always", "ever"} \cap DOMAIN c = {}
    PROVE  \E r : /\ search' = [search EXCEPT ![t] = r]
                  /\ r = [f \in DOMAIN r |-> r[f]]
                  /\ DOMAIN r = {"began", "always", "ever"} \cup DOMAIN c
                  /\ \A f \in DOMAIN c : r[f] = c[f]
                  /\ r.began = search[t].began /\ r.always = search[t].always /\ r.ever = search[t].ever
<1>. DEFINE r == [f \in {"began", "always", "ever"} \cup DOMAIN c |->
                      IF f \in DOMAIN c THEN c[f] ELSE search[t][f]]
<1>1. search' = [search EXCEPT ![t] = r]
  BY Zenon DEF Goes
<1>2. /\ r = [f \in DOMAIN r |-> r[f]]
      /\ DOMAIN r = {"began", "always", "ever"} \cup DOMAIN c
      /\ \A f \in DOMAIN c : r[f] = c[f]
      /\ r.began = search[t].began /\ r.always = search[t].always /\ r.ever = search[t].ever
  OBVIOUS
<1>. HIDE DEF r
<1>. QED
  BY <1>1, <1>2

(* What a running search keeps account of, when it goes on.                *)
LEMMA AccountStays ==
    ASSUME IInv, NEW t \in Threads, search[t].at \notin {"idle", "answered"}
    PROVE  /\ search[t] \in Searches /\ Running(t)
           /\ search[t].began \in Nat /\ search[t].always \subseteq Ids /\ search[t].ever \subseteq Ids
           /\ search[t].always \subseteq stored \ batch.erases /\ stored \subseteq search[t].ever
           /\ search[t].began <= now /\ now \in Nat
<1>1. search[t] \in {Idle} \cup Searches /\ Accounts(t) /\ now \in Nat
  BY DEF IInv, Typed
<1>2. /\ search[t] # Idle /\ search[t].began \in Nat
      /\ search[t].always \in SUBSET Ids /\ search[t].ever \in SUBSET Ids
  BY <1>1, SearchIs
<1>3. Running(t)
  BY <1>2 DEF Running
<1>. QED
  BY <1>1, <1>2, <1>3 DEF Accounts

-----------------------------------------------------------------------------
(* The steps of a search                                                   *)

(* A search begins with what is stored.                                    *)
LEMMA LookKeeps ==
    ASSUME IInv, NEW t \in Threads, Look(t)
    PROVE  IInv'
<1>. DEFINE r == [at |-> IF watched # commits THEN "noticing" ELSE "folding",
                  began |-> now, always |-> stored \ batch.erases, ever |-> stored]
<1>1. /\ watch = {} /\ watch' = (IF watched # commits THEN {t} ELSE {}) /\ watched' = commits
      /\ search' = [search EXCEPT ![t] = r]
      /\ now' = now /\ stored' = stored /\ used' = used /\ commits' = commits /\ batch' = batch
      /\ map' = map /\ folded' = folded /\ writes' = writes /\ kept' = kept
  BY DEF Look, database, index
<1>2. Typed
  BY DEF IInv
<1>3. /\ r \in Searches /\ r.at \in {"noticing", "folding"} /\ (r.at = "folding" => watched = commits)
      /\ r.began = now /\ r.always = stored \ batch.erases /\ r.ever = stored
  BY <1>2 DEF Typed, Searches
<1>. HIDE DEF r
<1>4. \A l \in Offered' : l \in Offered
  BY <1>1, <1>3, NoneOffered
<1>5. /\ search'[t] = r /\ \A u \in Threads \ {t} : search'[u] = search[u]
      /\ search' \in [Threads -> {Idle} \cup Searches]
      /\ \A u \in Threads \ {t} : Accounts(u)' /\ Served(u)' /\ Finding(u)'
  <2>1. writes' \in Nat /\ writes <= writes'
    BY <1>1, <1>2 DEF Typed
  <2>. QED
    BY <1>1, <1>3, <1>4, <2>1, OthersStay
<1>6. Typed' /\ Mapping'
  BY <1>1, <1>2, <1>5 DEF IInv, Typed, Mapping
<1>7. Lasting' /\ Noticed'
  BY <1>1, <1>4, OffersStay
<1>8. Accounts(t)'
  <2>1. now \in Nat /\ now' = now /\ stored' = stored /\ batch' = batch /\ search'[t] = r
    BY <1>1, <1>2, <1>5 DEF Typed
  <2>2. /\ search'[t].always \subseteq stored' \ batch'.erases /\ stored' \subseteq search'[t].ever
        /\ search'[t].began <= now'
    BY <1>3, <2>1
  <2>3. search'[t].at \notin {"looking up", "reading"} /\ search'[t].at \notin {"reading", "keeping"}
    BY <1>3, <2>1, Zenon
  <2>. QED
    BY <2>2, <2>3, Zenon DEF Accounts
<1>9. Finding(t)'
  BY <1>3, <1>5 DEF Finding
<1>10. Served(t)'
  <2>1. ASSUME r.at = "folding", NEW l \in Offered'
        PROVE  Serves(l, r.always, r.ever)
    <3>1. Serves(l, stored, stored)
      BY <1>1, <1>3, <1>4, <2>1 DEF IInv, Noticed
    <3>. QED
      BY <1>3, <3>1, ServesAll
  <2>. QED
    BY <1>3, <1>5, <2>1 DEF Served, Serves
<1>. QED
  BY <1>5, <1>6, <1>7, <1>8, <1>9, <1>10 DEF IInv

(* A search that notices commits leaves no list.                           *)
LEMMA NoticeKeeps ==
    ASSUME IInv, NEW t \in Threads, Notice(t)
    PROVE  IInv'
<1>. DEFINE c == [at |-> "folding"]
<1>0. DOMAIN c = {"at"} /\ c.at = "folding" /\ Goes(t, c)
  BY DEF Notice
<1>. HIDE DEF c
<1>1. /\ search[t].at = "noticing" /\ Emptied /\ watch' = {}
      /\ now' = now /\ stored' = stored /\ used' = used /\ commits' = commits /\ batch' = batch
      /\ map' = map /\ folded' = folded /\ watched' = watched /\ kept' = NoList
  BY DEF Notice, database, index, Emptied
<1>2. Typed
  BY DEF IInv
<1>3. /\ search[t].began \in Nat /\ search[t].always \subseteq Ids /\ search[t].ever \subseteq Ids
      /\ search[t].always \subseteq stored \ batch.erases /\ stored \subseteq search[t].ever
      /\ search[t].began <= now
  BY <1>1, AccountStays
<1>4. PICK r : /\ search' = [search EXCEPT ![t] = r]
               /\ r = [f \in DOMAIN r |-> r[f]]
               /\ DOMAIN r = {"began", "always", "ever"} \cup DOMAIN c
               /\ \A f \in DOMAIN c : r[f] = c[f]
               /\ r.began = search[t].began /\ r.always = search[t].always /\ r.ever = search[t].ever
  <2>1. {"began", "always", "ever"} \cap DOMAIN c = {}
    BY <1>0
  <2>. QED
    BY <1>0, <2>1, GoesTo, Zenon
<1>5. r.at = "folding" /\ DOMAIN r = {"began", "always", "ever", "at"}
  BY <1>0, <1>4
<1>6. r \in Searches
  BY <1>3, <1>4, <1>5 DEF Searches
<1>7. search'[t] = r /\ \A u \in Threads \ {t} : search'[u] = search[u]
  BY <1>2, <1>4 DEF Typed
<1>8. Offered' = {} /\ writes' \in Nat /\ writes < writes'
  BY <1>1, <1>5, <1>7, EmptiedIs
<1>9. /\ search' \in [Threads -> {Idle} \cup Searches]
      /\ \A u \in Threads \ {t} : Accounts(u)' /\ Served(u)' /\ Finding(u)'
  <2>1. writes <= writes'
    BY <1>2, <1>8 DEF Typed
  <2>. QED
    BY <1>1, <1>4, <1>6, <1>8, <2>1, OthersStay
<1>10. Typed' /\ Mapping'
  BY <1>1, <1>2, <1>8, <1>9 DEF IInv, Typed, Mapping
<1>11. Lasting' /\ Noticed' /\ Served(t)'
  BY <1>8 DEF Lasting, Noticed, Served
<1>12. Accounts(t)'
  <2>1. search'[t].at \notin {"looking up", "reading"} /\ search'[t].at \notin {"reading", "keeping"}
    BY <1>5, <1>7, Zenon
  <2>2. /\ search'[t].always \subseteq stored' \ batch'.erases /\ stored' \subseteq search'[t].ever
        /\ search'[t].began <= now'
    BY <1>1, <1>3, <1>4, <1>7
  <2>. QED
    BY <2>1, <2>2, Zenon DEF Accounts
<1>13. Finding(t)'
  BY <1>5, <1>7 DEF Finding
<1>. QED
  BY <1>7, <1>9, <1>10, <1>11, <1>12, <1>13 DEF IInv

(* What does not change is no less.                                        *)
LEMMA NotLess ==
    ASSUME NEW n \in Nat, NEW m, m = n
    PROVE  m \in Nat /\ n <= m
  OBVIOUS

(* A search that goes on and leaves the lists as they are.                 *)
LEMMA GoesOn ==
    ASSUME IInv, NEW t \in Threads, NEW r \in {Idle} \cup Searches, r.at # "keeping",
           search' = [search EXCEPT ![t] = r],
           now' = now, stored' = stored, used' = used, commits' = commits, batch' = batch,
           watched' = watched, watch' = watch, writes' = writes, kept' = kept,
           Mapping', map' \subseteq Ids, folded' \subseteq Ids,
           r.at \notin {"idle", "answered"} =>
              /\ search[t].at \notin {"idle", "answered"}
              /\ r.began = search[t].began /\ r.always = search[t].always /\ r.ever = search[t].ever,
           r.at \in {"looking up", "reading"} => r.instant \in r.began .. now,
           r.at = "reading" => r.count <= writes,
           r.at \in {"folding", "looking up"} => search[t].at \in {"folding", "looking up"},
           r.at = "scoring" => Finds(r, r.ids \cup r.unmapped, r.ids),
           r.at = "folding again" => Finds(r, r.ids, r.ids),
           r.at = "answered" =>
              /\ \A k \in r.always :
                    (\A i \in During(r) : LiveAt(k, i)) => k \in r.ids \cup r.unmapped
              /\ \A k \in r.ids : k \in r.ever /\ \E i \in During(r) : LiveAt(k, i)
    PROVE  IInv'
<1>1. Typed
  BY DEF IInv
<1>2. \A l \in Offered' : l \in Offered
  BY NoneOffered
<1>3. /\ search'[t] = r /\ \A u \in Threads \ {t} : search'[u] = search[u]
      /\ search' \in [Threads -> {Idle} \cup Searches]
      /\ \A u \in Threads \ {t} : Accounts(u)' /\ Served(u)' /\ Finding(u)'
  <2>1. writes' \in Nat /\ writes <= writes'
    <3>1. writes \in Nat /\ writes' = writes
      BY <1>1, Zenon DEF Typed
    <3>. QED
      BY <3>1, NotLess, Zenon
  <2>. QED
    BY <1>2, <2>1, OthersStay, Zenon
<1>4. Typed'
  BY <1>1, <1>3 DEF Typed
<1>5. Lasting' /\ Noticed'
  BY <1>2, OffersStay
<1>6. Accounts(t)'
  <2>1. r.at \notin {"idle", "answered"} =>
           r.always \subseteq stored \ batch.erases /\ stored \subseteq r.ever /\ r.began <= now
    BY AccountStays
  <2>2. Running(t)' => r.at \notin {"idle", "answered"}
    <3>1. r = Idle <=> r.at = "idle"
      BY SearchIs
    <3>. QED
      BY <1>3, <3>1, Zenon DEF Running
  <2>. QED
    BY <1>3, <2>1, <2>2 DEF Accounts
<1>7. Finding(t)'
  BY <1>3 DEF Finding, Finds, During
<1>8. Served(t)'
  <2>1. ASSUME r.at \in {"folding", "looking up"}, NEW l \in Offered'
        PROVE  Serves(l, r.always, r.ever)
    <3>1. search[t].at \in {"folding", "looking up"} /\ Served(t)
      BY <2>1 DEF IInv
    <3>2. r.always = search[t].always /\ r.ever = search[t].ever
      BY <2>1
    <3>3. Serves(l, search[t].always, search[t].ever)
      BY <1>2, <3>1 DEF Served
    <3>. QED
      BY <3>2, <3>3
  <2>. QED
    BY <1>3, <2>1 DEF Served, Serves
<1>. QED
  BY <1>3, <1>4, <1>5, <1>6, <1>7, <1>8 DEF IInv

(* A fold maps all there is.                                               *)
LEMMA FoldsIs ==
    ASSUME IInv, Folds, stored' = stored, used' = used, batch' = batch
    PROVE  /\ Mapping' /\ map \subseteq map' /\ map' \subseteq Ids /\ folded' \subseteq Ids
           /\ stored \subseteq map' \cup batch.erases
  BY DEF IInv, Typed, Mapping, Folds

(* A search folds, and takes its instant from the clock.                   *)
LEMMA FoldKeeps ==
    ASSUME IInv, NEW t \in Threads, Fold(t)
    PROVE  IInv'
<1>. DEFINE c == [at |-> "looking up", instant |-> now]
<1>1. /\ DOMAIN c = {"at", "instant"} /\ Goes(t, c)
      /\ c.at = "looking up"
      /\ c.instant = now
  BY DEF Fold
<1>. HIDE DEF c
<1>2. /\ search[t].at = "folding" /\ Folds
      /\ now' = now /\ stored' = stored /\ used' = used /\ commits' = commits /\ batch' = batch
      /\ watched' = watched /\ watch' = watch /\ writes' = writes /\ kept' = kept
  BY DEF Fold, database, lists
<1>3. /\ search[t].began \in Nat /\ search[t].always \subseteq Ids /\ search[t].ever \subseteq Ids
      /\ search[t].always \subseteq stored \ batch.erases /\ stored \subseteq search[t].ever
      /\ search[t].began <= now /\ now \in Nat
  BY <1>2, AccountStays
<1>4. Accounts(t) /\ Served(t) /\ Finding(t) /\ search[t] \in {Idle} \cup Searches
  BY DEF IInv, Typed
<1>5. PICK r : /\ search' = [search EXCEPT ![t] = r]
               /\ r = [f \in DOMAIN r |-> r[f]]
               /\ DOMAIN r = {"began", "always", "ever"} \cup DOMAIN c
               /\ \A f \in DOMAIN c : r[f] = c[f]
               /\ r.began = search[t].began /\ r.always = search[t].always /\ r.ever = search[t].ever
  <2>1. {"began", "always", "ever"} \cap DOMAIN c = {}
    BY <1>1
  <2>. QED
    BY <1>1, <2>1, GoesTo, Zenon
<1>6. /\ DOMAIN r = {"began", "always", "ever", "at", "instant"}
      /\ r.at = "looking up"
      /\ r.instant = now
  BY <1>1, <1>5
<1>7. r \in Searches
  BY <1>3, <1>5, <1>6 DEF Searches
<1>8. Mapping' /\ map' \subseteq Ids /\ folded' \subseteq Ids
  BY <1>2, FoldsIs, Zenon
<1>9. r.instant \in r.began .. now
  <2>1. now \in search[t].began .. now
    BY <1>3
  <2>. QED
    BY <1>5, <1>6, <2>1, Zenon
<1>10. /\ r.at \notin {"idle", "answered", "reading", "scoring", "folding again", "keeping"}
       /\ search[t].at \in {"folding", "looking up"} /\ search[t].at \notin {"idle", "answered"}
  BY <1>2, <1>6, Zenon
<1>. QED
  BY <1>2, <1>5, <1>7, <1>8, <1>9, <1>10, GoesOn, ZenonT(60)

(* A list that is kept for the instant of a search is all the search must  *)
(* find, and all of it is live then.                                       *)
LEMMA AnsweredKeeps ==
    ASSUME IInv, NEW t \in Threads, LookUp(t),
           Answers(search[t].instant)
    PROVE  IInv'
<1>. DEFINE c == [at |-> "scoring", ids |-> kept.ids, unmapped |-> kept.unmapped]
<1>1. /\ DOMAIN c = {"at", "ids", "unmapped"} /\ Goes(t, c)
      /\ c.at = "scoring"
      /\ c.ids = kept.ids
      /\ c.unmapped = kept.unmapped
  BY DEF LookUp
<1>. HIDE DEF c
<1>2. /\ search[t].at = "looking up" /\ map' = map /\ folded' = folded
      /\ now' = now /\ stored' = stored /\ used' = used /\ commits' = commits /\ batch' = batch
      /\ watched' = watched /\ watch' = watch /\ writes' = writes /\ kept' = kept
  BY DEF LookUp, database, index, lists
<1>3. /\ search[t].began \in Nat /\ search[t].always \subseteq Ids /\ search[t].ever \subseteq Ids
      /\ search[t].always \subseteq stored \ batch.erases /\ stored \subseteq search[t].ever
      /\ search[t].began <= now /\ now \in Nat
  BY <1>2, AccountStays
<1>4. Accounts(t) /\ Served(t) /\ Finding(t) /\ search[t] \in {Idle} \cup Searches
  BY DEF IInv, Typed
<1>5. PICK r : /\ search' = [search EXCEPT ![t] = r]
               /\ r = [f \in DOMAIN r |-> r[f]]
               /\ DOMAIN r = {"began", "always", "ever"} \cup DOMAIN c
               /\ \A f \in DOMAIN c : r[f] = c[f]
               /\ r.began = search[t].began /\ r.always = search[t].always /\ r.ever = search[t].ever
  <2>1. {"began", "always", "ever"} \cap DOMAIN c = {}
    BY <1>1
  <2>. QED
    BY <1>1, <2>1, GoesTo, Zenon
<1>6. /\ DOMAIN r = {"began", "always", "ever", "at", "ids", "unmapped"}
      /\ r.at = "scoring"
      /\ r.ids = kept.ids
      /\ r.unmapped = kept.unmapped
  BY <1>1, <1>5
<1>7. /\ kept \in [ids : SUBSET Ids, unmapped : SUBSET Ids, since : Nat, until : Nat]
      /\ search[t].instant \in search[t].began .. now
      /\ kept.since <= search[t].instant /\ search[t].instant < kept.until
  <2>1. search[t].instant \in search[t].began .. now
    BY <1>2, <1>4 DEF Accounts
  <2>2. kept \in {NoList} \cup [ids : SUBSET Ids, unmapped : SUBSET Ids, since : Nat, until : Nat]
    BY DEF IInv, Typed
  <2>3. kept.since <= search[t].instant /\ search[t].instant < kept.until
    BY DEF Answers
  <2>4. kept # NoList
    <3>1. NoList.since = 1 /\ NoList.until = 0
      BY DEF NoList
    <3>2. search[t].instant \in Nat
      BY <1>3, <2>1
    <3>. QED
      BY <2>3, <3>1, <3>2
  <2>. QED
    BY <2>1, <2>2, <2>3, <2>4, Zenon
<1>8. r \in Searches
  BY <1>3, <1>5, <1>6, <1>7 DEF Searches
<1>9. Finds(r, r.ids \cup r.unmapped, r.ids)
  <2>. DEFINE l == [found |-> kept.ids \cup kept.unmapped, since |-> kept.since, until |-> kept.until]
  <2>1. l \in [found : SUBSET Ids, since : Nat, until : Nat] /\ kept # NoList
    <3>1. kept # NoList
      BY <1>7 DEF NoList
    <3>. QED
      BY <1>7, <3>1
  <2>2. l \in Offered
    BY <2>1 DEF Offered
  <2>3. Serves(l, search[t].always, search[t].ever)
    BY <1>2, <1>4, <2>2 DEF Served
  <2>4. \A k \in l.found : From[k] <= l.since /\ l.until <= To[k]
    BY <2>2 DEF IInv, Lasting
  <2>5. ASSUME NEW k \in search[t].always, From[k] <= search[t].began, now < To[k]
        PROVE  k \in kept.ids \cup kept.unmapped
    <3>1. k \in kept.ids \cup kept.unmapped \/ kept.until <= From[k] \/ To[k] <= kept.since
      BY <2>3 DEF Serves
    <3>2. From[k] \in Nat /\ To[k] \in Nat
      BY <1>3, ListsAssumption
    <3>3. kept.since \in Nat /\ kept.until \in Nat
      BY <1>7
    <3>. QED
      BY <1>3, <1>7, <2>5, <3>1, <3>2, <3>3
  <2>6. ASSUME NEW k \in kept.ids
        PROVE  k \in search[t].ever /\ LiveAt(k, search[t].instant)
    <3>1. k \in search[t].ever
      BY <2>3 DEF Serves
    <3>2. From[k] <= kept.since /\ kept.until <= To[k]
      BY <2>4
    <3>3. From[k] \in Nat /\ To[k] \in Nat
      BY <1>7, ListsAssumption
    <3>4. kept.since \in Nat /\ kept.until \in Nat /\ search[t].instant \in Nat
      BY <1>3, <1>7
    <3>. QED
      BY <1>7, <3>1, <3>2, <3>3, <3>4 DEF LiveAt
  <2>. QED
    BY <1>5, <1>6, <1>7, <2>5, <2>6 DEF Finds
<1>10. Mapping' /\ map' \subseteq Ids /\ folded' \subseteq Ids
  BY <1>2 DEF IInv, Typed, Mapping
<1>11. /\ r.at = "scoring" /\ search[t].at \notin {"idle", "answered"}
  BY <1>2, <1>6, Zenon
<1>. QED
  BY <1>2, <1>5, <1>8, <1>9, <1>10, <1>11, GoesOn, ZenonT(60)

(* Else the search remembers how often the lists were emptied.             *)
LEMMA UnansweredKeeps ==
    ASSUME IInv, NEW t \in Threads, LookUp(t),
           ~ Answers(search[t].instant)
    PROVE  IInv'
<1>. DEFINE c == [at |-> "reading", instant |-> search[t].instant, count |-> writes]
<1>1. /\ DOMAIN c = {"at", "instant", "count"} /\ Goes(t, c)
      /\ c.at = "reading"
      /\ c.instant = search[t].instant
      /\ c.count = writes
  BY DEF LookUp
<1>. HIDE DEF c
<1>2. /\ search[t].at = "looking up" /\ map' = map /\ folded' = folded
      /\ now' = now /\ stored' = stored /\ used' = used /\ commits' = commits /\ batch' = batch
      /\ watched' = watched /\ watch' = watch /\ writes' = writes /\ kept' = kept
  BY DEF LookUp, database, index, lists
<1>3. /\ search[t].began \in Nat /\ search[t].always \subseteq Ids /\ search[t].ever \subseteq Ids
      /\ search[t].always \subseteq stored \ batch.erases /\ stored \subseteq search[t].ever
      /\ search[t].began <= now /\ now \in Nat
  BY <1>2, AccountStays
<1>4. Accounts(t) /\ Served(t) /\ Finding(t) /\ search[t] \in {Idle} \cup Searches
  BY DEF IInv, Typed
<1>5. PICK r : /\ search' = [search EXCEPT ![t] = r]
               /\ r = [f \in DOMAIN r |-> r[f]]
               /\ DOMAIN r = {"began", "always", "ever"} \cup DOMAIN c
               /\ \A f \in DOMAIN c : r[f] = c[f]
               /\ r.began = search[t].began /\ r.always = search[t].always /\ r.ever = search[t].ever
  <2>1. {"began", "always", "ever"} \cap DOMAIN c = {}
    BY <1>1
  <2>. QED
    BY <1>1, <2>1, GoesTo, Zenon
<1>6. /\ DOMAIN r = {"began", "always", "ever", "at", "instant", "count"}
      /\ r.at = "reading"
      /\ r.instant = search[t].instant
      /\ r.count = writes
  BY <1>1, <1>5
<1>7. search[t].instant \in search[t].began .. now /\ search[t].instant \in Nat /\ writes \in Nat
  <2>1. search[t].instant \in search[t].began .. now
    BY <1>2, <1>4 DEF Accounts
  <2>2. writes \in Nat
    BY DEF IInv, Typed
  <2>. QED
    BY <1>3, <2>1, <2>2
<1>8. r \in Searches
  BY <1>3, <1>5, <1>6, <1>7 DEF Searches
<1>9. r.instant \in r.began .. now /\ r.count <= writes
  <2>1. writes <= writes
    BY <1>7
  <2>. QED
    BY <1>5, <1>6, <1>7, <2>1, Zenon
<1>10. Mapping' /\ map' \subseteq Ids /\ folded' \subseteq Ids
  BY <1>2 DEF IInv, Typed, Mapping
<1>11. /\ r.at \notin {"idle", "answered", "folding", "looking up", "scoring", "folding again", "keeping"}
       /\ search[t].at \notin {"idle", "answered"}
  BY <1>2, <1>6, Zenon
<1>. QED
  BY <1>2, <1>5, <1>8, <1>9, <1>10, <1>11, GoesOn, ZenonT(60)

(* A look-up does one of the two.                                          *)
LEMMA LookUpKeeps ==
    ASSUME IInv, NEW t \in Threads, LookUp(t)
    PROVE  IInv'
  BY AnsweredKeeps, UnansweredKeeps

(* A search whose list is mapped has found what it answers.                *)
LEMMA ScoredKeeps ==
    ASSUME IInv, NEW t \in Threads, Score(t),
           search[t].ids \subseteq map
    PROVE  IInv'
<1>. DEFINE c == [at |-> "answered", ids |-> search[t].ids, unmapped |-> search[t].unmapped, ended |-> now]
<1>1. /\ DOMAIN c = {"at", "ids", "unmapped", "ended"} /\ Goes(t, c)
      /\ c.at = "answered"
      /\ c.ids = search[t].ids
      /\ c.unmapped = search[t].unmapped
      /\ c.ended = now
  BY DEF Score
<1>. HIDE DEF c
<1>2. /\ search[t].at = "scoring" /\ map' = map /\ folded' = folded
      /\ now' = now /\ stored' = stored /\ used' = used /\ commits' = commits /\ batch' = batch
      /\ watched' = watched /\ watch' = watch /\ writes' = writes /\ kept' = kept
  BY DEF Score, database, index, lists
<1>3. /\ search[t].began \in Nat /\ search[t].always \subseteq Ids /\ search[t].ever \subseteq Ids
      /\ search[t].always \subseteq stored \ batch.erases /\ stored \subseteq search[t].ever
      /\ search[t].began <= now /\ now \in Nat
  BY <1>2, AccountStays
<1>4. Accounts(t) /\ Served(t) /\ Finding(t) /\ search[t] \in {Idle} \cup Searches
  BY DEF IInv, Typed
<1>5. PICK r : /\ search' = [search EXCEPT ![t] = r]
               /\ r = [f \in DOMAIN r |-> r[f]]
               /\ DOMAIN r = {"began", "always", "ever"} \cup DOMAIN c
               /\ \A f \in DOMAIN c : r[f] = c[f]
               /\ r.began = search[t].began /\ r.always = search[t].always /\ r.ever = search[t].ever
  <2>1. {"began", "always", "ever"} \cap DOMAIN c = {}
    BY <1>1
  <2>. QED
    BY <1>1, <2>1, GoesTo, Zenon
<1>6. /\ DOMAIN r = {"began", "always", "ever", "at", "ids", "unmapped", "ended"}
      /\ r.at = "answered"
      /\ r.ids = search[t].ids
      /\ r.unmapped = search[t].unmapped
      /\ r.ended = now
  BY <1>1, <1>5
<1>7. /\ search[t].ids \subseteq Ids /\ search[t].unmapped \subseteq Ids
      /\ Finds(search[t], search[t].ids \cup search[t].unmapped, search[t].ids)
  <2>1. search[t].ids \in SUBSET Ids /\ search[t].unmapped \in SUBSET Ids
    BY <1>2, <1>4, SearchIs
  <2>2. Finds(search[t], search[t].ids \cup search[t].unmapped, search[t].ids)
    BY <1>2, <1>4 DEF Finding
  <2>. QED
    BY <2>1, <2>2
<1>8. r \in Searches
  BY <1>3, <1>5, <1>6, <1>7 DEF Searches
<1>9. /\ \A k \in r.always :
           (\A i \in During(r) : LiveAt(k, i)) => k \in r.ids \cup r.unmapped
      /\ \A k \in r.ids : k \in r.ever /\ \E i \in During(r) : LiveAt(k, i)
  <2>1. During(r) = search[t].began .. now
    BY <1>5, <1>6, Zenon DEF During
  <2>2. search[t].began \in search[t].began .. now /\ now \in search[t].began .. now
    BY <1>3
  <2>3. ASSUME NEW k \in search[t].always, \A i \in search[t].began .. now : LiveAt(k, i)
        PROVE  k \in search[t].ids \cup search[t].unmapped
    <3>1. From[k] <= search[t].began /\ now < To[k]
      BY <2>2, <2>3 DEF LiveAt
    <3>. QED
      BY <1>7, <3>1 DEF Finds
  <2>4. \A k \in search[t].ids : k \in search[t].ever /\ \E i \in search[t].began .. now : LiveAt(k, i)
    BY <1>7 DEF Finds
  <2>. QED
    BY <1>5, <1>6, <2>1, <2>3, <2>4, Zenon
<1>10. Mapping' /\ map' \subseteq Ids /\ folded' \subseteq Ids
  BY <1>2 DEF IInv, Typed, Mapping
<1>11. /\ r.at = "answered" /\ search[t].at \notin {"idle", "answered"}
  BY <1>2, <1>6, Zenon
<1>. QED
  BY <1>2, <1>5, <1>8, <1>9, <1>10, <1>11, GoesOn, ZenonT(60)

(* Else it asks the database.                                              *)
LEMMA UnscoredKeeps ==
    ASSUME IInv, NEW t \in Threads, Score(t),
           ~ (search[t].ids \subseteq map)
    PROVE  IInv'
<1>. DEFINE c == [at |-> "asking"]
<1>1. /\ DOMAIN c = {"at"} /\ Goes(t, c)
      /\ c.at = "asking"
  BY DEF Score
<1>. HIDE DEF c
<1>2. /\ search[t].at = "scoring" /\ map' = map /\ folded' = folded
      /\ now' = now /\ stored' = stored /\ used' = used /\ commits' = commits /\ batch' = batch
      /\ watched' = watched /\ watch' = watch /\ writes' = writes /\ kept' = kept
  BY DEF Score, database, index, lists
<1>3. /\ search[t].began \in Nat /\ search[t].always \subseteq Ids /\ search[t].ever \subseteq Ids
      /\ search[t].always \subseteq stored \ batch.erases /\ stored \subseteq search[t].ever
      /\ search[t].began <= now /\ now \in Nat
  BY <1>2, AccountStays
<1>4. Accounts(t) /\ Served(t) /\ Finding(t) /\ search[t] \in {Idle} \cup Searches
  BY DEF IInv, Typed
<1>5. PICK r : /\ search' = [search EXCEPT ![t] = r]
               /\ r = [f \in DOMAIN r |-> r[f]]
               /\ DOMAIN r = {"began", "always", "ever"} \cup DOMAIN c
               /\ \A f \in DOMAIN c : r[f] = c[f]
               /\ r.began = search[t].began /\ r.always = search[t].always /\ r.ever = search[t].ever
  <2>1. {"began", "always", "ever"} \cap DOMAIN c = {}
    BY <1>1
  <2>. QED
    BY <1>1, <2>1, GoesTo, Zenon
<1>6. /\ DOMAIN r = {"began", "always", "ever", "at"}
      /\ r.at = "asking"
  BY <1>1, <1>5
<1>8. r \in Searches
  BY <1>3, <1>5, <1>6 DEF Searches
<1>10. Mapping' /\ map' \subseteq Ids /\ folded' \subseteq Ids
  BY <1>2 DEF IInv, Typed, Mapping
<1>11. /\ r.at \notin {"idle", "answered", "folding", "looking up", "reading", "scoring",
                    "folding again", "keeping"}
       /\ search[t].at \notin {"idle", "answered"}
  BY <1>2, <1>6, Zenon
<1>. QED
  BY <1>2, <1>5, <1>8, <1>10, <1>11, GoesOn, ZenonT(60)

(* A scoring does one of the two.                                          *)
LEMMA ScoreKeeps ==
    ASSUME IInv, NEW t \in Threads, Score(t)
    PROVE  IInv'
  BY ScoredKeeps, UnscoredKeeps

(* What is stored and live is all that must be found.                      *)
LEMMA AskKeeps ==
    ASSUME IInv, NEW t \in Threads, Ask(t)
    PROVE  IInv'
<1>. DEFINE c == [at |-> "folding again", ids |-> {k \in stored : LiveAt(k, now)}]
<1>1. /\ DOMAIN c = {"at", "ids"} /\ Goes(t, c)
      /\ c.at = "folding again"
      /\ c.ids = {k \in stored : LiveAt(k, now)}
  BY DEF Ask
<1>. HIDE DEF c
<1>2. /\ search[t].at = "asking" /\ map' = map /\ folded' = folded
      /\ now' = now /\ stored' = stored /\ used' = used /\ commits' = commits /\ batch' = batch
      /\ watched' = watched /\ watch' = watch /\ writes' = writes /\ kept' = kept
  BY DEF Ask, database, index, lists
<1>3. /\ search[t].began \in Nat /\ search[t].always \subseteq Ids /\ search[t].ever \subseteq Ids
      /\ search[t].always \subseteq stored \ batch.erases /\ stored \subseteq search[t].ever
      /\ search[t].began <= now /\ now \in Nat
  BY <1>2, AccountStays
<1>4. Accounts(t) /\ Served(t) /\ Finding(t) /\ search[t] \in {Idle} \cup Searches
  BY DEF IInv, Typed
<1>5. PICK r : /\ search' = [search EXCEPT ![t] = r]
               /\ r = [f \in DOMAIN r |-> r[f]]
               /\ DOMAIN r = {"began", "always", "ever"} \cup DOMAIN c
               /\ \A f \in DOMAIN c : r[f] = c[f]
               /\ r.began = search[t].began /\ r.always = search[t].always /\ r.ever = search[t].ever
  <2>1. {"began", "always", "ever"} \cap DOMAIN c = {}
    BY <1>1
  <2>. QED
    BY <1>1, <2>1, GoesTo, Zenon
<1>6. /\ DOMAIN r = {"began", "always", "ever", "at", "ids"}
      /\ r.at = "folding again"
      /\ r.ids = {k \in stored : LiveAt(k, now)}
  BY <1>1, <1>5
<1>7. stored \subseteq Ids
  BY DEF IInv, Typed
<1>8. r \in Searches
  BY <1>3, <1>5, <1>6, <1>7 DEF Searches
<1>9. Finds(r, r.ids, r.ids)
  <2>1. ASSUME NEW k \in search[t].always, From[k] <= search[t].began, now < To[k]
        PROVE  k \in stored /\ LiveAt(k, now)
    <3>1. k \in stored /\ From[k] \in Nat /\ To[k] \in Nat
      BY <1>3, <1>7, ListsAssumption
    <3>. QED
      BY <1>3, <2>1, <3>1 DEF LiveAt
  <2>2. now \in search[t].began .. now
    BY <1>3
  <2>3. \A k \in stored : k \in search[t].ever
    BY <1>3
  <2>. QED
    BY <1>5, <1>6, <2>1, <2>2, <2>3 DEF Finds
<1>10. Mapping' /\ map' \subseteq Ids /\ folded' \subseteq Ids
  BY <1>2 DEF IInv, Typed, Mapping
<1>11. /\ r.at = "folding again" /\ search[t].at \notin {"idle", "answered"}
  BY <1>2, <1>6, Zenon
<1>. QED
  BY <1>2, <1>5, <1>8, <1>9, <1>10, <1>11, GoesOn, ZenonT(60)

(* After the fold every claim that must be found is mapped.                *)
LEMMA FoldAgainKeeps ==
    ASSUME IInv, NEW t \in Threads, FoldAgain(t)
    PROVE  IInv'
<1>. DEFINE c == [at |-> "answered", ids |-> search[t].ids \cap map', unmapped |-> {}, ended |-> now]
<1>1. /\ DOMAIN c = {"at", "ids", "unmapped", "ended"} /\ Goes(t, c)
      /\ c.at = "answered"
      /\ c.ids = search[t].ids \cap map'
      /\ c.unmapped = {}
      /\ c.ended = now
  BY DEF FoldAgain
<1>. HIDE DEF c
<1>2. /\ search[t].at = "folding again" /\ Folds
      /\ now' = now /\ stored' = stored /\ used' = used /\ commits' = commits /\ batch' = batch
      /\ watched' = watched /\ watch' = watch /\ writes' = writes /\ kept' = kept
  BY DEF FoldAgain, database, lists
<1>3. /\ search[t].began \in Nat /\ search[t].always \subseteq Ids /\ search[t].ever \subseteq Ids
      /\ search[t].always \subseteq stored \ batch.erases /\ stored \subseteq search[t].ever
      /\ search[t].began <= now /\ now \in Nat
  BY <1>2, AccountStays
<1>4. Accounts(t) /\ Served(t) /\ Finding(t) /\ search[t] \in {Idle} \cup Searches
  BY DEF IInv, Typed
<1>5. PICK r : /\ search' = [search EXCEPT ![t] = r]
               /\ r = [f \in DOMAIN r |-> r[f]]
               /\ DOMAIN r = {"began", "always", "ever"} \cup DOMAIN c
               /\ \A f \in DOMAIN c : r[f] = c[f]
               /\ r.began = search[t].began /\ r.always = search[t].always /\ r.ever = search[t].ever
  <2>1. {"began", "always", "ever"} \cap DOMAIN c = {}
    BY <1>1
  <2>. QED
    BY <1>1, <2>1, GoesTo, Zenon
<1>6. /\ DOMAIN r = {"began", "always", "ever", "at", "ids", "unmapped", "ended"}
      /\ r.at = "answered"
      /\ r.ids = search[t].ids \cap map'
      /\ r.unmapped = {}
      /\ r.ended = now
  BY <1>1, <1>5
<1>7. /\ search[t].ids \subseteq Ids /\ Finds(search[t], search[t].ids, search[t].ids)
  <2>1. search[t].ids \in SUBSET Ids
    BY <1>2, <1>4, SearchIs
  <2>2. Finds(search[t], search[t].ids, search[t].ids)
    BY <1>2, <1>4 DEF Finding
  <2>. QED
    BY <2>1, <2>2
<1>10. /\ Mapping' /\ map' \subseteq Ids /\ folded' \subseteq Ids
       /\ stored \subseteq map' \cup batch.erases
  BY <1>2, FoldsIs, Zenon
<1>8. r \in Searches
  BY <1>3, <1>5, <1>6, <1>7 DEF Searches
<1>9. /\ \A k \in r.always :
           (\A i \in During(r) : LiveAt(k, i)) => k \in r.ids \cup r.unmapped
      /\ \A k \in r.ids : k \in r.ever /\ \E i \in During(r) : LiveAt(k, i)
  <2>1. During(r) = search[t].began .. now
    BY <1>5, <1>6, Zenon DEF During
  <2>2. search[t].began \in search[t].began .. now /\ now \in search[t].began .. now
    BY <1>3
  <2>3. ASSUME NEW k \in search[t].always, \A i \in search[t].began .. now : LiveAt(k, i)
        PROVE  k \in search[t].ids \cap map'
    <3>1. From[k] <= search[t].began /\ now < To[k]
      BY <2>2, <2>3 DEF LiveAt
    <3>2. k \in search[t].ids
      BY <1>7, <3>1 DEF Finds
    <3>3. k \in stored \ batch.erases
      BY <1>3
    <3>. QED
      BY <1>10, <3>2, <3>3
  <2>4. \A k \in search[t].ids : k \in search[t].ever /\ \E i \in search[t].began .. now : LiveAt(k, i)
    BY <1>7 DEF Finds
  <2>5. \A k \in r.ids \cup r.unmapped : k \in search[t].ids
    BY <1>6
  <2>6. \A k \in search[t].ids \cap map' : k \in r.ids \cup r.unmapped
    BY <1>6
  <2>. QED
    BY <1>5, <2>1, <2>3, <2>4, <2>5, <2>6
<1>11. /\ r.at = "answered" /\ search[t].at \notin {"idle", "answered"}
  BY <1>2, <1>6, Zenon
<1>. QED
  BY <1>2, <1>5, <1>8, <1>9, <1>10, <1>11, GoesOn, ZenonT(60)

(* A search that has answered is over.                                     *)
LEMMA ReturnKeeps ==
    ASSUME IInv, NEW t \in Threads, Return(t)
    PROVE  IInv'
<1>1. /\ search[t].at = "answered" /\ search' = [search EXCEPT ![t] = Idle]
      /\ map' = map /\ folded' = folded
      /\ now' = now /\ stored' = stored /\ used' = used /\ commits' = commits /\ batch' = batch
      /\ watched' = watched /\ watch' = watch /\ writes' = writes /\ kept' = kept
  BY DEF Return, database, index, lists
<1>2. Idle \in {Idle} \cup Searches /\ Idle.at = "idle"
  BY DEF Idle
<1>3. Mapping' /\ map' \subseteq Ids /\ folded' \subseteq Ids
  BY <1>1 DEF IInv, Typed, Mapping
<1>4. Idle.at \notin {"answered", "folding", "looking up", "reading", "scoring", "folding again", "keeping"}
  BY <1>2, Zenon
<1>. QED
  BY <1>1, <1>2, <1>3, <1>4, GoesOn, ZenonT(60)

-----------------------------------------------------------------------------
(* Reading a list, and keeping it                                          *)

(* A set of numbers has a least one.                                       *)
LEMMA LeastExists ==
    ASSUME NEW T \in SUBSET Nat, T # {}
    PROVE  \E n \in T : \A m \in T : n <= m
<1>1. PICK n \in T : \A m \in T : <<m, n>> \notin OpToRel(<, Nat)
  BY WFMin, NatLessThanWellFounded, Zenon
<1>2. \A m, k \in Nat : m < k => <<m, k>> \in OpToRel(<, Nat)
  BY Zenon DEF OpToRel
<1>3. ASSUME NEW m \in T
      PROVE  n <= m
  <2>1. ~ (m < n)
    BY <1>1, <1>2, Zenon
  <2>. QED
    BY <2>1
<1>. QED
  BY <1>3

(* No claim that is stored begins or ends between an instant and the next  *)
(* change after it.                                                        *)
LEMMA NextChangeIs ==
    ASSUME stored \subseteq Ids, NEW i \in Nat
    PROVE  /\ NextChange(i) \in Nat
           /\ \A k \in stored : From[k] > i => NextChange(i) <= From[k]
           /\ \A k \in stored : To[k] > i => NextChange(i) <= To[k]
<1>. DEFINE later == {c \in UNION {{From[k], To[k]} : k \in stored} : c > i}
<1>1. later \subseteq Nat /\ MaxTime + 1 \in Nat
  BY ListsAssumption
<1>2. \A k \in stored : (From[k] > i => From[k] \in later) /\ (To[k] > i => To[k] \in later)
  OBVIOUS
<1>3. NextChange(i) = CHOOSE c \in later \cup {MaxTime + 1} : \A d \in later : c <= d
  BY DEF NextChange
<1>. HIDE DEF later
<1>4. \E c \in later \cup {MaxTime + 1} : \A d \in later : c <= d
  <2>1. PICK n \in later \cup {MaxTime + 1} : \A m \in later \cup {MaxTime + 1} : n <= m
    BY <1>1, LeastExists
  <2>. QED
    BY <2>1
<1>5. NextChange(i) \in later \cup {MaxTime + 1} /\ \A d \in later : NextChange(i) <= d
  BY <1>3, <1>4, Zenon
<1>. QED
  BY <1>1, <1>2, <1>5

(* A list that is read holds what is stored, and until the next change all *)
(* it holds is live.                                                       *)
LEMMA ReadKeeps ==
    ASSUME IInv, NEW t \in Threads, Read(t)
    PROVE  IInv'
<1>. DEFINE c == [at |-> "keeping", count |-> search[t].count, since |-> now, until |-> NextChange(search[t].instant), read |-> {k \in stored : From[k] <= search[t].instant /\ now < To[k]}]
<1>1. /\ DOMAIN c = {"at", "count", "since", "until", "read"} /\ Goes(t, c)
      /\ c.at = "keeping"
      /\ c.count = search[t].count
      /\ c.since = now
      /\ c.until = NextChange(search[t].instant)
      /\ c.read = {k \in stored : From[k] <= search[t].instant /\ now < To[k]}
  BY DEF Read
<1>. HIDE DEF c
<1>2. /\ search[t].at = "reading" /\ map' = map /\ folded' = folded
      /\ now' = now /\ stored' = stored /\ used' = used /\ commits' = commits /\ batch' = batch
      /\ watched' = watched /\ watch' = watch /\ writes' = writes /\ kept' = kept
  BY DEF Read, database, index, lists
<1>3. /\ search[t].began \in Nat /\ search[t].always \subseteq Ids /\ search[t].ever \subseteq Ids
      /\ search[t].always \subseteq stored \ batch.erases /\ stored \subseteq search[t].ever
      /\ search[t].began <= now /\ now \in Nat
  BY <1>2, AccountStays
<1>4. Accounts(t) /\ Served(t) /\ Finding(t) /\ search[t] \in {Idle} \cup Searches
  BY DEF IInv, Typed
<1>5. PICK r : /\ search' = [search EXCEPT ![t] = r]
               /\ r = [f \in DOMAIN r |-> r[f]]
               /\ DOMAIN r = {"began", "always", "ever"} \cup DOMAIN c
               /\ \A f \in DOMAIN c : r[f] = c[f]
               /\ r.began = search[t].began /\ r.always = search[t].always /\ r.ever = search[t].ever
  <2>1. {"began", "always", "ever"} \cap DOMAIN c = {}
    BY <1>1
  <2>. QED
    BY <1>1, <2>1, GoesTo, Zenon
<1>6. /\ DOMAIN r = {"began", "always", "ever", "at", "count", "since", "until", "read"}
      /\ r.at = "keeping"
      /\ r.count = search[t].count
      /\ r.since = now
      /\ r.until = NextChange(search[t].instant)
      /\ r.read = {k \in stored : From[k] <= search[t].instant /\ now < To[k]}
  BY <1>1, <1>5
<1>. DEFINE i == search[t].instant
            read == {k \in stored : From[k] <= i /\ now < To[k]}
            l == [found |-> read, since |-> now, until |-> NextChange(i)]
<1>7. /\ i \in search[t].began .. now /\ i \in Nat
      /\ search[t].count \in Nat /\ search[t].count <= writes
      /\ stored \subseteq Ids /\ writes \in Nat
  <2>1. i \in search[t].began .. now /\ search[t].count <= writes
    BY <1>2, <1>4 DEF Accounts
  <2>2. i \in Nat /\ search[t].count \in Nat
    BY <1>2, <1>4, SearchIs
  <2>. QED
    BY <2>1, <2>2 DEF IInv, Typed
<1>8. /\ NextChange(i) \in Nat
      /\ \A k \in stored : From[k] > i => NextChange(i) <= From[k]
      /\ \A k \in stored : To[k] > i => NextChange(i) <= To[k]
  BY <1>7, NextChangeIs
<1>. HIDE DEF i
<1>9. r \in Searches
  BY <1>3, <1>5, <1>6, <1>7, <1>8 DEF Searches, i
<1>10. search'[t] = r /\ \A u \in Threads \ {t} : search'[u] = search[u]
  BY <1>5 DEF IInv, Typed
<1>11. /\ Serves(l, stored, stored)
       /\ \A k \in l.found : From[k] <= l.since /\ l.until <= To[k]
  <2>1. ASSUME NEW k \in stored
        PROVE  k \in l.found \/ l.until <= From[k] \/ To[k] <= l.since
    <3>1. From[k] \in Nat /\ To[k] \in Nat
      BY <1>7, ListsAssumption
    <3>2. CASE From[k] <= i /\ now < To[k]
      BY <3>2
    <3>3. CASE From[k] > i
      <4>1. NextChange(i) <= From[k]
        BY <1>8, <3>3
      <4>2. l.until = NextChange(i)
        OBVIOUS
      <4>. QED
        BY <4>1, <4>2, Zenon
    <3>4. CASE To[k] <= now
      BY <3>4
    <3>. QED
      BY <1>3, <1>7, <3>1, <3>2, <3>3, <3>4
  <2>2. ASSUME NEW k \in l.found
        PROVE  k \in stored /\ From[k] <= l.since /\ l.until <= To[k]
    <3>1. From[k] \in Nat /\ To[k] \in Nat
      BY <1>7, ListsAssumption
    <3>. QED
      BY <1>3, <1>7, <1>8, <3>1
  <2>. QED
    BY <2>1, <2>2 DEF Serves
<1>12. l.found = r.read /\ l.since = r.since /\ l.until = r.until
  BY <1>6 DEF i
<1>13. l = [found |-> r.read, since |-> r.since, until |-> r.until]
  BY <1>12
<1>. HIDE DEF l
<1>14. \A m \in Offered' : m \in Offered \/ m = l
  BY <1>2, <1>10, <1>13 DEF Offered
<1>15. /\ search' \in [Threads -> {Idle} \cup Searches]
       /\ \A u \in Threads \ {t} : Accounts(u)' /\ Served(u)' /\ Finding(u)'
  <2>1. \A m \in Offered' : m \in Offered \/ Serves(m, stored, stored)
    BY <1>11, <1>14, Zenon
  <2>2. writes' \in Nat /\ writes <= writes'
    BY <1>2, <1>7
  <2>. QED
    BY <1>2, <1>5, <1>9, <2>1, <2>2, OthersStay, Zenon
<1>16. Typed' /\ Mapping'
  BY <1>2, <1>15 DEF IInv, Typed, Mapping
<1>17. Lasting'
  BY <1>11, <1>14 DEF IInv, Lasting
<1>18. Noticed'
  <2>1. ASSUME watched = commits /\ watch = {}, NEW m \in Offered'
        PROVE  Serves(m, stored, stored)
    BY <1>11, <1>14, <2>1 DEF IInv, Noticed
  <2>. QED
    BY <1>2, <2>1 DEF Noticed, Serves
<1>19. Accounts(t)'
  <2>1. search'[t].at \notin {"looking up", "reading"}
    BY <1>6, <1>10, Zenon
  <2>2. search'[t].count <= writes'
    BY <1>2, <1>6, <1>7, <1>10
  <2>3. /\ search'[t].always \subseteq stored' \ batch'.erases /\ stored' \subseteq search'[t].ever
        /\ search'[t].began <= now'
    BY <1>2, <1>3, <1>5, <1>10
  <2>. QED
    BY <2>1, <2>2, <2>3, Zenon DEF Accounts
<1>20. Served(t)'
  BY <1>6, <1>10 DEF Served
<1>21. Finding(t)'
  <2>1. ASSUME NEW k \in search[t].always, From[k] <= search[t].began, now < To[k]
        PROVE  k \in read
    <3>1. k \in stored /\ From[k] \in Nat
      BY <1>3, <1>7, ListsAssumption
    <3>. QED
      BY <1>3, <1>7, <2>1, <3>1
  <2>2. ASSUME NEW k \in read
        PROVE  k \in search[t].ever /\ LiveAt(k, i)
    <3>1. k \in search[t].ever /\ To[k] \in Nat
      BY <1>3, <1>7, ListsAssumption
    <3>. QED
      BY <1>3, <1>7, <3>1 DEF LiveAt
  <2>3. r.read = read
    BY <1>6 DEF i
  <2>4. Finds(r, r.read, r.read)
    BY <1>5, <1>7, <2>1, <2>2, <2>3 DEF Finds
  <2>. QED
    BY <1>2, <1>6, <1>10, <2>4 DEF Finding, Finds
<1>. QED
  BY <1>10, <1>15, <1>16, <1>17, <1>18, <1>19, <1>20, <1>21 DEF IInv

(* A list that is kept was offered when it was read: nothing has emptied   *)
(* the lists since.                                                        *)
LEMMA KeepKeeps ==
    ASSUME IInv, NEW t \in Threads, Keep(t)
    PROVE  IInv'
<1>. DEFINE c == [at |-> "scoring", ids |-> search[t].read \cap map, unmapped |-> search[t].read \ map]
<1>1. /\ DOMAIN c = {"at", "ids", "unmapped"} /\ Goes(t, c)
      /\ c.at = "scoring"
      /\ c.ids = search[t].read \cap map
      /\ c.unmapped = search[t].read \ map
  BY DEF Keep
<1>. HIDE DEF c
<1>2. /\ search[t].at = "keeping" /\ map' = map /\ folded' = folded
      /\ now' = now /\ stored' = stored /\ used' = used /\ commits' = commits /\ batch' = batch
      /\ watched' = watched /\ watch' = watch /\ writes' = writes
  BY DEF Keep, database, index
<1>3. /\ search[t].began \in Nat /\ search[t].always \subseteq Ids /\ search[t].ever \subseteq Ids
      /\ search[t].always \subseteq stored \ batch.erases /\ stored \subseteq search[t].ever
      /\ search[t].began <= now /\ now \in Nat
  BY <1>2, AccountStays
<1>4. Accounts(t) /\ Served(t) /\ Finding(t) /\ search[t] \in {Idle} \cup Searches
  BY DEF IInv, Typed
<1>5. PICK r : /\ search' = [search EXCEPT ![t] = r]
               /\ r = [f \in DOMAIN r |-> r[f]]
               /\ DOMAIN r = {"began", "always", "ever"} \cup DOMAIN c
               /\ \A f \in DOMAIN c : r[f] = c[f]
               /\ r.began = search[t].began /\ r.always = search[t].always /\ r.ever = search[t].ever
  <2>1. {"began", "always", "ever"} \cap DOMAIN c = {}
    BY <1>1
  <2>. QED
    BY <1>1, <2>1, GoesTo, Zenon
<1>6. /\ DOMAIN r = {"began", "always", "ever", "at", "ids", "unmapped"}
      /\ r.at = "scoring"
      /\ r.ids = search[t].read \cap map
      /\ r.unmapped = search[t].read \ map
  BY <1>1, <1>5
<1>. DEFINE built == [ids |-> search[t].read \cap map, unmapped |-> search[t].read \ map,
                since |-> search[t].since, until |-> search[t].until]
<1>7. kept' = (IF Keeps(t) THEN built ELSE kept)
  BY DEF Keep
<1>8. /\ search[t].read \subseteq Ids /\ search[t].since \in Nat /\ search[t].until \in Nat
      /\ map \subseteq Ids /\ writes \in Nat
  <2>1. search[t].read \in SUBSET Ids /\ search[t].since \in Nat /\ search[t].until \in Nat
    BY <1>2, <1>4, SearchIs
  <2>. QED
    BY <2>1 DEF IInv, Typed
<1>9. r \in Searches
  BY <1>3, <1>5, <1>6, <1>8 DEF Searches
<1>10. search'[t] = r /\ \A u \in Threads \ {t} : search'[u] = search[u]
  BY <1>5 DEF IInv, Typed
<1>11. built \in [ids : SUBSET Ids, unmapped : SUBSET Ids, since : Nat, until : Nat]
  BY <1>8
<1>12. /\ built.ids \cup built.unmapped = search[t].read
       /\ built.since = search[t].since /\ built.until = search[t].until
  OBVIOUS
<1>. HIDE DEF built
<1>13. \A m \in Offered' : m \in Offered
  <2>1. ASSUME NEW m \in Offered'
        PROVE  m \in Offered
    <3>1. m \in [found : SUBSET Ids, since : Nat, until : Nat]
      BY <2>1 DEF Offered
    <3>2. CASE \E u \in Threads :
                 /\ search'[u].at = "keeping" /\ search'[u].count = writes'
                 /\ m = [found |-> search'[u].read, since |-> search'[u].since,
                        until |-> search'[u].until]
      <4>1. PICK u \in Threads :
                 /\ search'[u].at = "keeping" /\ search'[u].count = writes'
                 /\ m = [found |-> search'[u].read, since |-> search'[u].since,
                        until |-> search'[u].until]
        BY <3>2
      <4>2. u # t
        BY <1>6, <1>10, <4>1
      <4>3. search'[u] = search[u]
        BY <1>10, <4>2
      <4>. QED
        BY <1>2, <3>1, <4>1, <4>3 DEF Offered
    <3>3. CASE kept' # NoList /\ m = [found |-> kept'.ids \cup kept'.unmapped,
                                      since |-> kept'.since, until |-> kept'.until]
      <4>1. CASE Keeps(t)
        <5>1. kept' = built
          BY <1>7, <4>1
        <5>2. search[t].count = writes
          BY <4>1 DEF Keeps
        <5>3. m = [found |-> search[t].read, since |-> search[t].since, until |-> search[t].until]
          BY <1>12, <3>3, <5>1
        <5>. QED
          BY <1>2, <3>1, <5>2, <5>3 DEF Offered
      <4>2. CASE ~ Keeps(t)
        <5>1. kept' = kept
          BY <1>7, <4>2
        <5>. QED
          BY <3>1, <3>3, <5>1 DEF Offered
      <4>. QED
        BY <4>1, <4>2
    <3>. QED
      BY <2>1, <3>2, <3>3 DEF Offered
  <2>. QED
    BY <2>1
<1>14. /\ search' \in [Threads -> {Idle} \cup Searches]
       /\ \A u \in Threads \ {t} : Accounts(u)' /\ Served(u)' /\ Finding(u)'
  <2>1. writes' \in Nat /\ writes <= writes'
    BY <1>2, <1>8
  <2>. QED
    BY <1>2, <1>5, <1>9, <1>13, <2>1, OthersStay, Zenon
<1>15. Typed' /\ Mapping'
  <2>1. kept' \in {NoList} \cup [ids : SUBSET Ids, unmapped : SUBSET Ids, since : Nat, until : Nat]
    BY <1>7, <1>11 DEF IInv, Typed
  <2>. QED
    BY <1>2, <1>14, <2>1 DEF IInv, Typed, Mapping
<1>16. Lasting' /\ Noticed'
  BY <1>2, <1>13, OffersStay, Zenon
<1>17. Accounts(t)'
  <2>1. search'[t].at \notin {"looking up", "reading"} /\ search'[t].at \notin {"reading", "keeping"}
    BY <1>6, <1>10, Zenon
  <2>2. /\ search'[t].always \subseteq stored' \ batch'.erases /\ stored' \subseteq search'[t].ever
        /\ search'[t].began <= now'
    BY <1>2, <1>3, <1>5, <1>10
  <2>. QED
    BY <2>1, <2>2, Zenon DEF Accounts
<1>18. Served(t)'
  BY <1>6, <1>10 DEF Served
<1>19. Finding(t)'
  <2>1. Finds(search[t], search[t].read, search[t].read)
    BY <1>2, <1>4 DEF Finding
  <2>2. \A k : k \in r.ids \cup r.unmapped <=> k \in search[t].read
    BY <1>6
  <2>3. \A k \in r.ids : k \in search[t].read
    BY <1>6
  <2>4. Finds(r, r.ids \cup r.unmapped, r.ids)
    BY <1>5, <2>1, <2>2, <2>3 DEF Finds
  <2>. QED
    BY <1>2, <1>6, <1>10, <2>4 DEF Finding, Finds
<1>. QED
  BY <1>10, <1>14, <1>15, <1>16, <1>17, <1>18, <1>19 DEF IInv

-----------------------------------------------------------------------------
(* Writing                                                                 *)

(* What a search that is running keeps, when what is stored changes.       *)
LEMMA FindsStill ==
    ASSUME NEW s, NEW r, NEW found, NEW sure, Finds(s, found, sure), now' = now,
           r.began = s.began, r.always \subseteq s.always, s.ever \subseteq r.ever
    PROVE  /\ \A k \in r.always : From[k] <= r.began /\ now' < To[k] => k \in found
           /\ \A k \in sure : k \in r.ever /\ \E i \in r.began .. now' : LiveAt(k, i)
  BY DEF Finds

(* A change of what is stored takes from no search what it keeps account   *)
(* of, but what is no longer stored, or being erased.                      *)
LEMMA WitnessedIs ==
    ASSUME IInv, NEW S \in SUBSET Ids, NEW E, Witnessed(S, E), now' = now, kept' = kept, writes' = writes,
           stored' \subseteq S, ((stored \ batch.erases) \cap S) \ E \subseteq stored' \ batch'.erases
    PROVE  /\ search' \in [Threads -> {Idle} \cup Searches]
           /\ \A l \in Offered' : l \in Offered
           /\ \A t \in Threads : Accounts(t)' /\ Served(t)' /\ Finding(t)'
<1>1. \A t \in Threads : search'[t] =
         IF search[t] = Idle \/ search[t].at = "answered" THEN search[t]
         ELSE [search[t] EXCEPT !.always = (search[t].always \cap S) \ E, !.ever = search[t].ever \cup S]
  BY DEF Witnessed
<1>2. \A t \in Threads : search[t] \in {Idle} \cup Searches /\ Accounts(t) /\ Served(t) /\ Finding(t)
  BY DEF IInv, Typed
<1>3. Idle.at = "idle"
  BY DEF Idle
<1>4. ASSUME NEW t \in Threads, ~ (search[t] = Idle \/ search[t].at = "answered")
      PROVE  SameBut(search[t], search'[t], (search[t].always \cap S) \ E, search[t].ever \cup S)
  <2>1. search[t] \in Searches
    BY <1>2, <1>4
  <2>2. search[t].always \in SUBSET Ids /\ search[t].ever \in SUBSET Ids
    BY <1>2, <1>4, SearchIs
  <2>3. (search[t].always \cap S) \ E \in SUBSET Ids /\ search[t].ever \cup S \in SUBSET Ids
    BY <2>2
  <2>4. search'[t] = Accounted(search[t], (search[t].always \cap S) \ E, search[t].ever \cup S)
    BY <1>1, <1>4, Zenon DEF Accounted
  <2>5. search[t].at # "answered"
    BY <1>4
  <2>. QED
    BY <2>1, <2>3, <2>4, <2>5, AccountChanges, Zenon
<1>5. search' \in [Threads -> {Idle} \cup Searches]
  <2>1. \A t \in Threads : search'[t] \in {Idle} \cup Searches
    BY <1>1, <1>2, <1>4 DEF SameBut
  <2>2. search' = [t \in Threads |-> search'[t]]
    BY DEF Witnessed
  <2>. QED
    BY <2>1, <2>2
<1>6. \A l \in Offered' : l \in Offered
  <2>1. ASSUME NEW t \in Threads, search'[t].at = "keeping"
        PROVE  /\ search[t].at = "keeping" /\ search'[t].count = search[t].count
               /\ search'[t].since = search[t].since /\ search'[t].until = search[t].until
               /\ search'[t].read = search[t].read
    <3>1. CASE search[t] = Idle \/ search[t].at = "answered"
      BY <1>1, <1>3, <2>1, <3>1
    <3>2. CASE ~ (search[t] = Idle \/ search[t].at = "answered")
      BY <1>4, <2>1, <3>2 DEF SameBut
    <3>. QED
      BY <3>1, <3>2
  <2>. QED
    BY <2>1 DEF Offered
<1>7. ASSUME NEW t \in Threads
      PROVE  Accounts(t)' /\ Served(t)' /\ Finding(t)'
  <2>1. CASE search[t] = Idle
    <3>1. search'[t] = Idle
      BY <1>1, <2>1
    <3>2. ~ Running(t)'
      BY <3>1 DEF Running
    <3>3. search'[t].at = "idle"
      BY <1>3, <3>1
    <3>. QED
      BY <3>2, <3>3 DEF Accounts, Served, Finding
  <2>2. CASE search[t].at = "answered"
    <3>1. search'[t] = search[t]
      BY <1>1, <2>2
    <3>2. ~ Running(t)'
      BY <2>2, <3>1 DEF Running
    <3>3. Accounts(t)' /\ Served(t)'
      BY <2>2, <3>1, <3>2 DEF Accounts, Served
    <3>4. Finding(t)'
      BY <1>2, <2>2, <3>1 DEF Finding, During
    <3>. QED
      BY <3>3, <3>4
  <2>3. CASE ~ (search[t] = Idle \/ search[t].at = "answered")
    <3>1. Running(t)
      BY <2>3 DEF Running
    <3>2. /\ search'[t].at = search[t].at /\ search'[t].began = search[t].began
          /\ search'[t].always = (search[t].always \cap S) \ E
          /\ search'[t].ever = search[t].ever \cup S
      BY <1>4, <2>3 DEF SameBut
    <3>3. Accounts(t)'
      <4>1. /\ search[t].always \subseteq stored \ batch.erases /\ stored \subseteq search[t].ever
            /\ search[t].began <= now
        BY <1>2, <3>1 DEF Accounts
      <4>2. /\ search'[t].always \subseteq stored' \ batch'.erases /\ stored' \subseteq search'[t].ever
            /\ search'[t].began <= now'
        BY <3>2, <4>1
      <4>3. search'[t].at \in {"looking up", "reading"} => search'[t].instant \in search'[t].began .. now'
        BY <1>2, <1>4, <2>3, <3>2 DEF Accounts, SameBut
      <4>4. search'[t].at \in {"reading", "keeping"} => search'[t].count <= writes'
        BY <1>2, <1>4, <2>3, <3>2 DEF Accounts, SameBut
      <4>. QED
        BY <4>2, <4>3, <4>4, Zenon DEF Accounts
    <3>4. Served(t)'
      <4>1. ASSUME search[t].at \in {"folding", "looking up"}, NEW l \in Offered'
            PROVE  Serves(l, search'[t].always, search'[t].ever)
        <5>1. Serves(l, search[t].always, search[t].ever)
          BY <1>2, <1>6, <4>1 DEF Served
        <5>2. search'[t].always \subseteq search[t].always /\ search[t].ever \subseteq search'[t].ever
          BY <3>2
        <5>. QED
          BY <5>1, <5>2, ServesAll
      <4>. QED
        BY <3>2, <4>1 DEF Served, Serves
    <3>5. Finding(t)'
      <4>1. search'[t].always \subseteq search[t].always /\ search[t].ever \subseteq search'[t].ever
        BY <3>2
      <4>2. ASSUME NEW found, NEW sure, Finds(search[t], found, sure)
            PROVE  /\ \A k \in search'[t].always : From[k] <= search'[t].began /\ now' < To[k] => k \in found
                   /\ \A k \in sure : k \in search'[t].ever /\ \E i \in search'[t].began .. now' : LiveAt(k, i)
        BY <3>2, <4>1, <4>2, FindsStill, Zenon
      <4>3. CASE search[t].at = "keeping"
        BY <1>2, <1>4, <2>3, <3>2, <4>2, <4>3 DEF Finding, Finds, LiveAt, SameBut
      <4>4. CASE search[t].at = "scoring"
        BY <1>2, <1>4, <2>3, <3>2, <4>2, <4>4 DEF Finding, Finds, LiveAt, SameBut
      <4>5. CASE search[t].at = "folding again"
        BY <1>2, <1>4, <2>3, <3>2, <4>2, <4>5 DEF Finding, Finds, LiveAt, SameBut
      <4>6. CASE search[t].at \notin {"keeping", "scoring", "folding again"}
        BY <2>3, <3>2, <4>6 DEF Finding
      <4>. QED
        BY <4>3, <4>4, <4>5, <4>6
    <3>. QED
      BY <3>3, <3>4, <3>5
  <2>. QED
    BY <2>1, <2>2, <2>3
<1>. QED
  BY <1>5, <1>6, <1>7

(* Another process, which never stores again what was stored before,       *)
(* leaves a commit to be noticed.                                          *)
LEMMA ElsewhereKeeps ==
    ASSUME IInv, NEW S \in SUBSET Ids, S \cap used \subseteq stored, Elsewhere(S)
    PROVE  IInv'
<1>1. /\ ~ batch.open /\ stored' = S /\ used' = used \cup S /\ commits' = commits + 1 /\ Witnessed(S, {})
      /\ now' = now /\ batch' = batch /\ map' = map /\ folded' = folded
      /\ watched' = watched /\ watch' = watch /\ writes' = writes /\ kept' = kept
  BY DEF Elsewhere, index, lists
<1>2. Typed /\ Mapping
  BY DEF IInv
<1>3. batch.puts = {} /\ batch.erases = {}
  BY <1>1, <1>2 DEF Mapping
<1>4. stored' \subseteq S /\ ((stored \ batch.erases) \cap S) \ {} \subseteq stored' \ batch'.erases
  BY <1>1, <1>3
<1>5. /\ search' \in [Threads -> {Idle} \cup Searches]
      /\ \A l \in Offered' : l \in Offered
      /\ \A t \in Threads : Accounts(t)' /\ Served(t)' /\ Finding(t)'
  BY <1>1, <1>4, WitnessedIs, ZenonT(40)
<1>6. Typed'
  BY <1>1, <1>2, <1>5 DEF Typed
<1>7. Mapping'
  BY <1>1, <1>2, <1>3 DEF Mapping
<1>8. Lasting'
  BY <1>5 DEF IInv, Lasting
<1>9. Noticed'
  BY <1>1, <1>2 DEF Typed, Noticed
<1>. QED
  BY <1>5, <1>6, <1>7, <1>8, <1>9 DEF IInv

(* A write of this process leaves the lists, until it is over.             *)
LEMMA PutKeeps ==
    ASSUME IInv, NEW k \in Ids, Put(k)
    PROVE  IInv'
<1>1. /\ ~ batch.open /\ k \notin used /\ batch' = [puts |-> {k}, erases |-> {}, open |-> TRUE]
      /\ used' = used \cup {k} /\ map' = map \cup {k}
      /\ now' = now /\ stored' = stored /\ commits' = commits /\ folded' = folded
      /\ watched' = watched /\ watch' = watch /\ writes' = writes /\ kept' = kept /\ search' = search
  BY DEF Put, NoBatch, lists
<1>2. Typed /\ Mapping
  BY DEF IInv
<1>3. batch.puts = {} /\ batch.erases = {} /\ batch'.puts = {k} /\ batch'.erases = {} /\ batch'.open = TRUE
  BY <1>1, <1>2 DEF Mapping
<1>4. Typed'
  BY <1>1, <1>2 DEF Typed
<1>5. Mapping'
  BY <1>1, <1>2, <1>3 DEF Mapping
<1>6. Offered' = Offered
  BY <1>1 DEF Offered
<1>7. Lasting' /\ Noticed'
  BY <1>1, <1>6 DEF IInv, Lasting, Noticed, Serves
<1>8. ASSUME NEW t \in Threads
      PROVE  Accounts(t)' /\ Served(t)' /\ Finding(t)'
  <2>1. Accounts(t) /\ Served(t) /\ Finding(t)
    BY DEF IInv
  <2>2. Accounts(t)'
    BY <1>1, <1>3, <2>1 DEF Accounts, Running
  <2>3. Served(t)'
    BY <1>1, <1>6, <2>1 DEF Served, Serves
  <2>4. Finding(t)'
    BY <1>1, <2>1 DEF Finding, Finds, LiveAt, During
  <2>. QED
    BY <2>2, <2>3, <2>4
<1>. QED
  BY <1>4, <1>5, <1>7, <1>8 DEF IInv

(* An erasure leaves them too, but for the searches that run.              *)
LEMMA EraseKeeps ==
    ASSUME IInv, NEW k \in Ids, Erase(k)
    PROVE  IInv'
<1>1. /\ ~ batch.open /\ k \in stored /\ batch' = [puts |-> {}, erases |-> {k}, open |-> TRUE]
      /\ map' = map \ {k} /\ Witnessed(stored, {k})
      /\ now' = now /\ stored' = stored /\ used' = used /\ commits' = commits /\ folded' = folded
      /\ watched' = watched /\ watch' = watch /\ writes' = writes /\ kept' = kept
  BY DEF Erase, NoBatch, database, lists
<1>2. Typed /\ Mapping
  BY DEF IInv
<1>3. batch.puts = {} /\ batch.erases = {} /\ batch'.puts = {} /\ batch'.erases = {k} /\ batch'.open = TRUE
  BY <1>1, <1>2 DEF Mapping
<1>4. /\ stored \in SUBSET Ids /\ stored' \subseteq stored
      /\ ((stored \ batch.erases) \cap stored) \ {k} \subseteq stored' \ batch'.erases
  BY <1>1, <1>2, <1>3 DEF Typed
<1>5. /\ search' \in [Threads -> {Idle} \cup Searches]
      /\ \A l \in Offered' : l \in Offered
      /\ \A t \in Threads : Accounts(t)' /\ Served(t)' /\ Finding(t)'
  BY <1>1, <1>4, WitnessedIs, ZenonT(40)
<1>6. Typed'
  BY <1>1, <1>2, <1>5 DEF Typed
<1>7. Mapping'
  BY <1>1, <1>2, <1>3 DEF Mapping
<1>8. Lasting' /\ Noticed'
  BY <1>1, <1>5, OffersStay
<1>. QED
  BY <1>5, <1>6, <1>7, <1>8 DEF IInv

(* A commit of this process is one to be noticed as well.                  *)
LEMMA CommitKeeps ==
    ASSUME IInv, Commit
    PROVE  IInv'
<1>1. /\ batch.open /\ stored' = (stored \cup batch.puts) \ batch.erases /\ commits' = commits + 1
      /\ batch' = NoBatch /\ Witnessed(stored', {})
      /\ now' = now /\ used' = used /\ map' = map /\ folded' = folded
      /\ watched' = watched /\ watch' = watch /\ writes' = writes /\ kept' = kept
  BY DEF Commit, index, lists
<1>2. Typed /\ Mapping
  BY DEF IInv
<1>3. batch'.puts = {} /\ batch'.erases = {} /\ batch'.open = FALSE /\ batch' \in [puts : SUBSET Ids, erases : SUBSET Ids, open : BOOLEAN]
  BY <1>1 DEF NoBatch
<1>4. batch.puts \subseteq Ids /\ batch.erases \subseteq Ids
  BY <1>2 DEF Typed
<1>5. /\ stored' \in SUBSET Ids /\ stored' \subseteq stored'
      /\ ((stored \ batch.erases) \cap stored') \ {} \subseteq stored' \ batch'.erases
  BY <1>1, <1>2, <1>3, <1>4 DEF Typed
<1>6. /\ search' \in [Threads -> {Idle} \cup Searches]
      /\ \A l \in Offered' : l \in Offered
      /\ \A t \in Threads : Accounts(t)' /\ Served(t)' /\ Finding(t)'
  BY <1>1, <1>5, WitnessedIs, ZenonT(40)
<1>7. Typed'
  BY <1>1, <1>2, <1>3, <1>5, <1>6 DEF Typed
<1>8. Mapping'
  BY <1>1, <1>2, <1>3 DEF Mapping
<1>9. Lasting'
  BY <1>6 DEF IInv, Lasting
<1>10. Noticed'
  BY <1>1, <1>2 DEF Typed, Noticed
<1>. QED
  BY <1>6, <1>7, <1>8, <1>9, <1>10 DEF IInv

(* A transaction that is taken back puts the map back.                     *)
LEMMA RollbackKeeps ==
    ASSUME IInv, Rollback
    PROVE  IInv'
<1>1. /\ batch.open /\ map' = (map \ batch.puts) \cup batch.erases /\ batch' = NoBatch
      /\ now' = now /\ stored' = stored /\ used' = used /\ commits' = commits /\ folded' = folded
      /\ watched' = watched /\ watch' = watch /\ writes' = writes /\ kept' = kept /\ search' = search
  BY DEF Rollback, database, lists
<1>2. Typed /\ Mapping
  BY DEF IInv
<1>3. batch'.puts = {} /\ batch'.erases = {} /\ batch'.open = FALSE /\ batch' \in [puts : SUBSET Ids, erases : SUBSET Ids, open : BOOLEAN]
  BY <1>1 DEF NoBatch
<1>4. batch.puts \subseteq Ids /\ batch.erases \subseteq Ids
  BY <1>2 DEF Typed
<1>5. Typed'
  BY <1>1, <1>2, <1>3, <1>4 DEF Typed
<1>6. Mapping'
  BY <1>1, <1>2, <1>3 DEF Mapping
<1>7. Offered' = Offered
  BY <1>1 DEF Offered
<1>8. Lasting' /\ Noticed'
  BY <1>1, <1>7 DEF IInv, Lasting, Noticed, Serves
<1>9. ASSUME NEW t \in Threads
      PROVE  Accounts(t)' /\ Served(t)' /\ Finding(t)'
  <2>1. Accounts(t) /\ Served(t) /\ Finding(t)
    BY DEF IInv
  <2>2. Accounts(t)'
    BY <1>1, <1>3, <2>1 DEF Accounts, Running
  <2>3. Served(t)'
    BY <1>1, <1>7, <2>1 DEF Served, Serves
  <2>4. Finding(t)'
    BY <1>1, <2>1 DEF Finding, Finds, LiveAt, During
  <2>. QED
    BY <2>2, <2>3, <2>4
<1>. QED
  BY <1>5, <1>6, <1>8, <1>9 DEF IInv

(* Once the transaction has ended the lists are emptied.                   *)
LEMMA ChangeKeeps ==
    ASSUME IInv, Change
    PROVE  IInv'
<1>1. /\ Emptied /\ kept' = NoList
      /\ now' = now /\ stored' = stored /\ used' = used /\ commits' = commits /\ batch' = batch
      /\ map' = map /\ folded' = folded /\ watched' = watched /\ watch' = watch /\ search' = search
  BY DEF Change, Emptied, database, index
<1>2. Typed /\ Mapping
  BY DEF IInv
<1>3. Offered' = {} /\ writes' \in Nat /\ writes < writes'
  BY <1>1, EmptiedIs
<1>4. Typed' /\ Mapping'
  BY <1>1, <1>2, <1>3 DEF Typed, Mapping
<1>5. Lasting' /\ Noticed'
  BY <1>3 DEF Lasting, Noticed
<1>6. ASSUME NEW t \in Threads
      PROVE  Accounts(t)' /\ Served(t)' /\ Finding(t)'
  <2>1. Accounts(t) /\ Finding(t) /\ search[t] \in {Idle} \cup Searches /\ writes \in Nat
    BY <1>2 DEF IInv, Typed
  <2>2. search[t].at \in {"reading", "keeping"} => search[t].count <= writes'
    <3>1. search[t].at \in {"reading", "keeping"} => search[t].count \in Nat /\ search[t].count <= writes
      BY <2>1, SearchIs DEF Accounts
    <3>. QED
      BY <1>3, <2>1, <3>1
  <2>3. Accounts(t)'
    BY <1>1, <2>1, <2>2 DEF Accounts, Running
  <2>4. Served(t)'
    BY <1>3 DEF Served
  <2>5. Finding(t)'
    BY <1>1, <2>1 DEF Finding, Finds, LiveAt, During
  <2>. QED
    BY <2>3, <2>4, <2>5
<1>. QED
  BY <1>4, <1>5, <1>6 DEF IInv

(* The clock ends claims, for those that search as for the lists.          *)
LEMMA TickKeeps ==
    ASSUME IInv, Tick
    PROVE  IInv'
<1>1. /\ now' = now + 1
      /\ stored' = stored /\ used' = used /\ commits' = commits /\ batch' = batch
      /\ map' = map /\ folded' = folded /\ watched' = watched /\ watch' = watch
      /\ writes' = writes /\ kept' = kept /\ search' = search
  BY DEF Tick, database, index, lists
<1>2. Typed /\ Mapping /\ now \in Nat
  BY DEF IInv, Typed
<1>3. Typed' /\ Mapping'
  BY <1>1, <1>2 DEF Typed, Mapping
<1>4. Offered' = Offered
  BY <1>1 DEF Offered
<1>5. Lasting' /\ Noticed'
  BY <1>1, <1>4 DEF IInv, Lasting, Noticed, Serves
<1>6. ASSUME NEW t \in Threads
      PROVE  Accounts(t)' /\ Served(t)' /\ Finding(t)'
  <2>1. /\ Accounts(t) /\ Served(t) /\ Finding(t) /\ search[t] \in {Idle} \cup Searches
    BY <1>2 DEF IInv, Typed
  <2>2. search[t] # Idle => search[t].began \in Nat /\ search[t].always \in SUBSET Ids
    BY <2>1, SearchIs
  <2>3. Accounts(t)'
    <3>1. ASSUME Running(t)
          PROVE  search[t].began <= now'
      <4>1. search[t].began \in Nat /\ search[t].began <= now
        BY <2>1, <2>2, <3>1 DEF Accounts, Running
      <4>. QED
        BY <1>1, <1>2, <4>1
    <3>2. ASSUME search[t].at \in {"looking up", "reading"}
          PROVE  search[t].instant \in search[t].began .. now'
      <4>1. search[t].instant \in search[t].began .. now
        BY <2>1, <3>2 DEF Accounts
      <4>2. search[t] # Idle
        <5>1. Idle.at = "idle"
          BY DEF Idle
        <5>. QED
          BY <3>2, <5>1
      <4>. QED
        BY <1>1, <1>2, <2>2, <4>1, <4>2
    <3>. QED
      BY <1>1, <2>1, <3>1, <3>2 DEF Accounts, Running
  <2>4. Served(t)'
    BY <1>1, <1>4, <2>1 DEF Served, Serves
  <2>5. ASSUME search[t] # Idle, NEW found, NEW sure, Finds(search[t], found, sure)
        PROVE  Finds(search[t], found, sure)'
    <3>1. ASSUME NEW k \in search[t].always, From[k] <= search[t].began, now + 1 < To[k]
          PROVE  k \in found
      <4>1. To[k] \in Nat
        BY <2>2, <2>5, ListsAssumption
      <4>2. now < To[k]
        BY <1>2, <3>1, <4>1
      <4>. QED
        BY <2>5, <3>1, <4>2 DEF Finds
    <3>2. \A i \in search[t].began .. now : i \in search[t].began .. now'
      BY <1>1, <1>2, <2>2, <2>5
    <3>. QED
      BY <1>1, <2>5, <3>1, <3>2 DEF Finds, LiveAt
  <2>6. Finding(t)'
    <3>1. CASE search[t] = Idle
      BY <1>1, <3>1 DEF Finding, Idle
    <3>2. CASE search[t].at = "keeping"
      <4>1. search[t] # Idle
        <5>1. Idle.at = "idle"
          BY DEF Idle
        <5>. QED
          BY <3>2, <5>1
      <4>2. Finds(search[t], search[t].read, search[t].read)
        BY <2>1, <3>2 DEF Finding
      <4>3. /\ \A k \in search[t].always : From[k] <= search[t].began /\ now' < To[k] => k \in search[t].read
            /\ \A k \in search[t].read : k \in search[t].ever /\ \E i \in search[t].began .. now' : LiveAt(k, i)
        BY <1>1, <2>5, <4>1, <4>2 DEF Finds, LiveAt
      <4>. QED
        BY <1>1, <3>2, <4>3 DEF Finding, Finds, LiveAt
    <3>3. CASE search[t].at = "scoring"
      <4>1. search[t] # Idle
        <5>1. Idle.at = "idle"
          BY DEF Idle
        <5>. QED
          BY <3>3, <5>1
      <4>2. Finds(search[t], search[t].ids \cup search[t].unmapped, search[t].ids)
        BY <2>1, <3>3 DEF Finding
      <4>3. /\ \A k \in search[t].always : From[k] <= search[t].began /\ now' < To[k] => k \in search[t].ids \cup search[t].unmapped
            /\ \A k \in search[t].ids : k \in search[t].ever /\ \E i \in search[t].began .. now' : LiveAt(k, i)
        BY <1>1, <2>5, <4>1, <4>2 DEF Finds, LiveAt
      <4>. QED
        BY <1>1, <3>3, <4>3 DEF Finding, Finds, LiveAt
    <3>4. CASE search[t].at = "folding again"
      <4>1. search[t] # Idle
        <5>1. Idle.at = "idle"
          BY DEF Idle
        <5>. QED
          BY <3>4, <5>1
      <4>2. Finds(search[t], search[t].ids, search[t].ids)
        BY <2>1, <3>4 DEF Finding
      <4>3. /\ \A k \in search[t].always : From[k] <= search[t].began /\ now' < To[k] => k \in search[t].ids
            /\ \A k \in search[t].ids : k \in search[t].ever /\ \E i \in search[t].began .. now' : LiveAt(k, i)
        BY <1>1, <2>5, <4>1, <4>2 DEF Finds, LiveAt
      <4>. QED
        BY <1>1, <3>4, <4>3 DEF Finding, Finds, LiveAt
    <3>5. CASE search[t].at \notin {"keeping", "scoring", "folding again"}
      BY <1>1, <2>1, <3>5 DEF Finding, During, LiveAt
    <3>. QED
      BY <3>1, <3>2, <3>3, <3>4, <3>5
  <2>. QED
    BY <2>3, <2>4, <2>6
<1>. QED
  BY <1>3, <1>5, <1>6 DEF IInv

-----------------------------------------------------------------------------
(* The theorems                                                            *)

(* The invariant holds of a process that has just opened the store.        *)
LEMMA InitKeeps == Init => IInv
<1>. SUFFICES ASSUME Init
              PROVE  IInv
  OBVIOUS
<1>1. /\ now = 0 /\ stored \in SUBSET Ids /\ used = stored /\ commits = 0 /\ batch = NoBatch
      /\ map = stored /\ folded = stored /\ watched = 0 /\ watch = {} /\ writes = 0 /\ kept = NoList
      /\ search = [t \in Threads |-> Idle]
  BY DEF Init
<1>2. Idle.at = "idle" /\ \A t \in Threads : search[t] = Idle
  BY <1>1 DEF Idle
<1>3. batch.puts = {} /\ batch.erases = {} /\ batch \in [puts : SUBSET Ids, erases : SUBSET Ids, open : BOOLEAN]
  BY <1>1 DEF NoBatch
<1>4. Typed
  BY <1>1, <1>3 DEF Typed
<1>5. Mapping
  BY <1>1, <1>3 DEF Mapping
<1>6. Offered = {}
  BY <1>1, <1>2 DEF Offered
<1>7. Lasting /\ Noticed
  BY <1>6 DEF Lasting, Noticed
<1>8. ASSUME NEW t \in Threads
      PROVE  Accounts(t) /\ Served(t) /\ Finding(t)
  <2>1. search[t] = Idle /\ search[t].at = "idle"
    BY <1>2
  <2>. QED
    BY <1>6, <2>1 DEF Accounts, Running, Served, Finding
<1>. QED
  BY <1>4, <1>5, <1>7, <1>8 DEF IInv

(* No step, of any thread or process, leaves the invariant.                *)
LEMMA NextKeeps == IInv /\ [Next]_vars => IInv'
<1>. SUFFICES ASSUME IInv, [Next]_vars
              PROVE  IInv'
  OBVIOUS
<1>1. ASSUME NEW t \in Threads,
             \/ Look(t) \/ Notice(t) \/ Fold(t) \/ LookUp(t) \/ Read(t) \/ Keep(t)
             \/ Score(t) \/ Ask(t) \/ FoldAgain(t) \/ Return(t)
      PROVE  IInv'
  BY <1>1, LookKeeps, NoticeKeeps, FoldKeeps, LookUpKeeps, ReadKeeps, KeepKeeps, ScoreKeeps, AskKeeps,
     FoldAgainKeeps, ReturnKeeps, Zenon
<1>2. ASSUME NEW k \in Ids \ used, Elsewhere(stored \cup {k})
      PROVE  IInv'
  <2>1. stored \cup {k} \in SUBSET Ids /\ (stored \cup {k}) \cap used \subseteq stored
    BY DEF IInv, Typed
  <2>. QED
    BY <1>2, <2>1, ElsewhereKeeps
<1>3. ASSUME NEW k \in stored, Elsewhere(stored \ {k})
      PROVE  IInv'
  <2>1. stored \ {k} \in SUBSET Ids /\ (stored \ {k}) \cap used \subseteq stored
    BY DEF IInv, Typed
  <2>. QED
    BY <1>3, <2>1, ElsewhereKeeps
<1>4. ASSUME NEW k \in Ids, Put(k) \/ Erase(k)
      PROVE  IInv'
  BY <1>4, PutKeeps, EraseKeeps
<1>5. CASE Commit \/ Rollback \/ Change \/ Tick
  BY <1>5, CommitKeeps, RollbackKeeps, ChangeKeeps, TickKeeps
<1>6. CASE UNCHANGED vars
  <2>1. /\ now' = now /\ stored' = stored /\ used' = used /\ commits' = commits /\ batch' = batch
        /\ map' = map /\ folded' = folded /\ watched' = watched /\ watch' = watch
        /\ writes' = writes /\ kept' = kept /\ search' = search
    BY <1>6 DEF vars, database, index, lists
  <2>2. Offered' = Offered
    BY <2>1 DEF Offered
  <2>3. Typed' /\ Mapping'
    BY <2>1 DEF IInv, Typed, Mapping
  <2>4. Lasting' /\ Noticed'
    BY <2>1, <2>2 DEF IInv, Lasting, Noticed, Serves
  <2>5. ASSUME NEW t \in Threads
        PROVE  Accounts(t)' /\ Served(t)' /\ Finding(t)'
    <3>1. Accounts(t) /\ Served(t) /\ Finding(t)
      BY DEF IInv
    <3>2. Accounts(t)'
      BY <2>1, <3>1 DEF Accounts, Running
    <3>3. Served(t)'
      BY <2>1, <2>2, <3>1 DEF Served, Serves
    <3>4. Finding(t)'
      BY <2>1, <3>1 DEF Finding, Finds, LiveAt, During
    <3>. QED
      BY <3>2, <3>3, <3>4
  <2>. QED
    BY <2>3, <2>4, <2>5 DEF IInv
<1>. QED
  BY <1>1, <1>2, <1>3, <1>4, <1>5, <1>6, Zenon DEF Next

(* A list that any thread may answer from holds what its search must find, *)
(* whatever threads, commits and processes do between its reading and its  *)
(* use: the invariant of _scope_claims, _notice_commits and _changed.      *)
THEOREM Invariance == Spec => []IInv
  BY InitKeeps, NextKeeps, PTL DEF Spec

(* A search misses no claim that was stored and live while it ran, but for *)
(* those its list says have no row: vector_search over the lists kept.     *)
THEOREM NoSearchMisses == Spec => []NothingMissed
<1>1. IInv => NothingMissed
  BY DEF IInv, Finding, NothingMissed
<1>. QED
  BY <1>1, Invariance, PTL

(* A search answers with no claim erased or ended before it began, nor one *)
(* that was never committed: vector_search over the lists kept.            *)
THEOREM NoSearchIsStale == Spec => []NothingStale
<1>1. IInv => NothingStale
  BY DEF IInv, Finding, NothingStale
<1>. QED
  BY <1>1, Invariance, PTL

=============================================================================
