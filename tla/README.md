# A verification of memvara's memory

Memvara keeps what an assistant was told as *claims* on two clocks: when a fact was true in
the world (valid time) and when the store believed it (transaction time). This directory
models how claims are written, closed and read, checks the models with TLC on small
instances, and proves with TLAPS what holds for every value of their constants.

## The system

| Part | State it keeps | Operations | What is hard about it |
|---|---|---|---|
| Claim record, scopes, slots (`types.py`, `schema.py`) | none: the data everything else shares | `close_out`, `is_live`, `is_unended`, `Scope.ancestors`, `sees`, `contains`, slot and value keys | two clocks closed separately; a scope chain with and without a project |
| Reconciler (`write/reconcile.py`) | none of its own; decides inside a transaction | `apply`: duplicate, retract, compete, store in pieces | history told out of order, periods that overlap, imprecise dates, expiries, authority |
| Direct write API (`core.py`) | the claims table | `remember`, `supersede`, `forget`, `delete`, `erase`, `forget_matching`, `link` | closing instants in the past and future; closures of what has not begun |
| Extraction pipeline (`write/pipeline.py`) | turns, pending reinforcements | `add`, `reextract`, `assert_claim` | reads before a model call, writes after it |
| Reads (`retrieve/shadow.py`, `core.py`) | none | `get_all`, `search`, `since`, `shadowed` | which level of a reader's chain answers |
| Consolidation (`consolidate/`) | a snapshot of the live claims, the rows it means to write | decay, merge, promote, `flush` | writes back what it read outside a transaction |
| SQLite store (`store/sqlite.py`) | claims, sources, episodes, documents, vectors in a mapped file, per-scope lists, a lock file | `batch`, `put_claim`, erasures, `_notice_commits`, `_claim_alone`, `_set_vector` | crashes between file and transaction, lists made stale by another process, processes that open, upgrade and clear one file |
| Erasure (`core.py`, `store/sqlite.py`) | erasure records | `erase`, `erase_expired`, `purge`, `prove_erased`, `residue` | nothing of an erased claim may remain or return |
| Confirmation (`confirm.py`) | tokens | `issue`, `check` | what was previewed may have changed |
| Documents (`documents/`) | a status per document, its chunks as turns | `add`, `update`, `delete` | chains of transactions with a model between them |
| Retrieval, embedding, extraction by models, entities, ingestion, servers, adapters | indexes, prompts, connections | search, encode, extract, serve | numeric ranking and text, not protocol |

Components meet in the claims table. Every method that reads a claim before it writes one
does both inside `SQLiteStore.batch()`, which takes SQLite's write lock before its first
read, so writers on one file, in threads or processes, take turns. What breaks the turns is
what happens outside a batch: the extraction between an `add()`'s first read and its
transaction, a document's status around its extraction, a consolidation pass, a preview
before its confirmation, the mapped vector file, and the lists that searches share.

PROJECT.json lists every part with its status, and every hazard with the line where it
bites and the properties that would catch it.

## Modules

| Module | Models | Extends |
|---|---|---|
| `Claims` | the claim record, scopes, keys, expiry, `close_out` | |
| `Reconcile` | `Reconciler.apply` and all it calls, as pure operators from a table to its possible successors | `Claims` |
| `Ledger` | the table over time: each write call one action, `add()` two | `Reconcile` |
| `Reading` | present-tense reads with shadowing, over `Ledger` | `Ledger` |
| `Turns` | stored turns and the calls that read them: `add()` and `reextract()` step by step, over `Reconcile`; implements `Ledger` | `Reconcile` |
| `Documents` | `DocumentService`: storing, reading, retrying, releasing and deleting a document | |
| `Handles` | processes that open one file: the schema step, the locks, the width of the vectors | |
| `Lists` | the list of claims that a scope's searches share, and what empties it | |
| `MCTurns`, `MCDocuments`, `MCHandles`, `MCLists` | small instances of those | |
| `Uncovered` | the loops of `_earlier_period` and `_uncovered`, one turn a step | `Reconcile` |
| `MCLedger` | small instances of `Ledger` and `Reading` | `Reading` |
| `Sweep` | a consolidation pass beside other passes and callers | |
| `Evidence` | what callers said and did, which no pass may touch; `Sweep` implements it | |
| `MCSweep` | small instances of `Sweep` | `Sweep` |
| `VectorFile` | the mapped file of vectors beside the database, several processes and threads | |
| `MCVectorFile` | a small instance of `VectorFile` | `VectorFile` |
| `ReconcileProofs` | theorems of `Reconcile` and `Uncovered`: what one call of `apply` may do to a table, that its loops find what `Reconcile` states | `Uncovered` |
| `LedgerProofs` | theorems of `Ledger` and `Reading`: types, one clock at a time, past belief, expiries; one value in a slot, stored once, held as said, forgotten for good, one value read, and the one last said | `Reading`, `ReconcileProofs` |
| `DocumentsProofs` | theorems of `Documents`: what backs a claim, where a text is, that done means read | `Documents` |
| `HandlesProofs` | theorems of `Handles`: a finished file, whole maps, one width | `Handles` |
| `VectorFileProofs` | theorems of `VectorFile`: whose a row is, what is in it, who knows | `VectorFile` |
| `ListsProofs` | theorems of `Lists`: a search misses nothing and invents nothing | `Lists` |
| `TurnsProofs` | theorems of `Turns`: what a claim cites and how often, what no batch undoes, that it implements `Ledger`, what is said again | `Turns`, `ReconcileProofs` |
| `SweepProofs` | theorems of `Sweep`: no evidence lost or doubled, no claim weakened, a second pass finds nothing, that it implements `Evidence` | `Sweep` |

**Claims.** An instant is a natural below `Forever`; `Forever` is the `None` that leaves a
clock open. A claim has the columns decisions read: predicate, value, polarity, scope,
`from`/`to`, `rec`/`inv`, precision (`width`, how much later than `from` the date may mean),
confidence, expiry and whether a caller or a model wrote it. One subject is fixed. Salience,
counts, sources, text and metadata are left out: nothing modelled here decides on them.

**Reconcile.** The table is a function from ids to claims. The code's ids are random; here
an id is the number of the write that stored it and the start of the piece it stores, so
ids also give the order of commits, which the properties need. Where the code breaks a tie
on its random id, `Apply` has an outcome for each claim that could come first. `Gaps` states
`_uncovered` as the maximal runs of instants nothing holds, and `EarlierEnd` states
`_earlier_period` as the latest start nothing reaches past; `Uncovered` takes the loops of
both a step at a time and shows that they compute that.

**Ledger.** `claims`, `writes` (how many writes stored something), the clock `now`, and for
each `add()` in flight the instant it `began`. `Remember`, `Supersede`, `Forget`, `Delete`
and `Erase` are single steps because each runs in one batch. `BeginAdd` and `CommitAdd` are
two, because `add()` reads the clock, extracts with no lock held, and reconciles in a later
transaction as of the instant it read. What the extraction yields is any statement a turn
could yield. An instant a caller leaves out is stamped when the call is made, under the lock
in `Remember` and at the beginning of an `add()`. `Erase` stands for `erase()` and for the
expiry sweep, which erases a subset of what `erase()` may. `ForgetMatching` is the confirming
call: its ids are any set, because the claims may have changed in any way since the preview,
and it closes all of them or none. The token that names them is left out.

**Reading.** `Live` is what the store returns of a table for a reader with no instant given,
`Shadowed` what `retrieve/shadow.py` leaves out, `Read` the difference. `StateIsLive` is `Claim.state`,
which reads the end columns and not the clock, exactly as the code has it.

**Sweep.** A table of its own, with the columns consolidation reads and writes: the phrase a
claim says its value in, kind, observation count, strength (`salience_base`), salience, when
it was last heard, when it was recorded and closed, and who absorbed it. A pass is `Begin`
(the instant and the last row are fixed), `Read` (one page of `iter_claims`, outside every
transaction), then one `Write` for each window of units. `Made` is what decay, merge and
promotion make of the rows that were read; `Decided` keeps, as `Sweep` does, the rows to
write, as read and as decided, in units. `Write` writes a unit only if each of its rows
`AsRead`. The order of the windows is any order, where the code's follows its snapshot.
`Leave` is a process that dies. Salience is in whole units where the code has floats rounded
to a precision. What is left of a strength at an age is the constant `Fade`, which
never grows with age and is the whole strength at age 0; in the instance it halves with each
tick. Which phrases are similar is a constant relation, symmetric because a cosine is, that
need not be transitive. `Merged` takes the rows of all slots in one order of their text where
the code takes slot after slot: a step of a merge reads and writes rows of one slot only. SQLite can give the row number of an erased last row
to a new claim, which a pass might then read; here numbers are not reused, and what a pass
reads of a claim recorded after it began would differ only in that.

**Turns.** `claims`, `writes` and `now` are the Ledger's. `turns` is the episodes table,
`heard` the citations of each claim as a bag, because an observation counted twice is what
`reextract()` must avoid, and `call` what each call in flight has read so far. A call is a
chain: `BeginAdd` looks the turn up and queues the claims of a repeat, `Save` stores a new
turn in a transaction of its own, then `Restates`, `Extract`, `ModelFails` or `ProposesEnd`
is what tier 0 and the model make of it, and `Commit` is the one batch that reconciles.
`Reread` is a call of `reextract()`, and it enters the chain at the extraction. `Bumped` reads the
queued claims again under the lock, `Candidates` drops what comes from a turn erased
meanwhile, and `Reinforced` says which claims `Reconciler.apply` makes cite the turn. One
call adds one turn, to one slot of one scope. `told` and `raced` are histories: how often a
turn was said, and whether two calls were reading it at once.

**Documents.** The document of one name, the turns, the claims with what they cite, and what
each call holds. `Store` is the one transaction of `_store_add` or `update` with `_store`
inside it, releases and erasures included; `Skip`, `Gather`, `Start`, `Record` are the
transactions of `_finish`, `_unread`, `_put_status` and `_extract`; `Answered` and
`Reconcile` are `reextract()` as `Turns` has it, over several chunks, of which a model may
answer some. A chunk states one fact of a slot of its own, so the reconciler is reduced to
"store once, count again". A re-read of a document's turns by a background pass is not
modelled. `returned` is a history: whether content came back under a call in flight.

**Handles.** `shared`, `exclusive` and `creator` are the SQLite locks on `<db>.lock`,
`writer` the write lock of the database. `Open` … `Attach` is the constructor; `schema` has
the three commits of the schema step, so a process may die between two. `Ask`, `Granted` or
`Refused`, `ShareRefused`, `Clear` are `_try_alone` and `clear_embeddings`, each change of a
lock a step. `header` is the width the vector file was written for and `dim` the width each
process has mapped. A call that waits is an action that is not enabled. A write that `_set_vector` refuses
leaves its mark too: by then the process is bound to the stored width. Vectors are their
widths only; whose they are is the business of `VectorFile`. `torn` and `lapsed` are
histories: whose map was cut short by another, and who maps the file for vectors that are
gone, because a rollback or another process's clear removed the vectors it was mapped for.
A file of a later schema, and encryption, are refused at open and left out.

**Lists.** One scope, one process and the others it shares the file with. `stored` and
`commits` are the database and its `data_version`; `map` and `folded` the name-to-row map
and what it was read up to; `writes` counts how often the lists were emptied; `kept` is the
entry of `_claims`, with the instants it answers for. A search is `Look` and `Notice`
(`_notice_commits`), `Fold` (`_ensure_index`), `LookUp`, `Read` and `Keep`
(`_scope_claims`), and `Score`, or `Ask` and `FoldAgain` when a row has gone. This process's
batch changes the map at once and the database at its commit, and the lists are emptied
after. `always`, `ever`, `began` and `ended` are histories of one search; `unmapped` has
what its list left out for want of a row. The list of turns is kept in the same way, without
instants. Eviction of the longest lists only costs a rebuild and is left out.

**Evidence.** How much each slot was heard and what callers did with each claim. `Sweep`
implements it under the refinement in `Kept`: passes are stutters.

**VectorFile.** `table` holds the two vector tables as last committed: which claims and
turns there are, for each vector its row of the file, its sequence number and its text, and
the rows given back. Claims and turns are there from the start, without vectors, as before a
first embedding. `txn` is the batch that holds the write lock, with its own draft of the
tables and the items it touched (`_touched`, `_cleared`); a write outside any batch is a
batch of one. `file` is the file's rows, shared by all processes. `handle` is what a process
has in `_VecIndex` and `SQLiteStore`: whether the file is attached and the map loaded, the
map, the watermarks (`_seq`), and which of its steps are half done. `line` is
`PRAGMA data_version` of each connection, which only another connection's commit moves, and
`version` the number each thread last acted on.

Steps are as small as the code lets others in. `Load` and `Note` are the two halves of the
first `_ensure_index`, which are two reads and not one transaction; `Open` and `Fill` are
the creation of a missing file and `_rebuild_matrix`; `Rollback` gives back the database and
the write lock and `Repair` is `_reconcile_index`, which runs after. `Search` runs on a
thread's own connection, also while another thread of the process writes; the package never
searches inside its own batch, and neither does a thread here. `Erase` takes a set of items,
for `erase_claim`, the erasure of a turn and `purge`. A store closed in a batch is `Commit`
and then `Close`.

What the code gives up is in three variables, so that the properties can except exactly
that and no more. `spoiled` has the rows that a step cut short may leave wrong: a process
that dies in a batch or before a repair; a missing file being rebuilt while others write; a
repair that blanks an item's old row after the row was given to another, in the same batch
or by another process in the window before the repair, or whose item has moved; a search on
another thread of a process that has still to repair, which folds what another process
committed and so forgets where the rolled-back batch had written (`Stranded`); a clear by
a store that never attached the file. A row leaves the set when it is written again.
`Stranded` was found by the proof: it needs more commits than the run's bound allows.
What is in `spoiled` is only recorded: no property says that a file left wrong by a crash, or
by the clear of a store that never attached it, is ever found out.
`missed` has the threads that noted a commit as read which they had not read: between the
halves of a load, and after a clear is rolled back, when the number noted is the writing
connection's. They read it at the next commit. `passed` has, for each process, the vectors with
their sequence numbers that its watermark has passed without mapping them: no refresh maps such
a vector before it is written again. There are two ways. `_rebuild_matrix` takes the
watermark after `_fill` has copied the rows, so what another process commits between the two is
below it (`Note`). And since a number is one past the highest stored, a vector written after
the newest was erased can get a number that a process has already read up to
(`NumberedAgain`). The second way needs a second claim, and the instance of `vectors` has one:
it was checked apart, with two claims, no turn and one wording, and the proof covers it.
`Fill` copies both tables and `Note` takes both watermarks; the code takes that of the claims
before it copies the turns, so a claim committed after that is not passed but missed.
The second load of two threads that load at once,
encryption, re-embedding at another width and the growth of the file are left out.

## Runs

| Run | Question | Instance |
|---|---|---|
| `ledger` | does one slot keep one value, hold each value once, keep what it was told, and never rewrite a past belief, with an `add()` in flight? | 2 values, 4 instants, 2 writes that store, 1 add in flight, any closures; starts in the past, now and later, imprecise and ended periods, backdated records, retractions, weak claims |
| `reading` | do supersession and shadowing leave one value, and is a reader answered with what was said at its scope? | 2 predicates, one global and superseding the other; a user's, a repository's and a repository agent's level; planned ends, expiries and imprecise dates |
| `uncovered` | do the loops over stored periods compute what `Reconcile` states? | every set of up to 3 stored periods over 4 instants, every incoming claim with and without an imprecise date |
| `passes` | does a pass do only what it should, and can two passes and callers lose, double or bring back anything? | 1 slot, 3 claims of which the middle one is alike the others, 2 passes, pages of 1, windows of 2, 2 instants |
| `vectors` | is each vector in its own row, what was erased in none, and each process's map right and refreshed? | 2 processes of 1 thread, a claim in 2 wordings and a turn, 2 commits, any crashes, rollbacks, clears and deletions of the file |
| `turns` | what may two calls learn from turns while others write, close, erase and die? | 2 calls, 2 turns said at any past date, 2 texts, agentic proposals, 1 direct write, deletion, erasure, purge or crash |
| `turns_read` | is every stored turn read in the end? | the same, without proposals, under `FairSpec`, at one instant |
| `documents` | do text, claims and status follow the document through calls, deletions and crashes, and is it read in the end? | 2 calls, 2 chunks, 2 contents of which one has both, 2 stores and any number of re-adds, 1 mishap, under `FairSpec` |
| `stores` | can several processes open, upgrade, write, clear and die over one file? | 3 processes, 2 widths, one process that may not write the lock file, 4 opens, 4 batches, any state of the schema, under `FairSpec` |
| `lists` | does a search through a shared list miss or invent anything? | 2 threads, 2 claims of which one begins and one ends, 2 commits of either process, 3 emptyings, 2 instants |
| `list_kept` | is a claim of another process visible to searches that start after its commit? (violated) | 2 threads, 1 claim that another process commits; this process writes nothing |
| `document_done` | does a status belong to the content it describes? (violated) | 2 calls, 3 stores, no mishaps |

The properties:

- `OneValue`: a later claim that displaces an earlier one leaves no instant, now or to come,
  at which both are true, unless it is too weak to displace it (a dispute). It needs values
  that are scheduled, ended in part, backdated and superseded to be closed exactly.
- `OneValueSeen`: the same with adds in flight, excusing only a turn read before the other
  value was recorded.
- `HeldOnce`: no two believed claims hold one value for a reader at one instant.
- `SaidIsHeldUntilKnown`: after `remember()` every instant of the statement is held, up to a
  later value, and up to the live claims of the value when it begins before all of them.
- `ForgottenForGood`: a forgotten slot never answers again by the clock alone.
- `ClosesOneClock`: no call moves both clocks of a claim, extends a period, or touches what
  is retired.
- `PastBeliefKept`: no call that leaves the instant to the store changes what the store
  believed at an instant that has passed.
- `ReadsOneOpenLevel`, `StillAnswered`: shadowing chooses one level, and never leaves a reader
  with nothing.
- `ReadsWhatWasSaid`: in every state, if `remember()` were now told any value of the present, a
  read at its scope would give it back, unless a later value has begun, the value is a broader
  level's and a narrower one has its own, or it is on record from an instant to come that
  the date given may mean. (An imprecise date is taken to be the claim that is already
  there, even where that claim has not begun.)
- `ExpiryStaysInScope`: a repeat's expiry lands on no broader claim.
- `LoopsFindGaps`: the loops of `_earlier_period` and `_uncovered` compute what `Reconcile`
  states of them.

- `EvidenceKept`: `Sweep` implements `Evidence`: no interleaving of passes, crashes between
  windows and callers loses or doubles an observation, or undoes what a caller did.
- `FadesNoFaster`: a claim is never weaker than its strength decayed once.
- `PassIsIdempotent`: a second pass at the same instant writes nothing (every stage is
  idempotent, consolidate/__init__.py:10), in slots with no more live claims than are compared.
  In a longer slot two claims may come near enough only when the first pass has retired those
  between them, and `_blocking_key` leaves them to a later sweep (merge.py:70).
- `LearningKept`: a believed claim's strength, last hearing and promotion never go back.

- `RowsHaveOneOwner`: over both tables, with rows freed and given out again by several
  processes, no row has two owners and none is lost.
- `RowsMatchTable`, `ErasedLeavesNothing`: through other processes' writes, rollbacks,
  repairs and rebuilds, a stored vector is in the row it owns and an erased or rolled-back
  one is in no row, but for the rows in `spoiled`. What a crash leaves wrong is all in `spoiled`.
- `MapPointsHome`: a process that mapped an item never reads another item's row for it.
- `SearchFolds`: a thread that finds no commit to read has every stored vector in its map,
  whichever thread read the map and whichever process wrote, but for the threads in `missed`
  and the vectors in `passed`.

- `WritesTheLedger`: `Turns` implements `Ledger`: a call that reads turns does to the claims
  only what the Ledger's `BeginAdd`, `CommitAdd` and `Leave` do, whatever it had queued.
- `ClosuresStand`: no batch undoes a closure or an erasure made since its call read.
- `CitesStored`: a claim cites only stored turns, whatever was erased during extraction.
- `HeardAsSaid`: a claim is counted for a turn no more often than the turn was said, unless
  two calls were reading the turn at once.
- `RetryConverges`: after a turn's batch, the same turn sent again is taken for a repeat, unless
  it was stored twice or two calls were reading it at once.
- `SaidAgainIsBelieved`: a turn taken for a repeat says something that is believed.
- `EventuallyRead`: a stored turn that states a value gets a claim, or is erased.

- `ClaimsAreBacked`: every claim cites stored turns, and one with none left is retired.
- `TextGoesWithDocument`: a chunk is stored exactly while its document lists it.
- `DoneMeansReadOnce`: a document that is done has been read in full, unless its content had
  gone and come back under a call in flight.
- `OnlyCallersStore`: no outcome brings a deleted document back or changes its content.
- `EventuallyDone`: a document is done in the end, or deleted.

- `FinishedWhenOpen`: no store works on half a schema, whoever died in the step.
- `NoMapIsCut`: no file is truncated under the map of another open store, but for a store
  that is handing its exclusive lock over and one in `lapsed`.
- `OneWidth`: the stored vectors keep one width, but for a writer in `lapsed`.
- `WaitsEnd`: whoever opens a store gets it open, is refused or dies, and one that gave its
  shared lock up holds it again.

- `NothingMissed`: a search finds what was stored and live for as long as it ran, but for
  claims without a row in the map of the search that built its list.
- `NothingStale`: a search returns nothing that had gone or ended before it began.

Two runs show where the code and what it says of itself differ (PROJECT.json, "findings"): a
list built with a map older than its read is kept and hides another process's claim (a thread
looks for commits and folds, another process commits, a second thread notices that and empties
the lists, and only then does the first take the count and read); a
document is marked done by a call whose chunks were replaced. Each has a passing neighbour
that says what the code does keep: `NothingMissed`, `DoneMeansReadOnce`.

Other limits of the code appear as exceptions in the properties, and are as exact as the
properties can make them. An `add()` overtaken by a `remember()` leaves two live values in a
single-valued slot (`ReadBefore` in `OneValueSeen`; docs/INTERNALS.md:3065 promises that the
second writer reads what the first wrote). A restatement that begins earlier loses the part
after a live claim's planned end (`Restating`; docs/UPGRADING.md:208 says it is stored in two
pieces). A broader value with a planned end is not shadowed (`ReadsOneOpenLevel`;
docs/INTERNALS.md:2061). A commit between the halves of the first load of the map is not
folded in until there is another (`missed`), and one between the halves of a rebuild, or under
a number given again, is never folded in (`passed`), although the docstring of `_ensure_index`
says that refreshing is what stops a claim of another worker from being permanently invisible
(store/sqlite.py:2925). Two `reextract()` calls that read one turn at
once count it twice (`raced`). A retraction that names a value and finds none stores nothing,
so its turn stays pending; `EventuallyRead` is about turns that state a value. While
`_share_again` hands the exclusive lock over, a store is between its two locks without the
write lock, which the docstring of `_try_alone` rules out, and a clear may then cut the file
it maps (`NoMapIsCut`). A first vector that is rolled back leaves its width noted in the
process that wrote it, and a clear leaves the old width noted in the processes that reopened
while it was handed over (`lapsed` in `OneWidth`).

Bounds. Every rule of `apply` compares the incoming claim with stored claims one or two at
a time, and the shapes of two periods on a line need three or four distinct instants, so
two stored writes and four instants reach each branch. In `ledger` an add in
flight begins at instant 0 or 1, and nothing is followed from a state in which it is in flight
and no write is left (`MayStore`). `Breadth` lets one statement depart
from "this value, from this instant, for good" in one way only, and two statements together
in two. `Serials` and `Forever` stop an instance, so the runs do not check for deadlock:
the system itself can always be called again. Values, adds, passes, calls and threads are symmetric. The sweep's instance is
bounded in claims, closures and what a slot is heard; its third claim only comes where
callers close none (`ThirdStands`). For the vector file, two commits are
one to write and one to erase, reword or clear, with any number of batches rolled back or
crashed around them; a claim is embedded twice and a turn once (`LastSeq`), which is a row
rewritten and a row given from one table to the other. A batch
begins only while commits are left. For `turns`, two calls
are what a race needs, two turns are a turn and its repeat or its contradiction, and the
mishap is whatever comes between; re-reads are unbounded. For `documents`, re-adds are
unbounded too, and two stores are a change of content. For `stores`, two processes that both open, write or clear and a third that may only read the lock
file; four opens are a crash in the step and a reopening by each other. For `lists`, two commits are one to notice and one that slips by.

Fairness. Safety runs assume none: nothing obliges a caller to call. `FairSpec` of `Turns`:
a call that has read commits, and one that found a new turn stores it, because no step
between waits for anything but SQLite's write lock, which is held for a batch and never
across a model call; the model answers in the end when asked again and again (strong, because a failing answer ends the
attempt); and a turn that stays in `pending_extraction()` is read again by the
scheduled sweep `reextract()` is there for (docs/INTERNALS.md:1315), the durable list being
the turns themselves. Crashes are bounded, so a fair behaviour has finitely many.
`FairSpec` of `Documents`: a call goes on, its model answers in full in the end, and a
caller adds a document again until it is done, which is what its error message asks for.
`FairSpec` of `Handles`: a call in progress goes on and a block ends its transaction; the
creation lock and the write lock are polled by whoever waits, so a lock that is free again
and again is got. Nothing obliges a process to open, write, clear or close.

## Proofs

`LedgerProofs`, first of the calls, needs no bound: any statements, writers, instants, predicates and number of
writes. It assumes what `Claims`, `Reconcile` and `Ledger` assume of their constants.

- `TypeCorrect`: `Spec => []TypeOK`.
- `OneClockMoves`: `Spec => ClosesOneClock`.
- `PastBeliefStays`: `Spec => PastBeliefKept`.
- `ExpiryStays`: `Spec => ExpiryStaysInScope`.
- `ApplyKeeps` of `ReconcileProofs`, on which both rest: one call of the reconciler leaves a
  well-formed table in which each stored claim is still there, changed at most in its expiry
  and in one clock.
- `ApplyStems` of `ReconcileProofs`: what such a call stores says what the incoming claim said,
  and it moves no expiry but to one the incoming claim names.
- `LoopsFindGapsAlways` of `ReconcileProofs`: `LoopSpec => []LoopsFindGaps`, for any number of stored
  claims. Every other theorem speaks of `EarlierEnd` and `Gaps`, which `Reconcile` defines by a greatest
  start and by maximal runs; this one says that the code's loops compute them.

The argument goes from the inside out. `CloseOutCloses` says what one closure does to one
claim, as a relation `ClosedBy` that is transitive for closures of one kind; `RepeatKeeps`,
`StoreKeeps` and `RetireKeeps` lift it to tables; a lemma for each branch of `apply` says
which of those effects it composes; `ApplyKeeps` joins the branches. `EarlierEndType` and
`CompetesToType` show that the instants at which a new period is cut exist and are instants,
through the least element of a set of naturals. Every call is then a step of the relation
`Moved`, with one kind of closure, and the first three theorems follow by one lemma per action.
Of the loops, `LoopInv` says that the walk has passed no start that nothing reaches past (`Walks`),
so that where it stops is the greatest; and that what the sweep has passed is covered by `reached`,
that the instant before `reached` is held, and that the gaps found are those that begin before it
(`Sweeps`). `NextGap` then says that the next unheld run is one gap and the only one up to the next
span. TLC checked `LoopInv` on the instance of `uncovered`. `ExpiryStays` needs more than the relation says: `ApplyTouches` names the claims a call may
touch at all, and that an expiry is moved onto repeats at the writer's own scope only.

`LedgerProofs` then proves what matters most about the slot, and about what a read makes of it.

- `OneValueSeenAlways`: `Spec => []OneValueSeen`.
- `OneValueAlways`: `Writers = {} => (Spec => []OneValue)`: without adds in flight.
- `HeldOnceAlways`: `Spec => []HeldOnce`.
- `ForgottenAlways`: `Spec => []ForgottenForGood`.
- `OneLevelRead`: `Spec => []ReadsOneOpenLevel`.
- `AnsweredAlways`: `Spec => []StillAnswered`.
- `SaidIsHeld`: `NoneSupersedesItself => (Spec => []SaidIsHeldUntilKnown)`.
- `SaidIsRead`: `NoneSupersedesItself => (Spec => []ReadsWhatWasSaid)`.

`OneValueSeen` is not inductive: it speaks of two claims that overlap, and a later call can
end either of them, retire either, or store a third between them. `PairsInv` says of every
two claims that they are *resolved*, if their slots compete: one follows the other's end, or
one is hidden, retired or disputed, or the later one's turn was read before the earlier one
was recorded; that they are *apart*, if they state one value: they share no instant, or one is
retired or hidden, or the later one's writer did not see the earlier one or may not move its expiry, or the
same excuse holds; and that nothing is recorded or begun ahead of the clock.
`StaysResolved` and its counterpart for `Apart` show that every effect the reconciler has on a
table keeps a pair settled. `Compete`, `Extend` and `Retraction` show that a stored piece is
resolved against each claim it meets, through what `Occupants` and `Victims` contain. That the
pieces are apart is a fact about `Gaps`: they lie outside everything that is held, and any two
of them are disjoint, being maximal.

`HeldOnce` and `OneValueSeen` follow from the invariant. `ForgottenForGood` needs of it only
that nothing is recorded ahead of the clock. The two theorems about reads rest on
where a claim is filed (`FiledAtSlot`) and on the shape of a reader's chain: what
shadows a claim is at a narrower level of the same chain, and a non-empty set of levels has
a least one, so following what shadows what ends at a claim that is read.

`SaidIsHeldUntilKnown` speaks of a call that has not been made: what would `Apply` leave, for
any statement, in any state. Each instant before the cut is in a claim that covers the whole
period, in a claim that holds part of it, or in a gap, because the run of
unheld instants around it has a least and a greatest member (`HeldOrInPart`). From the cut
on, a value that begins later has ended the period (`Compete`), or stored claims of the same
value take over without a break, which is what `_earlier_period` looks for
(`TakenOver`). The closures of the same call reach none of these claims, because what a claim
displaces is another value. That last step fails where a predicate is listed in its own
`supersedes`, which nothing in `schema.py` refuses (lines 96, 198 and 956): `_victims` then
leaves out the comparison of values and ends an earlier claim of the very value. TLC finds
`SaidIsHeldUntilKnown` violated, by one `remember()`, on the instance of `ledger` with
`<<home, home>>` in `Supersedes`. No predicate of `BUILTIN_PREDICATES` supersedes any; one that a
schema file declares may, and may name itself by an alias. The theorem has
the hypothesis `NoneSupersedesItself`; the model does not assume it.

`ReadsWhatWasSaid` takes each branch of `Apply` with the claim that will answer: a value
counted again is live where it is and is seen from the writer's scope; one stored in pieces has
a piece that holds now, or now lies in a period that is held; and no closure of the same call
reaches the claim that answers (`RepeatAnswers`, `StoreAnswers`, `RetireAnswers`,
`CompeteAnswers`). What answers at the writer's own scope is shadowed only by a narrower level,
and no level is narrower than the reader's own (`OwnIsRead`). The exception for a date that may
mean an instant to come was found in looking for this proof: a claim that has not begun
"holds" an imprecise date before it (`_covers`), so the caller's statement is counted on a claim
that no read gives back yet.

`DocumentsProofs`, for any calls, contents, adds and mishaps, assuming that a document has
finitely many chunks and at least one:

- `TypeCorrect`: `Spec => []TypeOK`.
- `ClaimsStayBacked`: `Spec => []ClaimsAreBacked`.
- `TextStaysWithDocument`: `Spec => []TextGoesWithDocument`.
- `StoredByCallersOnly`: `Spec => OnlyCallersStore`.
- `DoneIsRead`: `Spec => []DoneMeansReadOnce`.

The invariant is those properties and what they need of the types: the ids in use are below
`serial`, there is at most one document, and what a call holds is a record of the expected
shape. `FreshExists` finds ids for the new chunks, `ReleasedBacked` and `LearnedBacked` say
what releasing and learning do to the claims, and `StoreStep` joins them: the chunks kept are
the document's, the fresh ids are new, and what is dropped is neither. Every other step is
`Kept`: it leaves the document as it was, but for its status.

`DoneMeansReadOnce` needs an account of what is still to be done by calls whose work no table
shows. `ReadingInv` says, of a document whose content did not come back under a call: if
it is done nothing is left of it to read, and each call of its present content still owes
what is left (`Owes`), at every stage: the chunks it stored or kept, then those it gathered,
then those a model answered, then none. A kept chunk is not gathered again when some claim cites it, so
the invariant also says that what a claim cites was read. TLC checked it on the instance of
`documents`.

`HandlesProofs`, for any number of processes, any widths and any number of opens:

- `TypeCorrect`: `Spec => []TypeOK`, with which at most one process creates, clears or writes.
- `OpensFinished`: `Spec => []FinishedWhenOpen`.
- `MapsStay`: `Spec => NoMapIsCut`.
- `WidthStays`: `Spec => OneWidth`.

`LocksHeld` ties the locks to where each process stands; with it, whoever clears is alone but
for processes that are handing their lock over. `MapsAgree` is what
holds the two action properties up: a map that is not in `lapsed` is of the width in the
file's header and of a vector stored, and of one stored before the open transaction unless
that transaction's process stored the first. So two such maps agree, and a process that
attaches for what it sees stored cuts none of them (`AttachedAlike`, `SeenAlike`). It also
shows that a map that was cut is always in `lapsed` afterwards.

`VectorFileProofs`, for any number of processes, threads, items, rows, wordings and commits:

- `Invariance`: `Spec => [](IInv /\ Accounting)`, and from it
- `TypeCorrect`: `Spec => []TypeOK`;
- `OneOwnerEach`: `Spec => []RowsHaveOneOwner`;
- `RowsMatch`: `Spec => []RowsMatchTable`;
- `MapsPointHome`: `Spec => []MapPointsHome`;
- `ErasedIsGone`: `Spec => []ErasedLeavesNothing`;
- `NothingInvisible`: `Spec => []SearchFolds`.

None of the five safety invariants is inductive alone, and they lean on each other. That a
stored vector is in its row survives a rollback because an open batch differs from the table
only in what it touched and never moves an item that is stored (`Diverges`), or has cleared
everything and is alone with the store (`Cleans`). That an erased vector is in no row
survives the window after a rollback because a row nobody owns is blank or is one that a
repair to come will blank (`NothingLeft`), and the repair finds it through the process's map,
which holds nothing unknown to the database but what is still to be repaired or is erased for
good (`Known`). Writes go by the map too, so all of it rests on `MapPointsHome`. `SearchFolds`
needs an account of the numbers each connection answers with (`Watches`) and of the two
halves of a load (`Loads`): a commit between them is read by neither. `IInv` then says that a
thread with no commit to read has mapped every vector above the watermarks (`ReadsOn`);
`Accounting` says of those at or below them that they are mapped, in `passed` or being changed
by the process itself, which is proved on top of `IInv`, action by action
(`AccountingKept`). TLC checked both before they were proved. What a step does to the
tables, to the file and to a handle are lemmas of their own; one lemma per action joins them.

`ListsProofs`, for any number of threads, claims, periods, commits and instants:

- `Invariance`: `Spec => []IInv`, and from it
- `NoSearchMisses`: `Spec => []NothingMissed`;
- `NoSearchIsStale`: `Spec => []NothingStale`.

The two properties speak of an answer; the invariant says what makes it right at each stage.
`Offered` is the list kept together with those that searches have read and will keep unless
the lists are emptied before. Each of them serves every search that has looked for commits
since the last one (`Served`), holds what is stored once all commits are noticed (`Noticed`),
and its claims are live at every instant it answers for (`Lasting`), which is where the
cut at the next begin or end of a claim is needed. A list that was read before the lists were emptied is not
offered, by the count of `writes` that `Keep` compares. `Mapping` and `Finding` carry this
through the fold, the rows and the answer. `LeastExists` gives the instant at which a list
lapses. TLC checked this invariant too, on the instance of `lists`.

`TurnsProofs`, for any finite number of calls, any texts, adds and mishaps:

- `Invariance`: `Spec => []IInv`, and from it
- `TypeCorrect`: `Spec => []TypeOK`;
- `CitesAlways`: `Spec => []CitesStored`;
- `HeardAlways`: `Spec => []HeardAsSaid`;
- `ClosuresAlways`: `Spec => ClosuresStand`;
- `Refinement`: `Spec => WritesTheLedger`, that is, `Turns` implements `Ledger`;
- `SaidInvariance`: `Spec => []SInv`, and from it
- `SaidAgainAlways`: `Spec => []SaidAgainIsBelieved`;
- `RetryAlways`: `Spec => RetryConverges`.

The model assumes that the place where its texts speak is the scope of a slot
(`SlotScope(Topic, Here) = Here`) and that the calls are finitely many, without which "how many
calls are at a turn" is no number. `IInv` is the types, `CitesStored` and `Counting`: for each
turn, what a claim is counted for it and the calls that have still to count it are together no
more than it was said, unless two calls were reading the turn at once. `HeardAsSaid` alone is
not inductive, because a call holds its count from the moment it has the turn until its batch,
and nothing in the claims shows it. Deleting a turn needs `CitesStored`: citations of it go
with it. TLC checked `CitesStored /\ Counting` on the instance of `turns`.

The refinement maps `claims`, `writes` and `now` to themselves and `began` to the instant of each
call that is past its first read. `BeginAdd` and `Reread` are the Ledger's `BeginAdd`; `Commit`
is its `CommitAdd` when it reconciles a candidate and its `Leave` when there is none; `Crash` is `Leave`;
`Remember`, `Delete`, `Erase`, `Purge` and `Tick` map one to one; the steps between a first read
and a batch are stutters. The reconciler is the same on both sides, which the proof establishes
operator by operator for the two instances. The proof found that the Ledger's statements were
too narrow: a model may read a value out of a turn that no caller speaks of (`Yields`).

`SInv` adds four parts to `IInv`. `Telling`: a call brings what its turn says, dated when it was
said, and counts the turn only on claims that say the same. `Placed`: nothing in the book begins
or ends after now, and what a retraction leaves is over by now. `Rendered`: a claim states what
the turns it cites say. `Alone`: while one call alone reads a turn, no claim cites that turn, and
no other call has anything to count it on. `SaidAgainHolds` needs the middle two: a turn that is
a repeat has a believed claim that has not ended, so by `Placed` it is live, and by `Rendered` it
says so. That `apply` keeps them is `ApplyInParts` and `ApplyPlaces` of `ReconcileProofs`: what it
stores of a value begins with the incoming claim or where a stored one ends, ends with it or
where a stored one begins, and what it ends, it ends where the incoming claim begins.
`CommitConverges` uses `Alone`: all that cites the turn after its batch was stored or counted by
that batch, and each of those goes on past the date of the turn (`ReinforcedGoesOn`), or, of a
retraction, is no longer believed. The attempt to prove it found that several calls
reading one turn at once had to be left out, and TLC showed it with three: the first stores a
claim that another value ends, the second stores the value anew, and the third counts the turn on
that claim when it has been retired, so all that is believed of the turn has ended.

`SweepProofs`, for any number of passes, claims, slots, phrases and stages, any page, window
and neighbourhood, and any `Fade` as `SweepAssumption` has it:

- `SweepTypeCorrect`: `Spec => []TypeOK`.
- `SweepKeepsEvidence`: `Spec => EvidenceKept`, that is, `Sweep` implements `Evidence`.
- `SweepFadesNoFaster`: `Spec => []FadesNoFaster`.
- `SweepLearningKept`: `Spec => LearningKept`.
- `SweepPassIsIdempotent`: `Spec => []PassIsIdempotent`.

The invariant `IInv` has a part for the table, `RowOK` of each claim: its strength is at least
the floor, a believed one lies on or above its curve and names no survivor, a retired one was
retired by now. Its other part, `PassOK`, says what each pass has in hand, because a window is
written long after it was decided. A pass that reads holds rows that were believed (`Reads`);
one that writes holds a `Decision`: what each row it read `Becomes` keeps what the claim
learned or is retired, and each slot's merged rows lie in one unit and carry the same total of
observations before and after (`Whole`). Without that, nothing would
follow of the window: the digest only says that the rows of a unit are still those that were
read, and `WrittenIs` concludes from the two that the total of a slot is unmoved.

A merge is a fold over the rows and the counts are sums over sets. `SubsetInduction` proves by
the cardinality of subsets what holds of every finite set, with a set in place of a predicate;
from it come the function that a fold computes (`FoldExists`, `FoldsAgree`), that it keeps what each
step keeps (`FoldType`), and the totals of sets (`TotalAdds`, `TotalOfBoth`). `MergeSteps` then
lifts what one cluster does (`MergedAtIsGood`) to a whole merge. The refinement has one lemma per
action. Only `Restate` and `Say` are `Hear` of the abstract specification, `End`, `Retire` and
`Erase` are its `End` or `Withdraw` or a stutter, and everything a pass does is a stutter. The
proof found the mapped `fate` ambiguous for a claim that was ended and then retired by a caller,
for which two arms of a `CASE` held at once: being taken back now comes first.

For the second pass, `MergedAtSettles` and `MergedIsApart` show that of two rows alike, one at
least was absorbed when the turn of the one that comes first in the text came, or before:
so what is left is pairwise unlike wherever it is compared, in slots where everything is
(`AllFollow`). Similarity is symmetric, so it does not matter in which order the second pass meets
two rows: ranks move when counts are pooled. Each row that is left lies on its curve at that instant, where decay
leaves it (`SettledStays`), and has been promoted if it was due.

TLC checks the last four on the instance of `passes`. It did not check `IInv` itself:
`Writes` quantifies over decisions and a total is chosen among functions, both without a bound.

Only model-checked:

- Liveness: `EventuallyRead`, `EventuallyDone` and `WaitsEnd`, under fairness, which the prover
  cannot state.

## Plan

What `LedgerProofs` proves of every behaviour of `Ledger` holds of `Turns` by `Refinement`; it is not
restated as theorems of `Turns`, whose names the Ledger's would clash with. To model next: the
maintenance passes of the reconciler (`backfill_entities`, `merge_predicate`), which rewrite the
keys that `Reconcile` fixes, and `link`.

## Not modelled

Ranking, embedding, prompts, text normalisation, chunking, ingestion and encryption transform
data without protocol state; servers, clients and adapters turn one request into one call of
the API modelled here. What each schema migration rewrites runs once on a file nobody else
may write. Confirmation tokens are a signature and a deadline over a list of ids, and what a
confirmed call does with changed claims is `ForgetMatching`. The hook that recalls before a
prompt keeps files of its own, one per session, and shares no state with the claims. The erasure record and `residue()`
read back what the erasures of `Ledger`, `Turns`, `Documents` and `VectorFile` did, row by row. `reembed`
is a clear and a series of batches, as in `Handles` and `VectorFile`, and `merge_predicate` rewrites keys,
which this model fixes. Hosted deployments and their store are not in this repository.
