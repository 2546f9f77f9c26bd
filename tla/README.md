# NovelCanon: TLA+ models

NovelCanon turns a long novel into a database of evidenced facts: an LLM
extracts drafts chapter by chapter, the drafts are aligned with the text and
stored as versioned claims, and queries are answered from the *active* run of a
book. This directory holds TLA+ modules that model the parts of the program
where several actors, crashes or long command sequences meet, the TLC
configurations that check them, and TLAPS proofs of what matters most.

All source paths below are relative to `src/src/novelcanon/`.

## 1. Inventory of the system

| Component | State it keeps | Operations | Correct when |
|---|---|---|---|
| Run lifecycle (`pipeline/run.py`, `pipeline/validation.py`, `cli.py`) | `extraction_runs.status` | create, transition (compare-and-set), fail, abandon, Validator.issues, Activator.activate, finish_run, the commands extract, activate, run-abandon | a book has at most one active run and keeps being served by it until the next one takes over in one step; nothing passes the gate unvalidated unless an operator forced it; final statuses stay |
| Chapter pipeline (`pipeline/runner.py`, `checkpoint.py`, `ledger.py`, `extraction/staging.py`) | `run_checkpoints`, `map_drafts`, `token_ledger`; in memory the queue, the writer's batch and counters | one coroutine per chapter (look up, call with retries, put), one writer (batch, flush) | resume redoes only what is missing; checkpoint, draft, summary and ledger agree; a run terminates; reuse names the true origin |
| Call governance (`pipeline/ratelimit.py`) | tokens of a bucket | acquire, delay_for | no more than the configured rate, nobody starves; no code of the repository builds a bucket |
| Map extraction (`extraction/map_pipeline.py`, `generation/segments.py`, `generation/parser.py`) | none (per call) | segment, request, repair, merge, validate | bounded repairs, all usage accounted, segments cover the chapter |
| Claim store (`storage/repository.py`, `extraction/materialize.py`) | `claims` (append-only versions), `claim_observations`, participants, mentions, aliases | write_claim, observe, set_claim_status, set_primary_evidence | version chains are linear; a re-run is idempotent; runs do not disturb each other |
| Evidence alignment (`evidence/*`, `storage/evidence_policy.py`) | `claim_evidence` per claim, span and verifying run | align_run, align_chapter, aggregate status | a supported claim of the active run has evidence of that run |
| Entity resolution (`resolution/*`) | `entity_resolutions`, splits and merges | plan, apply, split, merge | a mention has one canonical entity per run |
| Event links (`events/*`) | `event_links`, observations and verifications per run | link, verify, causal paths | cycles do not trap the path search; links follow the run that verified them |
| Summaries (`summaries/*`) | `summary_artifacts`, volume groupings | regroup, reduce, mark stale | no valid summary rests on a stale one |
| Retrieval index (`retrieval/indexer.py`, `fts.py`, `vectorstore.py`, `chunker.py`) | `index_versions`, `raw_chunks`, embeddings, FTS rows | build_index, rebuild_chapter, hybrid search | the active version is complete, its vectors are of its profile |
| Structured queries (`query/service.py`, `graph/queries.py`) | the active run id, cached per instance | current version, history, world state, relations, causal paths | readers see the active run only, never beyond their cutoff |
| Query execution and cache (`query/executor.py`, `cache.py`, `router.py`, `synthesis.py`) | `query_cache` | ask | a cached answer is the answer of the state its key names |
| Query API (`api.py`) | worker pool, admission counter, rate limiter, backend cache | query, timeout, shutdown | admission bounds the undone queries, slots come back, shutdown strands nobody |
| Storage (`storage/engine.py`, `backup.py`, `migrations.py`) | the SQLite file | transactions, backup, restore | one transaction is one step |
| Ingestion (`ingestion/*`) | `books`, `volumes`, `chapters` | import | chapters tile the text, chunks cover the chapters |
| Compression, evaluation, operations (`compression/*`, `eval/*`, `ops/*`) | reports | offline experiments | not concurrent, see below |

### How the components interact

Every CLI command is an operating system process, and so is the API server;
they share the SQLite file and nothing else. `extract` drives the chapter
pipeline and leaves its run *running*; `align`, `link`, `resolve` add claims,
evidence, links and projections to it in many small transactions; `activate`
(or `finish_run`, in the evaluation driver) makes it the run that queries read.
Inside `extract` an asyncio event loop runs one coroutine per chapter and one
writer that meet in a bounded queue. Inside the API an event loop hands queries
to a pool of threads.

### What is hard here

* **Interleaving of processes.** The sqlite3 driver issues BEGIN in front of the
  first write, so every "read, then write" inside one transaction block is a
  read outside it (`validation.py:80`, `repository.py:196`).
* **Crashes between transactions** of one command.
* **Shared rows with per-run meaning**: a claim version is shared by all runs,
  its status and primary evidence are columns of the shared row.
* **Bounded queues, batches, retries and rolled back batches** in the pipeline.
* **Stale reads**: the active run, the index version and the cache key are read
  once and used later.

Each hazard, with its line and the properties that watch it, is listed in
`PROJECT.json` under `hazards`.

## 2. Plan

The order in which the modules were written, the most important behaviour first:

1. `ActiveRegister`, `RunLifecycle`: the core, because every query depends on the
   status of runs.
2. `ChapterPipeline`: the concurrent heart of an extraction.
3. `QueryPool`: admission, cancellation, slots and shutdown of the API.
4. `ClaimStore`: claim versions shared by runs, crashes inside an align.
5. `RetrievalIndex`: build and rebuild against failures and searches.
6. `StoryQueries`, `Projections`, `QueryExecution`: what resolution and linking leave in
   the database, what every query makes of it, and the cache over it. They are one
   system: each module EXTENDS the one before it.
7. `Summaries`: groupings and reductions that overlap.
8. `SpanMatch`, `MapExtraction`: one chapter from its windows to its evidence.
9. `BookText`, `BookImport`: from the lines of a file to chapters, volumes, chunks.

All of these are checked and proved about. The proofs of 1 to 5 and 7 are in `<module>Proofs`, those
of 6 in `AnswersProofs`, those of 8 and 9 in `TextProofs`. What is left is liveness, which is
model-checked only (section 6), and two pure algorithms without a module, the fusion of ranks and
the status aggregation over the stances a non-default verifier may yield.

## 3. Modules

### Run lifecycle

`ActiveRegister` is the abstract promise: per book a register holding the served
run, changed only by publishing another run of that book.

`RunLifecycle` has one variable for the table (`status`), one for what the
validator would find (`clean`), and the local state of each process (`pc`,
`at`, `current`, `step`). One action is one transaction. `Check` and `Swap` are
the two halves of `Activator.activate`; `Create`, `Begin`, `EndExtract` are the
extract command, `StartFinish`, `Gate`, `Reject`, `Promote` are `finish_run`,
`Activate` and `Walk` the activate command, `Abandon` run-abandon. `Crash` ends a
process between two transactions (also when a write waits longer than the busy
timeout). `WriteProducts` lets the validator's verdict change at any time,
because align of any run writes to shared rows. `passed` and `forced` are history.

`RunLifecycleProps` states the properties, `MCRunLifecycle` gives TLC two books, three
runs (two compete for one book) and two processes. `Settles` is the liveness of a run
that is being finished: compare-and-sets of overlapping commands fail each other, and
still somebody brings the run to an end.

### Chapter pipeline

`ChapterPipeline` models `PipelineRunner.run`. Per run and chapter: the checkpoint
row, the staging row, the calls the ledger accounts for, the coroutine
(`worker`, `misses`, `item`); per run the queue, the writer's batch, the chapters
taken and the counters. A step is what happens between two awaits. `LookUp` is
`find_done` (any run's row, in no order); `CallSettles`, `CallRejected`,
`CallMisses`, `BookingFails` are the ways an attempt ends; `Put` waits while the
queue is full; `Take` is one round of the writer, with the flush of a full or last
batch committed or rolled back; `Kill` ends the process. A payload is the name of
the run whose provider answered; all runs use the same versions and contents, so a
checkpoint key is a chapter. Token amounts are left out: the ledger is a number of
calls.

### Query pool

`QueryPool` models `_execute_query` for a synchronous executor together with
`_DaemonQueryPool`. A request has a `stage` (where its handler is, or its response), a
`future` and a done `callback`; a thread has a place in `_run` and a `job`.
`Submit`, `Count`, `Watch` are three steps of the handler without an await between
them, so `LoopFree` keeps other handlers and shutdown out, but not the threads: a
query can be done before it is counted. `Answer` and `Expire` are the two ends of
the poll; `Expire` includes the cancel, which may come too late. `Idle` and `Recheck`
are the two halves of an idle poll, because the flag is read without the lock.
`Finish` and `Notify` are the two halves of `set_result`. `Close`, `Drain`, `Wake` are
`shutdown`. `concurrent.futures.Future` and `queue.Queue` are external. The counter's
`+=` and `-=` are atomic steps: the interpreter the project requires (`>=3.13,<3.15`,
with its global lock) does not switch threads between the load and the store of
such a statement.

### Claim store

`ClaimStore` models what `align` writes and queries read. A claim's version id is a
hash of fact, operation and payload, so all runs that read the same thing share one
row: `rowid`, `supersedes`, `disclosed` (`observed_ordinal`), `status` and `primary` are
functions of the version. What belongs to a run is `observed` and `evidence`. The
align command walks through its draft, and each transaction is an action: `Reobserve`
or `Select` with `Insert` (`write_claim`), `SetPrimary`, `WriteEvidence`, `SetStatus`
(`materialize_draft`), `Finish`. `Select` and `Insert` are two steps because the driver
begins the transaction in front of the INSERT; hence `InsertFails`. `RefuseRevision` is
the ValueError for an update of nothing. `Crash` ends a command anywhere; `Start` runs
it again, as often as one likes and whatever the run's status, as the command does.
`Gate` is the claim part of `Validator.issues`, `SkipGate` the activate command, which
does not ask the validator. `aligned` (an align went through) and `overlapped` (two
commands ran at the same time) are history.

A draft is the sequence of claims for which anchor matching found a span, in the
order of chapters; which claims these are is free (`Drafts`), as it depends on the model
and the text. A span is named by its chapter, one per claim. The default verifiers know
one stance only, so the aggregated status of a claim with evidence is *supported*.
Rows from before the migration that added the verifying run are left out.

`Answered` is what a query at a cutoff returns: the version with the largest rowid
among those the run observed and the cutoff discloses, if supported and no
retraction, with this run's evidence.

### Retrieval index

`RetrievalIndex` has the tables `index_versions` (`status`, `config`), `raw_chunks` with the
embedding record (`row`), and the chunk ids with FTS rows (`shown`). A chunk id is a hash of
chapter, chunking version and position, so builds with the same chunking replace each
other's rows; a record id is the largest in use plus one and is given out again after a
cascade, so that a vector computed meanwhile may go to another chunk's record. `Start`,
`Write`, `Store`, `Activate` are the transactions of `build_index`, `StartRebuild`, `Delete`,
`Write`, `Store`, `EndRebuild` those of `rebuild_chapter`; `Store` comes after the embedding
service has answered. `Fail` ends a command anywhere and cleans up nothing, as the code.
The search is a reader with one action per statement of the hybrid path, and its refusals.
What a command has still to do is the set of places in its version, of which it takes the least
next. `touched`, `overlapped` and `gaps` are history: which versions lost rows to others, whether
commands overlapped, and which chunks a rebuild has taken away and not yet brought back.

### Queries, projections, execution

`StoryQueries` has one operator per public query of `QueryService` and of the entity
graph, a function of the database `db`, the reader's cutoff and a world time.
`Projections` adds what fills the database between align and activate: mention rows
(`Align`), the plan and the steps of `resolve` (`Ensure`, `Audit`, `Project`, `Rewrite`,
`Unresolve`, one transaction each), those of `link` (`WriteLink`), and processes that die
(`Kill`). Tables shared by runs are shared here, too. A plan is made when the command
starts and carried out against whatever the tables hold by then: it is a set of decisions with the
rank `plan` gives each (the resolved first, name by name in the order the names are met, then the
titles), carried out in a sequence that respects the ranks. `QueryExecution` adds
`QueryExecutor.ask`: `Ask` makes the key, `LookUp` asks the cache, `ReadRows` and
`ReadEvidence` are separate reads, `Store` writes the answer under the first key,
`ModelFails` is the fallback of the synthesis, which is not cached. `AnswersProps` states
the properties of all three and `MCAnswers` the book of two chapters they are
checked with; for the readers the book is cut down to one person. `CutoffBlind` compares every page with the page over a database from
which everything later was removed; it is a specification of the cutoff independent of
how each query applies it. One choice it takes from the whole book, as the code does: the term
a question is about (`FindTerm`), the longest name in the question among all rows of the table,
those of other books (`OtherTerms`) included. What is then said of that term is compared.

### Summaries

`Summaries` models `group-volumes` and `summarize`. A version is a numeral, compared
as text like `MAX(grouping_version)`, in a numeral base `Base` that makes the carry
reachable; `Group`, `WriteGroups`, `StaleOld` are `group()`, `ReadMemories`, `LookVolume`,
`SaveVolume`, `LookBook`, `SaveBook` the reduction, `Upsert` the row logic of
`_upsert_summary`. `Change` is an align or an activation, which alters what the memories
are made of; `Fail` ends a command between two transactions. `settled` (a whole-book
summarize has just run alone, with nothing left over) and `leftover` (a summary of another grouping may have
been left valid) are history. `Timely` says whether a command still works on the current
grouping: two commands that overlap can each write one, and the one that ends the
summaries of the others need not be the one whose grouping is the current one.

### Map extraction and evidence

`SpanMatch` holds the pure algorithms: the windows of a chapter (`Split`), the way back
from a window to the chapter (`RefSpans`), anchors, candidates and the literal verifier
(`Proofs`). Texts are sequences of characters, of which some are punctuation and some
end a sentence; a character is a token, as for `FakeTokenizer`, the default of the command line
(`retrieval/tokenizer.py:45`). With the tiktoken adapter (line 60) a character can be several tokens, and
the piece of one character that `segments.py:107` and `segments.py:123` force can exceed the window; that is
outside the model. `MapExtraction` puts them together: `Request` is
a call of a window (with repeats while the answer is no JSON), `GiveUp` a client that
raises, `Invalid`, `Repair`, `Finish` what `process` does with the merged answers, and `Align`
is `align_chapter` on the draft that came out, so the module composes extraction and
alignment. The id of a claim is the sequence of its words, because the code reads ids off the texts of
issues: `Message` is such a text as far as it matters, `MissingIds` and `Troubled` what
`_missing_quote_claim_ids` and the repair make of it. The filters of the code are `Only` (module `Sublists`), a filter by membership that
the provers can follow. The claims of a finished draft are a set: each has an id of its own by then, and
nothing reads their order. The order of the answers of `asyncio.gather` is free.

### Books

`BookText` is the parsers of TXT and EPUB and `chunk_text` over lines known by their
kind: title of a chapter, of a volume, navigation, a list of titles, prose, blank; each loop of a
parser is a recursive function over what it has read so far. A table of contents is a sequence of points, each
a sequence of the sets of entries that the leaves under its own points lead to, at whatever depth; the last
leaf of an entry counts (`Meta`). `BookImport` is
`import_book` row by row (`CreateBook`, `CreateVolume`, `CreateChapter`), with imports that
die (`Kill`) and overlap, beside `group-volumes` over the book's own volumes (`Group`), which
either fails (`Headless`), leaves the current grouping as it is, completes the rows of an import when they are
the expected ones by number and title (`Matches`), or writes a new version. Versions are
numbers here, at most nine, up to which they sort as the text the code compares; what happens from the
tenth on is in `Summaries`. `BookImportProps` takes the stored chapters, and the chunks of each, and compares them with
the stored text.

## 4. Runs

| Run | Question | Bounds |
|---|---|---|
| `lifecycle` | the register refinement, one active run per book, the gate, the ways out of a final status, and that a run being finished does not stay half way | 3 runs, 2 books, 2 processes, 3 commands, 1 crash: two commands overlap on one run or on two runs of a served book |
| `pipeline` | safety of the pipeline | 2 runs, 2 chapters, queue of 1, batches of 2, 2 attempts, 1 kill, 1 failed transaction: full queue, incomplete batch, rolled back batch, reuse, retry and resume after a kill all occur |
| `pipeline_live` | a run that is not killed returns | 1 run, 3 chapters, batches of 2: the last batch is incomplete |
| `query_pool` | slots, the bound on undone queries, late starts, shutdown; nobody waits behind a hanging query, a saturated pool recovers | 3 requests for 2 threads and slots: saturation, reuse of slots, a shutdown with queued, picked and running queries |
| `claims` | version chains, traceability of an aligned run and its answers at every cutoff | 2 runs, 2 facts, 4 versions, 2 chapters, 4 drafts of up to 3 claims; commands, repetitions and crashes are not bounded: a fact is asserted, updated and retracted in one draft, revised without its assertion in another, met in a later chapter or twice in others |
| `index` | what a search finds while indexes are built and rebuilt | 2 chunks in 2 chapters, 3 configurations (another chunking, another embedding profile), 2 commands, 2 builds, 1 rebuild, 1 failure, 1 search: a second build takes over the first one's rows while a rebuild and a search run |
| `summaries` | summaries after overlapping and failed commands | 2 chapters, volumes of 1 or 2, 3 states of the claims of 2 runs, cutoffs none and 1, 2 groupings, 1 change, 3 commands, 1 failure |
| `pages` | merges on record, pages at a cutoff, links of the served run | 2 runs of a book of 2 chapters and 11 claims with 3 mentions, 3 terms of which one is another book's, 2 processes, 3 commands, 1 cutoff, 1 world time, processes may die at any step |
| `answers` | answers and cached answers across activations | 2 readers, 2 questions, 1 command and 1 rebuild of summaries beside the activations, which are bounded by the runs |
| `extraction` | what reaches a draft, its usage, its references and its evidence | 5 chapters of up to 11 characters in windows of 5, 8 answers and one that is no JSON, claims with ids of one word and of two, 2 repairs; spans of 4 characters |
| `import` | chapters, chunks and volumes | TXT of up to 4 lines of 3 kinds, EPUB of up to 3 entries of 4 kinds with 2 tables of contents, an EPUB of 3 entries whose table of contents is in another order, names an entry twice, one point for two entries, and entries that are not there, 2 commands and imports, 1 kill, 2 groupings; chunks of at most 3 or 10 tokens with an overlap of 15 % and 100 % |
| `import_volumes` | one statement of the repository the code does not keep | one book of two volumes |

The bounds are those at which every action fires and each hazard in `PROJECT.json`
has room to happen: two of whatever competes, and one more than a queue, batch, pool,
window or volume holds. The type invariants of the first four modules are proved, so
they are not checked by a run. Constants of the code that only scale (150 characters of
a span, the tokens of a window, the base 10 of a version) are small in the runs.

Deadlock checking is off where the models bound commands, crashes, runs or requests, so
that they stop. The `claims` run keeps it on: an align can always be started.

**Fairness.** `lifecycle` assumes that a process which is not killed keeps executing
(weak fairness of each process; nothing is assumed of somebody starting a command), and
`Settles` claims nothing once a process was killed. `pipeline_live` assumes that the event
loop serves every ready coroutine and that a call ends: `asyncio.wait_for` and the HTTP
client both have timeouts (`runner.py:212`); it allows no kills. `query_pool` assumes that
threads are scheduled and that the event loop goes on with a handler or a shutdown it has
begun; a query may hang. `PoolRecovers` alone is conditional on `QueriesEnd`, which the
code's comments rest on the timeouts of the embedding and LLM clients (`api.py:90`). The
other runs check safety and assume no fairness.

## 5. Findings

The violation run shows where the code departs from what the repository says of it.

1. `OwnTitlesKept`: the import keeps its volumes under numbers from 0 and looks them up
   under numbers from 1 (`ingestion/service.py:71`). A chapter is attached to the volume
   after its own, those of the last volume to none, and `group-volumes` publishes that.

### Seen in the models, but without a run of their own

Runs and pipeline:

* The activation's UPDATE is no compare-and-set (`validation.py:103`, against the docstring
  of `pipeline/run.py`): two overlapping activations make a run active that is already
  superseded. `OneActivePerBook` holds all the same.
* `activate` walks an abandoned run forward again (`cli.py:567`), and never runs the
  validator (`cli.py:573`); in the model these are the runs in `forced`, and `GateOrForced`
  says there is no other way around the gate.
* Calls the provider rejects never reach the ledger (`runner.py:258`; the comment at
  `runner.py:271` says every attempt does). `CallsBooked` is about the others.
* A tolerated error ratio exempts nothing (`validation.py:27`).
* `PipelineRunner._concurrency` is never read (`runner.py:182`): the model starts every
  coroutine at once, as the code does.

Claims:

* The status of a claim is a column of the row all runs share. A run whose align died
  holds claims without verification; when another run's align verifies the same version,
  the claim appears in the active run's answers with no evidence of that run
  (`repository.py:643`, against `query/service.py:78`). What does hold is `AnswersStand`: once
  an align of the run went through, nobody disturbs it.
* The current version of a fact is the one with the largest rowid, which is the order of
  first insertion by any run, not the order in the book. If run A found only the later
  version of a fact and run B both, B serves the earlier one as current.
* `observed_ordinal` is that of the run that inserted the row. A version another run met
  in an earlier chapter is visible at that cutoff in a run that has it from a later one.
* `primary_evidence_id` is only an accelerator (`materialize.py:357`), but the gate
  insists that it names a row of the run (`validation.py:60`): an align of another run
  moves it and the gate then refuses a completely aligned run.
* Two aligns that overlap can supersede the same row, so that a chain forks;
  `ChainIsLinear` therefore assumes one command at a time, as `Repository` does
  (`repository.py:44`), while `ChainsPointBack` does not.

API: with `cancel_futures=False`, the default of `_DaemonQueryPool.shutdown`, a query queued
behind threads that have just found the queue empty is neither executed nor cancelled
(`api.py:124`). The API passes `True` (`api.py:352`), for which `NobodyStranded` is proved. At
shutdown the backends are closed before the pool (`api.py:345`).

Index:

* FTS rows carry no index version. While a build runs, a search sees the rows of both
  chunkings, though the design says old and new never mix
  (`src/docs/01-工程实现阶段/03-原文导入与索引底座.md`, section 7). `TextStaysFindable` is what remains.
* A build with the chunking of the served version takes its rows over one by one, so the
  served version shrinks until the build ends, and stays so if it dies. `ServedIsWhole` excepts
  these versions (`touched`).
* A late vector can go to a record of another profile, when its id was given out again:
  `VectorsMatchProfile` excepts overlapping commands.

Queries and projections:

* The mention count of the catalog, `world_events_at`, `event_participants` and
  `chapter_citation` know no cutoff; `CutoffBlind` is about all other parts of the pages.
* The term a question is about is the longest name of the table `terms` found in it
  (`query/executor.py:626`), whatever the cutoff, the served run and the book. So a longer
  term of a later chapter, of a run that is not served or of another book hides the shorter one,
  and the question is answered from other claims, or not at all. `CutoffBlind` says that the
  definition given is no later than the cutoff, not which term it is of.
* `org_membership` partitions by ids that are made per chapter, so a *leave* in another
  chapter does not end a membership. Location ids are per chapter too, so no `causes` link
  arises and `causal_results` stays empty.
* A resolution by a run that is not served changes the names and catalog entries of the
  served one: `entity_resolutions` is keyed by mention only (`resolution/service.py:91`). A
  later run that cannot resolve a mention keeps the projection of the earlier one. A
  name stays after the alias was retracted.
* Two resolves at the same time write an audit row twice. A link keeps the chapter of the run
  that wrote it first.
* The cache is keyed by run, index and summaries: a `link` or `resolve` of the served run
  leaves old answers in it, and a refusal of the model is cached. `AnswersOfTheirTime` is
  about runs. The versions the API reports are read after the answer (`api.py:426`).

Summaries:

* Grouping versions are compared as text (`volumes.py:194`): after ten regroupings the
  tenth is older than the ninth, and every later one repeats its number.
* A command that dies between writing the volumes and ending the old summaries leaves
  these valid for good; `OldGroupingsEnd` excepts that (`leftover`). So does a `summarize` that
  began before a regrouping and ends after it.
* A summarize with a cutoff replaces the summaries of the whole book. The summary of a
  volume that has lost all its claims stays valid, and the summary of a book can rest on
  one of a volume that has been replaced: the docstring of `reducer.py` (12-15) promises
  otherwise. `SummariesCurrent` is what an undisturbed summarize establishes.

Extraction:

* Windows are asked independently, so the same local id in two answers makes the whole
  chapter invalid. A window whose client raises loses the usage of its siblings, which
  go on calling: `UsageComplete` excepts it. Only the first answer's envelope is checked.
  An empty chapter always ends invalid.
* A verb of an organisation's action that is a mention's name as well leaves its group (equal
  anchors are kept once), so another verb of the group is then required; a quote that
  is one of the verbs is satisfied by any of them. `Verbs` and `Quoted` state it that way.
* The repair and the removal of claims without a quote find the claims again by the texts of their
  issues, cut at spaces (`map_pipeline.py:224` and `362`), though an id is any string
  (`schemas/draft.py:94`). A claim `c 1` without a quote stays in the valid draft while its issue
  says it was left out (the comment at `map_pipeline.py:274` promises that it is), and a sound claim
  `c` is left out without a record. `QuotedOrRecorded` states what holds with these two exceptions and shows
  that there is no third.
* Two docstrings describe matching otherwise than the code does it: `span_candidates.py:80` calls
  `summary` and `definition` soft anchors and `value` a hard one, and `verifiers.py:36`
  lists `value` among the hard anchors and `raw_value` among the soft ones; the code has all of these the
  other way round (lines 145 to 150). `SpanMatch` follows the code.
* A quote of nothing but punctuation passes the check of the draft but never gets a
  span; a claim without a window passes it but never gets evidence. When only such claims
  are wrong, every window is asked again.

Ingestion:

* `group-volumes` and `summarize` fail for a book whose first chapter names no volume while a later one
  does (a preface): `_source_boundaries` starts with `None` as the current volume and looks for the last
  group of an empty list (`volumes.py:232`, `249`, an IndexError). `Group` has no step there (`Headless`), and
  `VolumesPartition` is about the groupings that are made.
* `epub.py:246` numbers a volume's chapters instead of the volumes. An import run again adds
  the volumes again. A `group-volumes` between two chapters of the first import can find rows that are the
  expected ones by number and title although the chapters name others: it completes them and points
  no chapter at them. `VolumesPartition` excepts exactly that (`complete \/ ~TakenOver`); the
  proof shows that it cannot happen once an import has come to its end. A changed file imported under the same id adds chapters cut from the
  new text to the old one; the model has one file per id.
* The branch for short untitled entries is unreachable. Pages of titles below the
  limit are merged into the next chapter, not kept as one. A book of nothing but titles has no
  chapters.
* With a target below the minimum, `chunk_text` leaves holes; `ChunksCover` quantifies over
  the other configurations.

## 6. Proofs

Eight modules named `...Proofs`, checked by TLAPS for all values of the constants under the
named assumptions of the modules (`LifecycleAssumption`, `PipelineAssumption`, `PoolAssumption`,
`ClaimAssumption`, `IndexAssumption`, `BookAssumption`, `ProjectionsAssumption`, `QueryAssumption`,
`SummariesAssumption`, `SpanAssumption`, `MapAssumption`, `TextAssumption`, `ImportAssumption`,
`ChunkAssumption`). They say what the code itself sees to: numbers
are natural, chapters are numbered from 1, texts, drafts and answers are sequences, a window takes at least
one token (`map_pipeline.py:71`), a claim version is one row, an event belongs to one chapter (part of its
fact id, `schemas/ids.py:76`) and has its evidence there. `ImportAssumption` adds that no volume is
no number, that the table of contents of an EPUB is a list of points, each with a list of sets of entries, in whatever order, and
the bound of nine groupings, which is what makes versions numbers (no step of the proof uses it). Every inductive invariant was checked by TLC first, on the
instance of the component's run.

* Lifecycle. `OneActivePerBook` is not inductive together with the gate property
  unless one knows what a process's program counter implies; `ControlInv` adds that
  a process that promotes has a validated run, that one that checks or swaps has a
  validated or forced run, and that a walk never starts from a refused status.
  `LifecycleInvariance` proves the conjunction. `OnlySwapActivates` and
  `SwapPublishes` then give the refinement of `ActiveRegister` and `FinalStatuses`.
* Pipeline. `CoroutineInv` relates where a coroutine stands to its calls, misses and
  bookings; `StoreInv` says a missing row is missing in both tables; `PendingInv`
  that a chapter done when a run began stays done and never gets to the provider.
  `PipelineSafety` proves their conjunction with `DraftMatchesCheckpoint`;
  `StoresAgree`, `ResumeIsIncremental`, `LedgerComplete` and `GateIsComplete` are its
  consequences. `ReuseNamesOrigin` is proved from `OriginInv`: the rows and results that
  carry an answer point at a run with a checkpoint of its own making. The two runs of
  the TLC instance reuse once; the proof covers chains of any length.
* Query pool. The counter equals the number of `Holding` requests only if one knows
  how stage, future and callback go together (`RequestInv`), that a submitted request
  still has a free slot (`HandlerInv`) and what a thread may hold (`HeldInv`):
  `PoolCounting` and `SlotsAreKept`. `PoolIsBounded` follows because every undone request is
  holding, or is the single submitted one. `PoolKeepsTrack` adds `ThreadInv`, under the
  assumption that shutdown drains the queue, and gives `NobodyIsStranded`.
* Claim store. `AlignedIsTraceable` needs to know what an align that is under way has
  done (`Progress`: the claims before `pos` are traced, the one at `pos` as far as `pc`
  tells) and that only rows are observed or supported (`StoreInv`). `ChainsAreSound`
  adds `Found`: what a command is about to supersede is a row of the fact and, while
  there is one command, still the latest; `RevisionsPointBack` is the part of it that needs no
  such condition. For `AnswersStand` one shows that a step of another run neither changes
  the rows an aligned run observed (rowids, ordinals and its evidence never change,
  supported claims stay supported) nor what it observed; its own repeated align adds
  nothing, because all of its claims are already there.
* The summary of a run. `SummaryIsTheStore` needs, besides `StoreInv`, where a chapter is on its
  way from coroutine to row: in the queue, in the batch or counted, once (`TallyInv`), and that a
  run that returned has taken all of them (`AllTaken`).
* Retrieval index (`Invariance`). `Rows` and `Holds` say who owns a row and that its record is
  still the one a command has asked a vector for; `Built` and `Found` what a build has behind it;
  `Alone` that without overlap every record stays the command's own, although ids are given out
  again; `Reading` what a search knows as long as nobody activated. With them `ServedIsWhole`,
  `TextStaysFindable`, `VectorsMatchProfile` and `RefusalExplained` are inductive.
* Merges, links and answers (`BookSafety`, `AnswersSafety`). A plan names rows that exist and the merge
  a resolve is about to make visible is on record already (`Planned`, `MergeInv`); rows and
  entities are never taken away (`Known`, `Grown`, by induction over a draft). `LinksStand` is an
  action property: every step that is no activation and no link of the served run leaves
  its paths alone. `AnswersOfTheirTime` rests on `ReaderInv` (what a question has read so
  far was read from a run active since it was asked, and questions about the same run have
  seen the same activations) and `CacheInv` (so what one of them stores, the other may take).
* Pages at a cutoff (`CutoffsAreBlind`). `CutoffSafety` adds to `BookSafe` that whatever align, resolve
  and link write carries the chapter of what it comes from (`CutoffInv`: a resolved row names an
  entity and a run and nothing else that would tell the future, a link is not disclosed before the later of
  its events). Then the database and its past at a cutoff agree on all rows the cutoff discloses
  (`Trimmed`), and query by query they give the same rows. Of these queries `current` ranks, the
  histories are followed from row to row, and the causal paths are a search over links, so each
  has a lemma of its own (`CurrentAlike`, `VersionsAlike`, `ChainsAlike`, `NamesAlike`, `GraphAlike`).
  For a term the database and its past agree once the term is given (`DefinitionAlike`); the look-up of the term is not
  blind to what comes later, and is on neither side of the claim.
* Summaries (`SummariesSafety`). `OneSummary` alone needs only that rows have the fields a mark as
  stale reads; its weight is in `Upsert`, where a row that comes back from an earlier state of
  the book replaces the valid one. `SummariesCurrent` needs where a command that has been alone
  all the time is (`GroupingInv`, `ReducingInv`), and `OldGroupingsEnd` what may be left valid when
  nobody fails (`LeftInv`). Both rest on the order of version numbers as text: the numerals of a
  number, and that comparing them is a strict total order, so that there is one current grouping.
  Attempts to prove the two found the cases `leftover` has to except: a command that ends the
  summaries of others after its own grouping has been overtaken, and one that saves a
  summary for it.
* Map extraction (`MapInvariant`). `Counted` relates the calls answered to those in the usage and
  those of this round, over windows that go on calling after another one raised; `Made`
  says what a valid draft is made of. `EveryClaimIsQuotedOrRecorded` rests on what an issue's text
  tells of an id (`IdRead`): the whole of it only if it is one word. `RefsLeadBack` is proved for a text of any length:
  `Tiled` shows that the windows `Split` cuts lie side by side (`Ended`: each is longer
  than nothing and not longer than the model can take), `Whole` that put together they are the
  text, and `Found` that the offsets lead back to them.
* Evidence (`EvidenceIsAProof`). `Evidenced` adds to `MapInv` that the evidence is what `align` finds in
  the windows of the draft as it is; it is inductive because nothing touches a finished draft. What
  `align` finds is a matter of the operators, of which three facts are proved. Counting the
  characters that matter up to each position (`Seen`), a piece of text has a needle exactly when a
  place of it lies inside (`MetPlace`, `PlaceMet`), although punctuation is skipped on both sides. Taking one
  anchor after the other into a span never loses one already met (`AroundCandidate`), and a best candidate
  exists (`BestProof`). The list of anchors, with its duplicates removed, asks neither more nor less
  than `ProvenBy` does (`AnchorsTell`, `ProofReads`, `ReadsProof`). For this `Made` had to say that the mentions
  of a valid draft have ids of their own.
* Import (`ImportInvariant`). Whatever the source, its parser cuts the text into chapters that tile it
  (`ParsedInv`): for TXT because a chapter begins where the one before ends, for EPUB by what the three loops
  keep (`WellCut`: in order, each with the hash of its range), one after the other. `StoredInv` says that the
  stored chapters are those of the file up to some ordinal, whoever wrote them, which an import that dies,
  overlaps or runs again does not disturb; `ChaptersTileTheText` follows. `ChunksCoverTheChapter` is about `chunk_text`
  alone: `Chunked` relates the chunks from any position to the rest of the chapter, by induction from its end.
* Volumes (`VolumesInvariant`). `VolumeInv` says where the rows of the table come from (`RowInv`), which rows
  chapters and imports may name (`NamingInv`), and that the rows of a grouping share out the chapters there were
  when it was made, which those imported later do not disturb (`GroupedInv`). That a grouping shares them
  out is a matter of the boundaries: those by the book's own volumes are runs of chapters, one behind the
  other, those of equal size a division with remainder. The rows of an import are numbered from 0 and the chapters
  know them from 1, so the row behind the last boundary is missing as long as
  any chapter is: hence rows are taken over only before all chapters are there, and then no
  import has ended. `VolumesShareOutTheChapters` follows together with `StoredInv`. The attempt to prove
  the property without its exception found the case described in section 5.

Recursive definitions (numerals, folds over a draft, `FlattenSeq`, `Split`, `Only`, the loops of the
parsers, `ChunkText`, the growing span of `Around`) are dealt with where they are needed: a lemma shows that the equation has a solution on every initial segment, by the least
number for which it has none, and hence that the definition satisfies it.

Model-checked only:

* liveness (`Settles`, `RunReturns`, `NoneWaitsBehindStuck`, `PoolRecovers`), which TLAPS does not reach.

Every other property of a passing run is stated by a theorem. `OwnTitlesKept` is the one the code breaks.

## 7. Not modelled, and why

* Call governance: no code builds a `TokenBucket`, the pipeline's limiter is always `None`.
* Compression, evaluation and operations are sequential reports over a finished database.
* Storage engine, migrations, backup: a transaction is an atomic step of every module; a
  backup copies the file between commands, migrations run before any.
* Schemas, identifiers, settings: data definitions. A hashed id is modelled, where it
  matters, as what is hashed.

Of the modelled components the following is left out: `associate_chapter_products` (the
CLI turns it off), token amounts, the stances the default verifier never yields and
their aggregation, participants and payload tables beyond the entities they name, local
events and causes of a draft, the wording of prompts, issues and answers, HTTP, scores and
the fusion of ranks, the hybrid route inside the executor (the index module has its reads),
the API's rate limiter and read-only endpoints, and reading zip, XML and HTML.
