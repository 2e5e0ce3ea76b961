# ia-rag-assistant, specified

TLA+ modules of the parts of the repository that hold state or decide
something, the TLC configurations that check them on small instances, and
proofs that TLAPS checks for every size. `src/` stands for the repository's
root, so its Python package is `src/src/`; line numbers are those of the commit
the project was written against. `PROJECT.json` says which definition stands
for which lines.

The repository is the write half of a retrieval assistant for freight
companies. Documents belong to tenants; another service, Pod P, owns the
`documents` table in the same PostgreSQL database. This repository chunks and
embeds documents into `document_chunks`, keeps tenants apart by row-level
security, re-embeds the corpus under a new model without downtime, and removes
chunks when documents or tenants go. Retrieval, generation, the API and
authentication are packages with an empty `__init__.py`.

## 1. Inventory

| part | state it keeps | operations | meets | module |
|---|---|---|---|---|
| Schema (`src/migrations/*.sql`) | three tables, their keys, cascade and policies | none of its own | every other part | in `Ingestion`, `Backfill`, `Offboarding`, `Provisioning` |
| Sessions (`src/src/db/session.py`) | the pool; a transaction-local claim | `create_pool`, `close_pool`, `session` | everything the application does is inside `session` | `Sessions`; claim and transaction also in `Ingestion` |
| Ingestion (`src/src/ingest/pipeline.py`) | rows of `document_chunks` | `ingest` | chunker and embedder are called inside its transaction; Pod P deletes and updates under it | `Ingestion` |
| Deletion (`src/src/ingest/deletion.py`) | the same rows, and the two operational tables | `delete_chunks_for_document`, `delete_document_chunks`, `purge_tenant` | `ingest` replaces through it, offboarding purges through it | `Ingestion`, `Offboarding` |
| Re-embedding (`src/src/ingest/backfill.py`) | second embedding columns, `backfill_progress`, `embedding_cutover` | `backfill_tenant`, `run_backfill`, `flip_to_v2`, `rollback_to_v1`, `cutover_status`, `fetch_active_embedding_metadata` | ingests and deletions change the rows it walks | `Backfill` |
| Re-embed command (`src/src/db/backfill_cli.py`, `tenants.py`) | none | `list_tenant_ids`, `run` | two database roles, one environment variable; drives `run_backfill` | `Fleet` |
| Offboarding command (`src/src/db/offboard_cli.py`) | none; two connections | `verification_dsn`, `count_tenant_rows`, `offboard_tenant` | purges in the tenant's session, counts as another role | `Offboarding` |
| Migrations (`src/src/db/migrate.py`, `bootstrap_roles.py`) | `schema_migrations`, the service role | `ensure_service_role`, `apply_migrations`, `migrate` | must have run before anything else can | `Provisioning` |
| Chunker (`src/src/chunking/`) | none; pure | `parse_structure`, `chunk_structure_aware`, two comparison strategies | called by `ingest` | `Structure`, `Chunking` |
| Embedder (`src/src/llm/embeddings.py`) | a semaphore and a cost account per instance | `BoundedConcurrencyEmbedder`, `refuse_on_model_mismatch` | awaited inside `ingest`'s transaction, while it holds a connection | `Embedder`, inside `Sessions` |
| Metrics (`src/evals/metrics.py`) | none; pure | hit rate, MRR, recall, faithfulness, refusals, percentiles, cost | called by the retrieval measurements | `Metrics` |
| Retrieval measurements (`src/scripts/measure_chunking_impact.py`, `measure_keyword_baseline.py`) | a table of their own, rebuilt per strategy; a results file | `main`, `_index_document`, `_row1_expected_chunk_ids`, `_run_search`, `_score` | call the chunkers and the metrics | `Evaluation` |
| Index tuning measurement, scale seed, corpus generator | none | one-shot tools | nothing at run time | none |

What is hard here:

- **Concurrency in the database.** Two ingests of one document, a deletion by
  its tenant and a cascade by Pod P may overlap at READ COMMITTED, statement by
  statement, with row locks, a unique index and a foreign key between them. The
  embedder is awaited in the middle of the transaction.
- **Resumption.** The backfill resumes from a cursor into random uuids while
  batches overlap, crash and finish late, and rows come and go.
- **Two of everything.** Two embedding columns, a flag, and one configured
  model; two database roles behind connections that are configured by hand.
- **A check after the fact.** Offboarding purges first and counts later.
- **A ledger beside the schema.** Several processes may migrate at once, and
  one may die between any two statements.
- **A call that outlives its caller.** `asyncio.gather` returns on the first
  exception and leaves the other batches running.
- **A connection held across an await.** An ingest keeps its pooled connection,
  its transaction and its claim while it waits for the embedder's permits; the
  next tenant gets the same connection.
- **Ground truth that moves.** A golden file names one chunk per document; a
  strategy that cuts documents needs another answer key.
- **Two thresholds and an overlap.** The chunker decides where to cut by rules
  that contradict each other at the edges.

What makes each part correct:

- *Ingestion and deletion*: a reader sees the old chunks of a document or the
  new ones, never a mixture or a part; no chunk outlives its document; a
  document is emptied only when its tenant or Pod P asks; nobody waits for
  ever.
- *Re-embedding*: no chunk is left behind the cursor; "done" means nothing is
  left; a flipped tenant is served, and so is a query that has read its flag,
  whatever happens before it reads the rows; a run returns.
- *Offboarding*: only the target's rows go, all or nothing, and success means
  they are gone.
- *Migrations*: the ledger is the schema, whatever crashes; the service never
  has a privilege on an unprotected table; re-running is safe.
- *Chunker*: nothing is lost or moved, tables stay whole, and a chunk is under
  the floor or over its target only where the rules say it may be. What they say
  of it is not all kept (section 4), and the overlap has no limit.
- *Sessions*: a statement runs under its own tenant's claim, a claim dies with
  its transaction, and no wait for a connection or a permit is for ever.
- *Re-embed command*: a call that returns has driven every tenant it was to
  drive, and says only what it did itself.
- *Metrics and measurements*: a strategy that cuts documents has no more hits
  than answers it left whole; a results file is of one whole measurement; no
  number is better than what was observed.
- *Embedder*: the bound on requests holds for the life of the instance, every
  call ends, and a call's account covers its work.

The hazards behind these, each at its line, are in `PROJECT.json`.

## 2. The modules

    Corpus                 documents, owners, versions
      ChunkStore           abstract: what readers are promised
      Ingestion            pipeline.py + deletion.py, by statement   => ChunkStore
        IngestionProofs    theorems
        MCIngestion        instance
    Backfill               backfill.py, one tenant
      BackfillProofs       theorems
      MCBackfill           instance
    Offboarding            purge_tenant + offboard_cli.py
      OffboardingProofs    theorems
    Provisioning           bootstrap_roles.py + migrate.py + migrations/
      ProvisioningProofs   theorems
    Structure              parse_structure, line by line
    Chunking               the two token-counting splitters, turn by turn
      MCChunking           instance
    StructureProofs        theorems on Structure and on Chunking
    Embedder               BoundedConcurrencyEmbedder
      Sessions             session.py, with an Embedder its ingests wait for
        SessionsProofs     theorems on pool, claims, permits and the embedder
        MCSessions         instance
    Fleet                  tenants.py + backfill_cli.py, all tenants
      FleetProofs          theorems
    Metrics                evals/metrics.py as operators
      Evaluation           the retrieval measurements and reports
        EvaluationProofs   theorems
        MCEvaluation       instance

A definition marked `[fault]` is not part of a specification. It is what the
definition of the same purpose below or beside it would be with a plausible
bug, and `PROJECT.json` pairs it with the property that notices.

### Ingestion, with Corpus and ChunkStore

`Ingestion` is PostgreSQL at READ COMMITTED with the transactions of the write
path on top. `documents` and `chunks` are the committed tables. `txn[a]` is the
open transaction of session `a`: the statement it has reached, its claim, what
it read, what its DELETE saw (`target`), what it has locked and deleted
(`deleted`) and what it has inserted. Only `Commit` changes a table; `Rollback`
is every way of not getting there (an exception from the embedder, the chunker
or a statement, a cancelled task, a lost connection or process, a deadlock
victim). One action stands for one statement up to the point where it may wait:

| action | code |
|---|---|
| `Begin` | `session(tenant_id)`: acquire, begin, `set_config` |
| `ReadDocument` | `_SELECT_DOCUMENT` under the policy; `DocumentNotFound` ends the transaction |
| `StartDelete`, `FinishDelete` | the embedder has answered; `delete_chunks_for_document` takes its snapshot, waits for locks, skips rows deleted meanwhile |
| `InsertRow`, `CheckParent` | one `_INSERT_CHUNK`: the unique index, then the foreign key's FOR KEY SHARE lock |
| `Commit`, `Rollback` | the end of `session` |
| `UpdateDocument`, `DeleteDocument` | Pod P, with the cascade as a transaction of its own |
| `DeadlockVictim` | the server's detector, on a minimal cycle of the waits-for graph |

`Blocks` is the lock table: who holds what a statement needs next. A row
carries `xmin`, so two ingests of one version are told apart. The columns
`content`, `section_path`, `page_*` and the vectors do not steer anything and
are left out; a document's text is its version, and the chunker gives version v
`ChunkCount[v]` chunks, at least one, as `chunk_structure_aware` always does.

`ChunkStore` is the promise without transactions: `Publish`, `Clear`, `Remove`
and `Update`, each one step. `ImplementsChunkStore` maps the committed rows to
what a reader is served and is checked by TLC and proved. `Publish` admits any
version the document has had: an ingest that read an older version may commit
after a newer one. Nothing in the repository promises otherwise, and the model
shows that it happens.

### Backfill

One tenant: the policies of migration 0003 keep each statement to its own. A
batch is `ReadLedger`, `SelectBatch`, then `WriteBatch` once the embedder has
answered, or `MarkComplete` when nothing was selected; `run_backfill` repeats
them. The UPDATEs and the upsert are one step at the commit: the UPDATEs lock
their rows, rows gone before are skipped, ids are never reused, and the upsert
reads its row under the lock it writes it with. `MarkComplete` changes the
status only, as its `on conflict` does. `CheckFlip` and `Flip` are the two
statements of `flip_to_v2`, `ReadFlag` and `FetchRows` the two transactions of
`fetch_active_embedding_metadata`, with `refuse_on_model_mismatch` inside.
Ingests and deletions are single steps, which is what `ChunkStore` says of
them, and `PurgeTenant` is the one transaction of an offboarding: chunks, ledger
and flag go together, under whatever run or query is at work. Ids are numbers in the order the uuids sort; an ingest takes any unused
ones, below or above the cursor.

### Offboarding

`Matched` is what a DELETE without a WHERE clause matches under the role the
pool was configured with; `Counted` what the verification role is shown. Both
roles range over everything the two environment variables can name. Other
writers commit between any two statements; while the purge's DELETEs are
uncommitted the rows they matched are locked. `cleared` and `before` are
history: whether the target was empty at some moment of the call, and which of
its rows have been there since the call began.

### Provisioning

A run of `migrate()`: look for the role, create it, alter it, verify it, check
for `documents`, read the ledger, then one transaction per file. A file is its
statements in order (`Script`); statements that cannot be repeated raise when
they are, and a statement waits while another run has a file open, as its lock
on `document_chunks` makes it, unless it creates a table. `create extension if
not exists` comes before any lock: it finds the extension, or waits for the run
that has created it and then fails (`CreateExtension`); `create table if not
exists` of the ledger can fail in the same way (`MakeLedger`). Releases add files,
operators grant `BYPASSRLS`, Pod P's table may arrive late, and a run may die
anywhere. `alone` and `seen` are history for the properties.

### Structure and Chunking

`Structure` reads a document line by line. A line is its kind, the answers the
parser's tests give of it; `para`, `table`, `blocks`, `heading` and `sections`
are the locals of `parse_structure`, and the nested flushes are the operators
`ParaFlushed`, `TableFlushed` and `SectionFlushed`. `Text` is what the result
says, in the order of its sections and blocks.

`Chunking` packs blocks (`PackBlock`, `FinishBlocks`: `chunk_structure_aware`) or, in
the strategy it is compared with, sentences whatever blocks they are in
(`PackSentence`, `FinishSentences`: `chunk_fixed_tokens_sentence_safe`). In the
second the pending window keeps its overlap and counts it. A block is the
sentences it adds to a text, each of any number of tokens, and whether its last
one ends in a full stop: text without one runs on into the next block, which is
what `_split_sentences` sees. The thresholds are the source's. The real tokenizer
(tiktoken) may count a token more or less where two texts meet; the model adds
up exactly.

### Embedder and Sessions

A step of `Embedder` is what the event loop runs between two awaits: `Begin`,
`Ask` (the semaphore is acquired), `Answer` or `Fail` of one batch, `Return`,
`Raise` or `Cancel` of a call. `Raise` leaves the other batches as they are, as
`gather` does. `shared` says whether ingests use the instance at the same time.

`Sessions` puts it where it is called. A request takes a connection of the
pool (`Acquire`), sets its claim, works, ends its transaction and gives the
connection back. An ingest embeds in between (`StartEmbedding`, `Embedded`),
which are `Embedder`'s `Begin` and its end; a query runs one statement. A
request may fail at every statement, be cancelled at every await, in the queue
of the pool and in the COMMIT included, and lose its connection. A connection
has a transaction-local claim and a session-wide setting, and `Effective` is
what the policies would read. `Release` is asyncpg's: it rolls back what is open
and resets the connection. Two guards meet here, and `ClaimDiesWithTransaction`
is about the nearer one: it looks at connections before the reset.

### Fleet

`run` of `backfill_cli.py`: one connection lists the tenants, another, the
pool's, drives them one after the other. `url` and `pool` are the roles the two
may have; `Seen` is what the forced policies let a role read with a claim or
without. A batch is one step (`Backfill` has its inside), under the cursor,
ledger and `done` of `backfill_tenant`. A call may die anywhere and be made
again; an ingest replaces a tenant's chunks or adds to them, and any of them may
be deleted, between two batches. Calls that overlap and purges are `Backfill`'s. `present` and `before` are history: who had chunks
and what the ledgers said when the list was read.

### Metrics and Evaluation

`Metrics` has the functions as operators under their own names, rates in so many
parts of a `Whole`, and what is aggregated as a bag. `Percentile` finds the value
at the rank the code computes, with `Round` as Python rounds.

`Evaluation` runs either measurement: read the documents one by one, each at the
commit `HEAD` is at by then (the impact script fails if a token-based strategy
would split one), then per strategy rebuild the table, ask every question and
score it, then truncate the older results file and write the new one; it may fail
at any step. The full-text search answers with any of the tenant's texts in any order,
so what is shown does not rest on PostgreSQL's ranking. A document is a number of
characters, cut by `Windows` as `chunk_fixed_chars_naive` does; an answer is the
places where it is found, and a question may have none given, as
`question.get("expected_answer_contains", [])` allows. The four strategies that leave a document whole
differ in text only, and one stands for them. A third kind of behaviour makes a
log of samples grow and evaluates the reports on it at every length.

## 3. What is checked

| run | instance | states | shows |
|---|---|---|---|
| `ingestion` | 2 sessions, 2 tenants, 1 document, 2 versions of 2 and 1 chunks, 3 transactions, Pod P | 27 thousand | `OldSetOrNewSet`, `NoOrphanChunks`, `EmptiedOnlyOnRequest`, `ImplementsChunkStore`, `EveryTransactionEnds` |
| `backfill` | 3 ids, batches of 2, 2 runs, 1 ingest, 1 restart with another model, 1 query, any number of flips, rollbacks, document deletions and purges | 1.0 million | `NothingLeftBehindCursor`, `FlippedTenantIsServed`, `LedgerCoversWork`, `ServedUnlessChanged`, `DoneUnlessIngested`, `EveryRunReturns` |
| `offboarding` | 2 tenants, 2 calls, 3 foreign commits, all 8 configurations | 59 thousand | `SuccessMeansCleared`, `OnlyTargetPurged`, `NothingHalfPurged` |
| `provisioning` | 2 processes, 3 runs, 3 files with all their statements, 1 incident | 189 thousand | `LedgerIsTheSchema`, `NeverOpenUnprotected`, `AloneMeansNoConflict`, `OkMeansCurrent`, `EveryRunEnds` |
| `structure` | every document of up to 5 lines of 7 kinds | 173 thousand | `BodyInOrder`, `TablesAreWholeRuns`, `MetadataIsLeadingBlock` |
| `chunking` | every document of up to 4 blocks of 8, of 1 to 20 sentences of 15 to 1000 tokens, by both strategies | 155 thousand | `NothingLostOrMoved`, `OverlapIsWholeSentences`, `SizesAreBounded` |
| `sessions` | 2 ingests of 2 and 1 batches and a query, 2 connections, 1 permit | 150 thousand | `PermitsAccountedFor`, `LoggedCoversTheCall`, `StatementsUnderOwnClaim`, `ClaimDiesWithTransaction`, `EverythingEnds` |
| `fleet` | 2 tenants, 4 ids in batches of 1, 2 calls, 1 ingest, any number of deletions, all 9 pairs of roles | 1.2 million | `SeparateRolesDriveAll`, `LedgerCoversItsOwn`, `TotalsAreThisRun`, `EveryCallEnds` |
| `evaluation` | 3 documents of up to 3 naive chunks, 2 questions with 6 answers each and 1 with none given, 2 commits, reports of up to 12 samples | 232 thousand | `NaiveHitsAreAnswers`, `ScoresAgree`, `FileIsOneMeasurement`, `PercentilesAreHonest`, `PerfectMeansPerfect` |

Every module with state of the service or of a parser has its `TypeOK`: `ingestion`
checks it by itself, in the other runs it is the first conjunct of
an invariant that needs it. Each property is stated, with the code it is about,
where it is defined.

**Why these bounds.** One document is enough for `ingestion`: transactions on
different documents take no common lock, and the statements that could touch
another tenant's rows are told apart by the claim, which ranges over both
tenants. Three transactions and Pod P are what it takes for one to overtake
another that has overtaken a third; two versions of different length make a
shorter set replace a longer one, where a mixture would show. The proofs lift
these bounds. In `backfill` three ids with batches of two make a full batch, a
short one and an empty one; two runs overlap in every way, and a third would
only repeat what the second can do to the cursor. `offboarding` needs a call, a
retry, and one foreign commit per table. `provisioning` needs one run that
dies, one that overlaps it and one that comes after, over as many files as the
repository has. Five lines are the shortest document in which a paragraph, a
table with its header and a heading follow a title. `chunking`'s blocks fall on
both sides of each threshold, and four of them are enough for three chunks, an
overlap of several sentences and a merged tail in either strategy, and for a
chunk that only its overlap takes over the ceiling. In `sessions` the ingests can hold both connections
while the query waits, and have more batches than there are permits, one of
which a failing call leaves behind. `fleet` has enough ids for a tenant in
front of, behind and around the other's cursor, and a second call to resume the
first. In `evaluation` an answer lies in the first naive chunk, in a later one,
across a boundary, twice, in the other document as well, and nowhere, or none is given; twelve
samples are where the code's 95th percentile first leaves the rank of the
definition, and every document of the asking tenant fits a
ranking.

**Deadlock checking is off** where the system may stop: nobody has to start
another transaction, run, call or document.

**Fairness.** Only what was started is obliged to go on; starting, failing and
dying never are.
- `Ingestion`: strong fairness of a transaction's next statement. PostgreSQL
  queues lock waiters in order, so a waiter is not overtaken for ever; the event
  loop runs every ready task; the embedder answers or raises. Weak fairness of
  the deadlock detector, which runs by a timer.
- `Backfill`, `Provisioning`: weak fairness of the started run's next step.
  Neither waits for a lock that is not given up at the end of one file.
- `Sessions`: strong fairness of `Acquire` and of `AskProvider`, because the
  pool's queue and `asyncio.Semaphore` wake waiters in order; weak fairness of
  a request's own next step, of the provider's answer or exception and of a
  ready call. Nobody has to arrive, and no failure or cancellation has to come.
- `Fleet`: weak fairness of the command's next step, which waits for nobody.

## 4. Where the code and what is said of it differ

Three runs look for a property that a comment, docstring or test states, and find
it violated:

- `offboarding_race`: an ingest under way commits after its table was counted,
  and `offboard_tenant` reports the tenant gone. `SuccessMeansCleared` is what
  does hold: at some moment of the call nothing was there. It holds because
  chunks are counted first and nothing but a purge deletes from the other two
  tables.
- `backfill_ingest`: chunks ingested during a backfill sort behind the cursor;
  a batch reports `done=True` while rows without a second embedding are left.
- `fleet_url`: with `DATABASE_URL` naming the service role, as `.env.example`
  asks, `list_tenant_ids` reads under a forced policy and without a claim. The
  list is empty and the command returns without having done anything.

Seen while modelling, without a run of their own; the properties named say what
holds instead:

- Rule 2 says a split that would leave a chunk under the floor "must not" be
  performed (`rules.py:28-31`). Before a table that would pass the ceiling whatever
  is pending is flushed, and only a last chunk is merged back: 100 tokens before a
  table of 1000 are a chunk. `ShortOnlyBeforeTable` says that this is the one
  place.
- Rule 3 says an oversized table is split by row groups, each with the header row
  (`rules.py:14-15`). It goes in whole, as a comment inside the loop says (314-316);
  `OverByOneBlock` allows it that.
- No ground truth in the naive row is said to mean that the split cut through the
  answer (`measure_chunking_impact.py:232-234`). The 18 `answerable_multi` questions
  give no answer text (`golden.jsonl:31-48`) and have none whatever is cut; they are
  18 of the 19 the published file calls undecidable. `NaiveHitsAreAnswers` counts
  them as the code does.
- The impact measurement is said to be provably about a commit (8-9). `HEAD` is
  looked up for each document (145), and for the name in the file once before
  (445). `FileIsOneMeasurement` says that the two agree unless `HEAD` moves.
- `last_run_cost` belongs to the instance. Batches a failed call left running,
  and overlapping calls, add to the account of whoever reset it last, so a
  logged cost may be more than the call's own, and with overlaps less.
  `LoggedCoversTheCall` says what holds without overlaps.
- `offboard_tenant` commits the purge before `verification_dsn` looks at the
  environment: a missing variable is an error after the fact, not before.
- With the second model configured, a tenant rolled back to v1 is refused until
  the configuration is changed as well, while `rollback_to_v1` calls the flag
  "the entire rollback" (`backfill.py:244-247`).
- An overlap is cut at full stops; if the rows of a table have them, the next
  chunk opens with some rows of the table, and a test says a table is never
  torn (`test_rules_synthetic_long_document.py:93`).
- The one chunk of a short document holds its blocks and not its headings;
  `BASE FUEL SURCHARGE: 15.5%` counts as a heading, so the figure is in no
  chunk's text (`rules.py:252-257`).
- `_percentile` calls itself nearest-rank; its rank is `round(p * (n - 1))`,
  which for some sample sizes is one less or one more (`PercentilesAreHonest`).
- A chunk without a full stop is repeated whole as the next one's overlap, and
  the overlap is not counted: three blocks of 600 tokens without one make
  chunks of 600, 1200 and 1800, the ceiling being 900. `OverTargetByOne` bounds what
  such a chunk adds, `OverlapIsWholeSentences` what it repeats, 15% of the
  sentences, and nothing bounds the tokens of those.
- `hit_rate_at_k` and `mrr` say never to average over both types of question
  (`metrics.py:41-45`, 64-68); the rows of the results file and the baseline's
  overall line are such averages (`measure_chunking_impact.py:288-290`). `ScoreRow`
  has them as they are published.
- `false_refusal_rate` is 0.0, the best there is, if no question should have been
  answered (`metrics.py:229-231`); only `n_should_answer` tells the two apart.
  `PerfectMeansPerfect` speaks of the two rates together for that reason.

## 5. What is proved

`IngestionProofs` proves, for every set of documents, tenants and sessions and
every number of versions, chunks and transactions:

- `TypeCorrect`, `ReplacementIsWhole` (`OldSetOrNewSet`) and
  `CascadeLeavesNoOrphan` (`NoOrphanChunks`);
- `NeverEmptiedByAccident` (`EmptiedOnlyOnRequest`), an action property;
- `Implementation`: `Spec => ImplementsChunkStore`, the refinement.

The assumptions are those `Corpus` and `Ingestion` name: every document has one
owner, there is a version, every version has a chunk, Pod P is not one of the
service's sessions, and `None` is neither a document nor a tenant.

That a commit leaves one whole batch is not inductive. It depends on what each
open transaction has done and on whom that excludes, so the invariant `IInv` has
four more parts:

- `LocalInv`: a transaction's fields agree with the statement it has reached,
  its inserted rows are the first rows of its batch, and what it deleted is part
  of a snapshot that was itself a whole batch;
- `PairInv`: two open transactions have deleted no common row and inserted no
  two rows of one key, and neither has seen the other's rows;
- `TableInv`: past its DELETE a transaction has locked all of its snapshot that
  is still there, and none of its rows has a rival outside what it deleted;
- `ParentInv`: an ingest past its first foreign key check pins its document, and
  Pod P's pending cascade has seen every chunk there will be.

Most steps change one transaction and no table; `FrameStep` is what they have
to show. `CommitStep` is the one that needs all of it: if a batch survived the
commit beside the new one, both would have a row of index 0, which `TableInv`
excludes.

`SessionsProofs` proves all four invariants of the `sessions` run, for any finite sets of ingests, queries and connections, any number of
batches, any limit and any tenants. Assumed are `CountAssumption` (a call has a
natural number of batches), `LimitAssumption` (the limit is positive: the
default is 4, and a 0 passed to the constructor means that default, but nothing
keeps the setting itself from being 0) and `ConnAssumption` (`NoOne` is no
request).

- The actions of `Sessions` are written with the embedder's own, so a step of a
  session is one of its steps or leaves it alone (`ServiceStep`), and
  `EmbedderInvariance` looks at the embedder's seven actions only.
- `PermitsKept` (`PermitsAccountedFor`) rests on `PermitInv`: a call that has
  not begun has no task, so `Begin` cannot swallow a permit, and what a step
  takes or gives back is the cardinality of what it moves (`TakePermit`,
  `GivePermits`), a whole set of batches in the case of `Cancel`.
- `AccountCovers` (`LoggedCoversTheCall`) rests on `CostInv`: without overlaps
  one call runs, and the account holds at least as many tokens as that call has
  batches done. It may hold more, of batches an earlier failed call left behind,
  which is why the property says "at least".
- `NoClaimOutlives` (`ClaimDiesWithTransaction`) and `OwnClaim`
  (`StatementsUnderOwnClaim`) rest on `HolderInv` (within its session a request
  holds one connection, and nobody else that one) and `ClaimInv` (the claim
  that is set is the holder's and needs a transaction, a free connection is
  clean). A request whose connection dies goes on to `leaving`, of which
  `ClaimInv` asks nothing, so a dead connection is never one that runs a
  statement.

`BackfillProofs` proves the five safety properties of the `backfill` run
(`NothingLeftBehindCursorAlways`, `FlippedTenantIsServedAlways`,
`LedgerCoversWorkAlways`, `ServedUnlessChangedAlways` and the action property
`DoneUnlessIngestedAlways`), for any set of models and of runs, any batch size
and any number of ids, ingests, restarts and queries. Assumed: `FirstModel` is
a model and `None` is not (`ModelAssumption`), a batch has at least one row
(`BatchAssumption`), the bounds are numbers. None of the five is inductive,
because a run writes what it decided on in an earlier transaction. Its
invariant:

- `RunInv`, what a late run still knows, as long as nothing is ingested. The cursor it read has nothing left
  behind it, whatever the ledger says now; all that sorts up to the end of its
  batch is embedded or in the batch; and a run about to mark the ledger complete
  is right. It is why a run that puts an older cursor back does no harm: nothing
  but an ingest takes an embedding away.
- `DataInv`: ids are never reused, the ledger counts at least what is embedded,
  one model stamps the second column until somebody redeploys, and the first until
  somebody ingests.
- `TenantInv`, with the same proviso: a complete ledger, a flip past its check and the v2 flag each
  mean that nothing is left.
- `QueryInv`: so does a query that has read the v2 flag and not yet its rows. It
  is a statement about the rows and not about the flag, which may have been rolled
  back or purged since: a rollback takes no embedding away, a purge takes the rows
  with it.

The lemmas underneath are about batches: `First(S, n)` leaves out no id below
its last, is empty only if `S` is, and `Last` picks the greatest.

`FleetProofs` proves `SeparateRolesDriveAll`, `LedgerCoversItsOwn` and
`TotalsAreThisRun` for any finite set of tenants (numbers, in the order of the
list) and any batch size and number of ids, calls, ingests and deletions.
`OwnInv` says when the policies hold: a pool they bind makes a ledger count its
own tenant's embedded chunks, at least, for it goes on counting those that were
deleted or replaced; a batch is chosen by id and counted by row, which is
the same number (`RowsFinite`). `DriveInv` is the part a call needs of the calls
before it: with the roles apart, and unless something was ingested, nothing is
left at or below a tenant's cursor, however many calls died, and a tenant of the
list is driven or still has its turn. `TotalsInv`
needs no roles: what the ledgers have gained is what was reported, even when
one tenant's batch embeds another's rows.

`OffboardingProofs` proves `SuccessMeansCleared` and the action properties
`OnlyTargetPurged` and `NothingHalfPurged` for any tenants and any number of
calls and foreign commits, under all configurations. `PurgeInv` is about the
open purge: it has matched the target's rows only, and all that had been there
since the call began in the tables it has visited. `CountInv` is why three
counts at three moments are enough: as long as they found nothing, either the
target was empty at some moment, or a row of it is in a table still to be
counted. Chunks come and go by themselves, but they are counted first; the rows
of the other two tables go in a purge alone.

`ProvisioningProofs` proves `LedgerIsTheSchema`, `NeverOpenUnprotected`,
`AloneMeansNoConflict` and `OkMeansCurrent` for any finite set of processes and
any number of runs and incidents, each of which may end at any statement. The
three files are those of the repository, statement by statement. `RunInv` is what a run knows: the files
it left out are in the ledger (no file ever leaves it), the role it altered is
bound unless somebody granted `BYPASSRLS` since, and of its open file it has
done a part that is neither recorded nor in effect for anybody else. That a run alone
meets no conflict needs in addition that what it is to apply is not in the
ledger (`AloneInv`, `RunInv`). That the service has no open table unprotected
follows from the ledger being the schema and from which statements share a
file; it would not follow with a grant in a file before its policy.

`StructureProofs` proves `BodyInOrder`, `TablesAreWholeRuns` and
`MetadataIsLeadingBlock` for documents of any number of lines (`MaxLines` is any
number). The three leading loops keep `LeadInv`: what has been read is an
unbroken block of labels under the title, and the metadata are the last of each
label in it. The body keeps `TableInv`, which relates the pending locals to the
document: the pending table is the beginning of a run of indented lines that
ends at the line to look at, the pending paragraph ends right above it, an
introducing line there is still in that paragraph (or `flush_table` could not
pop it), and every run above has become a table. On top of it `OrderInv` says
that the result so far and the pending text, one after the other, are the lines
read in order; the flushes move text from the one to the other and leave the
whole as it is (`ParaKeepsText`, `TableKeepsText`, `SectionKeepsText`). The
texts are concatenations of sequences of any length. `SomeConcatenates` and
`SameConcatenation` find that the fold `FlattenSeq` has the value one expects,
each by the least length at which it would not.

The second half of `StructureProofs` proves the three properties of the
`chunking` run, `NothingLostOrMoved`, `OverlapIsWholeSentences` and
`SizesAreBounded`, for documents of any number of blocks and sentences, with
any numbers of tokens, by both strategies and at the thresholds of the source.
Assumed is that every block has a
sentence and every sentence a token (`BlockAssumption`). What may be said of the
chunks is not said of the loop's variables: the overlap has been put in front of
a chunk, the tail may have been merged. `PackInv` brings it back to the text.

- `Cuts(b, cs)`: there are places `b` at which the text is cut, one after the
  other from its start, and chunk `k` is whole sentences of the end of the chunk
  before it, then what is from `b[k]` to `b[k + 1]`. While a document is packed
  the chunks closed so far are cut so, and what is pending follows on: the
  blocks from the last cut on (`BlocksPending`), or the sentences from it on
  after the ones that are repeated (`SentencesPending`).
- `Sized`: what a chunk of blocks adds, and all that is in a window of sentences,
  is over its target only by the last block or sentence (`LengthKept`), and a
  chunk is under the floor only in front of a table (`FloorKept`), where that
  table starts.
- `PackedInv`: a document shorter than the smallest two chunks is one; any other
  is the merge of some that are cut so and end where the text does. Of the last of
  these nothing is said of the floor: it is what the merge takes away, and a
  chunk merged with it has reached the floor, for the table it stood in front of
  would not be under it (`FloorsKept`).

How much is repeated is counted in sentences: `Repeated` is within a half of 15%
of them, and of less than four it is one (`RepeatedOf`).

`NothingLostOrMoved` then is a fact about reading (`ReadsUpTo`): an overlap
repeats what has been read (`ReadsAgain`), a part of the text goes on with it
(`ReadsOn`), and no piece is in the text twice (`Distinct`). The other two need
that what a chunk adds (`Own`) is what is between its two cuts (`OwnOf`). The
sentence strategy looks at sentences, not blocks: `LastOfPart` and
`SentencesAre` say which part of the text the last `m` sentences of a part are,
by counting the sentence starts that are left (`Left`). Tokens add up
(`TokensJoin`), by the lemmas about sums `EvaluationProofs` needs as well.

`EvaluationProofs` proves all five invariants of the `evaluation` run, for any
documents, tenants, questions, answers, windows, cutoffs and samples, and for
every ranking the search may return. Assumed is what the data are
(`DocAssumption`, `GoldenAssumption`, `KindAssumption`), that the bounds are
positive (`SizeAssumption`), and of the parts of a whole that there are enough
(`WholeAssumption`): `TOP_K` divides them, so that the reciprocal of the rank
`TOP_K` is told from that of the next, and one sample or chunk among all there
are is at least one part, as one of the code's floats is not rounded to nothing.

- A question's score is `Fair`: at most one of hit@k and "no chunk has the
  answer", and the reciprocal rank within what its two hits allow (`RankIs`,
  `QuestionIs`). Sums of fair scores are fair (`FairPlus`), which carries it
  through `TallyInv` to the rows in `ResultInv` and to the file.
- `RowInv` has the chunks that are in the table while a row is measured.
- `NaiveInv` counts, while the naive row is measured, the questions asked so far
  whose answer no boundary cuts: hits are among them, the undecidable are the
  others. A question has an expected chunk exactly if both ends of its answer are
  in one window (`InOneWindow`, `ExpectedIfUncut`).
- `ResultInv` counts the rows that are done and says that the file is not touched
  before the last of them, `HeadInv` that a document read while `HEAD` stays is of
  its first commit.
- For the reports only `LogInv` is needed, so many samples of each kind: that
  a percentile was observed and is at most one rank off is a fact about bags
  (`RankedIs`, `RankNearest`), and so is what makes a rate full or nil
  (`RateIs`).

The sums are folds of the library. `SomeSums` finds that they have the value one
expects, and `SumTake` and `SumUnion` that the order does not matter, each by a
smallest set for which it would not hold.

Not proved, only model-checked:

- liveness (`EveryTransactionEnds`, `EveryRunReturns`, `EveryRunEnds`,
  `EveryCallEnds`, `EverythingEnds`): fairness and ENABLED are out of the
  prover's reach.

The three statements of section 4 with a run of their own are refuted by TLC, each by
one behaviour.

## 6. What is not modelled

- `seed_scale_cli.py`: one writer of synthetic rows in a throwaway database,
  which fails or not and is not resumed.
- `measure_index_tuning_2.6.py`: a sequential script in a container of its own.
  What it measures, wall-clock time and the recall of an approximate index
  under a planner's choices, no model of it would show.
- `generate_corpus.py`: tables of constants written to files.
- Of the re-embed command over all tenants (`Fleet`): calls that overlap and
  tenants that are purged under it, which `Backfill` has for one tenant.
- Of the measurements: the baseline's cross-tenant probes, whose answers are
  printed and not scored, and all that is printed. The golden questions are read
  from the working tree at once (`measure_chunking_impact.py:163-165`) and are
  constants; the baseline drops its table before it reads the documents and fills
  it after, which is one step here. Of the metrics: mean and median cost.
- The provider behind `OpenAICompatibleEmbeddingProvider` and its wire format:
  it enters as an answer or an exception.
- Section paths of chunks, the text of anything, vectors, dimensions and prices.
- PostgreSQL's serialisation of DDL beyond the lock on `document_chunks`, and
  isolation levels other than READ COMMITTED, which nothing sets.
- `close_pool`, which nothing calls while sessions are open.

## 7. Plan

What holds state is modelled, and every invariant and every action property the
runs check is proved for all values of the constants. What is left is beyond the
prover (the five liveness properties) or outside the model (section 6); the next
module to write would be one for the parts of the system that are not in the
repository yet, retrieval and generation, when they are.
