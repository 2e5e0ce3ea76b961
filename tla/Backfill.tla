------------------------------ MODULE Backfill ------------------------------
(***************************************************************************)
(* The re-embed procedure (src/src/ingest/backfill.py) for one tenant:    *)
(* batches that fill the second embedding column, the progress ledger     *)
(* they resume from, the cutover flag, and the query path that reads the  *)
(* column the flag names.  Row-level security keeps every statement to    *)
(* the session's own tenant, so tenants do not meet here.                 *)
(*                                                                         *)
(* A batch is one transaction of three parts: read the ledger, select the *)
(* rows, and, once the embedder has answered, write.  The UPDATEs and the *)
(* upsert take effect together at the commit: a row they locked cannot go *)
(* before it, and a row deleted earlier is skipped, ids being never       *)
(* reused.  Ingests, cascades and purges are single steps, as ChunkStore  *)
(* allows of the first two; the purge is one transaction.                *)
(***************************************************************************)
EXTENDS Integers, FiniteSets

CONSTANTS
    MaxId,         \* bound: chunk ids, in the order the uuids sort
    Docs,          \* documents of the tenant
    Models,        \* embedding models
    FirstModel,    \* the model the corpus was first embedded with
    None,          \* an empty column
    Runners,       \* overlapping calls of run_backfill
    BatchSize,     \* rows per batch
    MaxRuns,       \* bound: run_backfill calls
    MaxIngests,    \* bound: ingests
    MaxRedeploys,  \* bound: restarts with another configuration
    MaxQueries     \* bound: calls of fetch_active_embedding_metadata

ASSUME ModelAssumption == FirstModel \in Models /\ None \notin Models
ASSUME BatchAssumption == BatchSize \in Nat \ {0}
ASSUME BoundAssumption ==
    {MaxId, MaxRuns, MaxIngests, MaxRedeploys, MaxQueries} \subseteq Nat

VARIABLES
    rows,      \* the tenant's committed chunks
    used,      \* every id a chunk has had
    progress,  \* the tenant's row of backfill_progress
    active,    \* the tenant's embedding_cutover flag
    setting,   \* settings.embed_model of the running deployment
    run,       \* each run_backfill call
    flip,      \* flip_to_v2: "idle", or "passed" its check
    query,     \* one call of fetch_active_embedding_metadata
    spent      \* what has been used of each bound

vars == <<rows, used, progress, active, setting, run, flip, query, spent>>

Ids == 1..MaxId
Start == 0     \* the cursor of a tenant not yet begun

Row == [id : Ids, doc : Docs, v1 : Models, v2 : Models \cup {None}]
Progress == [status : {"none", "in_progress", "complete"},
             cursor : Ids \cup {Start}, done : Nat]
Run == [pc : {"idle", "ledger", "select", "embed", "mark", "done"},
        cursor : Ids \cup {Start}, batch : SUBSET Ids]
Query == [pc : {"idle", "fetch", "answered", "refused"},
          column : {"v1", "v2"}, doc : Docs \cup {None}]

NoProgress == [status |-> "none", cursor |-> Start, done |-> 0]
NoRun == [pc |-> "idle", cursor |-> Start, batch |-> {}]
NoQuery == [pc |-> "idle", column |-> "v1", doc |-> None]

TypeOK ==
    /\ rows \subseteq Row
    /\ used \subseteq Ids
    /\ progress \in Progress
    /\ active \in {"v1", "v2"}
    /\ setting \in Models
    /\ run \in [Runners -> Run]
    /\ flip \in {"idle", "passed"}
    /\ query \in Query
    /\ spent \in [runs : 0..MaxRuns, ingests : 0..MaxIngests,
                  redeploys : 0..MaxRedeploys, queries : 0..MaxQueries]

RowsOf(d) == {r \in rows : r.doc = d}
Unembedded == {r \in rows : r.v2 = None}

\* A corpus ingested before the procedure starts, under whichever model the
\* deployment is configured with by then.
Init ==
    /\ \E owner \in [Ids -> Docs \cup {None}] :
          rows = {[id |-> i, doc |-> owner[i], v1 |-> FirstModel, v2 |-> None] :
                    i \in {j \in Ids : owner[j] # None}}
    /\ used = {r.id : r \in rows}
    /\ progress = NoProgress
    /\ active = "v1"
    /\ setting \in Models
    /\ run = [r \in Runners |-> NoRun]
    /\ flip = "idle"
    /\ query = NoQuery
    /\ spent = [runs |-> 0, ingests |-> 0, redeploys |-> 0, queries |-> 0]

-----------------------------------------------------------------------------
(* run_backfill and backfill_tenant.                                      *)

Idle(r) == run[r].pc \in {"idle", "done"}

StartRun(r) ==
    /\ Idle(r)
    /\ spent.runs < MaxRuns
    /\ spent' = [spent EXCEPT !.runs = @ + 1]
    /\ run' = [run EXCEPT ![r] = [NoRun EXCEPT !.pc = "ledger"]]
    /\ UNCHANGED <<rows, used, progress, active, setting, flip, query>>

\* The ledger says where to resume, or that there is nothing left to do.
ReadLedger(r) ==
    /\ run[r].pc = "ledger"
    /\ run' = [run EXCEPT ![r] =
                 IF progress.status = "complete"
                 THEN [NoRun EXCEPT !.pc = "done"]
                 ELSE [NoRun EXCEPT !.pc = "select", !.cursor = progress.cursor]]
    /\ UNCHANGED <<rows, used, progress, active, setting, flip, query, spent>>

\* [fault] order by id desc: the last n.
FirstDescending(S, n) == {i \in S : Cardinality({j \in S : j > i}) < n}

\* order by id limit n
First(S, n) == {i \in S : Cardinality({j \in S : j < i}) < n}

\* where embedding_v2 is null and id > cursor
Pending(cursor) == {r.id : r \in {q \in Unembedded : q.id > cursor}}

SelectBatch(r) ==
    /\ run[r].pc = "select"
    /\ LET batch == First(Pending(run[r].cursor), BatchSize)
       IN  run' = [run EXCEPT ![r].pc = IF batch = {} THEN "mark" ELSE "embed",
                              ![r].batch = batch]
    /\ UNCHANGED <<rows, used, progress, active, setting, flip, query, spent>>

\* on conflict, only the status changes
MarkComplete(r) ==
    /\ run[r].pc = "mark"
    /\ progress' = IF progress.status = "none"
                   THEN [status |-> "complete", cursor |-> run[r].cursor, done |-> 0]
                   ELSE [progress EXCEPT !.status = "complete"]
    /\ run' = [run EXCEPT ![r] = [NoRun EXCEPT !.pc = "done"]]
    /\ UNCHANGED <<rows, used, active, setting, flip, query, spent>>

Last(S) == CHOOSE i \in S : \A j \in S : j <= i

\* The UPDATEs: every row of the batch that is still there gets the vector and
\* the configured model's stamp.
Updated(batch) ==
    {IF q.id \in batch THEN [q EXCEPT !.v2 = setting] ELSE q : q \in rows}

\* [fault] the upsert overwrites the count instead of adding to it.
UpsertedResetting(batch) ==
    [status |-> "in_progress", cursor |-> Last(batch), done |-> Cardinality(batch)]

\* The upsert: the batch's last id, whatever the cursor is by now, and the count.
Upserted(batch) ==
    [status |-> "in_progress", cursor |-> Last(batch),
     done |-> progress.done + Cardinality(batch)]

\* [fault] the ledger has a transaction of its own, and the rows' one is lost.
WriteLedgerFirst(r) ==
    /\ run[r].pc = "embed"
    /\ progress' = Upserted(run[r].batch)
    /\ run' = [run EXCEPT ![r] = [NoRun EXCEPT !.pc = "ledger"]]
    /\ UNCHANGED <<rows, used, active, setting, flip, query, spent>>

\* The embedder has answered; the rows and the ledger move together, and
\* run_backfill asks for the next batch.
WriteBatch(r) ==
    /\ run[r].pc = "embed"
    /\ rows' = Updated(run[r].batch)
    /\ progress' = Upserted(run[r].batch)
    /\ run' = [run EXCEPT ![r] = [NoRun EXCEPT !.pc = "ledger"]]
    /\ UNCHANGED <<used, active, setting, flip, query, spent>>

\* [fault] the loop swallows the error and asks again.
FailRunRetrying(r) ==
    /\ ~Idle(r)
    /\ run' = [run EXCEPT ![r] = [NoRun EXCEPT !.pc = "ledger"]]
    /\ UNCHANGED <<rows, used, progress, active, setting, flip, query, spent>>

\* The embedder raises, the process dies: the transaction and the call with it.
FailRun(r) ==
    /\ ~Idle(r)
    /\ run' = [run EXCEPT ![r] = NoRun]
    /\ UNCHANGED <<rows, used, progress, active, setting, flip, query, spent>>

-----------------------------------------------------------------------------
(* The flag.                                                              *)

\* [fault] any ledger row will do.
FlipAtAnyProgress ==
    /\ flip = "idle"
    /\ progress.status # "none"
    /\ flip' = "passed"
    /\ UNCHANGED <<rows, used, progress, active, setting, run, query, spent>>

\* flip_to_v2 reads the ledger first; BackfillNotCompleteError otherwise.
CheckFlip ==
    /\ flip = "idle"
    /\ progress.status = "complete"
    /\ flip' = "passed"
    /\ UNCHANGED <<rows, used, progress, active, setting, run, query, spent>>

Flip ==
    /\ flip = "passed"
    /\ active' = "v2"
    /\ flip' = "idle"
    /\ UNCHANGED <<rows, used, progress, setting, run, query, spent>>

FailFlip ==
    /\ flip = "passed"
    /\ flip' = "idle"
    /\ UNCHANGED <<rows, used, progress, active, setting, run, query, spent>>

\* [fault] the columns of the model rolled back from are emptied with the flag.
RollbackClearing ==
    /\ active' = "v1"
    /\ rows' = {[q EXCEPT !.v2 = None] : q \in rows}
    /\ UNCHANGED <<used, progress, setting, run, flip, query, spent>>

Rollback ==
    /\ active' = "v1"
    /\ UNCHANGED <<rows, used, progress, setting, run, flip, query, spent>>

-----------------------------------------------------------------------------
(* The query path: the flag in one transaction, the rows in another.      *)

ReadFlag(d) ==
    /\ query.pc # "fetch"
    /\ spent.queries < MaxQueries
    /\ spent' = [spent EXCEPT !.queries = @ + 1]
    /\ query' = [pc |-> "fetch", column |-> active, doc |-> d]
    /\ UNCHANGED <<rows, used, progress, active, setting, run, flip>>

Stamp(r, column) == IF column = "v1" THEN r.v1 ELSE r.v2

\* refuse_on_model_mismatch
Mismatch(stamps) == \E m \in stamps : m # setting

FetchRows ==
    /\ query.pc = "fetch"
    /\ LET stamps == {Stamp(r, query.column) : r \in RowsOf(query.doc)}
       IN  query' = [query EXCEPT !.doc = None,
                                  !.pc = IF Mismatch(stamps) THEN "refused" ELSE "answered"]
    /\ UNCHANGED <<rows, used, progress, active, setting, run, flip, spent>>

-----------------------------------------------------------------------------
(* What goes on around it.                                                *)

\* An ingest replaces a document's chunks: new random ids, the first pair of
\* columns only.
Ingest(d) ==
    /\ spent.ingests < MaxIngests
    /\ spent' = [spent EXCEPT !.ingests = @ + 1]
    /\ \E fresh \in (SUBSET (Ids \ used)) \ {{}} :
          /\ rows' = (rows \ RowsOf(d)) \cup
                     {[id |-> i, doc |-> d, v1 |-> setting, v2 |-> None] : i \in fresh}
          /\ used' = used \cup fresh
    /\ UNCHANGED <<progress, active, setting, run, flip, query>>

\* Pod P deletes a document, or its tenant has its chunks deleted.
DropDocument(d) ==
    /\ RowsOf(d) # {}
    /\ rows' = rows \ RowsOf(d)
    /\ UNCHANGED <<used, progress, active, setting, run, flip, query, spent>>

\* purge_tenant: the chunks, the ledger and the flag in one transaction; a
\* tenant without a flag is on v1.
PurgeTenant ==
    /\ rows' = {}
    /\ progress' = NoProgress
    /\ active' = "v1"
    /\ UNCHANGED <<used, setting, run, flip, query, spent>>

\* Every process restarts with another settings.embed_model.
Redeploy(m) ==
    /\ m # setting
    /\ spent.redeploys < MaxRedeploys
    /\ spent' = [spent EXCEPT !.redeploys = @ + 1]
    /\ setting' = m
    /\ run' = [r \in Runners |-> NoRun]
    /\ flip' = "idle"
    /\ query' = NoQuery
    /\ UNCHANGED <<rows, used, progress, active>>

-----------------------------------------------------------------------------
RunStep(r) == ReadLedger(r) \/ SelectBatch(r) \/ MarkComplete(r) \/ WriteBatch(r)

Next ==
    \/ \E r \in Runners : StartRun(r) \/ RunStep(r) \/ FailRun(r)
    \/ CheckFlip \/ Flip \/ FailFlip \/ Rollback
    \/ \E d \in Docs : ReadFlag(d) \/ Ingest(d) \/ DropDocument(d)
    \/ FetchRows \/ PurgeTenant
    \/ \E m \in Models : Redeploy(m)

Spec == Init /\ [][Next]_vars

\* A run that was started goes on: the embedder answers or raises, and the
\* loop in run_backfill asks again.  Nobody has to start one.
FairSpec == Spec /\ \A r \in Runners : WF_vars(RunStep(r))

-----------------------------------------------------------------------------
(* Properties.                                                            *)

\* Resuming at the cursor skips nothing: whatever runs overlap, crash, or
\* finish late, every chunk at or below the committed cursor has its second
\* embedding, as long as nothing has been ingested.  The cursor may go
\* backwards, never past a chunk left out (backfill.py:83-90, 100-108).
NothingLeftBehindCursor ==
    spent.ingests = 0 => \A r \in rows : r.id <= progress.cursor => r.v2 # None

ReportsDone(r) ==
    \/ run[r].pc = "ledger" /\ run'[r].pc = "done"
    \/ run[r].pc = "select" /\ run'[r].pc = "mark"

\* "done=True means this tenant has no more embedding_v2 is null rows left"
\* (BackfillBatchResult, backfill.py:66-68): when a batch finds the ledger
\* complete or selects nothing, nothing is left at that moment.
DoneMeansNoneLeft ==
    [][\A r \in Runners : ReportsDone(r) => Unembedded = {}]_vars

\* That much is true of a tenant nobody has ingested into since the procedure
\* began, though runs overlap and each is free to take the ledger back.
DoneUnlessIngested ==
    [][\A r \in Runners : ReportsDone(r) /\ spent.ingests = 0 => Unembedded = {}]_vars

\* A tenant under the v2 flag is served: no row of it is without the second
\* embedding or stamped with another model, though the flip's check and its
\* write are two statements, a late batch may take the ledger back to
\* in_progress between them and run_backfill may have been resumed any number
\* of times; as long as nothing is ingested and the configuration stays
\* (backfill.py:230-240).
FlippedTenantIsServed ==
    active = "v2" /\ spent.ingests = 0 /\ spent.redeploys = 0 =>
        \A r \in rows : r.v2 = setting

\* The ledger never falls short of the data: the chunks that have a second
\* embedding are covered by chunks_done, across crashes, overlapping runs and
\* chunks deleted, replaced or purged under a run's feet; and every variable
\* keeps its type (backfill.py:129-137).
LedgerCoversWork ==
    /\ TypeOK
    /\ Cardinality(rows \ Unembedded) <= progress.done

\* Moving the flag is never felt by a query: one that has read v2 finds every
\* row stamped with the model it is to be asked with, although the flag may be
\* rolled back and a run may still be writing before it fetches the rows; only
\* a tenant still on v1 under another model's configuration is refused.  As
\* long as nothing is ingested and the configuration stays (backfill.py:243-247,
\* 278-286).
ServedUnlessChanged ==
    query.pc = "refused" /\ spent.ingests = 0 /\ spent.redeploys = 0 =>
        query.column = "v1" /\ setting # FirstModel

\* A run that was started returns or fails; it never loops for ever, even if
\* another run keeps taking the cursor back (backfill.py:165-202).
EveryRunReturns ==
    \A r \in Runners : ~Idle(r) ~> Idle(r)
=============================================================================
