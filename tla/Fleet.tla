------------------------------- MODULE Fleet -------------------------------
(***************************************************************************)
(* The re-embed command over all tenants: list_tenant_ids                 *)
(* (src/src/db/tenants.py) on a connection of its own, then run_backfill  *)
(* (src/src/ingest/backfill.py) tenant by tenant on the pool's, as        *)
(* src/src/db/backfill_cli.py wires them.                                  *)
(*                                                                         *)
(* Which role stands behind each connection decides what it sees: the     *)
(* policies hold for the service role and, being forced, for the owner.   *)
(* DATABASE_URL names the one list_tenant_ids connects as, and the pool's *)
(* too unless create_pool is given another dsn.  Backfill has the inside  *)
(* of a batch; here it is one step.                                       *)
(***************************************************************************)
EXTENDS Integers, Sequences, FiniteSetsExt

CONSTANTS
    Tenants,      \* tenants, numbered in the order of their names
    MaxId,        \* bound: chunk ids, in the order the uuids sort
    BatchSize,    \* rows per batch
    MaxRuns,      \* bound: calls of run
    MaxIngests    \* bound: ingests that commit meanwhile

ASSUME TenantAssumption == Tenants \subseteq Nat /\ IsFiniteSet(Tenants)
ASSUME BatchAssumption == BatchSize \in Nat \ {0}
ASSUME BoundAssumption == {MaxId, MaxRuns, MaxIngests} \subseteq Nat

VARIABLES
    url,       \* the role behind DATABASE_URL
    pool,      \* the role behind the pool
    rows,      \* committed chunks
    ledger,    \* backfill_progress
    pc,        \* "idle", "list", "batch", "returned" or "failed"
    todo,      \* tenant_ids still to be driven
    totals,    \* run_backfill's result so far
    present,   \* tenants that had chunks when the list was read
    before,    \* chunks_done of every tenant when the list was read
    spent      \* what has been used of each bound

vars == <<url, pool, rows, ledger, pc, todo, totals, present, before, spent>>

Roles == {"service", "owner", "bypass"}
Ids == 1 .. MaxId
Row == [id : Ids, tenant : Tenants, embedded : BOOLEAN]
Ledger == [status : {"none", "in_progress", "complete"}, cursor : Ids \cup {0}, done : Nat]
NoLedger == [status |-> "none", cursor |-> 0, done |-> 0]

TypeOK ==
    /\ url \in Roles /\ pool \in Roles
    /\ rows \subseteq Row
    /\ \A r, s \in rows : r.id = s.id => r = s
    /\ ledger \in [Tenants -> Ledger]
    /\ pc \in {"idle", "list", "batch", "returned", "failed"}
    /\ todo \in Seq(Tenants)
    /\ totals \in [Tenants -> Nat]
    /\ present \subseteq Tenants
    /\ before \in [Tenants -> Nat]
    /\ spent \in [runs : 0 .. MaxRuns, ingests : 0 .. MaxIngests]

\* A corpus of one embedding, and two connections.
Init ==
    /\ url \in Roles
    /\ pool \in Roles
    /\ \E owned \in SUBSET Ids : \E owner \in [owned -> Tenants] :
          rows = {[id |-> i, tenant |-> owner[i], embedded |-> FALSE] : i \in owned}
    /\ ledger = [t \in Tenants |-> NoLedger]
    /\ pc = "idle"
    /\ todo = <<>>
    /\ totals = [t \in Tenants |-> 0]
    /\ present = {}
    /\ before = [t \in Tenants |-> 0]
    /\ spent = [runs |-> 0, ingests |-> 0]

RowsOf(t) == {r \in rows : r.tenant = t}

-----------------------------------------------------------------------------
\* [fault] a select without the policy.
SeenByAll(role, claims) == rows

\* The chunks a role sees under the claims of its session.
Seen(role, claims) ==
    IF role = "bypass" THEN rows ELSE {r \in rows : r.tenant \in claims}

Start ==
    /\ pc \in {"idle", "returned", "failed"}
    /\ spent.runs < MaxRuns
    /\ spent' = [spent EXCEPT !.runs = @ + 1]
    /\ pc' = "list"
    /\ UNCHANGED <<url, pool, rows, ledger, todo, totals, present, before>>

\* select distinct tenant_id ... order by tenant_id, outside any session: no
\* claim is set, and a role the policy holds for sees no row.
ListTenants ==
    /\ pc = "list"
    /\ LET tenants == {r.tenant : r \in Seen(url, {})} IN
       \E list \in [1 .. Cardinality(tenants) -> tenants] :
          /\ \A i, j \in DOMAIN list : i < j => list[i] < list[j]
          /\ todo' = list
    /\ totals' = [t \in Tenants |-> 0]
    /\ present' = {r.tenant : r \in rows}
    /\ before' = [t \in Tenants |-> ledger[t].done]
    /\ pc' = "batch"
    /\ UNCHANGED <<url, pool, rows, ledger, spent>>

\* [fault] the select of the ledger is not kept to the session's tenant.
AnyLedger(t) == {u \in Tenants : ledger[u].status # "none"}

\* Whose ledger rows the session of t sees.
Ledgers(t) ==
    {u \in IF pool = "bypass" THEN Tenants ELSE {t} : ledger[u].status # "none"}

\* The ledger a batch resumes from: the only row it sees, or any of several,
\* fetchrow taking the first of an unordered result.
Resumed(t) == IF Ledgers(t) = {} THEN {NoLedger} ELSE {ledger[u] : u \in Ledgers(t)}

\* embedding_v2 is null and id > cursor order by id limit n, in the session of t
Batch(t, cursor) ==
    LET pending == {r.id : r \in {q \in Seen(pool, {t}) : ~q.embedded /\ q.id > cursor}}
    IN  {i \in pending : Cardinality({j \in pending : j < i}) < BatchSize}

\* [fault] the result takes over the ledger's count, earlier calls' included.
EmbedReportsLedger(t, batch) ==
    /\ rows' = {IF r.id \in batch THEN [r EXCEPT !.embedded = TRUE] ELSE r : r \in rows}
    /\ ledger' = [ledger EXCEPT ![t] =
                    [status |-> "in_progress", cursor |-> Max(batch),
                     done |-> @.done + Cardinality(batch)]]
    /\ totals' = [totals EXCEPT ![t] = ledger'[t].done]
    /\ UNCHANGED todo

\* The batch's transaction: the vectors and the ledger in one commit.
Embed(t, batch) ==
    /\ rows' = {IF r.id \in batch THEN [r EXCEPT !.embedded = TRUE] ELSE r : r \in rows}
    /\ ledger' = [ledger EXCEPT ![t] =
                    [status |-> "in_progress", cursor |-> Max(batch),
                     done |-> @.done + Cardinality(batch)]]
    /\ totals' = [totals EXCEPT ![t] = @ + Cardinality(batch)]
    /\ UNCHANGED todo

\* on conflict, only the status changes
MarkComplete(t, cursor) ==
    /\ ledger' = [ledger EXCEPT ![t] =
                    IF @.status = "none"
                    THEN [status |-> "complete", cursor |-> cursor, done |-> 0]
                    ELSE [@ EXCEPT !.status = "complete"]]
    /\ todo' = Tail(todo)
    /\ UNCHANGED <<rows, totals>>

\* [fault] done=False where there is nothing left to do.
NothingToDoAgain == UNCHANGED <<todo, rows, ledger, totals>>

\* A tenant that is complete already.
NothingToDo ==
    /\ todo' = Tail(todo)
    /\ UNCHANGED <<rows, ledger, totals>>

\* One call of backfill_tenant for the tenant whose turn it is; done=True moves
\* run_backfill to the next.
RunBatch ==
    /\ pc = "batch"
    /\ todo # <<>>
    /\ LET t == Head(todo) IN
       \E resumed \in Resumed(t) :
          LET batch == Batch(t, resumed.cursor) IN
          IF resumed.status = "complete" THEN NothingToDo
          ELSE IF batch = {} THEN MarkComplete(t, resumed.cursor)
          ELSE Embed(t, batch)
    /\ UNCHANGED <<url, pool, pc, present, before, spent>>

Return ==
    /\ pc = "batch"
    /\ todo = <<>>
    /\ pc' = "returned"
    /\ UNCHANGED <<url, pool, rows, ledger, todo, totals, present, before, spent>>

\* The embedder raises or the process dies; the open batch is rolled back.
Fail ==
    /\ pc \in {"list", "batch"}
    /\ pc' = "failed"
    /\ todo' = <<>>
    /\ UNCHANGED <<url, pool, rows, ledger, totals, present, before, spent>>

\* An ingest commits: the chunks a document of t had go, its new ones come, at
\* any places in the id order.  Which chunks are a document's is left open, and
\* so is the document: any of the tenant's chunks may go.  An id here is only a
\* place in the order, so one that has become free may be taken again.
Ingest(t) ==
    /\ spent.ingests < MaxIngests
    /\ spent' = [spent EXCEPT !.ingests = @ + 1]
    /\ \E gone \in SUBSET RowsOf(t), fresh \in (SUBSET (Ids \ {r.id : r \in rows})) \ {{}} :
          rows' = (rows \ gone) \cup {[id |-> i, tenant |-> t, embedded |-> FALSE] : i \in fresh}
    /\ UNCHANGED <<url, pool, ledger, pc, todo, totals, present, before>>

\* A document of t goes, or is replaced by one without chunks.
Remove(t) ==
    /\ \E gone \in (SUBSET RowsOf(t)) \ {{}} : rows' = rows \ gone
    /\ UNCHANGED <<url, pool, ledger, pc, todo, totals, present, before, spent>>

-----------------------------------------------------------------------------
RunStep == ListTenants \/ RunBatch \/ Return

Next ==
    \/ Start \/ RunStep \/ Fail
    \/ \E t \in Tenants : Ingest(t) \/ Remove(t)

Spec == Init /\ [][Next]_vars

\* A run goes on: its statements return or raise.
FairSpec == Spec /\ WF_vars(RunStep)

-----------------------------------------------------------------------------
(* Properties.                                                            *)

\* The arrangement the tests set up: an admin connection that sees past the
\* policies lists, the service role works (test_backfill.py:180).
Separate == url = "bypass" /\ pool = "service"

Driven(t) == ledger[t].status = "complete" /\ \A r \in RowsOf(t) : r.embedded

\* With the two roles apart, a call that returns has driven every tenant that
\* had chunks when the list was read to completion, whatever earlier calls
\* died of and however far they came (backfill.py:165-202), as long as nobody
\* ingests.
SeparateRolesDriveAll ==
    Separate /\ pc = "returned" /\ spent.ingests = 0 => \A t \in present : Driven(t)

\* "Enumerate every tenant document_chunks holds rows for, then drive each
\* one's backfill to completion" (backfill_cli.run:43-44), with the pool made
\* from DATABASE_URL, its default.
EveryTenantDriven ==
    pool = url /\ pc = "returned" /\ spent.ingests = 0 => \A t \in present : Driven(t)

\* A pool the policies hold for keeps tenants apart through a whole command: no
\* tenant's chunks are embedded at another's expense, every embedded chunk is
\* covered by the ledger of its own tenant, whatever calls died and whatever was
\* deleted or replaced meanwhile, which the ledger is not told; and whatever the
\* roles every variable keeps its type (backfill.py:83-118).
LedgerCoversItsOwn ==
    /\ TypeOK
    /\ pool # "bypass" =>
         \A t \in Tenants : ledger[t].done >= Cardinality({r \in RowsOf(t) : r.embedded})

\* "Returns the count of chunks actually backfilled per tenant during this
\* run" (run_backfill, backfill.py:190-191): what the result says of a tenant
\* is what its ledger has gained, also after calls that died half-way.
TotalsAreThisRun ==
    pc = "returned" => \A t \in Tenants : ledger[t].done = before[t] + totals[t]

\* A call ends, whatever the roles and whoever ingests (backfill.py:193-202).
EveryCallEnds == pc \in {"list", "batch"} ~> pc \in {"returned", "failed"}
=============================================================================
