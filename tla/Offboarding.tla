----------------------------- MODULE Offboarding -----------------------------
(***************************************************************************)
(* Tenant offboarding: purge_tenant (src/src/ingest/deletion.py) inside   *)
(* the tenant's own session, then the count on a connection of another    *)
(* role (src/src/db/offboard_cli.py).  The service goes on meanwhile: any *)
(* tenant's ingests, deletes, backfill batches and flips commit between   *)
(* any two statements.                                                    *)
(*                                                                         *)
(* Each DELETE removes the rows that were committed when it started; the  *)
(* three of them take effect together at the purge's commit.  The counts  *)
(* are three statements on their own, each over what is committed then.   *)
(***************************************************************************)
EXTENDS Integers, Sequences, FiniteSets

CONSTANTS
    Tenants,
    Target,      \* the tenant being offboarded
    MaxWrites,   \* bound: commits of the rest of the service that add a row
    MaxCalls     \* bound: offboard_tenant calls, one after the other

ASSUME TargetAssumption == Target \in Tenants
ASSUME BoundAssumption == MaxWrites \in Nat /\ MaxCalls \in Nat

VARIABLES
    table,     \* committed rows of the three tables
    config,    \* the roles behind the two connections
    call,      \* the offboard_tenant call
    writes,    \* rows added so far
    calls,     \* calls made so far
    cleared,   \* history: the target had no row at some moment of this call
    before     \* history: rows the target has had ever since this call began

vars == <<table, config, call, writes, calls, cleared, before>>

\* The order in which both the purge and the count visit the tables.
Tables == <<"chunks", "progress", "cutover">>
TableNames == {Tables[i] : i \in DOMAIN Tables}

\* A chunk is told apart by the write that added it; the other two tables
\* have one row per tenant.
Row == [table : TableNames, tenant : Tenants, key : Nat]

\* DATABASE_URL's role, and IA_RAG_VERIFICATION_DSN: unset, the same string
\* as DATABASE_URL, or another string for one role or the other.
Config == [pool : {"service", "bypass"},
           verification : {"unset", "same", "service", "bypass"}]

Running == {"check", "purge", "commit", "resolve", "connect", "count"}
Verdicts == {"refused", "untrusted", "notempty", "gone", "failed"}

Call == [pc : {"idle"} \cup Running \cup Verdicts,
         todo : Seq(TableNames),  \* tables the current loop has not visited
         doomed : SUBSET Row,     \* rows the DELETEs have matched
         remaining : Nat]         \* rows counted so far

NoCall == [pc |-> "idle", todo |-> <<>>, doomed |-> {}, remaining |-> 0]

RowsOf(t) == {r \in table : r.tenant = t}

TypeOK ==
    /\ table \subseteq Row
    /\ config \in Config
    /\ call \in Call
    /\ \E i \in 0..Len(Tables) : call.todo = SubSeq(Tables, i + 1, Len(Tables))
    /\ writes \in 0..MaxWrites
    /\ calls \in 0..MaxCalls
    /\ cleared \in BOOLEAN
    /\ before \subseteq RowsOf(Target)

Init ==
    /\ table = {}
    /\ config \in Config
    /\ call = NoCall
    /\ writes = 0
    /\ calls = 0
    /\ cleared = TRUE
    /\ before = {}

-----------------------------------------------------------------------------
(* The rest of the service.                                               *)

\* The open purge has the row locked: other writers of it wait.
Deleting(r) == call.pc \in {"purge", "commit"} /\ r \in call.doomed

\* An ingest commits a chunk, a backfill batch its progress row, a flip or a
\* rollback the cutover row; the last two are upserts.
Write(t, name) ==
    /\ writes < MaxWrites
    /\ writes' = writes + 1
    /\ LET row == [table |-> name, tenant |-> t, key |-> IF name = "chunks" THEN writes + 1 ELSE 0]
       IN  /\ ~Deleting(row)
           /\ table' = table \cup {row}
    /\ UNCHANGED <<config, call, calls>>

\* A chunk goes: its document was deleted, re-ingested or cleared.
DropChunk(r) ==
    /\ r.table = "chunks"
    /\ ~Deleting(r)
    /\ table' = table \ {r}
    /\ UNCHANGED <<config, call, writes, calls>>

-----------------------------------------------------------------------------
(* purge_tenant.                                                          *)

Start ==
    /\ call.pc \notin Running
    /\ calls < MaxCalls
    /\ calls' = calls + 1
    /\ call' = [NoCall EXCEPT !.pc = "check"]
    /\ UNCHANGED <<table, config, writes>>

\* [fault] the precondition is assumed, not asked.
AssumeScoped == FALSE

\* _SESSION_BYPASSES_RLS, asked in the transaction that is about to delete.
SessionBypassesRLS == config.pool = "bypass"

CheckScope ==
    /\ call.pc = "check"
    /\ call' = IF SessionBypassesRLS
               THEN [call EXCEPT !.pc = "refused"]
               ELSE [call EXCEPT !.pc = "purge", !.todo = Tables]
    /\ UNCHANGED <<table, config, writes, calls>>

\* What a statement without a WHERE clause matches in the purge's session.
Matched(name) ==
    {r \in table : r.table = name /\ (config.pool = "bypass" \/ r.tenant = Target)}

\* [fault] every DELETE commits on its own.
PurgeStatementCommitting ==
    /\ call.pc = "purge"
    /\ call' = [call EXCEPT !.todo = Tail(@), !.pc = IF Len(call.todo) = 1 THEN "commit" ELSE "purge"]
    /\ table' = table \ Matched(Head(call.todo))
    /\ UNCHANGED <<config, writes, calls>>

\* delete from document_chunks, backfill_progress, embedding_cutover
PurgeStatement ==
    /\ call.pc = "purge"
    /\ call' = [call EXCEPT !.doomed = @ \cup Matched(Head(call.todo)),
                            !.todo = Tail(@),
                            !.pc = IF Len(call.todo) = 1 THEN "commit" ELSE "purge"]
    /\ UNCHANGED <<table, config, writes, calls>>

CommitPurge ==
    /\ call.pc = "commit"
    /\ table' = table \ call.doomed
    /\ call' = [call EXCEPT !.pc = "resolve"]
    /\ UNCHANGED <<config, writes, calls>>

-----------------------------------------------------------------------------
(* count_tenant_rows and the verdict.                                     *)

\* verification_dsn(): unset and equal to DATABASE_URL are both refused.
Distinct == config.verification \notin {"unset", "same"}

ResolveDsn ==
    /\ call.pc = "resolve"
    /\ call' = [call EXCEPT !.pc = IF Distinct THEN "connect" ELSE "untrusted"]
    /\ UNCHANGED <<table, config, writes, calls>>

\* [fault] any role may count.
TrustAnyRole == TRUE

\* _assert_sees_past_rls
SeesPastRLS == config.verification = "bypass"

Connect ==
    /\ call.pc = "connect"
    /\ call' = IF SeesPastRLS
               THEN [call EXCEPT !.pc = "count", !.todo = Tables]
               ELSE [call EXCEPT !.pc = "untrusted"]
    /\ UNCHANGED <<table, config, writes, calls>>

\* A role the policy applies to, with no claim set, sees no row at all.
Counted(name) ==
    IF config.verification = "bypass"
    THEN Cardinality({r \in table : r.table = name /\ r.tenant = Target})
    ELSE 0

\* One count per table; after the last, log and raise TenantNotEmpty or return.
CountStatement ==
    /\ call.pc = "count"
    /\ LET remaining == call.remaining + Counted(Head(call.todo))
       IN  call' = [call EXCEPT
                      !.remaining = remaining,
                      !.todo = Tail(@),
                      !.pc = IF Len(call.todo) > 1 THEN "count"
                             ELSE IF remaining = 0 THEN "gone" ELSE "notempty"]
    /\ UNCHANGED <<table, config, writes, calls>>

\* A statement or a connection fails: an open purge is rolled back.
Fail ==
    /\ call.pc \in Running
    /\ call' = [NoCall EXCEPT !.pc = "failed"]
    /\ UNCHANGED <<table, config, writes, calls>>

-----------------------------------------------------------------------------
CallStep ==
    \/ CheckScope \/ PurgeStatement \/ CommitPurge
    \/ ResolveDsn \/ Connect \/ CountStatement

\* The two history variables follow every step.
Begins == call.pc \notin Running /\ call'.pc \in Running

Observe ==
    /\ cleared' = (RowsOf(Target)' = {} \/ (cleared /\ ~Begins))
    /\ before' = (IF Begins THEN RowsOf(Target) ELSE before) \cap table'

Next ==
    \/ \E t \in Tenants, name \in TableNames : Write(t, name) /\ Observe
    \/ \E r \in table : DropChunk(r) /\ Observe
    \/ Start /\ Observe
    \/ CallStep /\ Observe
    \/ Fail /\ Observe

Spec == Init /\ [][Next]_vars

-----------------------------------------------------------------------------
(* Properties.                                                            *)

ByTheCall == call' # call

\* Offboarding one tenant removes no other tenant's row, whatever roles the
\* two connections were configured with and wherever the call fails
\* (UnscopedPurgeRefused, deletion.py:45-60).
OnlyTargetPurged ==
    [][ByTheCall => \A r \in table \ table' : r.tenant = Target]_vars

\* The purge is one transaction: once a call has removed anything, nothing
\* that was there when it began and stayed is left in any of the three tables
\* (deletion.py:160-163).
NothingHalfPurged ==
    [][(ByTheCall /\ table' # table) => before' = {}]_vars

\* A call that reports the tenant gone has had a moment at which it was: no
\* row in any table, although chunks come and go between the counts, which are
\* three statements, and chunks are counted first; and every variable keeps
\* its type (offboard_cli.py:183-230).
SuccessMeansCleared ==
    /\ TypeOK
    /\ call.pc = "gone" => cleared

\* "offboard_tenant must never tell an operator a tenant is gone when it is
\* not" (tests/ingest/test_deletion.py:486): when the call returns, no row of
\* the tenant is there.
GoneMeansGone ==
    [][(ByTheCall /\ call'.pc = "gone") => RowsOf(Target)' = {}]_vars
=============================================================================
