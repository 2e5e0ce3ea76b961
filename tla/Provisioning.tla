---------------------------- MODULE Provisioning ----------------------------
(***************************************************************************)
(* Bringing a database up to date: the service role                       *)
(* (src/src/db/bootstrap_roles.py), the precondition on Pod P's table, and *)
(* the files of migrations/ with the ledger of what has been applied      *)
(* (src/src/db/migrate.py).  Releases add files, several processes may run *)
(* the command at once, and one may die between any two statements.       *)
(*                                                                         *)
(* Outside the file transactions every statement commits by itself.  "if   *)
(* not exists" is a look and a creation: who looks before another's        *)
(* creation and creates after it gets an error.                            *)
(***************************************************************************)
EXTENDS Integers, FiniteSets, Sequences

CONSTANTS
    Runners,       \* processes that may run migrate() at the same time
    MaxRuns,       \* bound: runs started
    MaxIncidents   \* bound: times BYPASSRLS is granted by hand

ASSUME RunnerAssumption == IsFiniteSet(Runners)
ASSUME BoundAssumption == MaxRuns \in Nat /\ MaxIncidents \in Nat

VARIABLES
    released,   \* files in migrations/ of the latest version
    documents,  \* whether Pod P's table is there
    role,       \* the service role
    schema,     \* statements of the files in effect
    bookkeeping,   \* migrate.py's own table, once it is there
    ledger,     \* files recorded in it
    run,        \* every process
    runs,       \* runs started so far
    incidents   \* incidents so far

vars == <<released, documents, role, schema, bookkeeping, ledger, run, runs, incidents>>

Files == 1..3   \* in filename order
None == 0

\* A statement is a pair: what it does, and to which table.
Extension == <<"extension", "vector">>

\* [fault] the grant stands beside the table it is for.
ScriptOpeningEarly(f) ==
    CASE f = 1 -> <<Extension, <<"table", "document_chunks">>, <<"grant", "document_chunks">>>>
      [] f = 2 -> <<<<"enable", "document_chunks">>, <<"force", "document_chunks">>,
                    <<"policy", "document_chunks">>>>
      [] f = 3 -> <<<<"columns", "document_chunks">>>>

\* What each file does, in order: a table comes with its indexes, a grant with
\* the revoke before it.
Script(f) ==
    CASE f = 1 -> <<Extension, <<"table", "document_chunks">>>>
      [] f = 2 -> <<<<"enable", "document_chunks">>, <<"force", "document_chunks">>,
                    <<"policy", "document_chunks">>, <<"grant", "document_chunks">>>>
      [] f = 3 -> <<<<"columns", "document_chunks">>,
                    <<"table", "backfill_progress">>,
                    <<"enable", "backfill_progress">>, <<"force", "backfill_progress">>,
                    <<"policy", "backfill_progress">>, <<"grant", "backfill_progress">>,
                    <<"table", "embedding_cutover">>,
                    <<"enable", "embedding_cutover">>, <<"force", "embedding_cutover">>,
                    <<"policy", "embedding_cutover">>, <<"grant", "embedding_cutover">>>>
Effects(f) == {Script(f)[i] : i \in DOMAIN Script(f)}
AllEffects == UNION {Effects(f) : f \in Files}
Tables == {"document_chunks", "backfill_progress", "embedding_cutover"}

\* Create table, create policy and add column say no "if not exists".
Repeatable == {"extension", "enable", "force", "grant"}

Running == {"look", "create", "alter", "verify", "documents", "find", "make",
            "ledger", "file", "execute", "extend", "record", "commit"}
Ended == {"ok", "bypassed", "missing", "conflict", "died"}

Run == [pc : {"idle"} \cup Running \cup Ended,
        shipped : Files,          \* files in its own copy of migrations/
        todo : SUBSET Files,      \* those it is still going to apply
        file : Files \cup {None}, \* the file whose transaction is open
        done : Nat,               \* how many of its statements are executed, uncommitted
        alone : BOOLEAN,          \* history: no other run was under way during it
        seen : Nat]               \* history: incidents before it altered the role

NoRun == [pc |-> "idle", shipped |-> 1, todo |-> {}, file |-> None, done |-> 0,
          alone |-> TRUE, seen |-> 0]

TypeOK ==
    /\ released \in Files
    /\ documents \in BOOLEAN
    /\ role \in [exists : BOOLEAN, bypass : BOOLEAN]
    /\ schema \subseteq AllEffects
    /\ bookkeeping \subseteq {"schema_migrations"}
    /\ ledger \subseteq Files
    /\ run \in [Runners -> Run]
    /\ runs \in 0..MaxRuns
    /\ incidents \in 0..MaxIncidents

Init ==
    /\ released = 1
    /\ documents \in BOOLEAN
    /\ role = [exists |-> FALSE, bypass |-> FALSE]
    /\ schema = {}
    /\ bookkeeping = {}
    /\ ledger = {}
    /\ run = [r \in Runners |-> NoRun]
    /\ runs = 0
    /\ incidents = 0

-----------------------------------------------------------------------------
Active(r) == run[r].pc \in Running
GoTo(r, pc) == run' = [run EXCEPT ![r].pc = pc]

\* A process of the latest version begins; neither it nor those under way are
\* alone from then on.
Start(r) ==
    /\ ~Active(r)
    /\ runs < MaxRuns
    /\ runs' = runs + 1
    /\ LET others == {q \in Runners \ {r} : Active(q)} IN
       run' = [q \in Runners |->
                 IF q = r
                 THEN [NoRun EXCEPT !.pc = "look", !.shipped = released, !.alone = others = {}]
                 ELSE [run[q] EXCEPT !.alone = @ /\ q \notin others]]
    /\ UNCHANGED <<released, documents, role, schema, bookkeeping, ledger, incidents>>

-----------------------------------------------------------------------------
(* ensure_service_role.                                                   *)

LookForRole(r) ==
    /\ run[r].pc = "look"
    /\ GoTo(r, IF role.exists THEN "alter" ELSE "create")
    /\ UNCHANGED <<released, documents, role, schema, bookkeeping, ledger, runs, incidents>>

CreateRole(r) ==
    /\ run[r].pc = "create"
    /\ role' = [role EXCEPT !.exists = TRUE]
    /\ GoTo(r, IF role.exists THEN "conflict" ELSE "alter")
    /\ UNCHANGED <<released, documents, schema, bookkeeping, ledger, runs, incidents>>

\* [fault] attributes are asserted at creation only, and not looked at.
LeaveRole(r) ==
    /\ run[r].pc = "alter"
    /\ run' = [run EXCEPT ![r] = [@ EXCEPT !.pc = "documents", !.seen = incidents]]
    /\ UNCHANGED <<released, documents, role, schema, bookkeeping, ledger, runs, incidents>>

\* alter role ... nosuperuser nobypassrls, then the two grants on the
\* database and the schema, which can be repeated.
AlterRole(r) ==
    /\ run[r].pc = "alter"
    /\ role' = [role EXCEPT !.bypass = FALSE]
    /\ run' = [run EXCEPT ![r] = [@ EXCEPT !.pc = "verify", !.seen = incidents]]
    /\ UNCHANGED <<released, documents, schema, bookkeeping, ledger, runs, incidents>>

VerifyRole(r) ==
    /\ run[r].pc = "verify"
    /\ GoTo(r, IF role.bypass THEN "bypassed" ELSE "documents")
    /\ UNCHANGED <<released, documents, role, schema, bookkeeping, ledger, runs, incidents>>

-----------------------------------------------------------------------------
(* migrate and apply_migrations.                                          *)

AssertDocuments(r) ==
    /\ run[r].pc = "documents"
    /\ GoTo(r, IF documents THEN "find" ELSE "missing")
    /\ UNCHANGED <<released, documents, role, schema, bookkeeping, ledger, runs, incidents>>

\* LEDGER_DDL, in two steps.
FindLedger(r) ==
    /\ run[r].pc = "find"
    /\ GoTo(r, IF bookkeeping = {} THEN "make" ELSE "ledger")
    /\ UNCHANGED <<released, documents, role, schema, bookkeeping, ledger, runs, incidents>>

MakeLedger(r) ==
    /\ run[r].pc = "make"
    /\ bookkeeping' = {"schema_migrations"}
    /\ GoTo(r, IF bookkeeping = {} THEN "ledger" ELSE "conflict")
    /\ UNCHANGED <<released, documents, role, schema, ledger, runs, incidents>>

\* [fault] the ledger is not consulted.
ReadNoLedger(r) ==
    /\ run[r].pc = "ledger"
    /\ run' = [run EXCEPT ![r] = [@ EXCEPT !.pc = "file", !.todo = 1 .. run[r].shipped]]
    /\ UNCHANGED <<released, documents, role, schema, bookkeeping, ledger, runs, incidents>>

\* applied_migrations and migration_files: what this run will apply.
ReadLedger(r) ==
    /\ run[r].pc = "ledger"
    /\ run' = [run EXCEPT ![r] = [@ EXCEPT !.pc = "file", !.todo = (1 .. run[r].shipped) \ ledger]]
    /\ UNCHANGED <<released, documents, role, schema, bookkeeping, ledger, runs, incidents>>

FirstFile(S) == CHOOSE f \in S : \A g \in S : f <= g

\* The next file's transaction begins, or there is none.
NextFile(r) ==
    /\ run[r].pc = "file"
    /\ run' = [run EXCEPT ![r] =
                 IF run[r].todo = {}
                 THEN [@ EXCEPT !.pc = "ok"]
                 ELSE [@ EXCEPT !.pc = "execute", !.file = FirstFile(run[r].todo)]]
    /\ UNCHANGED <<released, documents, role, schema, bookkeeping, ledger, runs, incidents>>

Statement(r) == Script(run[r].file)[run[r].done + 1]
Uncommitted(r) == {Script(run[r].file)[i] : i \in 1 .. run[r].done}

\* Whether another run has a file open that locks document_chunks until its
\* transaction ends: every statement of 0002, and the first of 0003, does.
LockHeld(r) ==
    \E q \in Runners \ {r} : Uncommitted(q) \ {Extension} # {}

\* Whether another run has created the extension and not committed.
ExtensionHeld(r) ==
    Extension \notin schema /\ \E q \in Runners \ {r} : Extension \in Uncommitted(q)

\* Whether the database takes a statement now; a repeated one raises, and so
\* does one whose table or role is not there.
Accepted(r) ==
    LET kind == Statement(r)[1]
        table == Statement(r)[2] IN
    /\ Statement(r) \in schema => kind \in Repeatable
    /\ kind \notin {"extension", "table"} => <<"table", table>> \in schema \cup Uncommitted(r)
    /\ kind = "grant" => role.exists

\* The run after its next statement, and after one that raised.
Advanced(r) ==
    [run[r] EXCEPT !.pc = IF run[r].done + 1 = Len(Script(run[r].file)) THEN "record" ELSE "execute",
                   !.done = run[r].done + 1]
GivenUp(r) == [run[r] EXCEPT !.pc = "conflict", !.file = None, !.done = 0]

\* [fault] every statement commits by itself.
ExecuteCommitting(r) ==
    /\ run[r].pc = "execute"
    /\ IF Accepted(r)
       THEN schema' = schema \cup {Statement(r)} /\ run' = [run EXCEPT ![r] = Advanced(r)]
       ELSE run' = [run EXCEPT ![r] = GivenUp(r)] /\ UNCHANGED schema
    /\ UNCHANGED <<released, documents, role, bookkeeping, ledger, runs, incidents>>

\* One statement of the file.  A missing extension is created in a step of its
\* own; the creation of a table waits for nobody, the rest for the lock.
Execute(r) ==
    /\ run[r].pc = "execute"
    /\ LockHeld(r) => Statement(r)[1] \in {"extension", "table"}
    /\ run' = [run EXCEPT ![r] =
                 IF ~Accepted(r) THEN GivenUp(r)
                 ELSE IF Statement(r) = Extension /\ Extension \notin schema
                 THEN [@ EXCEPT !.pc = "extend"]
                 ELSE Advanced(r)]
    /\ UNCHANGED <<released, documents, role, schema, bookkeeping, ledger, runs, incidents>>

\* The extension was not there; it is created unless another run has done so.
CreateExtension(r) ==
    /\ run[r].pc = "extend"
    /\ ~ExtensionHeld(r)
    /\ run' = [run EXCEPT ![r] = IF Extension \in schema THEN GivenUp(r) ELSE Advanced(r)]
    /\ UNCHANGED <<released, documents, role, schema, bookkeeping, ledger, runs, incidents>>

\* insert into schema_migrations, in the same transaction: no other run can
\* have recorded the file, having had to wait for the lock.
Record(r) ==
    /\ run[r].pc = "record"
    /\ GoTo(r, "commit")
    /\ UNCHANGED <<released, documents, role, schema, bookkeeping, ledger, runs, incidents>>

CommitFile(r) ==
    /\ run[r].pc = "commit"
    /\ schema' = schema \cup Uncommitted(r)
    /\ ledger' = ledger \cup {run[r].file}
    /\ run' = [run EXCEPT ![r] =
                 [@ EXCEPT !.pc = "file", !.todo = run[r].todo \ {run[r].file},
                           !.file = None, !.done = 0]]
    /\ UNCHANGED <<released, documents, role, bookkeeping, runs, incidents>>

\* [fault] the transaction of a dead process keeps its locks.
DieHolding(r) ==
    /\ Active(r)
    /\ run' = [run EXCEPT ![r].pc = "died"]
    /\ UNCHANGED <<released, documents, role, schema, bookkeeping, ledger, runs, incidents>>

\* The process or its connection dies, or a statement fails for a reason of
\* its own: the open transaction is rolled back.
Die(r) ==
    /\ Active(r)
    /\ run' = [run EXCEPT ![r] = [@ EXCEPT !.pc = "died", !.file = None, !.done = 0]]
    /\ UNCHANGED <<released, documents, role, schema, bookkeeping, ledger, runs, incidents>>

-----------------------------------------------------------------------------
(* What goes on around it.                                                *)

\* A release adds the next file; Pod P's schema arrives; someone grants
\* BYPASSRLS to the service role during an incident.
Release ==
    /\ released < Cardinality(Files)
    /\ released' = released + 1
    /\ UNCHANGED <<documents, role, schema, bookkeeping, ledger, run, runs, incidents>>

CreateDocuments ==
    /\ ~documents
    /\ documents' = TRUE
    /\ UNCHANGED <<released, role, schema, bookkeeping, ledger, run, runs, incidents>>

GrantBypass ==
    /\ role.exists
    /\ incidents < MaxIncidents
    /\ incidents' = incidents + 1
    /\ role' = [role EXCEPT !.bypass = TRUE]
    /\ UNCHANGED <<released, documents, schema, bookkeeping, ledger, run, runs>>

-----------------------------------------------------------------------------
RunStep(r) ==
    \/ LookForRole(r) \/ CreateRole(r) \/ AlterRole(r) \/ VerifyRole(r)
    \/ AssertDocuments(r) \/ FindLedger(r) \/ MakeLedger(r) \/ ReadLedger(r)
    \/ NextFile(r) \/ Execute(r) \/ CreateExtension(r) \/ Record(r) \/ CommitFile(r)

Next ==
    \/ \E r \in Runners : Start(r) \/ RunStep(r) \/ Die(r)
    \/ Release \/ CreateDocuments \/ GrantBypass

Spec == Init /\ [][Next]_vars

\* A process that was started goes on; nobody has to start one.
FairSpec == Spec /\ \A r \in Runners : WF_vars(RunStep(r))

-----------------------------------------------------------------------------
(* Properties.                                                            *)

\* Files take effect in order, without gaps: no file is applied over a schema
\* that its predecessor has not prepared (migrate.py:46-48, 78).
AppliedInOrder == \A f \in ledger : 1 .. f \subseteq ledger

\* The ledger is the schema: a file is recorded exactly if it is in effect,
\* nothing of a file that is not recorded is, and the files came in order,
\* whatever dies and whoever else is migrating; every variable keeps its type
\* (migrate.py:46-90).
LedgerIsTheSchema ==
    /\ TypeOK
    /\ schema = UNION {Effects(f) : f \in ledger}
    /\ AppliedInOrder

\* The service role is never able to read a table whose policy is not there,
\* enabled and forced, not between two files and not after a crash
\* (0002_chunks_rls.sql:12-42, 0003_embedding_v2.sql:48-57, 70-79).
NeverOpenUnprotected ==
    \A table \in Tables : <<"grant", table>> \in schema =>
        {<<"enable", table>>, <<"force", table>>, <<"policy", table>>} \subseteq schema

\* Re-running is a no-op rather than an error (migrate.py:71-74): a run that
\* had the database to itself never meets a statement that was applied before,
\* however many runs died before it and wherever.
AloneMeansNoConflict ==
    \A r \in Runners : run[r].pc = "conflict" => ~run[r].alone

\* A run that ends well has applied every file it was shipped with, and leaves
\* a role that the policies bind unless BYPASSRLS was granted by hand after it
\* had seen to that, even if another run was at work on the same role and the
\* same files (migrate.py:94-101, bootstrap_roles.py:36-41).
OkMeansCurrent ==
    \A r \in Runners : run[r].pc = "ok" =>
        /\ 1 .. run[r].shipped \subseteq ledger
        /\ role.exists
        /\ role.bypass => incidents > run[r].seen

\* A run that was started ends: runs never wait for each other for ever.
EveryRunEnds == \A r \in Runners : Active(r) ~> ~Active(r)
=============================================================================
