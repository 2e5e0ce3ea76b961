------------------------------ MODULE Ingestion ------------------------------
(***************************************************************************)
(* Tenant-scoped ingestion (src/src/ingest/pipeline.py) and the document  *)
(* half of the chunk-lifecycle write path (src/src/ingest/deletion.py),   *)
(* statement by statement, over the table of migrations/0001_chunks.sql   *)
(* and its policy in 0002_chunks_rls.sql.  Pod P, which owns the documents *)
(* table, updates and deletes documents at any moment.                    *)
(*                                                                         *)
(* The database is PostgreSQL at READ COMMITTED: every statement sees the *)
(* rows committed when it starts, a DELETE waits for the row locks in its *)
(* way, an INSERT waits for an undecided rival in the unique index, and   *)
(* the foreign key locks the parent document FOR KEY SHARE.               *)
(* A transaction is a record of the statements it has run; only Commit    *)
(* changes the committed tables.                                          *)
(***************************************************************************)
EXTENDS Corpus

CONSTANTS
    Sessions,    \* database sessions the service may have open at once
    PodP,        \* Pod P's session, which deletes documents
    MaxTxns,     \* bound: how many transactions the service begins
    None         \* no tenant, no document

ASSUME ActorAssumption == PodP \notin Sessions
ASSUME NoneAssumption == None \notin Docs /\ None \notin Tenants

VARIABLES
    documents,   \* committed: the version Pod P stores, or Absent
    chunks,      \* committed rows of document_chunks
    txn,         \* the open transaction of every session, or NoTxn
    begun        \* how many transactions the service has begun

vars == <<documents, chunks, txn, begun>>

Actors == Sessions \cup {PodP}

\* xmin names the transaction that inserted a row, as PostgreSQL's column
\* does: two ingests of one version write equal text into different rows.
Row == [doc : Docs, tenant : Tenants, version : Versions, index : Nat, xmin : Nat]

Txn == [pc : {"idle", "read", "embed", "delete", "deleting", "insert", "check", "commit"},
        job : {"none", "ingest", "delete", "cascade"},
        claim : Tenants \cup {None},       \* request.jwt.claims
        doc : Docs \cup {None},
        version : Versions \cup {Absent},  \* the document as it was read
        next : Nat,                        \* rows whose foreign key is checked
        target : SUBSET Row,               \* rows the DELETE saw at its start
        deleted : SUBSET Row,              \* rows it locked and deleted
        inserted : SUBSET Row,             \* rows inserted, uncommitted
        xid : Nat]

NoTxn == [pc |-> "idle", job |-> "none", claim |-> None, doc |-> None,
          version |-> Absent, next |-> 0,
          target |-> {}, deleted |-> {}, inserted |-> {}, xid |-> 0]

TypeOK ==
    /\ documents \in [Docs -> Versions \cup {Absent}]
    /\ chunks \subseteq Row
    /\ txn \in [Actors -> Txn]
    /\ begun \in Nat

Init ==
    /\ documents = [d \in Docs |-> 1]
    /\ chunks = {}
    /\ txn = [a \in Actors |-> NoTxn]
    /\ begun = 0

-----------------------------------------------------------------------------
(* Row-level security, the unique index and the lock table.               *)

RowsOf(d) == {r \in chunks : r.doc = d}

\* The USING clause of chunks_tenant_isolation.  The referential action of
\* the foreign key runs outside the policy.
Visible(a, r) == txn[a].job = "cascade" \/ r.tenant = txn[a].claim

SameKey(q, r) == q.doc = r.doc /\ q.index = r.index

NewRow(s) == [doc |-> txn[s].doc, tenant |-> txn[s].claim, version |-> txn[s].version,
              index |-> txn[s].next, xmin |-> txn[s].xid]

\* Pod P's DELETE has locked the document; an ingest holds it FOR KEY SHARE
\* once one of its rows has passed the foreign key.
DeletePending(d) == txn[PodP].pc # "idle" /\ txn[PodP].doc = d
KeyShared(d) == \E s \in Sessions : txn[s].doc = d /\ txn[s].next > 0

\* b holds what the current statement of a needs next.
Blocks(b, a) ==
    \/ /\ txn[a].pc = "deleting"
       /\ txn[a].target \cap txn[b].deleted # {}
    \/ /\ txn[a].pc = "insert"
       /\ \E q \in txn[b].inserted \cup txn[b].deleted : SameKey(q, NewRow(a))
    \/ /\ txn[a].pc = "check"
       /\ b = PodP /\ DeletePending(txn[a].doc)

Waiting(a) == \E b \in Actors \ {a} : Blocks(b, a)

-----------------------------------------------------------------------------
(* The transactions of the service.                                       *)

End(a) == txn' = [txn EXCEPT ![a] = NoTxn]

\* session(tenant_id): acquire a connection, begin, set the claim.
Begin(s, job, tenant, d) ==
    /\ txn[s].pc = "idle"
    /\ begun < MaxTxns
    /\ begun' = begun + 1
    /\ txn' = [txn EXCEPT ![s] =
                 [NoTxn EXCEPT !.pc = IF job = "ingest" THEN "read" ELSE "delete",
                               !.job = job, !.claim = tenant, !.doc = d,
                               !.xid = begun + 1]]
    /\ UNCHANGED <<documents, chunks>>

\* [fault] the read answers for a deleted document too.
DocumentVisibleEvenIfGone(d, tenant) == Owner[d] = tenant

\* The policy on documents scopes the read to the claim: a document that is
\* gone and one of another tenant both raise DocumentNotFound.
DocumentVisible(d, tenant) == documents[d] # Absent /\ Owner[d] = tenant

\* [fault] DocumentNotFound escapes without closing the transaction.
ReadDocumentKeepingSession(s) ==
    /\ txn[s].pc = "read"
    /\ DocumentVisible(txn[s].doc, txn[s].claim)
    /\ txn' = [txn EXCEPT ![s] =
                 [@ EXCEPT !.pc = "embed", !.version = documents[txn[s].doc]]]
    /\ UNCHANGED <<documents, chunks, begun>>

\* [fault] the text read is a version Pod P has not stored yet.
ReadDocumentAhead(s) ==
    /\ txn[s].pc = "read"
    /\ IF DocumentVisible(txn[s].doc, txn[s].claim)
       THEN txn' = [txn EXCEPT ![s] = [@ EXCEPT !.pc = "embed", !.version = MaxVersion]]
       ELSE End(s)
    /\ UNCHANGED <<documents, chunks, begun>>

ReadDocument(s) ==
    /\ txn[s].pc = "read"
    /\ IF DocumentVisible(txn[s].doc, txn[s].claim)
       THEN txn' = [txn EXCEPT ![s] =
                      [@ EXCEPT !.pc = "embed", !.version = documents[txn[s].doc]]]
       ELSE End(s)
    /\ UNCHANGED <<documents, chunks, begun>>

\* The embedder has answered (or there was nothing to embed): the DELETE
\* takes its snapshot.
Seen(s) == {r \in RowsOf(txn[s].doc) : Visible(s, r)}

StartDelete(s) ==
    /\ txn[s].pc \in {"embed", "delete"}
    /\ txn' = [txn EXCEPT ![s] = [@ EXCEPT !.pc = "deleting", !.target = Seen(s)]]
    /\ UNCHANGED <<documents, chunks, begun>>

\* [fault] an ingest that deletes in a transaction of its own.
FinishDeleteCommitting(a) ==
    /\ txn[a].pc = "deleting"
    /\ ~Waiting(a)
    /\ txn' = [txn EXCEPT ![a].pc = IF txn[a].job = "ingest" THEN "insert" ELSE "commit"]
    /\ chunks' = chunks \ txn[a].target
    /\ UNCHANGED <<documents, begun>>

\* Every row still there is locked and deleted; a row another transaction
\* deleted meanwhile is skipped.  A document's rows are locked together:
\* every DELETE of them walks the same index in the same order.
FinishDelete(a) ==
    /\ txn[a].pc = "deleting"
    /\ ~Waiting(a)
    /\ txn' = [txn EXCEPT ![a] =
                 [@ EXCEPT !.pc = IF txn[a].job = "ingest" THEN "insert" ELSE "commit",
                           !.deleted = txn[a].target \cap chunks]]
    /\ UNCHANGED <<documents, chunks, begun>>

\* [fault] no unique (document_id, chunk_index).
NoUniqueViolation(s) == FALSE

\* One INSERT, up to the unique index on (document_id, chunk_index).
UniqueViolation(s) == \E q \in chunks \ txn[s].deleted : SameKey(q, NewRow(s))

InsertRow(s) ==
    /\ txn[s].pc = "insert"
    /\ ~Waiting(s)
    /\ IF UniqueViolation(s)
       THEN End(s)
       ELSE txn' = [txn EXCEPT ![s] =
                      [@ EXCEPT !.pc = "check", !.inserted = txn[s].inserted \cup {NewRow(s)}]]
    /\ UNCHANGED <<documents, chunks, begun>>

PassForeignKey(s) ==
    txn' = [txn EXCEPT ![s] =
              [@ EXCEPT !.pc = IF txn[s].next + 1 = ChunkCount[txn[s].version]
                               THEN "commit" ELSE "insert",
                        !.next = txn[s].next + 1]]

\* [fault] document_id references nothing.
CheckNoParent(s) ==
    /\ txn[s].pc = "check"
    /\ PassForeignKey(s)
    /\ UNCHANGED <<documents, chunks, begun>>

\* The same INSERT's foreign key: lock the parent FOR KEY SHARE, or fail.
CheckParent(s) ==
    /\ txn[s].pc = "check"
    /\ ~Waiting(s)
    /\ IF documents[txn[s].doc] = Absent
       THEN End(s)
       ELSE PassForeignKey(s)
    /\ UNCHANGED <<documents, chunks, begun>>

Commit(a) ==
    /\ txn[a].pc = "commit"
    /\ chunks' = (chunks \ txn[a].deleted) \cup txn[a].inserted
    /\ documents' = IF a = PodP THEN [documents EXCEPT ![txn[a].doc] = Absent] ELSE documents
    /\ End(a)
    /\ UNCHANGED begun

\* The embedder or a statement raises, the task is cancelled, the connection
\* or the process is lost, or the server picks a victim: nothing persists.
Rollback(a) ==
    /\ txn[a].pc # "idle"
    /\ End(a)
    /\ UNCHANGED <<documents, chunks, begun>>

-----------------------------------------------------------------------------
(* Pod P, and the server's deadlock detector.                             *)

\* A new version of the text: not a key column, so KEY SHARE does not stop it.
UpdateDocument(d) ==
    /\ documents[d] \in 1 .. MaxVersion - 1
    /\ ~DeletePending(d)
    /\ documents' = [documents EXCEPT ![d] = @ + 1]
    /\ UNCHANGED <<chunks, txn, begun>>

\* DELETE of a document: the row is locked, then ON DELETE CASCADE starts
\* a DELETE of its chunks in the same transaction.
DeleteDocument(d) ==
    /\ txn[PodP].pc = "idle"
    /\ documents[d] # Absent
    /\ ~KeyShared(d)
    /\ txn' = [txn EXCEPT ![PodP] =
                 [NoTxn EXCEPT !.pc = "deleting", !.job = "cascade",
                               !.doc = d, !.target = RowsOf(d)]]
    /\ UNCHANGED <<documents, chunks, begun>>

\* A set of transactions in which each waits for one of the set, and no
\* part of which does: a cycle of the waits-for graph.
Stuck(S) == S # {} /\ \A a \in S : \E b \in S \ {a} : Blocks(b, a)
Deadlocked(a) ==
    \E S \in SUBSET Actors :
        /\ a \in S
        /\ Stuck(S)
        /\ \A T \in SUBSET S : Stuck(T) => T = S

DeadlockVictim(a) == Deadlocked(a) /\ Rollback(a)

-----------------------------------------------------------------------------
Step(a) ==
    \/ /\ a \in Sessions
       /\ \/ ReadDocument(a)
          \/ StartDelete(a)
          \/ InsertRow(a)
          \/ CheckParent(a)
    \/ FinishDelete(a)
    \/ Commit(a)

Next ==
    \/ \E s \in Sessions, job \in {"ingest", "delete"}, tenant \in Tenants, d \in Docs :
          Begin(s, job, tenant, d)
    \/ \E a \in Actors : Step(a)
    \/ \E a \in Actors : Rollback(a)
    \/ \E d \in Docs : UpdateDocument(d) \/ DeleteDocument(d)

Spec == Init /\ [][Next]_vars

\* A started transaction goes on: the event loop runs every ready task and
\* the embedder answers or raises; the server queues lock waiters in order,
\* so a waiter is not overtaken for ever, and breaks every cycle it finds.
\* Nobody is obliged to begin a transaction, to fail, or to touch a document.
Fairness ==
    \A a \in Actors : SF_vars(Step(a)) /\ WF_vars(DeadlockVictim(a))

FairSpec == Spec /\ Fairness

-----------------------------------------------------------------------------
(* Properties.                                                            *)

Batch(d, v, x) ==
    {[doc |-> d, tenant |-> Owner[d], version |-> v, index |-> i, xmin |-> x] :
        i \in 0 .. ChunkCount[v] - 1}

\* Old set or new set: whatever ingests, deletes, cascades, conflicts and
\* crashes overlap, the committed chunks of a document are none, or all the
\* chunks one ingest wrote for one version, every one stamped for the
\* document's own tenant.  Never both versions, never a part of one, never a
\* row another tenant's session wrote (pipeline.py:136-146, :105-113).
OldSetOrNewSet ==
    \A d \in Docs :
        \/ RowsOf(d) = {}
        \/ \E v \in Versions, x \in 1..begun : RowsOf(d) = Batch(d, v, x)

\* No deleted document is still retrievable: a committed chunk has its
\* document, even when the ingest that wrote it had read the document long
\* before Pod P deleted it (0001_chunks.sql:13, the contract's first clause).
NoOrphanChunks == \A r \in chunks : documents[r.doc] # Absent

\* A document that answers stops answering only because Pod P deleted it or
\* its own tenant asked for that: replacing never leaves it empty, and no
\* other tenant's session can empty it (deletion.py:139-157).
EmptiedOnlyOnRequest ==
    [][\A d \in Docs :
         (RowsOf(d) # {} /\ RowsOf(d)' = {}) =>
            \/ documents'[d] = Absent
            \/ \E s \in Sessions :
                  /\ txn[s].job = "delete" /\ txn[s].claim = Owner[d]
                  /\ txn'[s] = NoTxn]_vars

\* Every transaction ends: no overlap of ingests, deletes and cascades leaves
\* a session waiting for ever with its connection and its locks.
EveryTransactionEnds ==
    \A a \in Actors : txn[a].pc # "idle" ~> txn[a].pc = "idle"

\* What a reader of the committed table is served, by document.
PassagesIn(R) ==
    {[tenant |-> r.tenant, version |-> r.version, index |-> r.index] : r \in R}
ServedPassages == [d \in Docs |-> PassagesIn(RowsOf(d))]

Store == INSTANCE ChunkStore WITH served <- ServedPassages

\* The statements implement the one-step promises of ChunkStore: an ingest
\* replaces, a delete clears and a cascade removes in a single step.
ImplementsChunkStore == Store!StoreSpec
=============================================================================
