----------------------------- MODULE ChunkStore -----------------------------
(***************************************************************************)
(* What the write path of the chunk table promises the rest of the        *)
(* assistant, with no transactions, locks or statements in sight:         *)
(* a document is served by no passages at all, or by every passage of one *)
(* version it has had, and moving from one to the other is a single step. *)
(* docs/design/deletion-contract.md words the first two clauses of it;    *)
(* module Ingestion shows the statements of the source implement it.      *)
(***************************************************************************)
EXTENDS Corpus

VARIABLES
    documents,   \* the version Pod P stores, or Absent
    served       \* the passages a committed read of the document returns

storeVars == <<documents, served>>

Passage == [tenant : Tenants, version : Versions, index : Nat]

\* Every chunk of version v of document d, stamped with the document's tenant.
Passages(d, v) ==
    {[tenant |-> Owner[d], version |-> v, index |-> i] : i \in 0 .. ChunkCount[v] - 1}

StoreTypeOK ==
    /\ documents \in [Docs -> Versions \cup {Absent}]
    /\ served \in [Docs -> SUBSET Passage]

StoreInit ==
    /\ documents = [d \in Docs |-> 1]
    /\ served = [d \in Docs |-> {}]

-----------------------------------------------------------------------------
\* Pod P stores a new version; what is served is now behind.
Update(d) ==
    /\ documents[d] \in 1 .. MaxVersion - 1
    /\ documents' = [documents EXCEPT ![d] = @ + 1]
    /\ UNCHANGED served

\* Pod P deletes the document: its passages go in the same step.
Remove(d) ==
    /\ documents[d] # Absent
    /\ documents' = [documents EXCEPT ![d] = Absent]
    /\ served' = [served EXCEPT ![d] = {}]

\* An ingest of a version read earlier takes effect, whole.
Publish(d, v) ==
    /\ documents[d] # Absent
    /\ v \in 1 .. documents[d]
    /\ served' = [served EXCEPT ![d] = Passages(d, v)]
    /\ UNCHANGED documents

\* The owner's delete_document_chunks takes effect, whole.
Clear(d) ==
    /\ served' = [served EXCEPT ![d] = {}]
    /\ UNCHANGED documents

StoreNext ==
    \E d \in Docs :
        \/ Update(d)
        \/ Remove(d)
        \/ \E v \in Versions : Publish(d, v)
        \/ Clear(d)

StoreSpec == StoreInit /\ [][StoreNext]_storeVars
=============================================================================
