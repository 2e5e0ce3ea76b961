-------------------------- MODULE IngestionProofs --------------------------
(* Machine-checked proofs about Ingestion, for every set of documents,    *)
(* tenants and sessions and every number of versions and chunks.          *)
EXTENDS Ingestion, TLAPS

USE OwnerAssumption, VersionAssumption, CountAssumption, ActorAssumption, NoneAssumption

LEMMA NoTxnTyped == NoTxn \in Txn
  BY DEF NoTxn, Txn, Absent

LEMMA NewRowTyped ==
  ASSUME TypeOK, NEW s \in Sessions,
         txn[s].doc \in Docs, txn[s].claim \in Tenants, txn[s].version \in Versions
  PROVE  NewRow(s) \in Row
  BY DEF TypeOK, NewRow, Row, Txn, Actors

-----------------------------------------------------------------------------
(* The inductive invariant.  OldSetOrNewSet is not inductive: that a      *)
(* commit leaves one whole batch depends on what every open transaction   *)
(* has locked, deleted and inserted, and on whom it excludes.             *)

RowAt(t, i) == [doc |-> t.doc, tenant |-> t.claim, version |-> t.version,
                index |-> i, xmin |-> t.xid]

\* The fields of a transaction agree with the statement it has reached.
Phase(t, a) ==
    /\ t.pc = "idle" => t = NoTxn
    /\ t.pc # "idle" => t.doc \in Docs
    /\ a = PodP => t.pc \in {"idle", "deleting", "commit"} /\ t.xid = 0
    /\ t.pc # "idle" => (t.job = "cascade" <=> a = PodP) /\ t.job # "none"
    /\ t.pc \in {"read", "embed", "insert", "check"} => t.job = "ingest"
    /\ t.job # "none" /\ a # PodP => t.claim \in Tenants /\ t.xid > 0
    /\ t.job = "ingest" /\ t.pc # "read" =>
          t.claim = Owner[t.doc] /\ t.version \in Versions
    /\ a # PodP => \A r \in t.target : r.tenant = t.claim

\* How far an ingest has come with its rows.
Progress(t) ==
    /\ t.inserted = {RowAt(t, i) : i \in 0 .. (t.next + (IF t.pc = "check" THEN 1 ELSE 0)) - 1}
    /\ t.job # "ingest" \/ t.pc \in {"read", "embed", "delete", "deleting"} => t.next = 0
    /\ t.pc \in {"insert", "check"} => t.next < ChunkCount[t.version]
    /\ t.pc = "commit" /\ t.job = "ingest" => t.next = ChunkCount[t.version]

\* The rows a DELETE saw were a whole batch, and only they are deleted.
Snapshot(t, n) ==
    /\ t.xid <= n
    /\ t.target = {} \/ \E v \in Versions, x \in 1..n : t.target = Batch(t.doc, v, x)
    /\ t.deleted \subseteq t.target
    /\ t.pc \in {"read", "embed", "delete", "deleting"} => t.deleted = {}

\* What two open transactions keep from each other.
Apart(t, u) ==
    /\ t.deleted \cap u.deleted = {}
    /\ \A q \in t.inserted, r \in u.inserted : ~SameKey(q, r)
    /\ t.xid = u.xid => t.xid = 0

\* How an open transaction stands to the committed table.
AgainstTable(t) ==
    /\ t.deleted \subseteq chunks
    /\ t.pc \in {"insert", "check", "commit"} => t.target \cap chunks \subseteq t.deleted
    /\ \A q \in t.inserted, r \in chunks \ t.deleted : ~SameKey(q, r)
    /\ \A r \in chunks : r.xmin # t.xid

\* A DELETE's snapshot never holds a row of a transaction still open.
SnapshotsOld(t, u) == \A r \in t.target : r.xmin # u.xid

\* An ingest never holds a version its document has not had; once it has
\* passed the foreign key it pins the document; Pod P's pending DELETE has
\* seen every chunk its document will ever have.
Behind(s) == txn[s].version # Absent /\ documents[txn[s].doc] # Absent
                => txn[s].version <= documents[txn[s].doc]
Pinned(s) == txn[s].next > 0 =>
                /\ documents[txn[s].doc] # Absent
                /\ ~DeletePending(txn[s].doc)
CascadeSeesAll == txn[PodP].pc # "idle" => RowsOf(txn[PodP].doc) \subseteq txn[PodP].target

LocalInv == \A a \in Actors : /\ Phase(txn[a], a)
                              /\ Progress(txn[a])
                              /\ Snapshot(txn[a], begun)
PairInv == \A a, b \in Actors : /\ a # b => Apart(txn[a], txn[b])
                                /\ SnapshotsOld(txn[a], txn[b])
TableInv == \A a \in Actors : AgainstTable(txn[a])
ParentInv == (\A s \in Sessions : Behind(s) /\ Pinned(s)) /\ CascadeSeesAll

IInv == TypeOK /\ LocalInv /\ PairInv /\ TableInv /\ ParentInv /\ OldSetOrNewSet /\ NoOrphanChunks

-----------------------------------------------------------------------------
(* Steps that change one transaction and no committed table.              *)

LEMMA RowAtTyped ==
  ASSUME NEW t \in Txn, t.doc \in Docs, t.claim \in Tenants, t.version \in Versions,
         NEW i \in Nat
  PROVE  RowAt(t, i) \in Row
  BY DEF RowAt, Row, Txn

LEMMA BatchFacts ==
  ASSUME NEW d \in Docs, NEW v \in Versions, NEW x \in Nat
  PROVE  /\ Batch(d, v, x) \subseteq Row
         /\ \A r \in Batch(d, v, x) : r.doc = d /\ r.version = v /\ r.xmin = x
         /\ \E r \in Batch(d, v, x) : r.index = 0
<1>1. v \in 1..MaxVersion /\ ChunkCount[v] \in Nat \ {0} /\ Owner[d] \in Tenants
  BY DEF Versions
<1>2. Batch(d, v, x) \subseteq Row
  BY <1>1 DEF Batch, Row
<1>3. \A r \in Batch(d, v, x) : r.doc = d /\ r.version = v /\ r.xmin = x
  BY DEF Batch
<1>4. [doc |-> d, tenant |-> Owner[d], version |-> v, index |-> 0, xmin |-> x] \in Batch(d, v, x)
  BY <1>1 DEF Batch
<1> QED BY <1>2, <1>3, <1>4

LEMMA FrameStep ==
  ASSUME IInv, NEW a \in Actors, NEW t \in Txn,
         txn' = [txn EXCEPT ![a] = t],
         UNCHANGED <<documents, chunks>>, begun' \in Nat, begun' >= begun,
         Phase(t, a), Progress(t), Snapshot(t, begun'), AgainstTable(t),
         \A b \in Actors \ {a} : /\ Apart(t, txn[b])
                                 /\ SnapshotsOld(t, txn[b])
                                 /\ SnapshotsOld(txn[b], t),
         SnapshotsOld(t, t),
         ParentInv'
  PROVE  IInv'
<1> USE DEF IInv
<1>1. /\ txn'[a] = t
      /\ \A b \in Actors \ {a} : txn'[b] = txn[b]
  BY DEF TypeOK
<1>2. TypeOK'
  BY DEF TypeOK
<1>3. LocalInv'
  <2> SUFFICES ASSUME NEW b \in Actors
               PROVE  Phase(txn'[b], b) /\ Progress(txn'[b]) /\ Snapshot(txn'[b], begun')
    BY DEF LocalInv
  <2>1. CASE b = a
    BY <1>1, <2>1
  <2>2. CASE b # a
    <3>1. Phase(txn[b], b) /\ Progress(txn[b]) /\ Snapshot(txn[b], begun)
      BY DEF LocalInv
    <3>2. Snapshot(txn[b], begun')
      BY <3>1 DEF Snapshot, TypeOK, Txn
    <3> QED BY <1>1, <2>2, <3>1, <3>2
  <2> QED BY <2>1, <2>2
<1>4. PairInv'
  <2>1. \A b \in Actors \ {a} : Apart(txn[b], t)
    BY DEF Apart, SameKey
  <2> QED BY <1>1, <2>1 DEF PairInv
<1>5. TableInv'
  <2>1. \A b \in Actors : AgainstTable(txn'[b])
    BY <1>1 DEF TableInv
  <2> QED BY <2>1 DEF TableInv, AgainstTable
<1>6. OldSetOrNewSet'
  <2> SUFFICES ASSUME NEW d \in Docs, RowsOf(d)' # {}
               PROVE  \E v \in Versions, x \in 1..begun' : RowsOf(d)' = Batch(d, v, x)
    BY DEF OldSetOrNewSet, Batch
  <2>1. RowsOf(d)' = RowsOf(d)
    BY DEF RowsOf
  <2>2. PICK v \in Versions, x \in 1..begun : RowsOf(d) = Batch(d, v, x)
    BY <2>1 DEF OldSetOrNewSet
  <2>3. x \in 1..begun'
    BY DEF TypeOK
  <2> QED BY <2>1, <2>2, <2>3
<1>7. NoOrphanChunks'
  BY DEF NoOrphanChunks
<1> QED BY <1>2, <1>3, <1>4, <1>5, <1>6, <1>7

LEMMA EmptyTxn ==
  ASSUME NEW a \in Actors, NEW n \in Nat
  PROVE  /\ NoTxn \in Txn
         /\ Phase(NoTxn, a) /\ Progress(NoTxn) /\ Snapshot(NoTxn, n)
  BY NoTxnTyped DEF NoTxn, Phase, Progress, Snapshot, RowAt

\* The rows an open transaction deleted, and its snapshot, were whole and old.
LEMMA SnapshotOlder ==
  ASSUME IInv, NEW a \in Actors
  PROVE  \A r \in txn[a].target : r.xmin \in 1..begun
<1>1. Snapshot(txn[a], begun) /\ txn[a] \in Txn /\ begun \in Nat
  BY DEF IInv, LocalInv, TypeOK
<1>2. SUFFICES ASSUME txn[a].target # {}
               PROVE  \A r \in txn[a].target : r.xmin \in 1..begun
  OBVIOUS
<1>3. PICK v \in Versions, x \in 1..begun : txn[a].target = Batch(txn[a].doc, v, x)
  BY <1>1, <1>2 DEF Snapshot
<1>4. \A r \in Batch(txn[a].doc, v, x) : r.xmin = x
  BY DEF Batch
<1> QED BY <1>1, <1>3, <1>4

LEMMA CommittedOld ==
  ASSUME IInv
  PROVE  \A r \in chunks : r \in Row /\ r.xmin \in 1..begun
<1>1. TAKE r \in chunks
<1>2. r \in Row /\ r.doc \in Docs /\ r \in RowsOf(r.doc)
  BY DEF IInv, TypeOK, Row, RowsOf
<1>3. PICK v \in Versions, x \in 1..begun : RowsOf(r.doc) = Batch(r.doc, v, x)
  BY <1>2 DEF IInv, OldSetOrNewSet
<1> QED BY <1>2, <1>3 DEF Batch

LEMMA EndStep ==
  ASSUME IInv, NEW a \in Actors, End(a), UNCHANGED <<documents, chunks, begun>>
  PROVE  IInv'
<1>1. NoTxn \in Txn /\ Phase(NoTxn, a) /\ Progress(NoTxn) /\ Snapshot(NoTxn, begun')
  BY EmptyTxn DEF IInv, TypeOK
<1>2. AgainstTable(NoTxn)
  <2>1. \A r \in chunks : r.xmin # 0
    BY CommittedOld DEF IInv, TypeOK
  <2> QED BY <2>1 DEF AgainstTable, NoTxn
<1>3. ASSUME NEW b \in Actors
      PROVE  Apart(NoTxn, txn[b]) /\ SnapshotsOld(NoTxn, txn[b]) /\ SnapshotsOld(txn[b], NoTxn)
  <2>1. \A r \in txn[b].target : r.xmin # 0
    BY SnapshotOlder DEF IInv, TypeOK
  <2> QED BY <2>1 DEF Apart, SnapshotsOld, NoTxn
<1>4. SnapshotsOld(NoTxn, NoTxn)
  BY DEF SnapshotsOld, NoTxn
<1>5. ParentInv'
  BY DEF IInv, TypeOK, ParentInv, Behind, Pinned, CascadeSeesAll, DeletePending, RowsOf, End, NoTxn, Actors
<1>6. txn' = [txn EXCEPT ![a] = NoTxn] /\ begun' \in Nat /\ begun' >= begun
  BY DEF End, IInv, TypeOK
<1> QED BY <1>1, <1>2, <1>3, <1>4, <1>5, <1>6, FrameStep

LEMMA BeginStep ==
  ASSUME IInv, NEW s \in Sessions, NEW job \in {"ingest", "delete"},
         NEW tenant \in Tenants, NEW d \in Docs, Begin(s, job, tenant, d)
  PROVE  IInv'
<1> DEFINE t == [NoTxn EXCEPT !.pc = IF job = "ingest" THEN "read" ELSE "delete",
                              !.job = job, !.claim = tenant, !.doc = d,
                              !.xid = begun + 1]
<1>1. /\ s \in Actors /\ s # PodP
      /\ begun \in Nat /\ begun' = begun + 1 /\ begun' \in Nat /\ begun' >= begun
      /\ txn' = [txn EXCEPT ![s] = t]
      /\ UNCHANGED <<documents, chunks>>
  BY DEF IInv, TypeOK, Begin, Actors
<1>2. /\ t.pc \in {"read", "delete"} /\ (t.pc = "read" <=> job = "ingest") /\ t.job = job
      /\ t.claim = tenant /\ t.doc = d /\ t.xid = begun + 1 /\ t.next = 0
      /\ t.version = Absent
      /\ t.target = {} /\ t.deleted = {} /\ t.inserted = {} /\ t \in Txn
  <2>1. t \in Txn
    BY <1>1, NoTxnTyped DEF Txn
  <2>2. /\ NoTxn.next = 0 /\ NoTxn.version = Absent /\ NoTxn.target = {} /\ NoTxn.deleted = {} /\ NoTxn.inserted = {}
        /\ NoTxn \in Txn
    BY NoTxnTyped DEF NoTxn
  <2> QED BY <2>1, <2>2 DEF Txn
<1> HIDE DEF t
<1>3. Phase(t, s) /\ Progress(t) /\ Snapshot(t, begun')
  BY <1>1, <1>2 DEF Phase, Progress, Snapshot
<1>4. AgainstTable(t)
  BY <1>1, <1>2, CommittedOld DEF AgainstTable
<1>5. ASSUME NEW b \in Actors \ {s}
      PROVE  Apart(t, txn[b]) /\ SnapshotsOld(t, txn[b]) /\ SnapshotsOld(txn[b], t)
  <2>1. txn[b].xid <= begun /\ txn[b].xid \in Nat
    BY DEF IInv, LocalInv, Snapshot, TypeOK, Txn
  <2>2. \A r \in txn[b].target : r.xmin # begun + 1
    BY <1>1, SnapshotOlder
  <2> QED BY <1>1, <1>2, <2>1, <2>2 DEF Apart, SnapshotsOld
<1>6. SnapshotsOld(t, t)
  BY <1>2 DEF SnapshotsOld
<1>7. ParentInv'
  BY <1>1, <1>2 DEF IInv, TypeOK, ParentInv, Behind, Pinned, CascadeSeesAll, DeletePending, RowsOf, Actors
<1> QED BY <1>1, <1>2, <1>3, <1>4, <1>5, <1>6, <1>7, FrameStep

LEMMA ReadDocumentStep ==
  ASSUME IInv, NEW s \in Sessions, ReadDocument(s)
  PROVE  IInv'
<1> DEFINE t == [txn[s] EXCEPT !.pc = "embed", !.version = documents[txn[s].doc]]
<1>1. /\ s \in Actors /\ s # PodP /\ txn[s] \in Txn /\ txn[s].pc = "read"
      /\ begun \in Nat /\ begun' \in Nat /\ begun' >= begun
      /\ UNCHANGED <<documents, chunks, begun>>
  BY DEF IInv, TypeOK, ReadDocument, Actors
<1>2. CASE ~DocumentVisible(txn[s].doc, txn[s].claim)
  BY <1>1, <1>2, EndStep DEF ReadDocument
<1>3. CASE DocumentVisible(txn[s].doc, txn[s].claim)
  <2>1. txn' = [txn EXCEPT ![s] = t]
    BY <1>3 DEF ReadDocument, IInv, TypeOK
  <2>2. Phase(txn[s], s) /\ Progress(txn[s]) /\ Snapshot(txn[s], begun)
    BY <1>1 DEF IInv, LocalInv
  <2>3. txn[s].doc \in Docs /\ txn[s].job = "ingest" /\ documents[txn[s].doc] \in Versions
        /\ txn[s].claim = Owner[txn[s].doc]
    BY <1>1, <1>3, <2>2 DEF Phase, DocumentVisible, IInv, TypeOK
  <2>4. /\ t.pc = "embed" /\ t.version \in Versions /\ t.job = "ingest" /\ t.doc = txn[s].doc
        /\ t.claim = Owner[t.doc] /\ t.claim \in Tenants /\ t.xid = txn[s].xid /\ t.next = txn[s].next
        /\ t.target = txn[s].target /\ t.deleted = txn[s].deleted
        /\ t.inserted = txn[s].inserted /\ t \in Txn
    BY <1>1, <2>3 DEF Txn
  <2> HIDE DEF t
  <2>5. t.next = 0 /\ t.inserted = {} /\ txn[s].next = 0
    BY <1>1, <2>2, <2>4 DEF Progress
  <2>6. Phase(t, s) /\ Progress(t) /\ Snapshot(t, begun')
    BY <1>1, <2>2, <2>3, <2>4, <2>5 DEF Phase, Progress, Snapshot
  <2>7. AgainstTable(t)
    BY <1>1, <2>4, <2>5 DEF AgainstTable, IInv, TableInv
  <2>8. \A b \in Actors \ {s} : Apart(t, txn[b]) /\ SnapshotsOld(t, txn[b]) /\ SnapshotsOld(txn[b], t)
    BY <1>1, <2>4 DEF IInv, PairInv, Apart, SnapshotsOld
  <2>9. SnapshotsOld(t, t)
    BY <1>1, <2>4 DEF IInv, PairInv, SnapshotsOld
  <2>10. ParentInv'
    <3>1. txn'[s] = t /\ t.doc = txn[s].doc /\ t.version = documents[t.doc]
          /\ t.doc \in Docs /\ documents[t.doc] \in Nat
      BY <1>1, <2>1, <2>3 DEF IInv, TypeOK, Versions, t, Txn
    <3> QED BY <1>1, <2>1, <2>5, <3>1 DEF IInv, TypeOK, ParentInv, Behind, Pinned, CascadeSeesAll, DeletePending, RowsOf, Actors
  <2> QED BY <1>1, <2>1, <2>4, <2>6, <2>7, <2>8, <2>9, <2>10, FrameStep
<1> QED BY <1>2, <1>3

\* What the invariant says of one session, collected.
LEMMA SessionFacts ==
  ASSUME IInv, NEW s \in Sessions
  PROVE  /\ s \in Actors /\ s # PodP /\ txn[s] \in Txn /\ begun \in Nat
         /\ Phase(txn[s], s) /\ Progress(txn[s]) /\ Snapshot(txn[s], begun)
         /\ AgainstTable(txn[s]) /\ SnapshotsOld(txn[s], txn[s]) /\ Pinned(s)
         /\ \A b \in Actors \ {s} : /\ Apart(txn[s], txn[b]) /\ txn[b] \in Txn
                                    /\ SnapshotsOld(txn[s], txn[b])
                                    /\ SnapshotsOld(txn[b], txn[s])
  BY DEF IInv, TypeOK, LocalInv, TableInv, PairInv, ParentInv, Actors

LEMMA StartDeleteStep ==
  ASSUME IInv, NEW s \in Sessions, StartDelete(s)
  PROVE  IInv'
<1> DEFINE T == Seen(s)
           t == [txn[s] EXCEPT !.pc = "deleting", !.target = T]
<1>1. /\ txn' = [txn EXCEPT ![s] = t]
      /\ UNCHANGED <<documents, chunks, begun>> /\ begun' \in Nat /\ begun' >= begun
  BY DEF StartDelete, IInv, TypeOK
<1>2. /\ txn[s].pc \in {"embed", "delete"} /\ txn[s].doc \in Docs /\ txn[s].job # "cascade"
      /\ txn[s].deleted = {} /\ txn[s].next = 0 /\ txn[s].inserted = {}
  BY SessionFacts DEF StartDelete, Phase, Snapshot, Progress
<1>3. T \subseteq chunks /\ T \in SUBSET Row /\ txn[s] \in Txn
  BY DEF Seen, RowsOf, IInv, TypeOK, Actors
<1>4. /\ t.pc = "deleting" /\ t.job = txn[s].job /\ t.claim = txn[s].claim
      /\ t.doc = txn[s].doc /\ t.version = txn[s].version /\ t.xid = txn[s].xid
      /\ t.next = 0 /\ t.target = T /\ t.deleted = {} /\ t.inserted = {} /\ t \in Txn
  BY <1>2, <1>3 DEF Txn
<1>5. T = {} \/ \E v \in Versions, x \in 1..begun : T = Batch(txn[s].doc, v, x)
  <2>1. CASE RowsOf(txn[s].doc) = {}
    BY <2>1 DEF Seen
  <2>2. CASE RowsOf(txn[s].doc) # {}
    <3>1. PICK v \in Versions, x \in 1..begun : RowsOf(txn[s].doc) = Batch(txn[s].doc, v, x)
      BY <1>2, <2>2 DEF IInv, OldSetOrNewSet
    <3>2. \A r \in RowsOf(txn[s].doc) : r.tenant = Owner[txn[s].doc]
      BY <3>1 DEF Batch
    <3>3. T = {} \/ T = RowsOf(txn[s].doc)
      BY <1>2, <3>2 DEF Seen, Visible
    <3> QED BY <3>1, <3>3
  <2> QED BY <2>1, <2>2
<1> HIDE DEF t, T
<1>6. Phase(t, s) /\ Progress(t) /\ Snapshot(t, begun')
  <2>1. \A r \in t.target : r.tenant = t.claim
    BY <1>2, <1>4 DEF T, Seen, Visible
  <2>2. Phase(t, s)
    BY <1>2, <1>4, <2>1, SessionFacts DEF Phase
  <2>3. Progress(t)
    BY <1>2, <1>4 DEF Progress
  <2>4. Snapshot(t, begun')
    BY <1>1, <1>4, <1>5, SessionFacts DEF Snapshot
  <2> QED BY <2>2, <2>3, <2>4
<1>7. AgainstTable(t)
  BY <1>4, SessionFacts DEF AgainstTable
<1>8. \A b \in Actors : SnapshotsOld(t, txn[b])
  BY <1>3, <1>4 DEF SnapshotsOld, IInv, TableInv, AgainstTable
<1>9. \A b \in Actors \ {s} : Apart(t, txn[b]) /\ SnapshotsOld(txn[b], t)
  BY <1>2, <1>4, SessionFacts DEF Apart, SnapshotsOld
<1>10. SnapshotsOld(t, t)
  BY <1>4, <1>8, SessionFacts DEF SnapshotsOld
<1>11. ParentInv'
  BY <1>1, <1>4, SessionFacts
  DEF IInv, TypeOK, ParentInv, Behind, Pinned, CascadeSeesAll, DeletePending, RowsOf, Actors
<1> QED BY <1>1, <1>4, <1>6, <1>7, <1>8, <1>9, <1>10, <1>11, FrameStep, SessionFacts

LEMMA FinishDeleteStep ==
  ASSUME IInv, NEW a \in Actors, FinishDelete(a)
  PROVE  IInv'
<1> DEFINE t == [txn[a] EXCEPT !.pc = IF txn[a].job = "ingest" THEN "insert" ELSE "commit",
                               !.deleted = txn[a].target \cap chunks]
<1>1. /\ txn' = [txn EXCEPT ![a] = t] /\ txn[a].pc = "deleting" /\ txn[a] \in Txn
      /\ UNCHANGED <<documents, chunks, begun>> /\ begun' \in Nat /\ begun' >= begun
  BY DEF FinishDelete, IInv, TypeOK
<1>2. Phase(txn[a], a) /\ Progress(txn[a]) /\ Snapshot(txn[a], begun) /\ AgainstTable(txn[a])
  BY DEF IInv, LocalInv, TableInv
<1>3. /\ t.pc = (IF txn[a].job = "ingest" THEN "insert" ELSE "commit")
      /\ t.job = txn[a].job /\ t.claim = txn[a].claim /\ t.doc = txn[a].doc
      /\ t.version = txn[a].version /\ t.xid = txn[a].xid /\ t.next = txn[a].next
      /\ t.target = txn[a].target /\ t.deleted = txn[a].target \cap chunks
      /\ t.inserted = txn[a].inserted /\ t \in Txn
  BY <1>1 DEF Txn
<1> HIDE DEF t
<1>4. t.next = 0 /\ t.inserted = {} /\ t.job # "none"
  BY <1>1, <1>2, <1>3 DEF Phase, Progress
<1>5. Phase(t, a) /\ Snapshot(t, begun')
  BY <1>1, <1>2, <1>3 DEF Phase, Snapshot
<1>6. Progress(t)
  <2>1. t.job = "ingest" => ChunkCount[t.version] \in Nat \ {0}
    BY <1>1, <1>2, <1>3 DEF Phase, Versions
  <2> QED BY <2>1, <1>3, <1>4 DEF Progress
<1>7. AgainstTable(t)
  BY <1>2, <1>3, <1>4 DEF AgainstTable
<1>8. ASSUME NEW b \in Actors \ {a}
      PROVE  Apart(t, txn[b]) /\ SnapshotsOld(t, txn[b]) /\ SnapshotsOld(txn[b], t)
  <2>1. txn[a].target \cap txn[b].deleted = {}
    BY <1>1 DEF FinishDelete, Waiting, Blocks
  <2> QED BY <1>3, <2>1 DEF IInv, PairInv, Apart, SnapshotsOld
<1>9. SnapshotsOld(t, t)
  BY <1>3 DEF IInv, PairInv, SnapshotsOld
<1>10. ParentInv'
  BY <1>1, <1>3, <1>4
  DEF IInv, TypeOK, ParentInv, Behind, Pinned, CascadeSeesAll, DeletePending, RowsOf, Actors
<1> QED BY <1>1, <1>3, <1>5, <1>6, <1>7, <1>8, <1>9, <1>10, FrameStep

LEMMA InsertRowStep ==
  ASSUME IInv, NEW s \in Sessions, InsertRow(s)
  PROVE  IInv'
<1> DEFINE r == NewRow(s)
           t == [txn[s] EXCEPT !.pc = "check", !.inserted = txn[s].inserted \cup {r}]
<1>1. /\ txn[s].pc = "insert" /\ txn[s] \in Txn /\ s \in Actors /\ ~Waiting(s)
      /\ UNCHANGED <<documents, chunks, begun>> /\ begun' \in Nat /\ begun' >= begun
  BY DEF InsertRow, IInv, TypeOK, Actors
<1>2. CASE UniqueViolation(s)
  BY <1>1, <1>2, EndStep DEF InsertRow
<1>3. CASE ~UniqueViolation(s)
  <2>1. txn' = [txn EXCEPT ![s] = t]
    BY <1>3 DEF InsertRow, IInv, TypeOK
  <2>2. Phase(txn[s], s) /\ Progress(txn[s]) /\ Snapshot(txn[s], begun) /\ AgainstTable(txn[s])
    BY <1>1, SessionFacts
  <2>3. r \in Row /\ r = RowAt(txn[s], txn[s].next)
    BY <1>1, <2>2, NewRowTyped DEF Phase, NewRow, RowAt, IInv, Txn
  <2>4. /\ t.pc = "check" /\ t.job = txn[s].job /\ t.claim = txn[s].claim
        /\ t.doc = txn[s].doc /\ t.version = txn[s].version /\ t.xid = txn[s].xid
        /\ t.next = txn[s].next /\ t.target = txn[s].target /\ t.deleted = txn[s].deleted
        /\ t.inserted = txn[s].inserted \cup {r} /\ t \in Txn
    BY <1>1, <2>3 DEF Txn
  <2> HIDE DEF t, r
  <2>5. Phase(t, s) /\ Snapshot(t, begun')
    BY <1>1, <2>2, <2>4 DEF Phase, Snapshot
  <2>6. Progress(t)
    <3>1. \A i : RowAt(t, i) = RowAt(txn[s], i)
      BY <2>4 DEF RowAt
    <3>2. txn[s].next \in Nat /\ t.next \in Nat
      BY <1>1, <2>4 DEF Txn
    <3>3. 0 .. (t.next + 1) - 1 = (0 .. (txn[s].next + 0) - 1) \cup {txn[s].next}
      BY <2>4, <3>2
    <3>4. txn[s].inserted = {RowAt(txn[s], i) : i \in 0 .. (txn[s].next + 0) - 1}
      BY <1>1, <2>2 DEF Progress
    <3>5. t.inserted = {RowAt(t, i) : i \in 0 .. (t.next + 1) - 1}
      <4> DEFINE I == 0 .. (t.next + 1) - 1
                 J == 0 .. (txn[s].next + 0) - 1
      <4>1. I = J \cup {txn[s].next}
        BY <3>3
      <4> HIDE DEF I, J
      <4>2. {RowAt(t, i) : i \in I} = {RowAt(txn[s], i) : i \in J} \cup {r}
        BY <2>3, <3>1, <4>1
      <4> QED BY <2>4, <3>4, <4>2 DEF I, J
    <3> QED BY <1>1, <2>2, <2>4, <3>5 DEF Progress, Phase
  <2>7. AgainstTable(t)
    <3>1. \A q \in chunks \ txn[s].deleted : ~SameKey(r, q)
      BY <1>3 DEF UniqueViolation, SameKey, r
    <3> QED BY <1>1, <2>2, <2>4, <3>1 DEF AgainstTable
  <2>8. ASSUME NEW b \in Actors \ {s}
        PROVE  Apart(t, txn[b]) /\ SnapshotsOld(t, txn[b]) /\ SnapshotsOld(txn[b], t)
    <3>1. \A q \in txn[b].inserted : ~SameKey(r, q)
      BY <1>1 DEF Waiting, Blocks, SameKey, r
    <3>2. Apart(txn[s], txn[b]) /\ SnapshotsOld(txn[s], txn[b]) /\ SnapshotsOld(txn[b], txn[s])
      BY SessionFacts
    <3> QED BY <2>4, <3>1, <3>2 DEF Apart, SnapshotsOld
  <2>9. SnapshotsOld(t, t)
    BY <2>4, SessionFacts DEF SnapshotsOld
  <2>10. ParentInv'
    BY <1>1, <2>1, <2>4, SessionFacts
    DEF IInv, TypeOK, ParentInv, Behind, Pinned, CascadeSeesAll, DeletePending, RowsOf, Actors
  <2> QED BY <1>1, <2>1, <2>4, <2>5, <2>6, <2>7, <2>8, <2>9, <2>10, FrameStep
<1> QED BY <1>2, <1>3

LEMMA CheckParentStep ==
  ASSUME IInv, NEW s \in Sessions, CheckParent(s)
  PROVE  IInv'
<1> DEFINE p == IF txn[s].next + 1 = ChunkCount[txn[s].version] THEN "commit" ELSE "insert"
           n == txn[s].next + 1
           t == [txn[s] EXCEPT !.pc = p, !.next = n]
<1>1. /\ txn[s].pc = "check" /\ txn[s] \in Txn /\ s \in Actors /\ s # PodP /\ ~Waiting(s)
      /\ UNCHANGED <<documents, chunks, begun>> /\ begun' \in Nat /\ begun' >= begun
  BY DEF CheckParent, IInv, TypeOK, Actors
<1>2. CASE documents[txn[s].doc] = Absent
  BY <1>1, <1>2, EndStep DEF CheckParent
<1>3. CASE documents[txn[s].doc] # Absent
  <2>1. txn' = [txn EXCEPT ![s] = t]
    BY <1>3 DEF CheckParent, PassForeignKey, IInv, TypeOK
  <2>2. Phase(txn[s], s) /\ Progress(txn[s]) /\ Snapshot(txn[s], begun) /\ AgainstTable(txn[s])
    BY <1>1, SessionFacts
  <2>3. txn[s].job = "ingest" /\ txn[s].next \in Nat /\ ChunkCount[txn[s].version] \in Nat
        /\ txn[s].next < ChunkCount[txn[s].version]
    BY <1>1, <2>2 DEF Phase, Progress, Versions, Txn
  <2>4. /\ t.pc \in {"commit", "insert"}
        /\ t.pc = "commit" <=> t.next = ChunkCount[t.version]
        /\ t.job = "ingest" /\ t.claim = txn[s].claim
        /\ t.doc = txn[s].doc /\ t.version = txn[s].version /\ t.xid = txn[s].xid
        /\ t.next = txn[s].next + 1 /\ t.target = txn[s].target /\ t.deleted = txn[s].deleted
        /\ t.inserted = txn[s].inserted /\ t \in Txn
    <3>1. /\ p \in {"commit", "insert"} /\ n \in Nat /\ n = txn[s].next + 1
          /\ (p = "commit" <=> n = ChunkCount[txn[s].version])
      BY <2>3
    <3> HIDE DEF p, n
    <3> QED BY <1>1, <2>3, <3>1 DEF Txn
  <2> HIDE DEF t
  <2>5. Phase(t, s) /\ Snapshot(t, begun')
    BY <1>1, <2>2, <2>4 DEF Phase, Snapshot
  <2>6. Progress(t)
    <3>1. \A i : RowAt(t, i) = RowAt(txn[s], i)
      BY <2>4 DEF RowAt
    <3>2. t.inserted = {RowAt(t, i) : i \in 0 .. (t.next + 0) - 1}
      BY <1>1, <2>2, <2>3, <2>4, <3>1 DEF Progress
    <3> QED BY <2>3, <2>4, <3>2 DEF Progress
  <2>7. AgainstTable(t)
    BY <1>1, <2>2, <2>4 DEF AgainstTable
  <2>8. \A b \in Actors \ {s} : Apart(t, txn[b]) /\ SnapshotsOld(t, txn[b]) /\ SnapshotsOld(txn[b], t)
    BY <2>4, SessionFacts DEF Apart, SnapshotsOld
  <2>9. SnapshotsOld(t, t)
    BY <2>4, SessionFacts DEF SnapshotsOld
  <2>10. ~DeletePending(txn[s].doc)
    BY <1>1 DEF Waiting, Blocks, Actors
  <2>11. ParentInv'
    BY <1>1, <1>3, <2>1, <2>4, <2>10
    DEF IInv, TypeOK, ParentInv, Behind, Pinned, CascadeSeesAll, DeletePending, RowsOf, Actors
  <2> QED BY <1>1, <2>1, <2>4, <2>5, <2>6, <2>7, <2>8, <2>9, <2>11, FrameStep
<1> QED BY <1>2, <1>3

LEMMA DeleteDocumentStep ==
  ASSUME IInv, NEW d \in Docs, DeleteDocument(d)
  PROVE  IInv'
<1> DEFINE t == [NoTxn EXCEPT !.pc = "deleting", !.job = "cascade",
                              !.doc = d, !.target = RowsOf(d)]
<1>1. /\ txn' = [txn EXCEPT ![PodP] = t] /\ txn[PodP].pc = "idle" /\ PodP \in Actors
      /\ ~KeyShared(d) /\ documents[d] # Absent
      /\ UNCHANGED <<documents, chunks, begun>> /\ begun' \in Nat /\ begun' >= begun
  BY DEF DeleteDocument, IInv, TypeOK, Actors
<1>2. RowsOf(d) \in SUBSET Row /\ RowsOf(d) \subseteq chunks
  BY DEF RowsOf, IInv, TypeOK
<1>3. /\ t.pc = "deleting" /\ t.job = "cascade" /\ t.doc = d /\ t.xid = 0 /\ t.next = 0
      /\ t.target = RowsOf(d) /\ t.deleted = {} /\ t.inserted = {} /\ t \in Txn
  <2>1. NoTxn.next = 0 /\ NoTxn.deleted = {} /\ NoTxn.inserted = {} /\ NoTxn.xid = 0
    BY DEF NoTxn
  <2> QED BY <1>2, <2>1, NoTxnTyped DEF Txn
<1> HIDE DEF t
<1>4. Phase(t, PodP) /\ Progress(t) /\ Snapshot(t, begun')
  BY <1>1, <1>3 DEF Phase, Progress, Snapshot, IInv, OldSetOrNewSet
<1>5. AgainstTable(t)
  BY <1>3, CommittedOld DEF AgainstTable
<1>6. \A b \in Actors : SnapshotsOld(t, txn[b])
  BY <1>2, <1>3 DEF SnapshotsOld, IInv, TableInv, AgainstTable
<1>7. ASSUME NEW b \in Actors \ {PodP}
      PROVE  Apart(t, txn[b]) /\ SnapshotsOld(txn[b], t)
  <2>1. \A r \in txn[b].target : r.xmin # 0
    BY SnapshotOlder DEF IInv, TypeOK
  <2> QED BY <1>3, <2>1 DEF Apart, SnapshotsOld
<1>8. SnapshotsOld(t, t)
  BY <1>2, <1>3, CommittedOld DEF SnapshotsOld
<1>9. ParentInv'
  BY <1>1, <1>3
  DEF IInv, TypeOK, ParentInv, Behind, Pinned, CascadeSeesAll, DeletePending, KeyShared, RowsOf, Actors
<1> QED BY <1>1, <1>3, <1>4, <1>5, <1>6, <1>7, <1>8, <1>9, FrameStep

LEMMA UpdateDocumentStep ==
  ASSUME IInv, NEW d \in Docs, UpdateDocument(d)
  PROVE  IInv'
<1>1. /\ documents' = [documents EXCEPT ![d] = documents[d] + 1]
      /\ documents[d] \in 1 .. MaxVersion - 1
      /\ UNCHANGED <<chunks, txn, begun>>
  BY DEF UpdateDocument
<1>2. /\ documents' \in [Docs -> Versions \cup {Absent}]
      /\ \A e \in Docs : documents[e] # Absent => documents'[e] # Absent
  BY <1>1 DEF IInv, TypeOK, Versions, Absent
<1>3. TypeOK'
  BY <1>1, <1>2 DEF IInv, TypeOK
<1>4. LocalInv' /\ PairInv' /\ TableInv'
  BY <1>1 DEF IInv, LocalInv, PairInv, TableInv, AgainstTable
<1>5. ParentInv'
  <2>1. ASSUME NEW s \in Sessions
        PROVE  Behind(s)' /\ Pinned(s)'
    <3>1. txn[s].next > 0 \/ txn[s].version # Absent => txn[s].doc \in Docs
      BY SessionFacts DEF Phase, NoTxn
    <3>2. Behind(s) /\ Pinned(s) /\ txn[s].version \in Nat
      BY SessionFacts DEF IInv, ParentInv, Txn, Versions, Absent
    <3>3. \A e \in Docs : documents'[e] # Absent => documents[e] # Absent /\ documents'[e] >= documents[e]
      BY <1>1 DEF IInv, TypeOK, Versions, Absent
    <3>4. \A e \in Docs : documents[e] \in Nat /\ documents'[e] \in Nat
      BY <1>1, <1>2 DEF IInv, TypeOK, Versions, Absent
    <3> QED BY <1>1, <1>2, <3>1, <3>2, <3>3, <3>4 DEF Behind, Pinned, DeletePending
  <2>2. CascadeSeesAll'
    BY <1>1 DEF IInv, ParentInv, CascadeSeesAll, RowsOf
  <2> QED BY <2>1, <2>2 DEF ParentInv
<1>6. OldSetOrNewSet'
  BY <1>1 DEF IInv, OldSetOrNewSet, RowsOf
<1>7. NoOrphanChunks'
  BY <1>1, <1>2, CommittedOld DEF IInv, NoOrphanChunks, Row
<1> QED BY <1>3, <1>4, <1>5, <1>6, <1>7 DEF IInv

-----------------------------------------------------------------------------
(* The commit: the one step that changes committed chunks.                *)

\* What a transaction deleted of a document was all of it or nothing.
LEMMA DeletesWholeBatch ==
  ASSUME IInv, NEW a \in Actors, txn[a].pc = "commit", NEW d \in Docs
  PROVE  \/ RowsOf(d) \ txn[a].deleted = {}
         \/ RowsOf(d) \ txn[a].deleted = RowsOf(d)
<1>1. Snapshot(txn[a], begun) /\ AgainstTable(txn[a])
  BY DEF IInv, LocalInv, TableInv
<1>2. SUFFICES ASSUME NEW z \in RowsOf(d), z \in txn[a].deleted
               PROVE  RowsOf(d) \subseteq txn[a].deleted
  OBVIOUS
<1>3. PICK v \in Versions, x \in 1..begun : RowsOf(d) = Batch(d, v, x)
  BY <1>2 DEF IInv, OldSetOrNewSet
<1>4. PICK w \in Versions, y \in 1..begun : txn[a].target = Batch(txn[a].doc, w, y)
  BY <1>1, <1>2 DEF Snapshot
<1>5. txn[a].doc = d /\ v = w /\ x = y
  BY <1>1, <1>2, <1>3, <1>4 DEF Snapshot, Batch
<1>6. RowsOf(d) \subseteq txn[a].target \cap chunks
  BY <1>3, <1>4, <1>5 DEF RowsOf
<1> QED BY <1>1, <1>6 DEF AgainstTable

\* A committing ingest has inserted one whole batch, and the unique index
\* has kept every committed row it did not delete out of its document.
LEMMA CommittingIngest ==
  ASSUME IInv, NEW s \in Sessions, txn[s].pc = "commit", txn[s].job = "ingest"
  PROVE  /\ txn[s].doc \in Docs /\ txn[s].version \in Versions /\ txn[s].xid \in 1..begun
         /\ txn[s].inserted = Batch(txn[s].doc, txn[s].version, txn[s].xid)
         /\ RowsOf(txn[s].doc) \ txn[s].deleted = {}
         /\ documents[txn[s].doc] # Absent /\ ~DeletePending(txn[s].doc)
<1>1. /\ Phase(txn[s], s) /\ Progress(txn[s]) /\ Snapshot(txn[s], begun)
      /\ AgainstTable(txn[s]) /\ Pinned(s) /\ txn[s] \in Txn /\ begun \in Nat /\ s # PodP
      /\ s \in Actors
  BY SessionFacts
<1>2. /\ txn[s].doc \in Docs /\ txn[s].version \in Versions /\ txn[s].xid \in 1..begun
      /\ txn[s].claim = Owner[txn[s].doc]
  BY <1>1 DEF Phase, Snapshot, Txn
<1>3. txn[s].next = ChunkCount[txn[s].version] /\ txn[s].next \in Nat /\ txn[s].next > 0
  BY <1>1, <1>2 DEF Progress, Versions
<1>4. txn[s].inserted = Batch(txn[s].doc, txn[s].version, txn[s].xid)
  <2>1. \A i : RowAt(txn[s], i) = [doc |-> txn[s].doc, tenant |-> Owner[txn[s].doc],
                  version |-> txn[s].version, index |-> i, xmin |-> txn[s].xid]
    BY <1>2 DEF RowAt
  <2>2. txn[s].inserted = {RowAt(txn[s], i) : i \in 0 .. (txn[s].next + 0) - 1}
    BY <1>1 DEF Progress
  <2>3. 0 .. (txn[s].next + 0) - 1 = 0 .. ChunkCount[txn[s].version] - 1
    BY <1>3
  <2>4. txn[s].inserted = {RowAt(txn[s], i) : i \in 0 .. ChunkCount[txn[s].version] - 1}
    BY <2>2, <2>3
  <2> QED BY <2>1, <2>4 DEF Batch
<1>5. RowsOf(txn[s].doc) \ txn[s].deleted = {}
  <2> SUFFICES ASSUME RowsOf(txn[s].doc) \ txn[s].deleted # {}
               PROVE  FALSE
    OBVIOUS
  <2>1. RowsOf(txn[s].doc) \ txn[s].deleted = RowsOf(txn[s].doc)
    BY <1>1, <1>2, DeletesWholeBatch
  <2>2. PICK v \in Versions, x \in 1..begun : RowsOf(txn[s].doc) = Batch(txn[s].doc, v, x)
    BY <1>2 DEF IInv, OldSetOrNewSet
  <2>3. PICK r \in RowsOf(txn[s].doc) : r.index = 0 /\ r.doc = txn[s].doc
    BY <1>1, <1>2, <2>2, BatchFacts
  <2>4. PICK q \in txn[s].inserted : q.index = 0 /\ q.doc = txn[s].doc
    <3>1. txn[s].xid \in Nat
      BY <1>1 DEF Txn
    <3>2. /\ \E q \in Batch(txn[s].doc, txn[s].version, txn[s].xid) : q.index = 0
          /\ \A q \in Batch(txn[s].doc, txn[s].version, txn[s].xid) : q.doc = txn[s].doc
      BY <1>2, <3>1, BatchFacts
    <3> QED BY <1>4, <3>2
  <2>5. r \in chunks \ txn[s].deleted
    BY <2>1, <2>3 DEF RowsOf
  <2> QED BY <1>1, <2>3, <2>4, <2>5 DEF AgainstTable, SameKey
<1>6. documents[txn[s].doc] # Absent /\ ~DeletePending(txn[s].doc)
  BY <1>1, <1>3 DEF Pinned
<1> QED BY <1>2, <1>4, <1>5, <1>6

\* What a committing transaction inserted, whoever it is.
LEMMA CommittingRows ==
  ASSUME IInv, NEW a \in Actors, txn[a].pc = "commit"
  PROVE  /\ txn[a].doc \in Docs
         /\ txn[a].inserted # {} => a \in Sessions /\ txn[a].job = "ingest"
         /\ \A r \in txn[a].inserted : r \in Row /\ r.doc = txn[a].doc
                                       /\ r.xmin = txn[a].xid /\ r.xmin # 0
<1>1. Phase(txn[a], a) /\ Progress(txn[a]) /\ txn[a] \in Txn /\ begun \in Nat
  BY DEF IInv, LocalInv, TypeOK
<1>2. txn[a].doc \in Docs
  BY <1>1 DEF Phase
<1>3. CASE a \in Sessions /\ txn[a].job = "ingest"
  <2>1. txn[a].inserted = Batch(txn[a].doc, txn[a].version, txn[a].xid)
        /\ txn[a].version \in Versions /\ txn[a].xid \in 1..begun
    BY <1>3, CommittingIngest
  <2> QED BY <1>1, <1>2, <1>3, <2>1, BatchFacts
<1>4. CASE ~(a \in Sessions /\ txn[a].job = "ingest")
  <2>1. txn[a].job # "ingest"
    BY <1>1, <1>4 DEF Phase, Actors
  <2>2. txn[a].next = 0
    BY <1>1, <2>1 DEF Progress
  <2>3. txn[a].inserted = {}
    BY <1>1, <2>2 DEF Progress
  <2> QED BY <1>2, <2>3
<1> QED BY <1>3, <1>4

LEMMA CommitEffects ==
  ASSUME IInv, NEW a \in Actors, Commit(a)
  PROVE  /\ txn[a].pc = "commit" /\ txn' \in [Actors -> Txn] /\ txn'[a] = NoTxn
         /\ \A b \in Actors \ {a} : txn'[b] = txn[b]
         /\ chunks' = (chunks \ txn[a].deleted) \cup txn[a].inserted
         /\ begun' = begun
         /\ \A d \in Docs : RowsOf(d)' = IF d = txn[a].doc
                                         THEN (RowsOf(d) \ txn[a].deleted) \cup txn[a].inserted
                                         ELSE RowsOf(d)
         /\ a \in Sessions => documents' = documents
         /\ a = PodP => /\ documents' = [documents EXCEPT ![txn[a].doc] = Absent]
                        /\ RowsOf(txn[a].doc) \ txn[a].deleted = {}
                        /\ txn[a].inserted = {}
<1>1. /\ txn[a].pc = "commit" /\ txn' = [txn EXCEPT ![a] = NoTxn]
      /\ chunks' = (chunks \ txn[a].deleted) \cup txn[a].inserted
      /\ documents' = IF a = PodP THEN [documents EXCEPT ![txn[a].doc] = Absent] ELSE documents
      /\ begun' = begun
  BY DEF Commit, End
<1>2. txn' \in [Actors -> Txn] /\ txn'[a] = NoTxn /\ \A b \in Actors \ {a} : txn'[b] = txn[b]
  BY <1>1, NoTxnTyped DEF IInv, TypeOK
<1>3. \A r \in txn[a].deleted : r.doc = txn[a].doc
  BY DEF IInv, LocalInv, Snapshot, Batch
<1>4. \A r \in txn[a].inserted : r.doc = txn[a].doc
  BY <1>1, CommittingRows
<1>5. \A d \in Docs : RowsOf(d)' = IF d = txn[a].doc
                                   THEN (RowsOf(d) \ txn[a].deleted) \cup txn[a].inserted
                                   ELSE RowsOf(d)
  BY <1>1, <1>3, <1>4 DEF RowsOf
<1>6. CASE a = PodP
  <2>1. txn[a].inserted = {}
    BY <1>1, <1>6, CommittingRows, ActorAssumption
  <2>2. RowsOf(txn[a].doc) \subseteq txn[a].target \cap chunks
    BY <1>1, <1>6 DEF IInv, ParentInv, CascadeSeesAll, RowsOf
  <2>3. RowsOf(txn[a].doc) \ txn[a].deleted = {}
    BY <1>1, <2>2 DEF IInv, TableInv, AgainstTable
  <2> QED BY <1>1, <1>2, <1>5, <1>6, <2>1, <2>3, ActorAssumption
<1>7. CASE a # PodP
  BY <1>1, <1>2, <1>5, <1>7
<1> QED BY <1>6, <1>7

LEMMA CommitStep ==
  ASSUME IInv, NEW a \in Actors, Commit(a)
  PROVE  IInv'
<1>1. /\ txn[a].pc = "commit" /\ txn' \in [Actors -> Txn] /\ txn'[a] = NoTxn
      /\ \A b \in Actors \ {a} : txn'[b] = txn[b]
      /\ chunks' = (chunks \ txn[a].deleted) \cup txn[a].inserted
      /\ begun' = begun /\ begun \in Nat
  BY CommitEffects DEF IInv, TypeOK
<1>2. /\ txn[a].doc \in Docs
      /\ txn[a].inserted # {} => a \in Sessions /\ txn[a].job = "ingest"
      /\ \A r \in txn[a].inserted : r \in Row /\ r.doc = txn[a].doc
                                    /\ r.xmin = txn[a].xid /\ r.xmin # 0
  BY <1>1, CommittingRows
<1>3. documents' \in [Docs -> Versions \cup {Absent}]
      /\ \A d \in Docs \ {txn[a].doc} : documents'[d] = documents[d]
  <2>1. documents \in [Docs -> Versions \cup {Absent}]
    BY DEF IInv, TypeOK
  <2>2. CASE a = PodP
    <3>1. documents' = [documents EXCEPT ![txn[a].doc] = Absent]
      BY <2>2, CommitEffects
    <3> QED BY <2>1, <3>1
  <2>3. CASE a # PodP
    <3>1. documents' = documents
      BY <2>3, CommitEffects DEF Actors
    <3> QED BY <2>1, <3>1
  <2> QED BY <2>2, <2>3
<1>4. TypeOK'
  BY <1>1, <1>2, <1>3 DEF IInv, TypeOK
<1>5. LocalInv'
  BY <1>1, EmptyTxn DEF IInv, LocalInv
<1>6. PairInv'
  <2>1. \A b \in Actors : \A r \in txn[b].target : r.xmin # 0
    BY SnapshotOlder, <1>1
  <2>2. /\ NoTxn.deleted = {} /\ NoTxn.inserted = {} /\ NoTxn.target = {} /\ NoTxn.xid = 0
    BY DEF NoTxn
  <2> QED BY <1>1, <2>1, <2>2 DEF IInv, PairInv, Apart, SnapshotsOld
<1>7. TableInv'
  <2> SUFFICES ASSUME NEW b \in Actors
               PROVE  AgainstTable(txn[b])'
    BY DEF TableInv
  <2>1. CASE b = a
    <3>1. \A r \in chunks' : r.xmin # 0
      BY <1>1, <1>2, CommittedOld
    <3> QED BY <1>1, <2>1, <3>1 DEF AgainstTable, NoTxn
  <2>2. CASE b # a
    <3>1. AgainstTable(txn[b]) /\ Apart(txn[a], txn[b]) /\ Apart(txn[b], txn[a])
          /\ SnapshotsOld(txn[b], txn[a]) /\ txn'[b] = txn[b]
      BY <1>1, <2>2 DEF IInv, TableInv, PairInv
    <3>2. txn[b].deleted \subseteq chunks'
      BY <1>1, <3>1 DEF AgainstTable, Apart
    <3>3. txn[b].target \cap chunks' \subseteq txn[b].target \cap chunks
      BY <1>1, <1>2, <3>1 DEF SnapshotsOld
    <3>4. \A q \in txn[b].inserted, r \in chunks' \ txn[b].deleted : ~SameKey(q, r)
      BY <1>1, <3>1 DEF AgainstTable, Apart
    <3>5. \A r \in chunks' : r.xmin # txn[b].xid
      BY <1>1, <1>2, <3>1 DEF AgainstTable, Apart
    <3> QED BY <3>1, <3>2, <3>3, <3>4, <3>5 DEF AgainstTable
  <2> QED BY <2>1, <2>2
<1>8. ASSUME txn[a].inserted # {}
      PROVE  /\ a \in Sessions /\ a # PodP /\ documents' = documents
             /\ documents[txn[a].doc] # Absent /\ ~DeletePending(txn[a].doc)
  BY <1>1, <1>2, <1>8, CommittingIngest, CommitEffects, ActorAssumption
<1>9. ParentInv'
  <2>1. ASSUME NEW s \in Sessions
        PROVE  Pinned(s)'
    <3>1. CASE s = a
      BY <1>1, <3>1 DEF Pinned, NoTxn, Actors
    <3>2. CASE s # a /\ a = PodP
      <4>1. txn[s].next > 0 => txn[s].doc \in Docs \ {txn[a].doc}
        BY <1>1, <3>2, SessionFacts DEF Phase, NoTxn, Pinned, DeletePending
      <4> QED BY <1>1, <1>3, <3>2, <4>1, SessionFacts DEF Pinned, DeletePending, NoTxn
    <3>3. CASE s # a /\ a # PodP
      BY <1>1, <3>3, CommitEffects, SessionFacts DEF Pinned, DeletePending, Actors
    <3> QED BY <3>1, <3>2, <3>3
  <2>2. CascadeSeesAll'
    <3>1. CASE a = PodP
      BY <1>1, <3>1 DEF CascadeSeesAll, NoTxn
    <3>2. CASE a # PodP /\ txn[PodP].pc # "idle"
      <4>1. txn'[PodP] = txn[PodP] /\ RowsOf(txn[PodP].doc) \subseteq txn[PodP].target
        BY <1>1, <3>2 DEF Actors, IInv, ParentInv, CascadeSeesAll
      <4>2. \A r \in txn[a].inserted : r.doc # txn[PodP].doc
        BY <1>2, <1>8, <3>2 DEF DeletePending
      <4> QED BY <1>1, <4>1, <4>2 DEF CascadeSeesAll, RowsOf
    <3>3. CASE a # PodP /\ txn[PodP].pc = "idle"
      BY <1>1, <3>3 DEF CascadeSeesAll, Actors
    <3> QED BY <3>1, <3>2, <3>3
  <2>3. ASSUME NEW s \in Sessions
        PROVE  Behind(s)'
    <3>1. CASE s = a
      BY <1>1, <3>1 DEF Behind, NoTxn
    <3>2. CASE s # a
      <4>1. txn'[s] = txn[s] /\ Behind(s)
        BY <1>1, <3>2 DEF Actors, IInv, ParentInv
      <4>2. txn[s].version # Absent => txn[s].doc \in Docs
        BY SessionFacts DEF Phase, NoTxn
      <4>3. \A d \in Docs : documents'[d] # Absent => documents'[d] = documents[d]
        BY <1>2, CommitEffects DEF IInv, TypeOK, Actors
      <4> QED BY <4>1, <4>2, <4>3 DEF Behind
    <3> QED BY <3>1, <3>2
  <2> QED BY <2>1, <2>2, <2>3 DEF ParentInv
<1>10. OldSetOrNewSet'
  <2> SUFFICES ASSUME NEW d \in Docs
               PROVE  \/ RowsOf(d)' = {}
                      \/ \E v \in Versions, x \in 1..begun : RowsOf(d)' = Batch(d, v, x)
    BY <1>1 DEF OldSetOrNewSet, Batch
  <2>1. CASE d # txn[a].doc
    BY <2>1, CommitEffects DEF IInv, OldSetOrNewSet
  <2>2. CASE d = txn[a].doc /\ txn[a].inserted = {}
    <3>1. RowsOf(d)' = RowsOf(d) \ txn[a].deleted
      BY <2>2, CommitEffects
    <3> QED BY <1>1, <3>1, DeletesWholeBatch DEF IInv, OldSetOrNewSet
  <2>3. CASE d = txn[a].doc /\ txn[a].inserted # {}
    <3>1. RowsOf(d) \ txn[a].deleted = {}
      BY <1>1, <1>2, <2>3, CommittingIngest
    <3>2. RowsOf(d)' = (RowsOf(d) \ txn[a].deleted) \cup txn[a].inserted
      BY <2>3, CommitEffects
    <3>3. /\ txn[a].inserted = Batch(d, txn[a].version, txn[a].xid)
          /\ txn[a].version \in Versions /\ txn[a].xid \in 1..begun
      BY <1>1, <1>2, <2>3, CommittingIngest
    <3>4. RowsOf(d)' = Batch(d, txn[a].version, txn[a].xid)
      BY <3>1, <3>2, <3>3
    <3> QED BY <3>3, <3>4
  <2> QED BY <2>1, <2>2, <2>3
<1>11. NoOrphanChunks'
  <2> SUFFICES ASSUME NEW r \in chunks'
               PROVE  documents'[r.doc] # Absent
    BY DEF NoOrphanChunks
  <2>1. CASE r \in txn[a].inserted
    BY <1>2, <1>8, <2>1
  <2>2. CASE r \in chunks \ txn[a].deleted
    <3>1. documents[r.doc] # Absent /\ r.doc \in Docs /\ r \in RowsOf(r.doc)
      BY <2>2, CommittedOld DEF IInv, NoOrphanChunks, Row, RowsOf
    <3>2. CASE a = PodP
      BY <1>3, <2>2, <3>1, <3>2, CommitEffects
    <3>3. CASE a # PodP
      BY <3>1, <3>3, CommitEffects DEF Actors
    <3> QED BY <3>2, <3>3
  <2> QED BY <1>1, <2>1, <2>2
<1> QED BY <1>4, <1>5, <1>6, <1>7, <1>9, <1>10, <1>11 DEF IInv

-----------------------------------------------------------------------------
(* The invariant holds of every reachable state.                          *)

LEMMA InitIInv == Init => IInv
<1> SUFFICES ASSUME Init PROVE IInv
  OBVIOUS
<1>1. /\ documents = [d \in Docs |-> 1] /\ chunks = {} /\ begun = 0
      /\ \A a \in Actors : txn[a] = NoTxn
      /\ txn \in [Actors -> Txn]
  BY NoTxnTyped DEF Init
<1>2. TypeOK
  BY <1>1 DEF TypeOK, Versions
<1>3. LocalInv
  BY <1>1, EmptyTxn DEF LocalInv
<1>4. /\ NoTxn.deleted = {} /\ NoTxn.inserted = {} /\ NoTxn.target = {}
      /\ NoTxn.xid = 0 /\ NoTxn.next = 0 /\ NoTxn.pc = "idle" /\ NoTxn.version = Absent
  BY DEF NoTxn
<1>5. PairInv /\ TableInv
  BY <1>1, <1>4 DEF PairInv, TableInv, Apart, SnapshotsOld, AgainstTable
<1>6. ParentInv
  BY <1>1, <1>4 DEF ParentInv, Behind, Pinned, CascadeSeesAll, Actors
<1>7. OldSetOrNewSet /\ NoOrphanChunks
  BY <1>1 DEF OldSetOrNewSet, NoOrphanChunks, RowsOf
<1> QED BY <1>2, <1>3, <1>5, <1>6, <1>7 DEF IInv

LEMMA StepIInv == IInv /\ [Next]_vars => IInv'
<1> SUFFICES ASSUME IInv, [Next]_vars PROVE IInv'
  OBVIOUS
<1>1. ASSUME NEW s \in Sessions, NEW job \in {"ingest", "delete"},
             NEW tenant \in Tenants, NEW d \in Docs, Begin(s, job, tenant, d)
      PROVE  IInv'
  BY <1>1, BeginStep
<1>2. ASSUME NEW a \in Actors, Step(a)
      PROVE  IInv'
  <2>1. CASE a \in Sessions /\ ReadDocument(a)
    BY <2>1, ReadDocumentStep
  <2>2. CASE a \in Sessions /\ StartDelete(a)
    BY <2>2, StartDeleteStep
  <2>3. CASE a \in Sessions /\ InsertRow(a)
    BY <2>3, InsertRowStep
  <2>4. CASE a \in Sessions /\ CheckParent(a)
    BY <2>4, CheckParentStep
  <2>5. CASE FinishDelete(a)
    BY <2>5, FinishDeleteStep
  <2>6. CASE Commit(a)
    BY <2>6, CommitStep
  <2> QED BY <1>2, <2>1, <2>2, <2>3, <2>4, <2>5, <2>6 DEF Step
<1>3. ASSUME NEW a \in Actors, Rollback(a)
      PROVE  IInv'
  BY <1>3, EndStep DEF Rollback
<1>4. ASSUME NEW d \in Docs, UpdateDocument(d) \/ DeleteDocument(d)
      PROVE  IInv'
  BY <1>4, UpdateDocumentStep, DeleteDocumentStep
<1>5. CASE UNCHANGED vars
  BY <1>5 DEF vars, IInv, TypeOK, LocalInv, PairInv, TableInv, ParentInv, AgainstTable,
     Behind, Pinned, CascadeSeesAll, DeletePending, OldSetOrNewSet, NoOrphanChunks, RowsOf
<1> QED BY <1>1, <1>2, <1>3, <1>4, <1>5 DEF Next

\* Every reachable state is type correct, a fact that rests on the whole
\* invariant: that an inserted row has a tenant and a version follows only
\* from the statements its transaction has already run.
THEOREM TypeCorrect == Spec => []TypeOK
<1>1. IInv => TypeOK
  BY DEF IInv
<1> QED BY <1>1, InitIInv, StepIInv, PTL DEF Spec

\* Old set or new set, never a mixture, for any number of documents,
\* tenants, sessions, versions and chunks.
THEOREM ReplacementIsWhole == Spec => []OldSetOrNewSet
<1>1. IInv => OldSetOrNewSet
  BY DEF IInv
<1> QED BY <1>1, InitIInv, StepIInv, PTL DEF Spec

\* No committed chunk outlives its document.
THEOREM CascadeLeavesNoOrphan == Spec => []NoOrphanChunks
<1>1. IInv => NoOrphanChunks
  BY DEF IInv
<1> QED BY <1>1, InitIInv, StepIInv, PTL DEF Spec

-----------------------------------------------------------------------------
(* What a commit does to one document, as ChunkStore tells it.            *)

LEMMA OnlyCommitWrites ==
  ASSUME IInv, [Next]_vars
  PROVE  \/ \E a \in Actors : Commit(a)
         \/ \E d \in Docs : UpdateDocument(d)
         \/ UNCHANGED <<documents, chunks>>
  BY DEF Next, Step, vars, Begin, ReadDocument, StartDelete, FinishDelete, InsertRow,
     CheckParent, Rollback, DeleteDocument

LEMMA DeletedByOwner ==
  ASSUME IInv, NEW s \in Sessions, Commit(s), NEW d \in Docs,
         RowsOf(d) # {}, RowsOf(d)' = {}
  PROVE  txn[s].job = "delete" /\ txn[s].claim = Owner[d]
<1>1. /\ s \in Actors /\ s # PodP /\ txn[s].pc = "commit" /\ txn[s] \in Txn /\ begun \in Nat
      /\ Phase(txn[s], s) /\ Snapshot(txn[s], begun)
  BY CommitEffects, SessionFacts
<1>2. d = txn[s].doc /\ RowsOf(d)' = (RowsOf(d) \ txn[s].deleted) \cup txn[s].inserted
  BY <1>1, CommitEffects
<1>3. txn[s].job # "ingest"
  <2> SUFFICES ASSUME txn[s].job = "ingest" PROVE FALSE
    OBVIOUS
  <2>1. /\ txn[s].inserted = Batch(d, txn[s].version, txn[s].xid)
        /\ txn[s].version \in Versions /\ txn[s].xid \in Nat
    BY <1>1, <1>2, CommittingIngest DEF Txn
  <2> QED BY <1>2, <2>1, BatchFacts
<1>4. PICK r \in txn[s].target : r.doc = d /\ r.tenant = Owner[d]
  <2>1. PICK r \in RowsOf(d) : r \in txn[s].target
    BY <1>1, <1>2 DEF Snapshot
  <2>2. r.doc = d /\ r.tenant = Owner[d]
    BY <2>1 DEF IInv, OldSetOrNewSet, Batch
  <2> QED BY <2>1, <2>2
<1> QED BY <1>1, <1>3, <1>4 DEF Phase, Txn

\* A document stops answering only when Pod P deleted it or its own tenant
\* asked for that.
THEOREM NeverEmptiedByAccident == Spec => EmptiedOnlyOnRequest
<1> DEFINE Emptied(d) == RowsOf(d) # {} /\ RowsOf(d)' = {}
           Requested(d) == \/ documents'[d] = Absent
                           \/ \E s \in Sessions :
                                 /\ txn[s].job = "delete" /\ txn[s].claim = Owner[d]
                                 /\ txn'[s] = NoTxn
<1>1. ASSUME IInv, [Next]_vars, NEW d \in Docs, Emptied(d)
      PROVE  Requested(d)
  <2>1. CASE \E s \in Sessions : Commit(s)
    <3>1. PICK s \in Sessions : Commit(s)
      BY <2>1
    <3>2. txn[s].job = "delete" /\ txn[s].claim = Owner[d]
      BY <1>1, <3>1, DeletedByOwner
    <3> QED BY <1>1, <3>1, <3>2, CommitEffects DEF Actors
  <2>2. CASE Commit(PodP)
    <3>1. d = txn[PodP].doc
      BY <1>1, <2>2, CommitEffects DEF Actors
    <3> QED BY <1>1, <2>2, <3>1, CommitEffects DEF Actors, IInv, TypeOK
  <2>3. CASE UNCHANGED chunks
    BY <1>1, <2>3 DEF RowsOf
  <2> QED BY <1>1, <2>1, <2>2, <2>3, OnlyCommitWrites DEF Actors, UpdateDocument
<1>2. IInv /\ [Next]_vars => [\A d \in Docs : Emptied(d) => Requested(d)]_vars
  BY <1>1
<1> QED BY <1>2, InitIInv, StepIInv, PTL DEF Spec, EmptiedOnlyOnRequest

-----------------------------------------------------------------------------
(* Ingestion implements ChunkStore.                                       *)

LEMMA PassagesOfBatch ==
  ASSUME NEW d \in Docs, NEW v \in Versions, NEW x
  PROVE  PassagesIn(Batch(d, v, x)) = Store!Passages(d, v)
<1> DEFINE I == 0 .. ChunkCount[v] - 1
           row(i) == [doc |-> d, tenant |-> Owner[d], version |-> v, index |-> i, xmin |-> x]
           passage(r) == [tenant |-> r.tenant, version |-> r.version, index |-> r.index]
           cut(i) == [tenant |-> Owner[d], version |-> v, index |-> i]
<1>1. \A i \in I : passage(row(i)) = cut(i)
  OBVIOUS
<1>2. /\ Batch(d, v, x) = {row(i) : i \in I}
      /\ PassagesIn(Batch(d, v, x)) = {passage(r) : r \in Batch(d, v, x)}
      /\ Store!Passages(d, v) = {cut(i) : i \in I}
  BY DEF Batch, PassagesIn, Store!Passages
<1> HIDE DEF I, row, passage, cut
<1> QED BY <1>1, <1>2

LEMMA PassagesOfNone == PassagesIn({}) = {}
  BY DEF PassagesIn

\* The statements of the source, with all their interleavings, conflicts and
\* failures, implement the one-step replace, clear and cascade of ChunkStore.
THEOREM Implementation == Spec => ImplementsChunkStore
<1>1. Init => Store!StoreInit
  <2> SUFFICES ASSUME Init PROVE Store!StoreInit
    OBVIOUS
  <2>1. \A d \in Docs : RowsOf(d) = {}
    BY DEF Init, RowsOf
  <2>2. ServedPassages = [d \in Docs |-> {}]
    BY <2>1, PassagesOfNone DEF ServedPassages
  <2> QED BY <2>2 DEF Init, Store!StoreInit
<1>2. IInv /\ [Next]_vars => [Store!StoreNext]_(Store!storeVars)
  <2> SUFFICES ASSUME IInv, [Next]_vars
               PROVE  Store!StoreNext \/ UNCHANGED Store!storeVars
    OBVIOUS
  <2>1. CASE UNCHANGED <<documents, chunks>>
    BY <2>1 DEF Store!storeVars, ServedPassages, RowsOf
  <2>2. ASSUME NEW d \in Docs, UpdateDocument(d)
        PROVE  Store!StoreNext
    <3>1. ServedPassages' = ServedPassages
      BY <2>2 DEF UpdateDocument, ServedPassages, RowsOf
    <3>2. Store!Update(d)
      BY <2>2, <3>1 DEF UpdateDocument, Store!Update
    <3> QED BY <3>2 DEF Store!StoreNext
  <2>3. ASSUME NEW a \in Actors, Commit(a)
        PROVE  Store!StoreNext \/ UNCHANGED Store!storeVars
    <3>0. txn[a].pc = "commit" /\ txn[a].doc \in Docs
      BY <2>3, CommittingRows DEF Commit
    <3>1. PICK d \in Docs :
          /\ d = txn[a].doc /\ txn[a].pc = "commit"
          /\ RowsOf(d)' = (RowsOf(d) \ txn[a].deleted) \cup txn[a].inserted
          /\ \A e \in Docs \ {d} : RowsOf(e)' = RowsOf(e)
      BY <2>3, <3>0, CommitEffects
    <3>2. ASSUME NEW P, PassagesIn(RowsOf(d)') = P
          PROVE  ServedPassages' = [ServedPassages EXCEPT ![d] = P]
      BY <3>1, <3>2 DEF ServedPassages
    <3>3. CASE a = PodP
      <4>1. RowsOf(d)' = {} /\ documents' = [documents EXCEPT ![d] = Absent]
        BY <2>3, <3>1, <3>3, CommitEffects
      <4>2. CASE documents[d] # Absent
        <5>1. ServedPassages' = [ServedPassages EXCEPT ![d] = {}]
          BY <3>2, <4>1, PassagesOfNone
        <5>2. Store!Remove(d)
          BY <4>1, <4>2, <5>1 DEF Store!Remove, Store!Absent, Absent
        <5> QED BY <5>2 DEF Store!StoreNext
      <4>3. CASE documents[d] = Absent
        <5>1. RowsOf(d) = {}
          BY <4>3 DEF IInv, NoOrphanChunks, RowsOf
        <5>2. ServedPassages' = ServedPassages
          BY <3>1, <4>1, <5>1 DEF ServedPassages
        <5>3. documents' = documents
          BY <3>1, <4>1, <4>3 DEF IInv, TypeOK
        <5> QED BY <5>2, <5>3 DEF Store!storeVars
      <4> QED BY <4>2, <4>3
    <3>4. CASE a \in Sessions /\ txn[a].job = "ingest"
      <4> DEFINE v == txn[a].version
      <4>1. /\ v \in Versions /\ txn[a].xid \in 1..begun
            /\ txn[a].inserted = Batch(d, v, txn[a].xid)
            /\ RowsOf(d) \ txn[a].deleted = {} /\ documents[d] # Absent
            /\ documents' = documents
        BY <2>3, <3>1, <3>4, CommittingIngest, CommitEffects
      <4>2. RowsOf(d)' = Batch(d, v, txn[a].xid)
        BY <3>1, <4>1
      <4>3. PassagesIn(RowsOf(d)') = Store!Passages(d, v)
        BY <4>1, <4>2, PassagesOfBatch
      <4>4. ServedPassages' = [ServedPassages EXCEPT ![d] = Store!Passages(d, v)]
        BY <3>2, <4>3
      <4>5. v \in 1 .. documents[d]
        <5>1. documents[d] \in Versions \cup {Absent} /\ Behind(a)
          BY <3>4 DEF IInv, TypeOK, ParentInv
        <5>2. documents[d] \in Nat /\ v \in Nat /\ v # Absent /\ v >= 1
          BY <4>1, <5>1 DEF Versions, Absent
        <5>3. v <= documents[d]
          BY <3>1, <4>1, <5>1, <5>2 DEF Behind
        <5> QED BY <5>2, <5>3
      <4>6. Store!Publish(d, v)
        BY <4>1, <4>4, <4>5 DEF Store!Publish, Store!Absent, Absent
      <4> QED BY <3>1, <4>1, <4>6 DEF Store!StoreNext, Store!Versions, Versions
    <3>5. CASE a \in Sessions /\ txn[a].job # "ingest"
      <4>1. txn[a].inserted = {} /\ documents' = documents
        BY <2>3, <3>1, <3>5, CommittingRows, CommitEffects
      <4>2. CASE RowsOf(d)' = {}
        <5>1. ServedPassages' = [ServedPassages EXCEPT ![d] = {}]
          BY <3>2, <4>2, PassagesOfNone
        <5>2. Store!Clear(d)
          BY <4>1, <5>1 DEF Store!Clear
        <5> QED BY <5>2 DEF Store!StoreNext
      <4>3. CASE RowsOf(d)' # {}
        <5>1. RowsOf(d)' = RowsOf(d)
          BY <3>1, <4>1, <4>3, DeletesWholeBatch
        <5>2. ServedPassages' = ServedPassages
          BY <3>1, <5>1 DEF ServedPassages
        <5> QED BY <4>1, <5>2 DEF Store!storeVars
      <4> QED BY <4>2, <4>3
    <3> QED BY <3>3, <3>4, <3>5 DEF Actors
  <2> QED BY <2>1, <2>2, <2>3, OnlyCommitWrites
<1> QED BY <1>1, <1>2, InitIInv, StepIInv, PTL DEF Spec, ImplementsChunkStore, Store!StoreSpec
=============================================================================
