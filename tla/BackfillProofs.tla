--------------------------- MODULE BackfillProofs ---------------------------
(***************************************************************************)
(* What holds of every re-embedding, however many runs overlap, crash or   *)
(* are late, and whatever is dropped, flipped or redeployed meanwhile.     *)
(***************************************************************************)
EXTENDS Backfill, FiniteSetTheorems, TLAPS

\* Every chunk up to a cursor has its second embedding.
Covered(cursor) == \A q \in rows : q.id <= cursor => q.v2 # None

\* Ids are never reused; the ledger counts what was embedded, at least; until
\* somebody redeploys, one model stamps the second column, and until somebody
\* ingests, the first.
DataInv ==
    /\ \A p, q \in rows : p.id = q.id => p = q
    /\ \A q \in rows : q.id \in used
    /\ Cardinality(rows \ Unembedded) <= progress.done
    /\ progress.status = "none" => progress.done = 0
    /\ spent.redeploys = 0 => \A q \in rows : q.v2 \in {None, setting}
    /\ spent.ingests = 0 => \A q \in rows : q.v1 = FirstModel

\* What a run read of the ledger and of the rows, and is about to write, is
\* still so however late it is, as long as nothing is ingested.
RunInv(r) ==
    /\ run[r].pc = "embed" => run[r].batch # {}
    /\ spent.ingests = 0 =>
         /\ run[r].pc \in {"select", "embed", "mark"} => Covered(run[r].cursor)
         /\ run[r].pc = "embed" =>
              \A q \in rows : q.id <= Last(run[r].batch) => q.v2 # None \/ q.id \in run[r].batch
         /\ run[r].pc = "mark" => Unembedded = {}

\* The cursor has nothing behind it; a complete ledger, a flip that passed its
\* check and the v2 flag each mean that nothing is left.
TenantInv ==
    spent.ingests = 0 =>
        /\ Covered(progress.cursor)
        /\ progress.status = "complete" \/ flip = "passed" \/ active = "v2" => Unembedded = {}

\* A query that read the v2 flag finds nothing left either, however late.
QueryInv ==
    /\ spent.ingests = 0 /\ query.pc = "fetch" /\ query.column = "v2" => Unembedded = {}
    /\ ServedUnlessChanged

IInv ==
    /\ TypeOK
    /\ DataInv
    /\ \A r \in Runners : RunInv(r)
    /\ TenantInv
    /\ QueryInv

-----------------------------------------------------------------------------
(* Finite sets of ids.                                                    *)

\* A set of naturals has a least element.
LEMMA Least ==
    ASSUME NEW S \in SUBSET Nat, S # {}
    PROVE  \E x \in S : \A y \in S : x <= y
<1> DEFINE R == OpToRel(<, Nat)
<1>1. IsWellFoundedOn(R, Nat)
  BY NatLessThanWellFounded
<1>2. \A x, y \in Nat : x < y => <<x, y>> \in R
  BY DEF OpToRel
<1> HIDE DEF R
<1>3. PICK x \in S : \A y \in S : ~(<<y, x>> \in R)
  BY <1>1, WFMin
<1>4. ASSUME NEW y \in S PROVE x <= y
  <2>1. ~(y < x)
    BY <1>2, <1>3
  <2> QED
    BY <2>1
<1> QED
  BY <1>4

\* A bounded one has a greatest element, which Last picks.
LEMMA LastIsGreatest ==
    ASSUME NEW S \in SUBSET Ids, S # {}
    PROVE  Last(S) \in S /\ \A y \in S : y <= Last(S)
<1> DEFINE T == {MaxId - x : x \in S}
<1>1. \A x \in S : MaxId - x \in Nat /\ MaxId - x \in T /\ x \in Int
  BY BoundAssumption DEF Ids
<1>2. PICK t \in T : \A y \in T : t <= y
  <2>1. T \subseteq Nat /\ T # {}
    BY <1>1
  <2> HIDE DEF T
  <2> QED
    BY <2>1, Least
<1>3. PICK x \in S : t = MaxId - x
  OBVIOUS
<1> HIDE DEF T
<1>4. \A y \in S : y <= x
  BY <1>1, <1>2, <1>3, BoundAssumption
<1> QED
  BY <1>4 DEF Last

\* Any set of ids is finite.
LEMMA IdsFinite == ASSUME NEW S \in SUBSET Ids PROVE IsFiniteSet(S) /\ Cardinality(S) \in Nat
<1>1. IsFiniteSet(Ids)
  BY BoundAssumption, FS_Interval DEF Ids
<1> QED
  BY <1>1, FS_Subset, FS_CardinalityType

\* A batch is empty only if nothing is pending, and leaves out no id below its
\* last.
LEMMA FirstIsPrefix ==
    ASSUME NEW S \in SUBSET Ids
    PROVE  /\ First(S, BatchSize) \subseteq S
           /\ First(S, BatchSize) = {} => S = {}
           /\ \A i \in S, l \in First(S, BatchSize) : i <= l => i \in First(S, BatchSize)
<1> DEFINE below(i) == {j \in S : j < i}
<1>1. \A i : IsFiniteSet(below(i)) /\ Cardinality(below(i)) \in Nat
  BY IdsFinite
<1>2. S \subseteq Nat /\ \A j \in S : j \in Int
  BY BoundAssumption DEF Ids
<1>3. ASSUME S # {} PROVE First(S, BatchSize) # {}
  <2>1. PICK x \in S : \A y \in S : x <= y
    BY <1>2, <1>3, Least
  <2>2. below(x) = {}
    <3>1. \A y \in S : ~(y < x)
      BY <1>2, <2>1
    <3> QED
      BY <3>1
  <2>3. Cardinality(below(x)) = 0
    BY <2>2, FS_EmptySet
  <2> QED
    BY <2>3, BatchAssumption DEF First
<1>4. ASSUME NEW i \in S, NEW l \in First(S, BatchSize), i <= l
      PROVE  i \in First(S, BatchSize)
  <2>1. below(i) \subseteq below(l)
    <3>1. l \in S
      BY DEF First
    <3>2. \A j \in S : j < i => j < l
      BY <1>2, <1>4, <3>1
    <3> QED
      BY <3>2
  <2>2. Cardinality(below(i)) <= Cardinality(below(l))
    BY <1>1, <2>1, FS_Subset
  <2>3. Cardinality(below(l)) < BatchSize
    BY DEF First
  <2>4. Cardinality(below(i)) < BatchSize
    BY <1>1, <2>2, <2>3, BatchAssumption
  <2> QED
    BY <2>4 DEF First
<1> QED
  BY <1>3, <1>4 DEF First

\* Rows with ids of their own are as finite as the ids, and no more of them
\* than of the ids they have.
LEMMA RowsFinite ==
    ASSUME NEW S \in SUBSET Row, NEW B \in SUBSET Ids,
           \A p, q \in S : p.id = q.id => p = q,
           \A q \in S : q.id \in B
    PROVE  IsFiniteSet(S) /\ Cardinality(S) \in Nat /\ Cardinality(S) <= Cardinality(B)
<1> DEFINE f == [q \in S |-> q.id]
<1>1. f \in Injection(S, B)
  BY DEF Injection, IsInjective
<1>2. IsFiniteSet(B)
  BY IdsFinite
<1> QED
  BY <1>1, <1>2, FS_Injection, FS_CardinalityType

-----------------------------------------------------------------------------
(* Steps.                                                                 *)

\* What is used of the invariant in every step.
LEMMA Unfold ==
    ASSUME IInv
    PROVE  /\ rows \subseteq Row /\ used \subseteq Ids /\ progress \in Progress /\ setting \in Models
           /\ run \in [Runners -> Run] /\ query \in Query
           /\ \A q \in rows : q \in Row /\ q.id \in Ids
           /\ spent \in [runs : 0..MaxRuns, ingests : 0..MaxIngests,
                         redeploys : 0..MaxRedeploys, queries : 0..MaxQueries]
           /\ MaxRuns \in Nat /\ MaxIngests \in Nat /\ MaxRedeploys \in Nat /\ MaxQueries \in Nat
  BY BoundAssumption DEF IInv, TypeOK, Row

\* Rows that only go or are embedded leave nothing behind that was not left
\* behind before.
LEMMA NothingUncovered ==
    ASSUME \A q \in rows' : q.v2 # None \/ q \in rows
    PROVE  /\ \A c : Covered(c) => Covered(c)'
           /\ Unembedded = {} => Unembedded' = {}
           /\ \A r \in Runners : RunInv(r) /\ run'[r] = run[r] /\ spent'.ingests = spent.ingests
                                   => RunInv(r)'
  BY DEF Covered, Unembedded, RunInv

\* A step that leaves the rows and the ledger alone.
LEMMA QuietStep ==
    ASSUME IInv, TypeOK', UNCHANGED <<rows, used, progress>>,
           spent'.ingests = spent.ingests,
           spent'.redeploys = 0 => spent.redeploys = 0 /\ setting' = setting,
           \A r \in Runners : run'[r] = run[r] \/ RunInv(r)',
           spent.ingests = 0 /\ (flip' = "passed" \/ active' = "v2") => Unembedded = {},
           QueryInv'
    PROVE  IInv'
<1>1. DataInv'
  BY DEF IInv, DataInv, Unembedded
<1>2. \A r \in Runners : RunInv(r)'
  BY NothingUncovered DEF IInv
<1>3. TenantInv'
  BY DEF IInv, TenantInv, Covered, Unembedded
<1> QED
  BY <1>1, <1>2, <1>3 DEF IInv

\* What a flip that passed its check, and the flag, mean now.
LEMMA FlagMeansNoneLeft ==
    ASSUME IInv, spent.ingests = 0, flip = "passed" \/ active = "v2" \/ progress.status = "complete"
    PROVE  Unembedded = {}
  BY DEF IInv, TenantInv

\* A step that leaves the query alone, while rows only go or are embedded.
LEMMA QueryWaits ==
    ASSUME IInv, UNCHANGED <<setting, query>>,
           spent'.ingests # 0 \/ \A q \in rows' : q.v2 # None \/ q \in rows,
           spent'.ingests = 0 => spent.ingests = 0,
           spent'.redeploys = spent.redeploys
    PROVE  QueryInv'
  BY NothingUncovered DEF IInv, QueryInv, ServedUnlessChanged

\* A run begins, reads the ledger or fails.
LEMMA RunStarts ==
    ASSUME IInv, NEW r \in Runners, StartRun(r) \/ ReadLedger(r) \/ FailRun(r)
    PROVE  IInv'
<1>1. /\ UNCHANGED <<rows, used, progress, active, setting, flip, query>>
      /\ spent' \in [runs : 0..MaxRuns, ingests : 0..MaxIngests,
                     redeploys : 0..MaxRedeploys, queries : 0..MaxQueries]
      /\ spent'.ingests = spent.ingests /\ spent'.redeploys = spent.redeploys
  <2>1. CASE StartRun(r)
    BY <2>1, Unfold DEF StartRun
  <2>2. CASE ReadLedger(r) \/ FailRun(r)
    BY <2>2, Unfold DEF ReadLedger, FailRun
  <2> QED
    BY <2>1, <2>2
<1>2. \E t \in Run :
         /\ run' = [run EXCEPT ![r] = t]
         /\ t.pc \in {"ledger", "done", "select", "idle"}
         /\ t.pc = "select" => t.cursor = progress.cursor
  <2>1. CASE StartRun(r)
    <3> DEFINE t == [NoRun EXCEPT !.pc = "ledger"]
    <3>1. t \in Run /\ t.pc = "ledger"
      BY DEF NoRun, Run
    <3> QED
      BY <2>1, <3>1 DEF StartRun
  <2>2. CASE ReadLedger(r)
    <3>1. CASE progress.status = "complete"
      <4> DEFINE t == [NoRun EXCEPT !.pc = "done"]
      <4>1. t \in Run /\ t.pc = "done"
        BY DEF NoRun, Run
      <4> QED
        BY <2>2, <3>1, <4>1 DEF ReadLedger
    <3>2. CASE progress.status # "complete"
      <4> DEFINE t == [NoRun EXCEPT !.pc = "select", !.cursor = progress.cursor]
      <4>1. t \in Run /\ t.pc = "select" /\ t.cursor = progress.cursor
        BY Unfold DEF NoRun, Run, Progress
      <4> QED
        BY <2>2, <3>2, <4>1 DEF ReadLedger
    <3> QED
      BY <3>1, <3>2
  <2>3. CASE FailRun(r)
    <3>1. NoRun \in Run /\ NoRun.pc = "idle"
      BY DEF NoRun, Run
    <3> QED
      BY <2>3, <3>1 DEF FailRun
  <2> QED
    BY <2>1, <2>2, <2>3
<1>3. TypeOK'
  BY <1>1, <1>2 DEF IInv, TypeOK
<1>4. \A q \in Runners : run'[q] = run[q] \/ RunInv(q)'
  <2>1. \A q \in Runners \ {r} : run'[q] = run[q]
    BY <1>2, Unfold
  <2>2. RunInv(r)'
    BY <1>1, <1>2, Unfold DEF RunInv, Covered, IInv, TenantInv
  <2> QED
    BY <2>1, <2>2
<1>5. QueryInv'
  BY <1>1, QueryWaits
<1> QED
  BY <1>1, <1>3, <1>4, <1>5, QuietStep, FlagMeansNoneLeft

\* The next batch has every pending chunk up to its last; there is none only
\* if nothing is pending.
LEMMA SelectBatchStep == ASSUME IInv, NEW r \in Runners, SelectBatch(r) PROVE IInv'
<1> DEFINE c == run[r].cursor
           batch == First(Pending(c), BatchSize)
           pc == IF batch = {} THEN "mark" ELSE "embed"
           t == [run[r] EXCEPT !.pc = pc, !.batch = batch]
<1>1. /\ run[r].pc = "select"
      /\ UNCHANGED <<rows, used, progress, active, setting, flip, query, spent>>
      /\ run' = [run EXCEPT ![r] = t]
  BY Unfold DEF SelectBatch
<1>2. Pending(c) \subseteq Ids
  BY Unfold DEF Pending, Unembedded
<1>3. /\ batch \subseteq Pending(c)
      /\ batch = {} => Pending(c) = {}
      /\ \A i \in Pending(c), l \in batch : i <= l => i \in batch
  BY <1>2, FirstIsPrefix
<1>4. pc \in {"mark", "embed"} /\ (pc = "mark" <=> batch = {})
  OBVIOUS
<1> HIDE DEF batch, pc
<1>5. t \in Run /\ t.pc = pc /\ t.batch = batch /\ t.cursor = c
  BY <1>2, <1>3, <1>4, Unfold DEF Run
<1>6. run' \in [Runners -> Run] /\ run'[r] = t /\ \A q \in Runners \ {r} : run'[q] = run[q]
  BY <1>1, <1>5, Unfold
<1> HIDE DEF t
<1>7. TypeOK'
  BY <1>1, <1>6 DEF IInv, TypeOK
<1>8. RunInv(r)'
  <2>1. batch # {} => Last(batch) \in batch /\ Last(batch) \in Int
    BY <1>2, <1>3, LastIsGreatest, BoundAssumption DEF Ids
  <2>2. \A q \in rows : q.v2 # None \/ q.id <= c \/ q.id \in Pending(c)
    BY Unfold DEF Pending, Unembedded, Run, Ids, Start
  <2>3. spent.ingests = 0 => Covered(c)
    BY <1>1 DEF IInv, RunInv
  <2>4. spent.ingests = 0 => \A q \in rows : q.v2 # None \/ q.id \in Pending(c)
    BY <2>2, <2>3 DEF Covered
  <2>5. (\A k : Covered(k)' = Covered(k)) /\ Unembedded' = Unembedded
    BY <1>1 DEF Covered, Unembedded
  <2>6. CASE batch = {}
    BY <1>1, <1>3, <1>4, <1>5, <1>6, <2>3, <2>4, <2>5, <2>6 DEF RunInv, Unembedded
  <2>7. CASE batch # {}
    BY <1>1, <1>3, <1>4, <1>5, <1>6, <2>1, <2>3, <2>4, <2>5, <2>7 DEF RunInv
  <2> QED
    BY <2>6, <2>7
<1>9. QueryInv'
  BY <1>1, QueryWaits
<1> QED
  BY <1>1, <1>6, <1>7, <1>8, <1>9, QuietStep, FlagMeansNoneLeft

\* The flag and its check; a query's flag is not yet an answer.
LEMMA FlagStep ==
    ASSUME IInv,
           CheckFlip \/ Flip \/ FailFlip \/ Rollback \/ FetchRows \/ \E d \in Docs : ReadFlag(d)
    PROVE  IInv'
<1>1. UNCHANGED <<rows, used, progress, setting, run>>
  BY DEF CheckFlip, Flip, FailFlip, Rollback, FetchRows, ReadFlag
<1>2. /\ spent' \in [runs : 0..MaxRuns, ingests : 0..MaxIngests,
                     redeploys : 0..MaxRedeploys, queries : 0..MaxQueries]
      /\ spent'.ingests = spent.ingests /\ spent'.redeploys = spent.redeploys
  <2>1. CASE \E d \in Docs : ReadFlag(d)
    BY <2>1, Unfold DEF ReadFlag
  <2>2. CASE CheckFlip \/ Flip \/ FailFlip \/ Rollback \/ FetchRows
    BY <2>2, Unfold DEF CheckFlip, Flip, FailFlip, Rollback, FetchRows
  <2> QED
    BY <2>1, <2>2
<1>3. active \in {"v1", "v2"} /\ flip \in {"idle", "passed"}
  BY DEF IInv, TypeOK
<1>4. /\ active' \in {"v1", "v2"} /\ flip' \in {"idle", "passed"}
      /\ spent.ingests = 0 /\ (flip' = "passed" \/ active' = "v2") => Unembedded = {}
  <2>1. CASE CheckFlip
    BY <1>3, <2>1, FlagMeansNoneLeft DEF CheckFlip
  <2>2. CASE Flip
    BY <1>3, <2>2, FlagMeansNoneLeft DEF Flip
  <2>3. CASE FailFlip \/ Rollback \/ FetchRows \/ \E d \in Docs : ReadFlag(d)
    BY <1>3, <2>3, FlagMeansNoneLeft DEF FailFlip, Rollback, FetchRows, ReadFlag
  <2> QED
    BY <2>1, <2>2, <2>3
<1>5. query' \in Query
  <2>1. CASE \E d \in Docs : ReadFlag(d)
    BY <1>3, <2>1 DEF ReadFlag, Query
  <2>2. CASE FetchRows
    <3>1. PICK pc \in {"refused", "answered"} : query' = [query EXCEPT !.doc = None, !.pc = pc]
      BY <2>2 DEF FetchRows
    <3> QED
      BY <3>1, Unfold DEF Query
  <2>3. CASE CheckFlip \/ Flip \/ FailFlip \/ Rollback
    BY <2>3, Unfold DEF CheckFlip, Flip, FailFlip, Rollback
  <2> QED
    BY <2>1, <2>2, <2>3
<1>6. TypeOK'
  BY <1>1, <1>2, <1>4, <1>5 DEF IInv, TypeOK
<1>7. QueryInv'
  <2>1. CASE CheckFlip \/ Flip \/ FailFlip \/ Rollback
    <3>1. query' = query
      BY <2>1 DEF CheckFlip, Flip, FailFlip, Rollback
    <3> QED
      BY <1>1, <1>2, <3>1, QueryWaits
  <2>2. CASE \E d \in Docs : ReadFlag(d)
    <3>1. query'.pc = "fetch" /\ query'.column = active
      BY <2>2 DEF ReadFlag
    <3> QED
      BY <1>1, <1>2, <3>1, FlagMeansNoneLeft DEF QueryInv, ServedUnlessChanged, Unembedded
  <2>3. CASE FetchRows
    <3> DEFINE stamps == {Stamp(r, query.column) : r \in RowsOf(query.doc)}
    <3>1. /\ query.pc = "fetch" /\ query'.pc # "fetch" /\ query'.column = query.column
          /\ query'.pc = "refused" => Mismatch(stamps)
      BY <2>3, Unfold DEF FetchRows, Query
    <3>2. ASSUME spent.ingests = 0, spent.redeploys = 0, Mismatch(stamps)
          PROVE  query.column = "v1" /\ setting # FirstModel
      <4>1. PICK r \in rows : Stamp(r, query.column) # setting
        BY <3>2 DEF Mismatch, RowsOf
      <4>2. r.v1 = FirstModel /\ r.v2 \in {None, setting}
        BY <3>2 DEF IInv, DataInv
      <4>3. query.column = "v2" => r.v2 # None
        BY <3>1, <3>2 DEF IInv, QueryInv, Unembedded
      <4>4. query.column \in {"v1", "v2"}
        BY Unfold DEF Query
      <4> QED
        BY <4>1, <4>2, <4>3, <4>4 DEF Stamp
    <3> HIDE DEF stamps
    <3> QED
      BY <1>1, <1>2, <3>1, <3>2 DEF QueryInv, ServedUnlessChanged
  <2> QED
    BY <2>1, <2>2, <2>3
<1> QED
  BY <1>1, <1>2, <1>4, <1>6, <1>7, QuietStep

\* Every call is lost, and nothing that was read survives to meet the new model.
LEMMA RedeployStep == ASSUME IInv, NEW m \in Models, Redeploy(m) PROVE IInv'
<1>1. /\ UNCHANGED <<rows, used, progress, active>>
      /\ spent' = [spent EXCEPT !.redeploys = spent.redeploys + 1]
      /\ spent.redeploys < MaxRedeploys /\ setting' = m
      /\ run' = [r \in Runners |-> NoRun] /\ flip' = "idle" /\ query' = NoQuery
  BY DEF Redeploy
<1>2. /\ spent' \in [runs : 0..MaxRuns, ingests : 0..MaxIngests,
                     redeploys : 0..MaxRedeploys, queries : 0..MaxQueries]
      /\ spent'.ingests = spent.ingests /\ spent'.redeploys # 0
  BY <1>1, Unfold
<1>3. NoRun \in Run /\ NoRun.pc = "idle" /\ NoQuery \in Query /\ NoQuery.pc = "idle"
  BY DEF NoRun, Run, NoQuery, Query
<1>4. TypeOK'
  BY <1>1, <1>2, <1>3 DEF IInv, TypeOK
<1>5. \A r \in Runners : RunInv(r)'
  BY <1>1, <1>3 DEF RunInv
<1>6. QueryInv'
  BY <1>1, <1>3 DEF QueryInv, ServedUnlessChanged
<1> QED
  BY <1>1, <1>2, <1>4, <1>5, <1>6, QuietStep, FlagMeansNoneLeft

\* A run that found nothing marks the ledger, however late: nothing is left
\* still, and a ledger row it has to add says so of its own cursor.
LEMMA MarkCompleteStep == ASSUME IInv, NEW r \in Runners, MarkComplete(r) PROVE IInv'
<1>1. /\ run[r].pc = "mark" /\ UNCHANGED <<rows, used, active, setting, flip, query, spent>>
      /\ run' = [run EXCEPT ![r] = [NoRun EXCEPT !.pc = "done"]]
      /\ progress' = IF progress.status = "none"
                     THEN [status |-> "complete", cursor |-> run[r].cursor, done |-> 0]
                     ELSE [progress EXCEPT !.status = "complete"]
  BY DEF MarkComplete
<1>2. /\ progress' \in Progress /\ progress'.status = "complete" /\ progress'.done = progress.done
      /\ progress'.cursor \in {progress.cursor, run[r].cursor}
  <2>1. CASE progress.status = "none"
    BY <1>1, <2>1, Unfold DEF Progress, Run, IInv, DataInv
  <2>2. CASE progress.status # "none"
    BY <1>1, <2>2, Unfold DEF Progress
  <2> QED
    BY <2>1, <2>2
<1>3. [NoRun EXCEPT !.pc = "done"] \in Run /\ [NoRun EXCEPT !.pc = "done"].pc = "done"
  BY DEF NoRun, Run
<1>4. TypeOK'
  BY <1>1, <1>2, <1>3 DEF IInv, TypeOK
<1>5. DataInv'
  BY <1>1, <1>2 DEF IInv, DataInv, Unembedded
<1>6. ASSUME NEW q \in Runners PROVE RunInv(q)'
  <2>1. CASE q = r
    BY <1>1, <1>3, <2>1, Unfold DEF RunInv
  <2>2. CASE q # r
    BY <1>1, <2>2, NothingUncovered, Unfold DEF IInv
  <2> QED
    BY <2>1, <2>2
<1>7. TenantInv'
  <2>1. spent.ingests = 0 => Covered(progress.cursor) /\ Covered(run[r].cursor) /\ Unembedded = {}
    BY <1>1 DEF IInv, TenantInv, RunInv
  <2>2. (\A k : Covered(k)' = Covered(k)) /\ Unembedded' = Unembedded
    BY <1>1 DEF Covered, Unembedded
  <2>3. spent.ingests = 0 => Covered(progress'.cursor)
    BY <1>2, <2>1
  <2>4. Covered(progress.cursor)' <=> Covered(progress'.cursor)
    BY <1>1 DEF Covered
  <2> QED
    BY <1>1, <2>1, <2>2, <2>3, <2>4 DEF TenantInv
<1>8. QueryInv'
  BY <1>1, QueryWaits
<1> QED
  BY <1>4, <1>5, <1>6, <1>7, <1>8 DEF IInv

\* A batch is written: every chunk up to its last has its embedding now, and the
\* count grows by at least as much as was embedded.
LEMMA WriteBatchStep == ASSUME IInv, NEW r \in Runners, WriteBatch(r) PROVE IInv'
<1> DEFINE batch == run[r].batch
           new(q) == IF q.id \in batch THEN [q EXCEPT !.v2 = setting] ELSE q
<1>1. /\ run[r].pc = "embed" /\ UNCHANGED <<used, active, setting, flip, query, spent>>
      /\ rows' = {new(q) : q \in rows}
      /\ progress' = [status |-> "in_progress", cursor |-> Last(batch),
                      done |-> progress.done + Cardinality(batch)]
      /\ run' = [run EXCEPT ![r] = [NoRun EXCEPT !.pc = "ledger"]]
  BY DEF WriteBatch, Updated, Upserted
<1>2. /\ batch \in SUBSET Ids /\ batch # {} /\ setting # None /\ setting \in Models
      /\ progress.done \in Nat /\ DataInv
  BY <1>1, ModelAssumption, Unfold DEF IInv, RunInv, Run, Progress
<1>3. Last(batch) \in batch /\ Cardinality(batch) \in Nat
  BY <1>2, LastIsGreatest, IdsFinite
<1>4. \A q \in rows : /\ new(q) \in Row /\ new(q).id = q.id
                      /\ q.id \in batch => new(q).v2 = setting
                      /\ q.id \notin batch => new(q) = q
  BY <1>2, Unfold DEF Row
<1> HIDE DEF batch, new
<1>5. rows' \subseteq Row /\ \A q \in rows' : q.v2 # None \/ q \in rows
  BY <1>1, <1>2, <1>4
<1>6. progress' \in Progress
  BY <1>1, <1>2, <1>3 DEF Progress
<1>7. [NoRun EXCEPT !.pc = "ledger"] \in Run /\ [NoRun EXCEPT !.pc = "ledger"].pc = "ledger"
  BY DEF NoRun, Run
<1>8. TypeOK'
  BY <1>1, <1>5, <1>6, <1>7 DEF IInv, TypeOK
<1>9. DataInv'
  <2>1. /\ \A p, q \in rows' : p.id = q.id => p = q
        /\ spent'.ingests = 0 => \A q \in rows' : q.v1 = FirstModel
    <3>1. \A q \in rows : new(q).v1 = q.v1
      BY <1>2, Unfold DEF Row, new
    <3> QED
      BY <1>1, <1>2, <1>4, <3>1 DEF DataInv
  <2>2. \A q \in rows' : q.id \in used'
    BY <1>1, <1>2, <1>4 DEF DataInv
  <2>3. spent'.redeploys = 0 => \A q \in rows' : q.v2 \in {None, setting'}
    BY <1>1, <1>2, <1>4 DEF DataInv
  <2>4. Cardinality((rows \ Unembedded)') <= progress'.done
    <3> DEFINE A == rows \ Unembedded
               B == {q \in rows' : q.id \in batch}
               C == rows' \ Unembedded'
    <3>1. C \subseteq A \cup B
      BY <1>1, <1>4 DEF Unembedded
    <3>2. IsFiniteSet(A) /\ Cardinality(A) \in Nat /\ Cardinality(A) <= progress.done
      BY <1>2, Unfold, RowsFinite DEF DataInv
    <3>3. B \in SUBSET Row /\ (\A p, q \in B : p.id = q.id => p = q) /\ \A q \in B : q.id \in batch
      BY <1>5, <2>1
    <3>4. IsFiniteSet(B) /\ Cardinality(B) \in Nat /\ Cardinality(B) <= Cardinality(batch)
      BY <1>2, <3>3, RowsFinite
    <3> HIDE DEF A, B, C
    <3>5. /\ IsFiniteSet(A \cup B) /\ Cardinality(A \cap B) \in Nat
          /\ Cardinality(A \cup B) = Cardinality(A) + Cardinality(B) - Cardinality(A \cap B)
      BY <3>2, <3>4, FS_Union, FS_Intersection, FS_CardinalityType
    <3>6. Cardinality(C) \in Nat /\ Cardinality(C) <= Cardinality(A \cup B)
      BY <3>1, <3>5, FS_Subset, FS_CardinalityType
    <3>7. Cardinality(C) <= progress.done + Cardinality(batch)
      BY <1>2, <1>3, <3>2, <3>4, <3>5, <3>6
    <3> QED
      BY <1>1, <3>7 DEF C
  <2> QED
    BY <1>1, <2>1, <2>2, <2>3, <2>4 DEF DataInv
<1>10. ASSUME NEW q \in Runners PROVE RunInv(q)'
  <2>1. CASE q = r
    BY <1>1, <1>7, <2>1, Unfold DEF RunInv
  <2>2. CASE q # r
    BY <1>1, <1>5, <2>2, NothingUncovered, Unfold DEF IInv
  <2> QED
    BY <2>1, <2>2
<1>11. TenantInv'
  <2> SUFFICES ASSUME spent.ingests = 0
               PROVE  /\ \A q \in rows' : q.id <= progress'.cursor => q.v2 # None
                      /\ flip = "passed" \/ active = "v2" => Unembedded' = {}
    BY <1>1 DEF TenantInv, Covered
  <2>1. \A q \in rows : q.id <= Last(batch) => q.v2 # None \/ q.id \in batch
    BY <1>1 DEF IInv, RunInv, batch
  <2>2. \A q \in rows' : q.id <= Last(batch) => q.v2 # None
    BY <1>1, <1>2, <1>4, <2>1
  <2>3. flip = "passed" \/ active = "v2" => Unembedded' = {}
    BY <1>5, NothingUncovered, FlagMeansNoneLeft
  <2> QED
    BY <1>1, <2>2, <2>3
<1>12. QueryInv'
  BY <1>1, <1>5, QueryWaits
<1> QED
  BY <1>8, <1>9, <1>10, <1>11, <1>12 DEF IInv

\* Rows that go take their embeddings with them; rows that come have ids of
\* their own and none, so the ledger still covers what there is.
LEMMA RowsComeAndGo ==
    ASSUME IInv, NEW gone, NEW fresh \in SUBSET (Ids \ used), NEW come \in SUBSET Row,
           \A q \in come : q.id \in fresh /\ q.v2 = None,
           \A p, q \in come : p.id = q.id => p = q,
           rows' = (rows \ gone) \cup come, used' = used \cup fresh,
           UNCHANGED <<progress, active, setting, run, flip, query>>,
           spent' \in [runs : 0..MaxRuns, ingests : 0..MaxIngests,
                       redeploys : 0..MaxRedeploys, queries : 0..MaxQueries],
           spent'.redeploys = spent.redeploys,
           (come = {} /\ spent' = spent) \/ spent'.ingests # 0
    PROVE  IInv'
<1>1. DataInv /\ progress.done \in Nat
  BY Unfold DEF IInv, Progress
<1>2. TypeOK'
  BY Unfold DEF IInv, TypeOK
<1>3. DataInv'
  <2>1. (\A p, q \in rows' : p.id = q.id => p = q) /\ \A q \in rows' : q.id \in used'
    BY <1>1 DEF DataInv
  <2>2. Cardinality((rows \ Unembedded)') <= progress.done
    <3>1. rows' \ Unembedded' \subseteq rows \ Unembedded
      BY DEF Unembedded
    <3>2. /\ IsFiniteSet(rows \ Unembedded) /\ Cardinality(rows \ Unembedded) \in Nat
          /\ Cardinality(rows \ Unembedded) <= progress.done
      BY <1>1, Unfold, RowsFinite DEF DataInv
    <3>3. /\ Cardinality(rows' \ Unembedded') \in Nat
          /\ Cardinality(rows' \ Unembedded') <= Cardinality(rows \ Unembedded)
      BY <3>1, <3>2, FS_Subset, FS_CardinalityType
    <3> QED
      BY <1>1, <3>2, <3>3
  <2>3. /\ spent'.redeploys = 0 => \A q \in rows' : q.v2 \in {None, setting'}
        /\ spent'.ingests = 0 => \A q \in rows' : q.v1 = FirstModel
    BY <1>1 DEF DataInv
  <2> QED
    BY <1>1, <2>1, <2>2, <2>3 DEF DataInv
<1>4. CASE come = {} /\ spent' = spent
  <2>1. \A q \in rows' : q.v2 # None \/ q \in rows
    BY <1>4
  <2>2. \A r \in Runners : RunInv(r)'
    BY <1>4, <2>1, NothingUncovered DEF IInv
  <2>3. TenantInv'
    BY <1>4, <2>1, NothingUncovered DEF IInv, TenantInv, Covered
  <2>4. QueryInv'
    BY <1>4, <2>1, QueryWaits
  <2> QED
    BY <1>2, <1>3, <2>2, <2>3, <2>4 DEF IInv
<1>5. CASE spent'.ingests # 0
  <2>1. (\A r \in Runners : RunInv(r)') /\ TenantInv' /\ QueryInv'
    BY <1>5 DEF IInv, RunInv, TenantInv, QueryInv, ServedUnlessChanged
  <2> QED
    BY <1>2, <1>3, <2>1 DEF IInv
<1> QED
  BY <1>4, <1>5

LEMMA IngestStep == ASSUME IInv, NEW d \in Docs, Ingest(d) PROVE IInv'
<1>1. PICK fresh \in SUBSET (Ids \ used) :
        /\ rows' = (rows \ RowsOf(d)) \cup
                   {[id |-> i, doc |-> d, v1 |-> setting, v2 |-> None] : i \in fresh}
        /\ used' = used \cup fresh
  BY DEF Ingest
<1> DEFINE come == {[id |-> i, doc |-> d, v1 |-> setting, v2 |-> None] : i \in fresh}
<1>2. /\ come \in SUBSET Row /\ (\A q \in come : q.id \in fresh /\ q.v2 = None)
      /\ \A p, q \in come : p.id = q.id => p = q
  BY Unfold DEF Row
<1>3. /\ UNCHANGED <<progress, active, setting, run, flip, query>>
      /\ spent' \in [runs : 0..MaxRuns, ingests : 0..MaxIngests,
                     redeploys : 0..MaxRedeploys, queries : 0..MaxQueries]
      /\ spent'.redeploys = spent.redeploys /\ spent'.ingests # 0
  BY Unfold DEF Ingest
<1> HIDE DEF come
<1> QED
  BY <1>1, <1>2, <1>3, RowsComeAndGo DEF come

LEMMA DropDocumentStep == ASSUME IInv, NEW d \in Docs, DropDocument(d) PROVE IInv'
<1>1. /\ rows' = (rows \ RowsOf(d)) \cup {} /\ used' = used \cup {}
      /\ UNCHANGED <<progress, active, setting, run, flip, query, spent>>
  BY DEF DropDocument
<1> DEFINE nothing == {}
<1>2. /\ nothing \in SUBSET (Ids \ used) /\ nothing \in SUBSET Row
      /\ \A q \in nothing : q.id \in nothing /\ q.v2 = None
      /\ \A p, q \in nothing : p.id = q.id => p = q
  OBVIOUS
<1>3. /\ spent' \in [runs : 0..MaxRuns, ingests : 0..MaxIngests,
                     redeploys : 0..MaxRedeploys, queries : 0..MaxQueries]
      /\ spent'.redeploys = spent.redeploys /\ nothing = {} /\ spent' = spent
  BY <1>1, Unfold
<1>4. rows' = (rows \ RowsOf(d)) \cup nothing /\ used' = used \cup nothing
  BY <1>1
<1> HIDE DEF nothing
<1> QED
  BY <1>1, <1>2, <1>3, <1>4, RowsComeAndGo

\* A purge leaves no row to be without anything, whatever late runs add to the
\* ledger after it.
LEMMA PurgeTenantStep == ASSUME IInv, PurgeTenant PROVE IInv'
<1>1. /\ rows' = {} /\ progress' = NoProgress /\ active' = "v1"
      /\ UNCHANGED <<used, setting, run, flip, query, spent>>
  BY DEF PurgeTenant
<1>2. /\ NoProgress \in Progress /\ NoProgress.done = 0 /\ NoProgress.status = "none"
  BY DEF NoProgress, Progress, Start
<1>3. TypeOK'
  BY <1>1, <1>2 DEF IInv, TypeOK
<1>4. Unembedded' = {} /\ \A c : Covered(c)'
  BY <1>1 DEF Unembedded, Covered
<1>5. DataInv'
  <2>1. (rows \ Unembedded)' = {}
    BY <1>1
  <2>2. Cardinality((rows \ Unembedded)') = 0
    BY <2>1, FS_EmptySet
  <2> QED
    BY <1>1, <1>2, <2>2 DEF DataInv
<1>6. \A r \in Runners : RunInv(r)'
  BY <1>1, NothingUncovered DEF IInv
<1>7. TenantInv'
  BY <1>4 DEF TenantInv, Covered
<1>8. QueryInv'
  BY <1>1, QueryWaits
<1> QED
  BY <1>3, <1>5, <1>6, <1>7, <1>8 DEF IInv

\* A corpus that has never been re-embedded.
LEMMA InitIInv == Init => IInv
<1> SUFFICES ASSUME Init PROVE IInv
  OBVIOUS
<1>1. PICK owner \in [Ids -> Docs \cup {None}] :
        rows = {[id |-> i, doc |-> owner[i], v1 |-> FirstModel, v2 |-> None] :
                  i \in {j \in Ids : owner[j] # None}}
  BY DEF Init
<1>2. rows \subseteq Row /\ Unembedded = rows /\ (\A p, q \in rows : p.id = q.id => p = q)
  BY <1>1, ModelAssumption DEF Row, Unembedded
<1>3. used = {q.id : q \in rows} /\ \A q \in rows : q.id \in Ids /\ q.v2 = None
  BY <1>2 DEF Init, Row, Unembedded
<1>4. progress \in Progress /\ progress.status = "none" /\ progress.done = 0 /\ progress.cursor = 0
  BY DEF Init, NoProgress, Progress, Start
<1>5. NoRun \in Run /\ NoRun.pc = "idle" /\ NoQuery \in Query /\ NoQuery.pc = "idle"
  BY DEF NoRun, Run, NoQuery, Query
<1>6. TypeOK
  BY <1>2, <1>3, <1>4, <1>5, BoundAssumption DEF Init, TypeOK
<1>7. DataInv
  <2>1. rows \ Unembedded = {}
    BY <1>2
  <2>2. Cardinality(rows \ Unembedded) = 0
    BY <2>1, FS_EmptySet
  <2>3. \A q \in rows : q.v1 = FirstModel
    BY <1>1
  <2> QED
    BY <1>2, <1>3, <1>4, <2>2, <2>3 DEF DataInv
<1>8. \A r \in Runners : RunInv(r)
  BY <1>5 DEF Init, RunInv
<1>9. Covered(progress.cursor)
  BY <1>3, <1>4, BoundAssumption DEF Covered, Ids
<1> QED
  BY <1>4, <1>5, <1>6, <1>7, <1>8, <1>9 DEF Init, IInv, TenantInv, QueryInv, ServedUnlessChanged

\* Every step preserves the invariant.
LEMMA StepIInv == IInv /\ [Next]_vars => IInv'
<1> SUFFICES ASSUME IInv, [Next]_vars PROVE IInv'
  OBVIOUS
<1>1. CASE \E r \in Runners : StartRun(r) \/ RunStep(r) \/ FailRun(r)
  BY <1>1, RunStarts, SelectBatchStep, MarkCompleteStep, WriteBatchStep DEF RunStep
<1>2. CASE CheckFlip \/ Flip \/ FailFlip \/ Rollback \/ FetchRows \/ PurgeTenant
  BY <1>2, FlagStep, PurgeTenantStep
<1>3. CASE \E d \in Docs : ReadFlag(d) \/ Ingest(d) \/ DropDocument(d)
  BY <1>3, FlagStep, IngestStep, DropDocumentStep
<1>4. CASE \E m \in Models : Redeploy(m)
  BY <1>4, RedeployStep
<1>5. CASE UNCHANGED vars
  <2>1. TypeOK' /\ QueryInv'
    BY <1>5, QueryWaits DEF vars, IInv, TypeOK
  <2> QED
    BY <1>5, <2>1, QuietStep, FlagMeansNoneLeft DEF vars
<1> QED
  BY <1>1, <1>2, <1>3, <1>4, <1>5 DEF Next

\* The invariant holds of every state a re-embedding can reach.
THEOREM Invariance == Spec => []IInv
  BY InitIInv, StepIInv, PTL DEF Spec

-----------------------------------------------------------------------------
(* Results.                                                               *)

\* Resuming at the cursor skips nothing, whatever runs overlap, crash or
\* finish late, as long as nothing is ingested (backfill.py:83-90, 100-108).
THEOREM NothingLeftBehindCursorAlways == Spec => []NothingLeftBehindCursor
<1>1. IInv => NothingLeftBehindCursor
  BY DEF IInv, TenantInv, Covered, NothingLeftBehindCursor
<1> QED
  BY <1>1, Invariance, PTL

\* A tenant under the v2 flag is served: none of its rows lacks the second
\* embedding or has another model's, as long as nothing is ingested and the
\* configuration stays (backfill.py:230-240).
THEOREM FlippedTenantIsServedAlways == Spec => []FlippedTenantIsServed
<1>1. IInv => FlippedTenantIsServed
  BY DEF IInv, DataInv, TenantInv, Unembedded, FlippedTenantIsServed
<1> QED
  BY <1>1, Invariance, PTL

\* chunks_done never falls short of the chunks that have a second embedding,
\* across crashes, overlapping runs and chunks deleted or replaced; and every
\* variable keeps its type (backfill.py:129-137).
THEOREM LedgerCoversWorkAlways == Spec => []LedgerCoversWork
<1>1. IInv => LedgerCoversWork
  BY DEF IInv, DataInv, LedgerCoversWork
<1> QED
  BY <1>1, Invariance, PTL

\* A query that has read the v2 flag is served, whatever is rolled back,
\* re-embedded, deleted or purged before it fetches the rows, as long as nothing
\* is ingested and the configuration stays (backfill.py:243-247, 278-286).
THEOREM ServedUnlessChangedAlways == Spec => []ServedUnlessChanged
<1>1. IInv => ServedUnlessChanged
  BY DEF IInv, QueryInv
<1> QED
  BY <1>1, Invariance, PTL

\* Only the run itself, reading the ledger or selecting, can report.
LEMMA OnlyTheRunReports ==
    ASSUME IInv, [Next]_vars, NEW r \in Runners, ReportsDone(r)
    PROVE  ReadLedger(r) \/ SelectBatch(r)
<1>1. run[r].pc \in {"ledger", "select"} /\ run'[r].pc \in {"done", "mark"}
  BY DEF ReportsDone
<1>2. NoRun.pc = "idle"
  BY DEF NoRun
<1>3. CASE \E q \in Runners : StartRun(q) \/ RunStep(q) \/ FailRun(q)
  <2>1. PICK q \in Runners : StartRun(q) \/ RunStep(q) \/ FailRun(q)
    BY <1>3
  <2>2. CASE q # r
    <3>1. run'[r] = run[r]
      BY <2>1, <2>2, Unfold DEF StartRun, RunStep, ReadLedger, SelectBatch, MarkComplete, WriteBatch, FailRun
    <3> QED
      BY <1>1, <3>1
  <2>3. CASE q = r
    <3>1. ~FailRun(r)
      BY <1>1, <1>2, Unfold DEF FailRun
    <3> QED
      BY <1>1, <2>1, <2>3, <3>1 DEF StartRun, Idle, RunStep, MarkComplete, WriteBatch
  <2> QED
    BY <2>2, <2>3
<1>4. CASE \/ CheckFlip \/ Flip \/ FailFlip \/ Rollback \/ FetchRows \/ PurgeTenant
           \/ UNCHANGED vars
           \/ \E d \in Docs : ReadFlag(d) \/ Ingest(d) \/ DropDocument(d)
  <2>1. run' = run
    BY <1>4 DEF CheckFlip, Flip, FailFlip, Rollback, FetchRows, ReadFlag, Ingest, DropDocument,
              PurgeTenant, vars
  <2> QED
    BY <1>1, <2>1
<1>5. CASE \E m \in Models : Redeploy(m)
  BY <1>1, <1>2, <1>5 DEF Redeploy
<1> QED
  BY <1>3, <1>4, <1>5 DEF Next

\* When a batch finds the ledger complete or selects nothing, no chunk of a
\* tenant nobody has ingested into is left without its second embedding, though
\* runs overlap and take the ledger back (backfill.py:66-68).
THEOREM DoneUnlessIngestedAlways == Spec => DoneUnlessIngested
<1> DEFINE Honest == \A r \in Runners : ReportsDone(r) /\ spent.ingests = 0 => Unembedded = {}
<1>1. ASSUME IInv, [Next]_vars, NEW r \in Runners, ReportsDone(r), spent.ingests = 0
      PROVE  Unembedded = {}
  <2>1. ReadLedger(r) \/ SelectBatch(r)
    BY <1>1, OnlyTheRunReports
  <2>2. CASE ReadLedger(r)
    <3>1. progress.status = "complete"
      BY <1>1, <2>2, Unfold DEF ReadLedger, ReportsDone, NoRun
    <3> QED
      BY <1>1, <3>1, FlagMeansNoneLeft
  <2>3. CASE SelectBatch(r)
    <3> DEFINE c == run[r].cursor
               batch == First(Pending(c), BatchSize)
    <3>1. run[r].pc = "select" /\ c \in Int
      BY <1>1, <2>3, Unfold, BoundAssumption DEF SelectBatch, Run, Ids, Start
    <3>2. Pending(c) \subseteq Ids
      BY <1>1, Unfold DEF Pending, Unembedded
    <3>3. batch = {}
      <4>1. batch # {} => run'[r].pc = "embed"
        BY <1>1, <2>3, Unfold DEF SelectBatch
      <4> QED
        BY <3>1, <4>1, <1>1 DEF ReportsDone
    <3>4. Pending(c) = {}
      BY <3>2, <3>3, FirstIsPrefix
    <3>5. \A q \in rows : q.v2 # None \/ q.id <= c
      BY <1>1, <3>1, <3>4, Unfold, BoundAssumption DEF Pending, Unembedded, Ids
    <3>6. Covered(c)
      BY <1>1, <3>1 DEF IInv, RunInv
    <3> QED
      BY <3>5, <3>6 DEF Covered, Unembedded
  <2> QED
    BY <2>1, <2>2, <2>3
<1>2. IInv /\ [Next]_vars => [Honest]_vars
  BY <1>1
<1> QED
  BY <1>2, Invariance, PTL DEF Spec, DoneUnlessIngested
=============================================================================
