---------------------------- MODULE FleetProofs ----------------------------
(***************************************************************************)
(* What holds of every use of the re-embed command, whichever roles stand  *)
(* behind its two connections, however many calls die half-way and         *)
(* whatever is ingested, replaced or deleted meanwhile.                    *)
(***************************************************************************)
EXTENDS Fleet, FiniteSetTheorems, SequenceTheorems, TLAPS

Embedded(t) == {r \in RowsOf(t) : r.embedded}

\* A ledger row is there once a batch or the end of one wrote it.
NoneMeansNoLedger == \A t \in Tenants : ledger[t].status = "none" => ledger[t] = NoLedger

OwnInv == pool # "bypass" => \A t \in Tenants : ledger[t].done >= Cardinality(Embedded(t))

TotalsInv ==
    pc \in {"batch", "returned"} => \A t \in Tenants : ledger[t].done = before[t] + totals[t]

\* With the roles apart a tenant's ledger speaks of its own rows: none is left
\* at or below its cursor, none at all once it is complete; and every tenant of
\* the list has been driven or has its turn still to come.
DriveInv ==
    Separate /\ spent.ingests = 0 =>
        /\ \A r \in rows :
              r.id <= ledger[r.tenant].cursor \/ ledger[r.tenant].status = "complete" => r.embedded
        /\ pc = "batch" => \A t \in present : Driven(t) \/ \E i \in DOMAIN todo : todo[i] = t
        /\ pc = "returned" => \A t \in present : Driven(t)

IInv ==
    /\ TypeOK
    /\ NoneMeansNoLedger
    /\ OwnInv
    /\ TotalsInv
    /\ DriveInv

\* The chunks a batch of t is chosen from, by id.
Pending(t, cursor) == {r.id : r \in {q \in Seen(pool, {t}) : ~q.embedded /\ q.id > cursor}}

-----------------------------------------------------------------------------
(* Finite sets of ids.                                                    *)

\* A set of naturals has a least element.
LEMMA Least ==
    ASSUME NEW S \in SUBSET Nat, S # {}
    PROVE  \E x \in S : \A y \in S : x <= y
<1> DEFINE R == OpToRel(<, Nat)
<1>1. IsWellFoundedOn(R, Nat)
  BY NatLessThanWellFounded
<1>2. \A x, y \in Nat : x < y => <<x, y>> \in R
  BY DEF OpToRel
<1> HIDE DEF R
<1>3. PICK x \in S : \A y \in S : ~(<<y, x>> \in R)
  BY <1>1, WFMin
<1>4. ASSUME NEW y \in S PROVE x <= y
  <2>1. ~(y < x)
    BY <1>2, <1>3
  <2> QED
    BY <2>1
<1> QED
  BY <1>4

\* A set of ids has a greatest element.
LEMMA MaxIsGreatest ==
    ASSUME NEW S \in SUBSET Ids, S # {}
    PROVE  Max(S) \in S /\ \A y \in S : y <= Max(S)
<1> DEFINE T == {MaxId - x : x \in S}
<1>1. \A x \in S : MaxId - x \in Nat /\ MaxId - x \in T /\ x \in Int
  BY BoundAssumption DEF Ids
<1>2. PICK t \in T : \A y \in T : t <= y
  <2>1. T \in SUBSET Nat /\ T # {}
    BY <1>1
  <2> QED
    BY <2>1, Least
<1>3. PICK x \in S : t = MaxId - x
  OBVIOUS
<1> HIDE DEF T
<1>4. \A y \in S : x >= y
  BY <1>1, <1>2, <1>3, BoundAssumption
<1>5. Max(S) \in S /\ \A y \in S : Max(S) >= y
  BY <1>4 DEF Max
<1> QED
  BY <1>1, <1>5

\* Any set of ids is finite.
LEMMA IdsFinite == ASSUME NEW S \in SUBSET Ids PROVE IsFiniteSet(S) /\ Cardinality(S) \in Nat
<1>1. IsFiniteSet(Ids)
  BY BoundAssumption, FS_Interval DEF Ids
<1> QED
  BY <1>1, FS_Subset, FS_CardinalityType

\* Rows are as many as their ids, no two having the same.
LEMMA RowsFinite ==
    ASSUME NEW S \in SUBSET Row, NEW B \in SUBSET Ids,
           \A p, q \in S : p.id = q.id => p = q,
           \A q \in S : q.id \in B
    PROVE  /\ IsFiniteSet(S) /\ Cardinality(S) \in Nat
           /\ (\A i \in B : \E q \in S : q.id = i) => Cardinality(S) = Cardinality(B)
<1> DEFINE f == [q \in S |-> q.id]
<1>1. f \in Injection(S, B)
  BY DEF Injection, IsInjective
<1>2. IsFiniteSet(B)
  BY IdsFinite
<1>3. (\A i \in B : \E q \in S : q.id = i) => f \in Surjection(S, B)
  BY DEF Surjection
<1> QED
  BY <1>1, <1>2, <1>3, FS_Injection, FS_CardinalityType

\* A batch is empty only if nothing is pending, and leaves out no id below its
\* last.
LEMMA BatchIsPrefix ==
    ASSUME rows \subseteq Row, NEW t \in Tenants, NEW c \in Int
    PROVE  /\ Batch(t, c) \subseteq Pending(t, c) /\ Pending(t, c) \subseteq Ids
           /\ Batch(t, c) = {} => Pending(t, c) = {}
           /\ \A i \in Pending(t, c), l \in Batch(t, c) : i <= l => i \in Batch(t, c)
<1> DEFINE S == Pending(t, c)
           below(i) == {j \in S : j < i}
<1>1. Batch(t, c) = {i \in S : Cardinality(below(i)) < BatchSize}
  BY DEF Batch, Pending
<1>2. S \subseteq Ids
  BY DEF Pending, Seen, Row
<1> HIDE DEF S
<1>3. S \subseteq Nat /\ \A j \in S : j \in Int
  BY <1>2, BoundAssumption DEF Ids
<1>4. \A i : IsFiniteSet(below(i)) /\ Cardinality(below(i)) \in Nat
  BY <1>2, IdsFinite
<1>5. ASSUME S # {} PROVE Batch(t, c) # {}
  <2>1. PICK x \in S : \A y \in S : x <= y
    BY <1>3, <1>5, Least
  <2>2. \A y \in S : ~(y < x)
    BY <1>3, <2>1
  <2>3. below(x) = {}
    BY <2>2
  <2>4. Cardinality(below(x)) = 0
    BY <2>3, FS_EmptySet
  <2> QED
    BY <1>1, <2>4, BatchAssumption
<1>6. ASSUME NEW i \in S, NEW l \in Batch(t, c), i <= l PROVE i \in Batch(t, c)
  <2>1. l \in S /\ Cardinality(below(l)) < BatchSize
    BY <1>1
  <2>2. \A j \in S : j < i => j < l
    BY <1>3, <1>6, <2>1
  <2>3. below(i) \subseteq below(l)
    BY <2>2
  <2>4. Cardinality(below(i)) <= Cardinality(below(l))
    BY <1>4, <2>3, FS_Subset
  <2>5. Cardinality(below(i)) < BatchSize
    BY <1>4, <2>1, <2>4, BatchAssumption
  <2> QED
    BY <1>1, <2>5
<1> QED
  BY <1>1, <1>2, <1>5, <1>6 DEF S

-----------------------------------------------------------------------------
(* Steps.                                                                 *)

\* What is used of the invariant in every step.
LEMMA Unfold ==
    ASSUME IInv
    PROVE  /\ rows \subseteq Row /\ (\A r, s \in rows : r.id = s.id => r = s)
           /\ \A r \in rows : r \in Row /\ r.id \in Int /\ r.tenant \in Tenants
           /\ ledger \in [Tenants -> Ledger] /\ NoneMeansNoLedger
           /\ todo \in Seq(Tenants) /\ totals \in [Tenants -> Nat] /\ present \subseteq Tenants
           /\ spent \in [runs : 0 .. MaxRuns, ingests : 0 .. MaxIngests]
           /\ MaxRuns \in Nat /\ MaxIngests \in Nat
  BY BoundAssumption DEF IInv, TypeOK, Row, Ids

\* A step that leaves the rows and the ledger alone.
LEMMA QuietStep ==
    ASSUME IInv, TypeOK', UNCHANGED <<url, pool, rows, ledger>>,
           spent'.ingests = spent.ingests, TotalsInv',
           Separate /\ spent.ingests = 0 =>
             /\ pc' = "batch" =>
                  \A t \in present' : Driven(t) \/ \E i \in DOMAIN todo' : todo'[i] = t
             /\ pc' = "returned" => \A t \in present' : Driven(t)
    PROVE  IInv'
<1>1. NoneMeansNoLedger' /\ OwnInv'
  BY DEF IInv, NoneMeansNoLedger, OwnInv, Embedded, RowsOf
<1>2. (Separate' <=> Separate) /\ \A t : Driven(t)' <=> Driven(t)
  BY DEF Separate, Driven, RowsOf
<1>3. DriveInv'
  BY <1>2 DEF IInv, DriveInv
<1> QED
  BY <1>1, <1>3 DEF IInv

\* A call begins, ends or dies: what it knew of the tenants still holds.
LEMMA CallStep == ASSUME IInv, Start \/ Return \/ Fail PROVE IInv'
<1>1. UNCHANGED <<url, pool, rows, ledger, totals, present, before>>
  BY DEF Start, Return, Fail
<1>2. /\ spent' \in [runs : 0 .. MaxRuns, ingests : 0 .. MaxIngests] /\ spent'.ingests = spent.ingests
      /\ pc' \in {"list", "returned", "failed"} /\ todo' \in Seq(Tenants)
      /\ pc' = "returned" => pc = "batch" /\ todo = <<>>
  <2>1. CASE Start
    <3>1. spent.runs < MaxRuns /\ spent' = [spent EXCEPT !.runs = spent.runs + 1]
      BY <2>1 DEF Start
    <3>2. spent' \in [runs : 0 .. MaxRuns, ingests : 0 .. MaxIngests] /\ spent'.ingests = spent.ingests
      BY <3>1, Unfold
    <3> QED
      BY <2>1, <3>2, Unfold DEF Start
  <2>2. CASE Return
    BY <2>2, Unfold DEF Return
  <2>3. CASE Fail
    <3>1. <<>> \in Seq(Tenants)
      OBVIOUS
    <3> QED
      BY <2>3, <3>1, Unfold DEF Fail
  <2> QED
    BY <2>1, <2>2, <2>3
<1>3. TypeOK'
  BY <1>1, <1>2 DEF IInv, TypeOK
<1>4. TotalsInv'
  BY <1>1, <1>2 DEF IInv, TotalsInv
<1>5. Separate /\ spent.ingests = 0 /\ pc' = "returned" => \A t \in present' : Driven(t)
  BY <1>1, <1>2 DEF IInv, DriveInv
<1> QED
  BY <1>1, <1>2, <1>3, <1>4, <1>5, QuietStep

\* A strictly increasing list of as many as there are names every one.
LEMMA ListIsComplete ==
    ASSUME NEW S \in SUBSET Tenants, NEW list \in [1 .. Cardinality(S) -> S],
           \A i, j \in DOMAIN list : i < j => list[i] < list[j]
    PROVE  list \in Seq(Tenants) /\ \A t \in S : \E i \in DOMAIN list : list[i] = t
<1> DEFINE n == Cardinality(S)
<1>1. IsFiniteSet(S) /\ n \in Nat
  BY TenantAssumption, FS_Subset, FS_CardinalityType
<1> HIDE DEF n
<1>2. list \in [1 .. n -> S] /\ DOMAIN list = 1 .. n
  BY DEF n
<1>3. \A i, j \in 1 .. n : list[i] = list[j] => i = j
  <2> SUFFICES ASSUME NEW i \in 1 .. n, NEW j \in 1 .. n, list[i] = list[j], i < j PROVE FALSE
    BY <1>1
  <2>1. list[i] < list[j] /\ list[i] \in Nat
    BY <1>2, TenantAssumption
  <2> QED
    BY <2>1
<1>4. list \in Injection(1 .. n, S)
  BY <1>2, <1>3 DEF Injection, IsInjective
<1>5. Cardinality(1 .. n) = Cardinality(S)
  BY <1>1, FS_Interval DEF n
<1>6. list \in Surjection(1 .. n, S)
  BY <1>1, <1>4, <1>5, FS_Injection
<1>7. \A t \in S : \E i \in 1 .. n : list[i] = t
  BY <1>6 DEF Surjection
<1>8. list \in Seq(Tenants)
  BY <1>1, <1>2
<1> QED
  BY <1>2, <1>7, <1>8

\* Read by a role that sees past the policy, the list names every tenant that
\* has chunks.
LEMMA ListTenantsStep == ASSUME IInv, ListTenants PROVE IInv'
<1> DEFINE tenants == {r.tenant : r \in Seen(url, {})}
<1>1. PICK list \in [1 .. Cardinality(tenants) -> tenants] :
        (\A i, j \in DOMAIN list : i < j => list[i] < list[j]) /\ todo' = list
  BY DEF ListTenants
<1>2. /\ UNCHANGED <<url, pool, rows, ledger, spent>> /\ pc' = "batch"
      /\ totals' = [t \in Tenants |-> 0] /\ present' = {r.tenant : r \in rows}
      /\ before' = [t \in Tenants |-> ledger[t].done]
  BY DEF ListTenants
<1>3. tenants \subseteq Tenants /\ (url = "bypass" => tenants = present')
  BY <1>2, Unfold DEF Seen
<1> HIDE DEF tenants
<1>4. todo' \in Seq(Tenants) /\ \A t \in tenants : \E i \in DOMAIN todo' : todo'[i] = t
  <2>1. tenants \in SUBSET Tenants
    BY <1>3
  <2>2. list \in Seq(Tenants) /\ \A t \in tenants : \E i \in DOMAIN list : list[i] = t
    BY <1>1, <2>1, ListIsComplete
  <2> QED
    BY <1>1, <2>2
<1>5. before' \in [Tenants -> Nat] /\ totals' \in [Tenants -> Nat] /\ present' \subseteq Tenants
  BY <1>2, Unfold DEF Ledger
<1>6. TypeOK'
  BY <1>2, <1>4, <1>5 DEF IInv, TypeOK
<1>7. TotalsInv'
  BY <1>2, Unfold DEF TotalsInv, Ledger
<1> QED
  BY <1>2, <1>3, <1>4, <1>6, <1>7, QuietStep DEF Separate

\* The tenant whose turn it is, and those behind it.
LEMMA NextTenant ==
    ASSUME IInv, todo # <<>>
    PROVE  /\ Head(todo) \in Tenants /\ Tail(todo) \in Seq(Tenants)
           /\ \A i \in DOMAIN todo :
                 todo[i] = Head(todo) \/ \E j \in DOMAIN Tail(todo) : Tail(todo)[j] = todo[i]
<1>1. todo \in Seq(Tenants)
  BY Unfold
<1>2. Head(todo) = todo[1] /\ Len(Tail(todo)) = Len(todo) - 1 /\ Tail(todo) \in Seq(Tenants)
  BY <1>1
<1>3. ASSUME NEW i \in DOMAIN todo, i # 1
      PROVE  \E j \in DOMAIN Tail(todo) : Tail(todo)[j] = todo[i]
  <2>1. i \in 1 .. Len(todo) /\ i - 1 \in 1 .. Len(Tail(todo))
    BY <1>1, <1>2, <1>3
  <2>2. Tail(todo)[i - 1] = todo[i]
    BY <1>1, <1>2, <2>1
  <2> QED
    BY <1>2, <2>1, <2>2
<1> QED
  BY <1>1, <1>2, <1>3

\* In a session the policy holds for, a tenant resumes from its own ledger.
LEMMA ResumesItsOwn ==
    ASSUME IInv, pool # "bypass", NEW t \in Tenants
    PROVE  Resumed(t) = {ledger[t]}
  BY Unfold DEF Resumed, Ledgers, NoneMeansNoLedger

\* A ledger row some tenant has, or none.
LEMMA ResumedType ==
    ASSUME IInv, NEW t \in Tenants, NEW resumed \in Resumed(t)
    PROVE  resumed \in Ledger /\ resumed.cursor \in Int
<1>1. NoLedger \in Ledger
  BY DEF NoLedger, Ledger
<1>2. resumed \in Ledger
  BY <1>1, Unfold DEF Resumed, Ledgers
<1> QED
  BY <1>2 DEF Ledger, Ids

\* The rows and the ledger as they were, the turn passes to the next tenant.
LEMMA NothingToDoStep ==
    ASSUME IInv, pc = "batch", todo # <<>>, NEW resumed \in Resumed(Head(todo)),
           resumed.status = "complete", NothingToDo,
           UNCHANGED <<url, pool, pc, present, before, spent>>
    PROVE  IInv'
<1> DEFINE t == Head(todo)
<1>1. UNCHANGED <<rows, ledger, totals>> /\ todo' = Tail(todo) /\ t \in Tenants
  BY NextTenant DEF NothingToDo
<1>2. TypeOK'
  BY <1>1, NextTenant DEF IInv, TypeOK
<1>3. TotalsInv'
  BY <1>1 DEF IInv, TotalsInv
<1>4. ASSUME Separate, spent.ingests = 0, NEW u \in present
      PROVE  Driven(u) \/ \E j \in DOMAIN todo' : todo'[j] = u
  <2>1. ledger[t].status = "complete"
    BY <1>1, <1>4, ResumesItsOwn DEF Separate
  <2>2. Driven(t)
    BY <1>4, <2>1 DEF IInv, DriveInv, Driven, RowsOf
  <2>3. Driven(u) \/ \E i \in DOMAIN todo : todo[i] = u
    BY <1>4 DEF IInv, DriveInv
  <2> QED
    BY <1>1, <2>2, <2>3, NextTenant
<1> QED
  BY <1>1, <1>2, <1>3, <1>4, QuietStep

\* Nothing was selected: with the roles apart the tenant has been driven.
LEMMA MarkCompleteStep ==
    ASSUME IInv, pc = "batch", todo # <<>>, NEW resumed \in Resumed(Head(todo)),
           Batch(Head(todo), resumed.cursor) = {}, MarkComplete(Head(todo), resumed.cursor),
           UNCHANGED <<url, pool, pc, present, before, spent>>
    PROVE  IInv'
<1> DEFINE t == Head(todo)
           c == resumed.cursor
           mark == IF ledger[t].status = "none"
                   THEN [status |-> "complete", cursor |-> c, done |-> 0]
                   ELSE [ledger[t] EXCEPT !.status = "complete"]
<1>1. /\ t \in Tenants /\ todo' = Tail(todo) /\ UNCHANGED <<rows, totals>>
      /\ ledger' = [ledger EXCEPT ![t] = mark]
  BY NextTenant DEF MarkComplete
<1>2. c \in Ids \cup {0} /\ c \in Int
  BY <1>1, ResumedType DEF Ledger
<1>3. mark \in Ledger /\ mark.status = "complete" /\ mark.done = ledger[t].done
  <2>1. CASE ledger[t].status = "none"
    BY <1>1, <1>2, <2>1, Unfold DEF Ledger, NoneMeansNoLedger, NoLedger
  <2>2. CASE ledger[t].status # "none"
    <3>1. ledger[t] \in Ledger
      BY <1>1, Unfold
    <3> QED
      BY <2>2, <3>1 DEF Ledger
  <2> QED
    BY <2>1, <2>2
<1> HIDE DEF mark
<1>4. ledger' \in [Tenants -> Ledger] /\ ledger'[t] = mark /\ \A u \in Tenants \ {t} : ledger'[u] = ledger[u]
  BY <1>1, <1>3, Unfold
<1>5. TypeOK'
  BY <1>1, <1>4, NextTenant DEF IInv, TypeOK
<1>6. NoneMeansNoLedger'
  BY <1>3, <1>4, Unfold DEF NoneMeansNoLedger
<1>7. OwnInv'
  BY <1>1, <1>3, <1>4 DEF IInv, OwnInv, Embedded, RowsOf
<1>8. TotalsInv'
  BY <1>1, <1>3, <1>4 DEF IInv, TotalsInv
<1>9. DriveInv'
  <2> SUFFICES ASSUME Separate, spent.ingests = 0
               PROVE  /\ \A r \in rows : r.id <= ledger'[r.tenant].cursor
                                           \/ ledger'[r.tenant].status = "complete" => r.embedded
                      /\ \A u \in present : Driven(u)' \/ \E i \in DOMAIN todo' : todo'[i] = u
    BY <1>1 DEF DriveInv, Separate
  <2>1. resumed = ledger[t]
    BY <1>1, ResumesItsOwn DEF Separate
  <2>2. Pending(t, c) = {}
    BY <1>1, <1>2, Unfold, BatchIsPrefix
  <2>3. \A r \in rows : r.id <= ledger[r.tenant].cursor \/ ledger[r.tenant].status = "complete" => r.embedded
    BY DEF IInv, DriveInv
  <2>4. \A r \in rows : r.tenant = t => r.embedded
    <3> SUFFICES ASSUME NEW r \in rows, r.tenant = t, ~r.embedded PROVE FALSE
      BY Unfold DEF Row
    <3>1. r.id > c
      BY <1>2, <2>1, <2>3, Unfold
    <3>2. r.id \in Pending(t, c)
      BY <3>1 DEF Pending, Seen, Separate
    <3> QED
      BY <2>2, <3>2
  <2>5. \A r \in rows : r.tenant = t \/ ledger'[r.tenant] = ledger[r.tenant]
    BY <1>4, Unfold
  <2>6. ASSUME NEW u \in Tenants, u = t PROVE Driven(u)'
    BY <1>1, <1>3, <1>4, <2>4, <2>6 DEF Driven, RowsOf
  <2>7. ASSUME NEW u \in Tenants, Driven(u) PROVE Driven(u)'
    BY <1>1, <1>4, <2>6, <2>7 DEF Driven, RowsOf
  <2>8. \A u \in present : Driven(u) \/ \E i \in DOMAIN todo : todo[i] = u
    BY DEF IInv, DriveInv
  <2>9. \A u \in present : Driven(u)' \/ \E i \in DOMAIN todo' : todo'[i] = u
    <3> SUFFICES ASSUME NEW u \in present, ~Driven(u)' PROVE \E i \in DOMAIN todo' : todo'[i] = u
      OBVIOUS
    <3>1. u \in Tenants /\ u # t /\ ~Driven(u)
      BY <2>6, <2>7, Unfold
    <3> QED
      BY <1>1, <2>8, <3>1, NextTenant
  <2> QED
    BY <2>3, <2>4, <2>5, <2>9
<1> QED
  BY <1>5, <1>6, <1>7, <1>8, <1>9 DEF IInv

\* A batch is written: in a session the policy holds for, rows of the tenant
\* only, each for the first time, and every one up to the last.
LEMMA EmbedStep ==
    ASSUME IInv, pc = "batch", todo # <<>>, NEW resumed \in Resumed(Head(todo)),
           resumed.status # "complete", Batch(Head(todo), resumed.cursor) # {},
           Embed(Head(todo), Batch(Head(todo), resumed.cursor)),
           UNCHANGED <<url, pool, pc, present, before, spent>>
    PROVE  IInv'
<1> DEFINE t == Head(todo)
           c == resumed.cursor
           batch == Batch(t, c)
           new(r) == IF r.id \in batch THEN [r EXCEPT !.embedded = TRUE] ELSE r
           entry == [status |-> "in_progress", cursor |-> Max(batch),
                     done |-> ledger[t].done + Cardinality(batch)]
<1>1. /\ t \in Tenants /\ UNCHANGED todo /\ rows' = {new(r) : r \in rows}
      /\ ledger' = [ledger EXCEPT ![t] = entry]
      /\ totals' = [totals EXCEPT ![t] = totals[t] + Cardinality(batch)]
  BY NextTenant DEF Embed
<1>2. c \in Int
  BY <1>1, ResumedType
<1>3. /\ batch \subseteq Pending(t, c) /\ batch \in SUBSET Ids /\ batch # {}
      /\ \A i \in Pending(t, c), l \in batch : i <= l => i \in batch
  BY <1>1, <1>2, BatchIsPrefix, Unfold
<1> HIDE DEF batch
<1>4. Max(batch) \in batch /\ Max(batch) \in Ids /\ Cardinality(batch) \in Nat
  BY <1>3, MaxIsGreatest, IdsFinite
<1>5. \A r \in rows : /\ new(r) \in Row /\ new(r).id = r.id /\ new(r).tenant = r.tenant
                      /\ r.id \in batch => new(r).embedded
                      /\ r.id \notin batch => new(r) = r
                      /\ r.embedded => new(r).embedded
  BY Unfold DEF Row
<1>6. ledger[t] \in Ledger /\ ledger[t].done \in Nat /\ totals[t] \in Nat
  BY <1>1, Unfold DEF Ledger
<1>7. entry \in Ledger /\ entry.status = "in_progress" /\ entry.cursor = Max(batch)
      /\ entry.done = ledger[t].done + Cardinality(batch)
  BY <1>4, <1>6 DEF Ledger
<1> HIDE DEF new, entry
<1>8. /\ ledger' \in [Tenants -> Ledger] /\ ledger'[t] = entry
      /\ totals' \in [Tenants -> Nat] /\ totals'[t] = totals[t] + Cardinality(batch)
      /\ \A u \in Tenants \ {t} : ledger'[u] = ledger[u] /\ totals'[u] = totals[u]
  BY <1>1, <1>4, <1>6, <1>7, Unfold
<1>9. /\ rows' \subseteq Row /\ (\A p, q \in rows' : p.id = q.id => p = q)
      /\ \A q \in rows' : \E r \in rows : q = new(r)
  BY <1>1, <1>5, Unfold
<1>10. TypeOK'
  BY <1>1, <1>8, <1>9 DEF IInv, TypeOK
<1>11. NoneMeansNoLedger'
  BY <1>7, <1>8, Unfold DEF NoneMeansNoLedger
<1>12. ASSUME pool # "bypass" PROVE \A r \in rows : r.id \in batch => r.tenant = t /\ ~r.embedded
  <2> SUFFICES ASSUME NEW r \in rows, r.id \in batch PROVE r.tenant = t /\ ~r.embedded
    OBVIOUS
  <2>1. PICK q \in Seen(pool, {t}) : ~q.embedded /\ q.id = r.id
    BY <1>3 DEF Pending
  <2>2. q \in rows /\ q.tenant = t
    BY <1>12, <2>1 DEF Seen
  <2>3. q = r
    BY <2>1, <2>2, Unfold
  <2> QED
    BY <2>1, <2>2, <2>3
<1>13. OwnInv'
  <2> SUFFICES ASSUME pool # "bypass", NEW u \in Tenants
               PROVE  ledger'[u].done >= Cardinality(Embedded(u)')
    BY <1>1 DEF OwnInv
  <2>1. ledger[u].done >= Cardinality(Embedded(u))
    BY DEF IInv, OwnInv
  <2>2. CASE u # t
    <3>1. \A r \in rows : r.tenant = u => new(r) = r
      BY <1>5, <1>12, <2>2
    <3>2. Embedded(u)' = Embedded(u)
      BY <1>1, <1>5, <3>1 DEF Embedded, RowsOf
    <3> QED
      BY <1>8, <2>1, <2>2, <3>2
  <2>3. CASE u = t
    <3> DEFINE A == Embedded(u)
               B == {q \in rows' : q.id \in batch}
    <3>1. Embedded(u)' = A \cup B
      BY <1>1, <1>5, <1>12, <2>3 DEF Embedded, RowsOf
    <3>2. A \cap B = {}
      BY <1>9, <1>5, <1>12 DEF Embedded, RowsOf
    <3>3. IsFiniteSet(A) /\ Cardinality(A) \in Nat
      <4>1. A \in SUBSET Row /\ (\A p, q \in A : p.id = q.id => p = q) /\ \A q \in A : q.id \in Ids
        BY Unfold DEF Embedded, RowsOf, Row
      <4> QED
        BY <4>1, RowsFinite
    <3>4. IsFiniteSet(B) /\ Cardinality(B) = Cardinality(batch)
      <4>1. B \in SUBSET Row /\ (\A p, q \in B : p.id = q.id => p = q) /\ \A q \in B : q.id \in batch
        BY <1>9
      <4>2. \A i \in batch : \E q \in B : q.id = i
        <5> SUFFICES ASSUME NEW i \in batch PROVE \E q \in B : q.id = i
          OBVIOUS
        <5>1. PICK r \in rows : r.id = i
          BY <1>3 DEF Pending, Seen
        <5> QED
          BY <1>1, <1>5, <5>1
      <4> QED
        BY <1>3, <4>1, <4>2, RowsFinite
    <3> HIDE DEF A, B
    <3>5. Cardinality(A \cup B) = Cardinality(A) + Cardinality(B) - Cardinality(A \cap B)
      BY <3>3, <3>4, FS_Union
    <3>6. Cardinality(A \cap B) = 0
      BY <3>2, FS_EmptySet
    <3>7. Cardinality(A \cup B) = Cardinality(A) + Cardinality(batch)
      BY <1>4, <3>3, <3>4, <3>5, <3>6
    <3>8. ledger[t].done >= Cardinality(A)
      BY <2>1, <2>3 DEF A
    <3>9. ledger[t].done + Cardinality(batch) >= Cardinality(A \cup B)
      BY <1>4, <1>6, <3>3, <3>7, <3>8
    <3> QED
      BY <1>7, <1>8, <2>3, <3>1, <3>9
  <2> QED
    BY <2>2, <2>3
<1>14. TotalsInv'
  <2>1. before \in [Tenants -> Nat]
    BY DEF IInv, TypeOK
  <2>2. \A u \in Tenants : ledger[u].done = before[u] + totals[u]
    BY DEF IInv, TotalsInv
  <2>3. ledger'[t].done = before[t] + totals'[t]
    BY <1>1, <1>4, <1>6, <1>7, <1>8, <2>1, <2>2
  <2>4. \A u \in Tenants : ledger'[u].done = before[u] + totals'[u]
    BY <1>8, <2>2, <2>3
  <2> QED
    BY <2>4 DEF TotalsInv
<1>15. DriveInv'
  <2> SUFFICES ASSUME Separate, spent.ingests = 0
               PROVE  /\ \A q \in rows' : q.id <= ledger'[q.tenant].cursor
                                            \/ ledger'[q.tenant].status = "complete" => q.embedded
                      /\ \A u \in present : Driven(u)' \/ \E i \in DOMAIN todo' : todo'[i] = u
    BY <1>1 DEF DriveInv, Separate
  <2>1. resumed = ledger[t]
    BY <1>1, ResumesItsOwn DEF Separate
  <2>2. \A r \in rows : r.id <= ledger[r.tenant].cursor \/ ledger[r.tenant].status = "complete" => r.embedded
    BY DEF IInv, DriveInv
  <2>3. ASSUME NEW r \in rows, r.tenant = t, r.id <= Max(batch) PROVE new(r).embedded
    <3>1. CASE r.embedded
      BY <1>5, <3>1
    <3>2. CASE ~r.embedded
      <4>1. r.id > c
        BY <1>2, <2>1, <2>2, <2>3, <3>2, Unfold
      <4>2. r.id \in Pending(t, c)
        BY <2>3, <3>2, <4>1 DEF Pending, Seen, Separate
      <4> QED
        BY <1>3, <1>4, <1>5, <2>3, <4>2
    <3> QED
      BY <3>1, <3>2, Unfold DEF Row
  <2>4. ASSUME NEW q \in rows', q.id <= ledger'[q.tenant].cursor \/ ledger'[q.tenant].status = "complete"
        PROVE  q.embedded
    <3>1. PICK r \in rows : q = new(r)
      BY <1>9
    <3>2. q.id = r.id /\ q.tenant = r.tenant /\ r.tenant \in Tenants
      BY <1>5, <3>1, Unfold
    <3>3. CASE r.tenant = t
      BY <1>7, <1>8, <2>3, <2>4, <3>1, <3>2, <3>3
    <3>4. CASE r.tenant # t
      BY <1>5, <1>8, <2>2, <2>4, <3>1, <3>2, <3>4
    <3> QED
      BY <3>3, <3>4
  <2>5. ASSUME NEW u \in Tenants, Driven(u) PROVE Driven(u)'
    <3>1. u # t
      BY <2>1, <2>5 DEF Driven
    <3>2. ledger'[u] = ledger[u]
      BY <1>8, <3>1
    <3>3. \A q \in rows' : q.tenant = u => q.embedded
      BY <1>1, <1>5, <2>5 DEF Driven, RowsOf
    <3> QED
      BY <2>5, <3>2, <3>3 DEF Driven, RowsOf
  <2>6. \A u \in present : Driven(u) \/ \E i \in DOMAIN todo : todo[i] = u
    BY DEF IInv, DriveInv
  <2>7. \A u \in present : Driven(u)' \/ \E i \in DOMAIN todo' : todo'[i] = u
    BY <1>1, <2>5, <2>6, Unfold
  <2> QED
    BY <2>4, <2>7
<1> QED
  BY <1>10, <1>11, <1>13, <1>14, <1>15 DEF IInv

\* Chunks that go take their embeddings with them, chunks that come have none
\* and ids no chunk has: the ledgers still cover what there is.
LEMMA RowsComeAndGo ==
    ASSUME IInv, NEW gone, NEW come \in SUBSET Row,
           \A r \in come : ~r.embedded /\ \A q \in rows : q.id # r.id,
           \A r, q \in come : r.id = q.id => r = q,
           rows' = (rows \ gone) \cup come,
           UNCHANGED <<url, pool, ledger, pc, todo, totals, present, before>>,
           spent' \in [runs : 0 .. MaxRuns, ingests : 0 .. MaxIngests],
           spent'.ingests # 0 \/ (come = {} /\ spent' = spent)
    PROVE  IInv'
<1>1. TypeOK'
  <2>1. rows' \subseteq Row /\ \A r, q \in rows' : r.id = q.id => r = q
    BY Unfold
  <2> QED
    BY <2>1 DEF IInv, TypeOK
<1>2. NoneMeansNoLedger' /\ TotalsInv'
  BY DEF IInv, NoneMeansNoLedger, TotalsInv
<1>3. OwnInv'
  <2> SUFFICES ASSUME pool # "bypass", NEW t \in Tenants
               PROVE  ledger[t].done >= Cardinality(Embedded(t)')
    BY DEF OwnInv
  <2>1. Embedded(t)' \subseteq Embedded(t)
    BY DEF Embedded, RowsOf
  <2>2. ledger[t].done >= Cardinality(Embedded(t)) /\ ledger[t].done \in Nat
    BY Unfold DEF IInv, OwnInv, Ledger
  <2>3. IsFiniteSet(Embedded(t)) /\ Cardinality(Embedded(t)) \in Nat
    <3> DEFINE A == Embedded(t)
    <3>1. A \in SUBSET Row /\ (\A p, q \in A : p.id = q.id => p = q) /\ \A q \in A : q.id \in Ids
      BY Unfold DEF Embedded, RowsOf, Row
    <3> QED
      BY <3>1, RowsFinite
  <2>4. /\ Cardinality(Embedded(t)') \in Nat
        /\ Cardinality(Embedded(t)') <= Cardinality(Embedded(t))
    BY <2>1, <2>3, FS_Subset, FS_CardinalityType
  <2> QED
    BY <2>2, <2>3, <2>4
<1>4. CASE spent'.ingests # 0
  BY <1>1, <1>2, <1>3, <1>4 DEF IInv, DriveInv
<1>5. CASE come = {} /\ spent' = spent
  <2>1. rows' \subseteq rows
    BY <1>5
  <2>2. (Separate' <=> Separate) /\ \A t : Driven(t) => Driven(t)'
    BY <2>1 DEF Separate, Driven, RowsOf
  <2>3. DriveInv'
    BY <1>5, <2>1, <2>2 DEF IInv, DriveInv
  <2> QED
    BY <1>1, <1>2, <1>3, <2>3 DEF IInv
<1> QED
  BY <1>4, <1>5

LEMMA IngestStep == ASSUME IInv, NEW t \in Tenants, Ingest(t) PROVE IInv'
<1>1. PICK gone \in SUBSET RowsOf(t), fresh \in SUBSET (Ids \ {r.id : r \in rows}) :
        rows' = (rows \ gone) \cup {[id |-> i, tenant |-> t, embedded |-> FALSE] : i \in fresh}
  BY DEF Ingest
<1> DEFINE come == {[id |-> i, tenant |-> t, embedded |-> FALSE] : i \in fresh}
<1>2. /\ UNCHANGED <<url, pool, ledger, pc, todo, totals, present, before>>
      /\ spent.ingests < MaxIngests /\ spent' = [spent EXCEPT !.ingests = spent.ingests + 1]
  BY DEF Ingest
<1>3. spent' \in [runs : 0 .. MaxRuns, ingests : 0 .. MaxIngests] /\ spent'.ingests # 0
  <2>1. /\ spent \in [runs : 0 .. MaxRuns, ingests : 0 .. MaxIngests]
        /\ spent.ingests + 1 \in 0 .. MaxIngests /\ spent.ingests + 1 # 0
    BY <1>2, Unfold
  <2> QED
    BY <1>2, <2>1
<1>4. /\ come \in SUBSET Row
      /\ \A r \in come : ~r.embedded /\ \A q \in rows : q.id # r.id
      /\ \A r, q \in come : r.id = q.id => r = q
  <2>1. \A r \in come : r.id \in fresh /\ r = [id |-> r.id, tenant |-> t, embedded |-> FALSE]
    OBVIOUS
  <2>2. \A i \in fresh : i \in Ids /\ \A q \in rows : q.id # i
    OBVIOUS
  <2>3. ASSUME NEW r \in come PROVE ~r.embedded /\ r \in Row
    <3>1. PICK i \in fresh : r = [id |-> i, tenant |-> t, embedded |-> FALSE]
      OBVIOUS
    <3> HIDE DEF come
    <3> QED
      BY <2>2, <3>1 DEF Row
  <2> HIDE DEF come
  <2> QED
    BY <2>1, <2>2, <2>3
<1>5. rows' = (rows \ gone) \cup come
  BY <1>1
<1> HIDE DEF come
<1> QED
  BY <1>2, <1>3, <1>4, <1>5, RowsComeAndGo

LEMMA RemoveStep == ASSUME IInv, NEW t \in Tenants, Remove(t) PROVE IInv'
<1>1. PICK gone \in SUBSET RowsOf(t) : rows' = rows \ gone
  BY DEF Remove
<1> DEFINE come == {}
<1>2. UNCHANGED <<url, pool, ledger, pc, todo, totals, present, before, spent>>
  BY DEF Remove
<1>3. /\ come \in SUBSET Row
      /\ \A r \in come : ~r.embedded /\ \A q \in rows : q.id # r.id
      /\ \A r, q \in come : r.id = q.id => r = q
      /\ rows' = (rows \ gone) \cup come /\ come = {}
  BY <1>1
<1>4. spent' \in [runs : 0 .. MaxRuns, ingests : 0 .. MaxIngests] /\ spent' = spent
  BY <1>2, Unfold
<1> HIDE DEF come
<1> QED
  BY <1>2, <1>3, <1>4, RowsComeAndGo

\* A corpus of one embedding, and no call yet.
LEMMA InitIInv == Init => IInv
<1> SUFFICES ASSUME Init PROVE IInv
  OBVIOUS
<1>1. PICK owned \in SUBSET Ids : \E owner \in [owned -> Tenants] :
        rows = {[id |-> i, tenant |-> owner[i], embedded |-> FALSE] : i \in owned}
  BY DEF Init
<1>2. PICK owner \in [owned -> Tenants] :
        rows = {[id |-> i, tenant |-> owner[i], embedded |-> FALSE] : i \in owned}
  BY <1>1
<1>3. /\ rows \subseteq Row /\ (\A r, s \in rows : r.id = s.id => r = s)
      /\ \A r \in rows : ~r.embedded /\ r.id \in Ids /\ r.tenant \in Tenants
  <2>1. \A r \in rows : \E i \in owned : r = [id |-> i, tenant |-> owner[i], embedded |-> FALSE]
    BY <1>2
  <2>2. \A i \in owned : i \in Ids /\ owner[i] \in Tenants
    OBVIOUS
  <2>3. \A r \in rows : r.id \in owned /\ r = [id |-> r.id, tenant |-> owner[r.id], embedded |-> FALSE]
    BY <2>1
  <2>4. ASSUME NEW r \in rows PROVE ~r.embedded /\ r.id \in Ids /\ r.tenant \in Tenants /\ r \in Row
    <3>1. PICK i \in owned : r = [id |-> i, tenant |-> owner[i], embedded |-> FALSE]
      BY <2>1
    <3>2. i \in Ids /\ owner[i] \in Tenants
      BY <2>2
    <3> QED
      BY <3>1, <3>2 DEF Row
  <2>5. \A r, s \in rows : r.id = s.id => r = s
    BY <2>3
  <2> QED
    BY <2>4, <2>5
<1>4. NoLedger \in Ledger /\ NoLedger.done = 0 /\ NoLedger.cursor = 0 /\ NoLedger.status = "none"
  BY DEF NoLedger, Ledger
<1>5. TypeOK
  <2>1. spent \in [runs : 0 .. MaxRuns, ingests : 0 .. MaxIngests]
    BY BoundAssumption DEF Init
  <2> QED
    BY <1>3, <1>4, <2>1 DEF Init, TypeOK
<1>6. OwnInv
  <2>1. \A t : Embedded(t) = {}
    BY <1>3 DEF Embedded, RowsOf
  <2>2. \A t : Cardinality(Embedded(t)) = 0
    BY <2>1, FS_EmptySet
  <2> QED
    BY <1>4, <2>2 DEF Init, OwnInv
<1>7. \A r \in rows : ~(r.id <= ledger[r.tenant].cursor) /\ ledger[r.tenant].status # "complete"
  BY <1>3, <1>4, BoundAssumption DEF Init, Ids
<1> QED
  BY <1>5, <1>6, <1>7 DEF Init, IInv, NoneMeansNoLedger, TotalsInv, DriveInv

\* Every step preserves the invariant.
LEMMA StepIInv == IInv /\ [Next]_vars => IInv'
<1> SUFFICES ASSUME IInv, [Next]_vars PROVE IInv'
  OBVIOUS
<1>1. CASE Start \/ Return \/ Fail
  BY <1>1, CallStep
<1>2. CASE ListTenants
  BY <1>2, ListTenantsStep
<1>3. CASE RunBatch
  BY <1>3, NothingToDoStep, MarkCompleteStep, EmbedStep DEF RunBatch
<1>4. CASE \E t \in Tenants : Ingest(t) \/ Remove(t)
  BY <1>4, IngestStep, RemoveStep
<1>5. CASE UNCHANGED vars
  <2>1. TypeOK' /\ TotalsInv'
    BY <1>5 DEF vars, IInv, TypeOK, TotalsInv
  <2> QED
    BY <1>5, <2>1, QuietStep DEF vars, IInv, DriveInv
<1> QED
  BY <1>1, <1>2, <1>3, <1>4, <1>5 DEF Next, RunStep

\* The invariant holds of every state the command can reach.
THEOREM Invariance == Spec => []IInv
  BY InitIInv, StepIInv, PTL DEF Spec

-----------------------------------------------------------------------------
(* Results.                                                               *)

\* With an admin role for the list and the service role for the work, a call
\* that returns has driven every tenant that had chunks to completion, whatever
\* earlier calls died of, as long as nobody ingests (backfill.py:165-202).
THEOREM SeparateRolesDriveAllAlways == Spec => []SeparateRolesDriveAll
<1>1. IInv => SeparateRolesDriveAll
  BY DEF IInv, DriveInv, SeparateRolesDriveAll
<1> QED
  BY <1>1, Invariance, PTL

\* A pool the policies hold for keeps tenants apart: every embedded chunk is
\* covered by the ledger of its own tenant, whatever calls died and whatever was
\* deleted or replaced meanwhile, and every variable keeps its type
\* (backfill.py:83-118).
THEOREM LedgerCoversItsOwnAlways == Spec => []LedgerCoversItsOwn
<1>1. IInv => LedgerCoversItsOwn
  BY DEF IInv, OwnInv, Embedded, LedgerCoversItsOwn
<1> QED
  BY <1>1, Invariance, PTL

\* What a call reports of a tenant is what its ledger has gained since the
\* list was read, whatever the roles (backfill.py:190-191).
THEOREM TotalsAreThisRunAlways == Spec => []TotalsAreThisRun
<1>1. IInv => TotalsAreThisRun
  BY DEF IInv, TotalsInv, TotalsAreThisRun
<1> QED
  BY <1>1, Invariance, PTL
=============================================================================
