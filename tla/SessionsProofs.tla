--------------------------- MODULE SessionsProofs ---------------------------
(***************************************************************************)
(* What holds of every service, whatever the size of its pool and the      *)
(* limit of its embedder, and of any requests.  Permits are neither lost   *)
(* nor invented and a call that returned has accounted for its work; a     *)
(* statement runs under its own tenant's claim, and no claim outlives its  *)
(* transaction, whatever fails, is cancelled or waits for the embedder.    *)
(***************************************************************************)
EXTENDS Sessions, FiniteSetTheorems, TLAPS

-----------------------------------------------------------------------------
(* The embedder.                                                          *)

\* The batches with the provider, and those of a call that are answered.
Asking == E!In("asking")
DoneOf(c) == {b \in E!Batches : b[1] = c /\ batch[b] = "done"}

\* A call that has not begun has no tasks; every request has its permit.
PermitInv ==
    /\ E!TypeOK
    /\ \A b \in E!Batches : call[b[1]] = "new" => batch[b] = "new"
    /\ IsFiniteSet(Asking)
    /\ E!PermitsAccountedFor

\* Without overlaps one call runs at a time, and the account, which began with
\* it, holds at least what was answered of it.
CostInv ==
    ~shared =>
        /\ \A c, d \in Calls : call[c] = "running" /\ call[d] = "running" => c = d
        /\ \A c \in Calls : call[c] = "running" =>
              IsFiniteSet(DoneOf(c)) /\ Cardinality(DoneOf(c)) <= cost
        /\ \A c \in Calls : call[c] = "returned" =>
              E!BatchesOf(c) \subseteq E!In("done") /\ logged[c] >= BatchCount[c]

EInv == PermitInv /\ CostInv

-----------------------------------------------------------------------------
\* The instance counts as this module does.
LEMMA SameCount == ASSUME NEW S PROVE E!Cardinality(S) = Cardinality(S)
  BY DEF E!Cardinality, Cardinality, E!IsFiniteSet, IsFiniteSet

\* PermitsAccountedFor in its terms.
LEMMA PermitsAreCounted ==
    /\ E!PermitsAccountedFor <=> Cardinality(Asking) + permits = MaxInFlight
    /\ E!PermitsAccountedFor' <=> Cardinality(Asking') + permits' = MaxInFlight
  BY SameCount DEF E!PermitsAccountedFor, Asking

\* A batch is one of a call's.
LEMMA BatchOfCall == \A b \in E!Batches : b[1] \in Calls
  BY DEF E!Batches

\* There are as many batches of a call as BatchCount says.
LEMMA BatchesAreCounted ==
    ASSUME NEW c \in Calls
    PROVE  Cardinality(E!BatchesOf(c)) = BatchCount[c] /\ (BatchCount[c] = 0 => E!BatchesOf(c) = {})
<1>1. E!BatchesOf(c) = {c} \X (1 .. BatchCount[c])
  BY DEF E!BatchesOf, E!Batches
<1>2. BatchCount[c] \in Nat
  BY CountAssumption
<1>3. IsFiniteSet(1 .. BatchCount[c]) /\ Cardinality(1 .. BatchCount[c]) = BatchCount[c]
  BY <1>2, FS_Interval
<1>4. IsFiniteSet({c}) /\ Cardinality({c}) = 1
  BY FS_Singleton
<1>5. Cardinality({c} \X (1 .. BatchCount[c])) = 1 * BatchCount[c]
  BY <1>3, <1>4, FS_Product
<1> QED
  BY <1>1, <1>2, <1>5

\* Nothing is asked, done or spent.
LEMMA InitEInv == E!Init => EInv
<1> SUFFICES ASSUME E!Init PROVE EInv
  OBVIOUS
<1>1. Asking = {}
  BY DEF E!Init, Asking, E!In
<1>2. IsFiniteSet({}) /\ Cardinality({}) = 0
  BY FS_EmptySet
<1>3. E!TypeOK
  BY LimitAssumption DEF E!Init, E!TypeOK
<1>4. E!PermitsAccountedFor
  BY <1>1, <1>2, LimitAssumption, PermitsAreCounted DEF E!Init
<1> QED
  BY <1>1, <1>2, <1>3, <1>4 DEF E!Init, EInv, PermitInv, CostInv

\* The embedder stands still.
LEMMA StillEInv == EInv /\ UNCHANGED embedder => EInv'
  BY DEF embedder, EInv, PermitInv, CostInv, DoneOf, Asking, E!TypeOK, E!Batches, E!BatchesOf,
         E!In, E!PermitsAccountedFor

\* What a step takes of the semaphore is the batch it sends to the provider.
LEMMA TakePermit ==
    ASSUME PermitInv, NEW b, b \notin Asking,
           Asking' = Asking \cup {b}, permits > 0, permits' = permits - 1
    PROVE  IsFiniteSet(Asking)' /\ E!PermitsAccountedFor' /\ permits' \in 0 .. MaxInFlight
<1>1. IsFiniteSet(Asking \cup {b}) /\ Cardinality(Asking \cup {b}) = Cardinality(Asking) + 1
  BY FS_AddElement DEF PermitInv
<1>2. Cardinality(Asking) \in Nat
  BY FS_CardinalityType DEF PermitInv
<1>3. permits \in 0 .. MaxInFlight /\ Cardinality(Asking) + permits = MaxInFlight
  BY PermitsAreCounted DEF PermitInv, E!TypeOK
<1>4. Cardinality(Asking') + permits' = MaxInFlight /\ permits' \in 0 .. MaxInFlight
  BY <1>1, <1>2, <1>3, LimitAssumption
<1> QED
  BY <1>1, <1>4, PermitsAreCounted

\* What a step gives back is the batches it takes from the provider.
LEMMA GivePermits ==
    ASSUME PermitInv, NEW gone, gone \subseteq Asking,
           Asking' = Asking \ gone, permits' = permits + Cardinality(gone)
    PROVE  IsFiniteSet(Asking)' /\ E!PermitsAccountedFor' /\ permits' \in 0 .. MaxInFlight
<1>1. IsFiniteSet(Asking) /\ IsFiniteSet(gone)
  BY FS_Subset DEF PermitInv
<1>2. /\ IsFiniteSet(Asking \ gone)
      /\ Cardinality(Asking \ gone) = Cardinality(Asking) - Cardinality(Asking \cap gone)
  BY <1>1, FS_Difference
<1>3. Asking \cap gone = gone
  OBVIOUS
<1>4. Cardinality(Asking) \in Nat /\ Cardinality(gone) \in Nat /\ Cardinality(Asking \ gone) \in Nat
  BY <1>1, <1>2, FS_CardinalityType
<1>5. permits \in 0 .. MaxInFlight /\ Cardinality(Asking) + permits = MaxInFlight
  BY PermitsAreCounted DEF PermitInv, E!TypeOK
<1>6. Cardinality(Asking \ gone) = Cardinality(Asking) - Cardinality(gone)
  BY <1>2, <1>3
<1>7. Cardinality(Asking') + permits' = MaxInFlight /\ permits' \in 0 .. MaxInFlight
  BY <1>4, <1>5, <1>6, LimitAssumption
<1> QED
  BY <1>1, <1>2, <1>7, PermitsAreCounted

-----------------------------------------------------------------------------
(* The steps.                                                             *)

\* A call begins with its tasks waiting and nothing on its account.
LEMMA BeginStep == ASSUME EInv, NEW c \in Calls, E!Begin(c) PROVE EInv'
<1> USE BatchOfCall DEF EInv
<1>1. /\ call[c] = "new"
      /\ shared \/ \A d \in Calls : call[d] # "running"
      /\ cost' = 0
      /\ call' = [call EXCEPT ![c] = IF BatchCount[c] = 0 THEN "returned" ELSE "running"]
      /\ batch' = [b \in E!Batches |-> IF b[1] = c THEN "waiting" ELSE batch[b]]
      /\ permits' = permits /\ logged' = logged /\ shared' = shared
  BY DEF E!Begin
<1>2. E!TypeOK'
  BY <1>1 DEF PermitInv, E!TypeOK
<1>3. \A b \in E!Batches : call'[b[1]] = "new" => batch'[b] = "new"
  BY <1>1 DEF PermitInv, E!TypeOK
<1>4. Asking' = Asking
  BY <1>1 DEF PermitInv, E!TypeOK, Asking, E!In
<1>5. PermitInv'
  BY <1>1, <1>2, <1>3, <1>4, PermitsAreCounted DEF PermitInv
<1>6. ASSUME ~shared PROVE CostInv'
  <2>1. \A d \in Calls : call'[d] = "running" => d = c
    BY <1>1, <1>6 DEF PermitInv, E!TypeOK
  <2>2. DoneOf(c)' = {}
    BY <1>1 DEF DoneOf
  <2>3. IsFiniteSet(DoneOf(c)') /\ Cardinality(DoneOf(c)') <= cost'
    BY <1>1, <2>2, FS_EmptySet
  <2>4. ASSUME NEW d \in Calls, call'[d] = "returned"
        PROVE  E!BatchesOf(d) \subseteq E!In("done")' /\ logged'[d] >= BatchCount[d]
    <3>1. CASE d = c
      <4>1. BatchCount[c] = 0 /\ E!BatchesOf(c) = {}
        BY <1>1, <2>4, <3>1, BatchesAreCounted DEF PermitInv, E!TypeOK
      <4>2. logged'[c] \in Nat
        BY <1>1 DEF PermitInv, E!TypeOK
      <4> QED
        BY <3>1, <4>1, <4>2
    <3>2. CASE d # c
      BY <1>1, <1>6, <2>4, <3>2 DEF PermitInv, CostInv, E!TypeOK, E!BatchesOf, E!In
    <3> QED
      BY <3>1, <3>2
  <2> QED
    BY <2>1, <2>3, <2>4 DEF CostInv, E!BatchesOf
<1> QED
  BY <1>1, <1>5, <1>6 DEF CostInv

\* A batch that goes to the provider has waited for a permit.
LEMMA AskStep == ASSUME EInv, NEW b \in E!Batches, E!Ask(b) PROVE EInv'
<1> USE BatchOfCall DEF EInv
<1>1. /\ batch[b] = "waiting"
      /\ permits > 0 /\ permits' = permits - 1
      /\ batch' = [batch EXCEPT ![b] = "asking"]
      /\ call' = call /\ cost' = cost /\ logged' = logged /\ shared' = shared
  BY DEF E!Ask
<1>2. b \notin Asking /\ Asking' = Asking \cup {b}
  BY <1>1 DEF PermitInv, E!TypeOK, Asking, E!In
<1>3. IsFiniteSet(Asking)' /\ E!PermitsAccountedFor' /\ permits' \in 0 .. MaxInFlight
  BY <1>1, <1>2, TakePermit
<1>4. E!TypeOK'
  BY <1>1, <1>3 DEF PermitInv, E!TypeOK
<1>5. PermitInv'
  BY <1>1, <1>3, <1>4 DEF PermitInv, E!TypeOK
<1>6. \A c \in Calls : DoneOf(c)' = DoneOf(c)
  BY <1>1 DEF PermitInv, E!TypeOK, DoneOf
<1>7. E!In("done")' = E!In("done")
  BY <1>1 DEF PermitInv, E!TypeOK, E!In
<1>8. CostInv'
  BY <1>1, <1>6, <1>7 DEF CostInv, E!BatchesOf
<1> QED
  BY <1>5, <1>8

\* An answer is on the account of the call that runs, or adds to it.
LEMMA AnswerStep == ASSUME EInv, NEW b \in E!Batches, E!Answer(b) PROVE EInv'
<1> USE BatchOfCall DEF EInv
<1>1. /\ batch[b] = "asking"
      /\ permits' = permits + 1
      /\ batch' = [batch EXCEPT ![b] = "done"]
      /\ cost' = cost + 1
      /\ call' = call /\ logged' = logged /\ shared' = shared
  BY DEF E!Answer
<1>2. {b} \subseteq Asking /\ Asking' = Asking \ {b}
  BY <1>1 DEF PermitInv, E!TypeOK, Asking, E!In
<1>3. IsFiniteSet(Asking)' /\ E!PermitsAccountedFor' /\ permits' \in 0 .. MaxInFlight
  <2>1. permits' = permits + Cardinality({b})
    BY <1>1, FS_Singleton
  <2> QED
    BY <1>2, <2>1, GivePermits
<1>4. E!TypeOK'
  BY <1>1, <1>3 DEF PermitInv, E!TypeOK
<1>5. PermitInv'
  BY <1>1, <1>3, <1>4 DEF PermitInv, E!TypeOK
<1>6. ASSUME ~shared, NEW c \in Calls, call[c] = "running"
      PROVE  IsFiniteSet(DoneOf(c)') /\ Cardinality(DoneOf(c)') <= cost'
  <2>1. IsFiniteSet(DoneOf(c)) /\ Cardinality(DoneOf(c)) <= cost
    BY <1>6 DEF CostInv
  <2>2. DoneOf(c)' = DoneOf(c) \/ DoneOf(c)' = DoneOf(c) \cup {b}
    BY <1>1 DEF PermitInv, E!TypeOK, DoneOf
  <2>3. /\ IsFiniteSet(DoneOf(c) \cup {b})
        /\ Cardinality(DoneOf(c) \cup {b}) \in {Cardinality(DoneOf(c)), Cardinality(DoneOf(c)) + 1}
    BY <2>1, FS_AddElement
  <2>4. Cardinality(DoneOf(c)) \in Nat /\ cost \in Nat
    BY <2>1, FS_CardinalityType DEF PermitInv, E!TypeOK
  <2>5. CASE DoneOf(c)' = DoneOf(c)
    BY <1>1, <2>1, <2>4, <2>5
  <2>6. CASE DoneOf(c)' = DoneOf(c) \cup {b}
    <3>1. IsFiniteSet(DoneOf(c)')
      BY <2>3, <2>6
    <3>2. Cardinality(DoneOf(c)') \in {Cardinality(DoneOf(c)), Cardinality(DoneOf(c)) + 1}
      BY <2>3, <2>6
    <3> QED
      BY <1>1, <2>1, <2>4, <3>1, <3>2
  <2> QED
    BY <2>2, <2>5, <2>6
<1>7. E!In("done") \subseteq E!In("done")'
  BY <1>1 DEF PermitInv, E!TypeOK, E!In
<1>8. CostInv'
  BY <1>1, <1>6, <1>7 DEF CostInv, E!BatchesOf
<1> QED
  BY <1>5, <1>8

\* A batch that fails gives its permit back and may have added its tokens.
LEMMA FailBatchStep == ASSUME EInv, NEW b \in E!Batches, E!Fail(b) PROVE EInv'
<1> USE BatchOfCall DEF EInv
<1>1. /\ batch[b] = "asking"
      /\ permits' = permits + 1
      /\ batch' = [batch EXCEPT ![b] = "failed"]
      /\ cost' \in {cost, cost + 1}
      /\ call' = call /\ logged' = logged /\ shared' = shared
  BY DEF E!Fail
<1>2. {b} \subseteq Asking /\ Asking' = Asking \ {b}
  BY <1>1 DEF PermitInv, E!TypeOK, Asking, E!In
<1>3. IsFiniteSet(Asking)' /\ E!PermitsAccountedFor' /\ permits' \in 0 .. MaxInFlight
  <2>1. permits' = permits + Cardinality({b})
    BY <1>1, FS_Singleton
  <2> QED
    BY <1>2, <2>1, GivePermits
<1>4. E!TypeOK'
  BY <1>1, <1>3 DEF PermitInv, E!TypeOK
<1>5. PermitInv'
  BY <1>1, <1>3, <1>4 DEF PermitInv, E!TypeOK
<1>6. \A c \in Calls : DoneOf(c)' = DoneOf(c)
  BY <1>1 DEF PermitInv, E!TypeOK, DoneOf
<1>7. E!In("done")' = E!In("done")
  BY <1>1 DEF PermitInv, E!TypeOK, E!In
<1>8. ASSUME NEW c \in Calls, IsFiniteSet(DoneOf(c)), Cardinality(DoneOf(c)) <= cost
      PROVE  Cardinality(DoneOf(c)) <= cost'
  BY <1>1, <1>8, FS_CardinalityType DEF PermitInv, E!TypeOK
<1>9. CostInv'
  BY <1>1, <1>6, <1>7, <1>8 DEF CostInv, E!BatchesOf
<1> QED
  BY <1>5, <1>9

\* A call returns with all its batches, so its account covers them.
LEMMA ReturnStep == ASSUME EInv, NEW c \in Calls, E!Return(c) PROVE EInv'
<1> USE BatchOfCall DEF EInv
<1>1. /\ call[c] = "running"
      /\ E!BatchesOf(c) \subseteq E!In("done")
      /\ call' = [call EXCEPT ![c] = "returned"]
      /\ logged' = [logged EXCEPT ![c] = cost]
      /\ batch' = batch /\ permits' = permits /\ cost' = cost /\ shared' = shared
  BY DEF E!Return
<1>2. E!TypeOK'
  BY <1>1 DEF PermitInv, E!TypeOK
<1>3. PermitInv'
  BY <1>1, <1>2, PermitsAreCounted DEF PermitInv, E!TypeOK, Asking, E!In
<1>4. ASSUME ~shared PROVE cost >= BatchCount[c]
  <2>1. DoneOf(c) = E!BatchesOf(c)
    BY <1>1 DEF DoneOf, E!BatchesOf, E!In
  <2> QED
    BY <1>1, <1>4, <2>1, BatchesAreCounted DEF CostInv
<1>5. CostInv'
  BY <1>1, <1>4 DEF PermitInv, CostInv, E!TypeOK, E!BatchesOf, E!In, DoneOf
<1> QED
  BY <1>3, <1>5

\* A call that raises leaves its other batches with the provider.
LEMMA RaiseStep == ASSUME EInv, NEW c \in Calls, E!Raise(c) PROVE EInv'
<1> USE BatchOfCall DEF EInv
<1>1. /\ call[c] = "running"
      /\ call' = [call EXCEPT ![c] = "raised"]
      /\ UNCHANGED <<batch, permits, cost, logged, shared>>
  BY DEF E!Raise
<1>2. E!TypeOK'
  BY <1>1 DEF PermitInv, E!TypeOK
<1>3. PermitInv'
  BY <1>1, <1>2, PermitsAreCounted DEF PermitInv, E!TypeOK, Asking, E!In
<1>4. CostInv'
  BY <1>1 DEF PermitInv, CostInv, E!TypeOK, E!BatchesOf, E!In, DoneOf
<1> QED
  BY <1>3, <1>4

\* A cancelled call gives back the permits of all its batches at once.
LEMMA CancelStep == ASSUME EInv, NEW c \in Calls, E!Cancel(c) PROVE EInv'
<1> USE BatchOfCall DEF EInv
<1> DEFINE gone == E!BatchesOf(c) \cap E!In("asking")
<1>1. /\ call[c] = "running"
      /\ call' = [call EXCEPT ![c] = "cancelled"]
      /\ batch' = [b \in E!Batches |->
                     IF b[1] = c /\ batch[b] \in {"waiting", "asking"}
                     THEN "failed" ELSE batch[b]]
      /\ cost' = cost /\ logged' = logged /\ shared' = shared
  BY DEF E!Cancel
<1>2. permits' = permits + Cardinality(gone)
  BY SameCount DEF E!Cancel
<1>3. gone \subseteq Asking /\ Asking' = Asking \ gone
  BY <1>1 DEF PermitInv, E!TypeOK, Asking, E!In, E!BatchesOf
<1>4. IsFiniteSet(Asking)' /\ E!PermitsAccountedFor' /\ permits' \in 0 .. MaxInFlight
  BY <1>2, <1>3, GivePermits
<1>5. E!TypeOK'
  BY <1>1, <1>4 DEF PermitInv, E!TypeOK
<1>6. PermitInv'
  BY <1>1, <1>4, <1>5 DEF PermitInv, E!TypeOK
<1>7. \A d \in Calls : DoneOf(d)' = DoneOf(d)
  BY <1>1 DEF PermitInv, E!TypeOK, DoneOf
<1>8. E!In("done")' = E!In("done")
  BY <1>1 DEF PermitInv, E!TypeOK, E!In
<1>9. CostInv'
  BY <1>1, <1>7, <1>8 DEF PermitInv, CostInv, E!TypeOK, E!BatchesOf
<1> QED
  BY <1>6, <1>9

-----------------------------------------------------------------------------
(* The invariant.                                                         *)

\* No step of a call or of a batch breaks it.
LEMMA NextEInv == ASSUME EInv, E!Next PROVE EInv'
<1>1. ASSUME NEW c \in Calls, E!Begin(c) \/ E!Return(c) \/ E!Raise(c) \/ E!Cancel(c) PROVE EInv'
  BY <1>1, BeginStep, ReturnStep, RaiseStep, CancelStep
<1>2. ASSUME NEW b \in E!Batches, E!Ask(b) \/ E!Answer(b) \/ E!Fail(b) PROVE EInv'
  BY <1>2, AskStep, AnswerStep, FailBatchStep
<1> QED
  BY <1>1, <1>2 DEF E!Next

\* Whatever a request does, the embedder makes one of its own steps or none:
\* Sessions uses Embedder as it is.
LEMMA ServiceStep == [Next]_vars => E!Next \/ UNCHANGED embedder
<1> SUFFICES ASSUME [Next]_vars PROVE E!Next \/ UNCHANGED embedder
  OBVIOUS
<1>1. ASSUME NEW r \in Requests,
             Arrive(r) \/ Acquire(r) \/ Fail(r) \/ CancelWaiting(r) \/ CancelLeaving(r)
      PROVE  UNCHANGED embedder
  BY <1>1 DEF Arrive, Acquire, Fail, CancelWaiting, CancelLeaving
<1>2. ASSUME NEW r \in Requests, Step(r) PROVE E!Next \/ UNCHANGED embedder
  BY <1>2 DEF Step, SetClaim, EndTransaction, Release, Query, StartEmbedding, Embedded, Write,
              E!Next
<1>3. ASSUME NEW r \in Calls, CancelEmbedding(r) \/ CallStep(r) PROVE E!Next
  BY <1>3 DEF CancelEmbedding, CallStep, E!Next
<1>4. ASSUME NEW b \in E!Batches, AskProvider(b) \/ ProviderAnswers(b) PROVE E!Next
  BY <1>4 DEF AskProvider, ProviderAnswers, E!Next
<1>5. CASE UNCHANGED vars
  BY <1>5 DEF vars
<1> QED
  BY <1>1, <1>2, <1>3, <1>4, <1>5 DEF Next

\* The invariant of the embedder holds in every state of the service.
THEOREM EmbedderInvariance == Spec => []EInv
<1>1. Init => EInv
  BY InitEInv DEF Init
<1>2. EInv /\ [Next]_vars => EInv'
  BY NextEInv, StillEInv, ServiceStep
<1> QED
  BY <1>1, <1>2, PTL DEF Spec

\* A call that returned without overlaps has logged what all its batches cost
\* (embeddings.py:97-108), whatever other calls failed or were cancelled.
THEOREM AccountCovers == Spec => []LoggedCoversTheCall
<1>1. EInv => LoggedCoversTheCall
  BY DEF EInv, CostInv, LoggedCoversTheCall, E!LoggedCoversTheCall
<1> QED
  BY <1>1, EmbedderInvariance, PTL

-----------------------------------------------------------------------------
(* Connections and claims.                                                *)

\* Where a request holds a connection, and where its claim is set.
Outside == {"new", "waiting", "done"}
Within == {"begun", "claimed", "embedding", "embedded", "leaving", "left"}
Claimed == {"claimed", "embedding", "embedded"}

ReqType == req \in [Requests -> Outside \cup Within]
ConnType ==
    conn \in [Conns -> [holder : Requests \cup {NoOne}, txn : BOOLEAN,
                        local : Claims, setting : Claims]]

\* A connection is held by a request within its session, which holds no other.
HolderInv ==
    /\ \A c \in Conns : conn[c].holder # NoOne => req[conn[c].holder] \in Within
    /\ \A r \in Requests : req[r] \in Within => \E c \in Conns : conn[c].holder = r
    /\ \A c, d \in Conns : conn[c].holder = conn[d].holder /\ conn[c].holder # NoOne => c = d

\* No setting outlives a session, none but a transaction has a claim, a free
\* connection is clean, and the claim that is set is the holder's.
ClaimInv ==
    /\ \A c \in Conns : conn[c].setting = Unset
    /\ \A c \in Conns : ~conn[c].txn => conn[c].local = Unset
    /\ \A c \in Conns : conn[c].holder = NoOne => ~conn[c].txn
    /\ \A c \in Conns : conn[c].holder # NoOne =>
          /\ req[conn[c].holder] = "begun" => conn[c].txn /\ conn[c].local = Unset
          /\ req[conn[c].holder] \in Claimed =>
                conn[c].local = TenantOf[conn[c].holder]

IInv == ReqType /\ ConnType /\ HolderInv /\ ClaimInv

-----------------------------------------------------------------------------
\* The initial state: nobody is in a session, every connection is clean.
LEMMA InitIInv == Init => IInv
<1> SUFFICES ASSUME Init PROVE IInv
  OBVIOUS
<1>1. ReqType
  BY DEF Init, ReqType, Outside, Within
<1>2. ConnType
  BY DEF Init, ConnType, Clean, Claims
<1>3. HolderInv
  BY ConnAssumption DEF Init, HolderInv, Clean, Within
<1>4. ClaimInv
  BY DEF Init, ClaimInv, Clean, Claimed
<1> QED
  BY <1>1, <1>2, <1>3, <1>4 DEF IInv

\* A request moves on within its session and no connection changes.
LEMMA MoveWithin ==
    ASSUME IInv, UNCHANGED conn, NEW r \in Requests, NEW to \in Within \ {"begun"},
           req[r] \in Within, req' = [req EXCEPT ![r] = to],
           to \in Claimed => req[r] \in Claimed
    PROVE  IInv'
<1> USE DEF IInv
<1>1. ReqType'
  BY DEF ReqType
<1>2. ConnType'
  BY DEF ConnType
<1>3. HolderInv'
  BY ConnAssumption DEF ReqType, ConnType, HolderInv
<1>4. ClaimInv'
  BY ConnAssumption DEF ReqType, ConnType, ClaimInv
<1> QED
  BY <1>1, <1>2, <1>3, <1>4

\* A request moves on outside of a session.
LEMMA MoveOutside ==
    ASSUME IInv, UNCHANGED conn, NEW r \in Requests, NEW to \in Outside,
           req[r] \in Outside, req' = [req EXCEPT ![r] = to]
    PROVE  IInv'
<1> USE DEF IInv
<1>1. ReqType'
  BY DEF ReqType
<1>2. ConnType'
  BY DEF ConnType
<1>3. HolderInv'
  BY ConnAssumption DEF ReqType, ConnType, HolderInv, Outside, Within
<1>4. ClaimInv'
  BY ConnAssumption DEF ReqType, ConnType, HolderInv, ClaimInv, Outside, Within, Claimed
<1> QED
  BY <1>1, <1>2, <1>3, <1>4

\* Nothing of the sessions changes.
LEMMA Frame == ASSUME IInv, UNCHANGED <<req, conn>> PROVE IInv'
  BY DEF IInv, ReqType, ConnType, HolderInv, ClaimInv

-----------------------------------------------------------------------------
(* The steps that change a connection.                                    *)

\* A free connection is clean, so the new holder finds no claim on it.
LEMMA AcquireStep == ASSUME IInv, NEW r \in Requests, Acquire(r) PROVE IInv'
<1> USE DEF IInv
<1>1. /\ req[r] = "waiting"
      /\ req' = [req EXCEPT ![r] = "begun"]
  BY DEF Acquire, Move
<1>2. PICK c \in Conns : /\ conn[c].holder = NoOne
                         /\ conn' = [conn EXCEPT ![c].holder = r, ![c].txn = TRUE]
  BY DEF Acquire, Held
<1>3. ReqType'
  BY <1>1 DEF ReqType, Within
<1>4. ConnType'
  BY <1>2 DEF ConnType
<1>5. \A d \in Conns : conn[d].holder # r
  BY <1>1, ConnAssumption DEF HolderInv, Within
<1>6. HolderInv'
  BY <1>1, <1>2, <1>3, <1>5, ConnAssumption DEF ReqType, ConnType, HolderInv, Within
<1>7. ClaimInv'
  BY <1>1, <1>2, <1>5, ConnAssumption DEF ReqType, ConnType, ClaimInv, Claimed
<1> QED
  BY <1>3, <1>4, <1>6, <1>7

\* The transaction is open, so the claim is set in it.
LEMMA SetClaimStep == ASSUME IInv, NEW r \in Requests, SetClaim(r) PROVE IInv'
<1> USE DEF IInv
<1>1. /\ req[r] = "begun"
      /\ req' = [req EXCEPT ![r] = "claimed"]
  BY DEF SetClaim, Move
<1>2. PICK c \in Conns :
         /\ conn[c].holder = r
         /\ conn' = IF conn[c].txn THEN [conn EXCEPT ![c].local = TenantOf[r]] ELSE conn
  BY DEF SetClaim, Held
<1>3. r # NoOne
  BY ConnAssumption
<1>4. conn' = [conn EXCEPT ![c].local = TenantOf[r]]
  BY <1>1, <1>2, <1>3 DEF ClaimInv
<1>5. TenantOf[r] \in Claims
  BY DEF Claims
<1>6. ReqType'
  BY <1>1 DEF ReqType, Within
<1>7. ConnType'
  BY <1>4, <1>5 DEF ConnType
<1>8. \A d \in Conns \ {c} : conn[d].holder # r
  BY <1>2, <1>3 DEF HolderInv
<1>9. HolderInv'
  BY <1>1, <1>2, <1>4, ConnAssumption DEF ReqType, ConnType, HolderInv, Within
<1>10. ClaimInv'
  BY <1>1, <1>2, <1>3, <1>4, <1>8 DEF ReqType, ConnType, ClaimInv, Claimed
<1> QED
  BY <1>6, <1>7, <1>9, <1>10

\* COMMIT and ROLLBACK take the claim with them.
LEMMA EndTransactionStep == ASSUME IInv, NEW r \in Requests, EndTransaction(r) PROVE IInv'
<1> USE DEF IInv
<1>1. /\ req[r] = "leaving"
      /\ req' = [req EXCEPT ![r] = "left"]
  BY DEF EndTransaction, Move
<1>2. conn' = [c \in Conns |->
                  IF c \in Held(r) THEN [conn[c] EXCEPT !.txn = FALSE, !.local = Unset]
                  ELSE conn[c]]
  BY DEF EndTransaction
<1>3. \A c \in Conns :
         /\ conn'[c].holder = conn[c].holder
         /\ conn'[c].setting = conn[c].setting
         /\ IF conn[c].holder = r
            THEN conn'[c].txn = FALSE /\ conn'[c].local = Unset
            ELSE conn'[c] = conn[c]
  BY <1>2 DEF Held, ConnType
<1>4. ReqType'
  BY <1>1 DEF ReqType, Within
<1>5. ConnType'
  BY <1>2 DEF ConnType, Claims
<1>6. HolderInv'
  BY <1>1, <1>3, ConnAssumption DEF ReqType, ConnType, HolderInv, Within
<1>7. ClaimInv'
  BY <1>1, <1>3, ConnAssumption DEF ReqType, ConnType, ClaimInv, Claimed
<1> QED
  BY <1>4, <1>5, <1>6, <1>7

\* The connection goes back as the pool keeps it.
LEMMA ReleaseStep == ASSUME IInv, NEW r \in Requests, Release(r) PROVE IInv'
<1> USE DEF IInv
<1>1. /\ req[r] = "left"
      /\ req' = [req EXCEPT ![r] = "done"]
  BY DEF Release, Move
<1>2. conn' = [c \in Conns |-> IF c \in Held(r) THEN Clean ELSE conn[c]]
  BY DEF Release
<1>3. \A c \in Conns : conn'[c] = IF conn[c].holder = r THEN Clean ELSE conn[c]
  BY <1>2 DEF Held
<1>4. Clean.holder = NoOne /\ Clean.txn = FALSE /\ Clean.local = Unset /\ Clean.setting = Unset
  BY DEF Clean
<1>5. ReqType'
  BY <1>1 DEF ReqType, Outside
<1>6. ConnType'
  BY <1>2 DEF ConnType, Claims, Clean
<1>7. HolderInv'
  BY <1>1, <1>3, <1>4, ConnAssumption DEF ReqType, ConnType, HolderInv, Within
<1>8. ClaimInv'
  BY <1>1, <1>3, <1>4, ConnAssumption DEF ReqType, ConnType, ClaimInv, Claimed
<1> QED
  BY <1>5, <1>6, <1>7, <1>8

\* A failed request leaves, with its connection as it was or a dead one.
LEMMA FailStep == ASSUME IInv, NEW r \in Requests, Fail(r) PROVE IInv'
<1> USE DEF IInv
<1>1. /\ req[r] \in {"begun", "claimed", "embedded"}
      /\ req' = [req EXCEPT ![r] = "leaving"]
  BY DEF Fail, Move
<1>2. CASE UNCHANGED conn
  BY <1>1, <1>2, MoveWithin DEF Within, Claimed
<1>3. CASE \E c \in Held(r) : conn' = [conn EXCEPT ![c] = [Clean EXCEPT !.holder = r]]
  <2>1. PICK c \in Conns : /\ conn[c].holder = r
                           /\ conn' = [conn EXCEPT ![c] = [Clean EXCEPT !.holder = r]]
    BY <1>3 DEF Held
  <2> DEFINE dead == [Clean EXCEPT !.holder = r]
  <2>2. /\ dead.holder = r /\ dead.txn = FALSE /\ dead.local = Unset /\ dead.setting = Unset
        /\ dead \in [holder : Requests \cup {NoOne}, txn : BOOLEAN,
                     local : Claims, setting : Claims]
    BY DEF Clean, Claims
  <2>3. conn' = [conn EXCEPT ![c] = dead]
    BY <2>1
  <2> HIDE DEF dead
  <2>4. ReqType'
    BY <1>1 DEF ReqType, Within
  <2>5. ConnType'
    BY <2>2, <2>3 DEF ConnType
  <2>6. \A d \in Conns : conn'[d] = IF d = c THEN dead ELSE conn[d]
    BY <2>3 DEF ConnType
  <2>7. HolderInv'
    BY <1>1, <2>1, <2>2, <2>6, ConnAssumption DEF ReqType, ConnType, HolderInv, Within
  <2>8. ClaimInv'
    <3>1. r # NoOne /\ req'[r] = "leaving"
      BY <1>1, ConnAssumption DEF ReqType
    <3>2. \A d \in Conns \ {c} : conn[d].holder # r
      BY <2>1, <3>1 DEF HolderInv
    <3> QED
      BY <1>1, <2>1, <2>2, <2>6, <3>1, <3>2 DEF ReqType, ConnType, ClaimInv, Claimed
  <2> QED
    BY <2>4, <2>5, <2>7, <2>8
<1> QED
  BY <1>2, <1>3 DEF Fail

-----------------------------------------------------------------------------
(* The invariant.                                                         *)

\* No step of a request or of the embedder breaks it.
LEMMA StepIInv == IInv /\ [Next]_vars => IInv'
<1> SUFFICES ASSUME IInv, [Next]_vars PROVE IInv'
  OBVIOUS
<1>1. ASSUME NEW r \in Requests, Arrive(r) \/ CancelWaiting(r) PROVE IInv'
  <2>1. CASE Arrive(r)
    BY <2>1, MoveOutside DEF Arrive, Move, Outside
  <2>2. CASE CancelWaiting(r)
    BY <2>2, MoveOutside DEF CancelWaiting, Move, Outside
  <2> QED
    BY <1>1, <2>1, <2>2
<1>2. ASSUME NEW r \in Requests, Acquire(r) PROVE IInv'
  BY <1>2, AcquireStep
<1>3. ASSUME NEW r \in Requests, Fail(r) PROVE IInv'
  BY <1>3, FailStep
<1>4. ASSUME NEW r \in Requests, CancelLeaving(r) PROVE IInv'
  BY <1>4, MoveWithin DEF CancelLeaving, Move, Within, Claimed
<1>5. ASSUME NEW r \in Requests, Step(r) PROVE IInv'
  <2>1. CASE SetClaim(r)
    BY <2>1, SetClaimStep
  <2>2. CASE EndTransaction(r)
    BY <2>2, EndTransactionStep
  <2>3. CASE Release(r)
    BY <2>3, ReleaseStep
  <2>4. CASE Query(r)
    BY <2>4, MoveWithin DEF Query, Move, Within, Claimed
  <2>5. CASE StartEmbedding(r)
    BY <2>5, MoveWithin DEF StartEmbedding, Move, Within, Claimed
  <2>6. CASE Embedded(r)
    BY <2>6, MoveWithin DEF Embedded, Move, Within, Claimed
  <2>7. CASE Write(r)
    BY <2>7, MoveWithin DEF Write, Move, Within, Claimed
  <2> QED
    BY <1>5, <2>1, <2>2, <2>3, <2>4, <2>5, <2>6, <2>7 DEF Step
<1>6. ASSUME NEW r \in Calls, CancelEmbedding(r) PROVE IInv'
  BY <1>6, MoveWithin DEF CancelEmbedding, Move, Within, Claimed, Requests
<1>7. ASSUME NEW r \in Calls, CallStep(r) PROVE IInv'
  BY <1>7, Frame DEF CallStep
<1>8. ASSUME NEW b \in E!Batches, AskProvider(b) \/ ProviderAnswers(b) PROVE IInv'
  BY <1>8, Frame DEF AskProvider, ProviderAnswers
<1>9. CASE UNCHANGED vars
  BY <1>9, Frame DEF vars
<1> QED
  BY <1>1, <1>2, <1>3, <1>4, <1>5, <1>6, <1>7, <1>8, <1>9 DEF Next

\* The inductive invariant holds in every reachable state.
THEOREM Invariance == Spec => []IInv
  BY InitIInv, StepIInv, PTL DEF Spec

-----------------------------------------------------------------------------
(* What it says.                                                          *)

\* The invariant has no setting and no local claim outside a transaction.
LEMMA ClaimOutsideTransaction == IInv => ClaimDiesWithTransaction
  BY DEF IInv, ClaimInv, ClaimDiesWithTransaction, Effective

\* The invariant gives a request its one connection with its claim.
LEMMA ClaimOfHolder == IInv => StatementsUnderOwnClaim
<1> SUFFICES ASSUME IInv, NEW r \in Requests
             PROVE  /\ Cardinality(Held(r)) =
                          IF req[r] \in {"new", "waiting", "done"} THEN 0 ELSE 1
                    /\ req[r] \in {"claimed", "embedding", "embedded"} =>
                          \A c \in Held(r) : Effective(c) = TenantOf[r]
  BY DEF StatementsUnderOwnClaim
<1>1. r # NoOne /\ req[r] \in Outside \cup Within
  BY ConnAssumption DEF IInv, ReqType
<1>2. CASE req[r] \in Outside
  <2>1. Held(r) = {}
    BY <1>1, <1>2 DEF IInv, HolderInv, Held, Outside, Within
  <2> QED
    BY <1>2, <2>1, FS_EmptySet DEF Outside
<1>3. CASE req[r] \in Within
  <2>1. PICK c \in Conns : Held(r) = {c}
    BY <1>1, <1>3 DEF IInv, HolderInv, Held
  <2>2. Cardinality(Held(r)) = 1
    BY <2>1, FS_Singleton
  <2>3. conn[c].holder = r
    BY <2>1 DEF Held
  <2>4. req[r] \in Claimed => Effective(c) = TenantOf[r]
    BY <1>1, <2>3 DEF IInv, ClaimInv, Effective
  <2> QED
    BY <1>3, <2>1, <2>2, <2>4 DEF Within, Claimed
<1> QED
  BY <1>1, <1>2, <1>3

\* A pooled connection cannot leak one tenant's claim into the next request
\* (session.py:73-75), whatever fails or is cancelled.
THEOREM NoClaimOutlives == Spec => []ClaimDiesWithTransaction
  BY Invariance, ClaimOutsideTransaction, PTL

\* Every statement of a request runs on the one connection it holds and under
\* its own tenant's claim (session.py:71-78), whatever the embedder does.
THEOREM OwnClaim == Spec => []StatementsUnderOwnClaim
  BY Invariance, ClaimOfHolder, PTL

\* No permit is lost or invented, so that no more than MaxInFlight requests
\* are ever with the provider (embeddings.py:117-150), and the types are kept:
\* for any calls, batches, limit and pool, however sessions fail around them.
THEOREM PermitsKept == Spec => []PermitsAccountedFor
<1>1. IInv /\ EInv => PermitsAccountedFor
  BY DEF IInv, ReqType, ConnType, EInv, PermitInv, PermitsAccountedFor, TypeOK, Outside, Within
<1> QED
  BY <1>1, Invariance, EmbedderInvariance, PTL
=============================================================================
