------------------------------ MODULE Embedder ------------------------------
(***************************************************************************)
(* BoundedConcurrencyEmbedder (src/src/llm/embeddings.py), the embedder   *)
(* ingest is given: a call cuts its chunks into batches, gathers them     *)
(* under one semaphore and accounts for their tokens on last_run_cost.    *)
(* One instance may serve one ingest after another or several at a time.  *)
(*                                                                         *)
(* A step is what the event loop runs between two awaits.  gather neither *)
(* cancels nor waits for the other batches when one of them raises: the   *)
(* call is over and they go on.  Every batch has one token.               *)
(***************************************************************************)
EXTENDS Integers, FiniteSets

CONSTANTS
    Calls,         \* the calls made on one instance
    BatchCount,    \* how many batches the chunks of a call are cut into
    MaxInFlight    \* settings.embed_max_concurrency

\* What is assumed of them stands where the instance is made, in Sessions.

VARIABLES
    call,      \* each call
    batch,     \* each batch of each call
    permits,   \* what the semaphore has left
    cost,      \* last_run_cost.tokens
    logged,    \* the tokens a call found on last_run_cost when it returned
    shared     \* whether ingests share the instance at the same time

vars == <<call, batch, permits, cost, logged, shared>>

Batches == UNION {{c} \X (1 .. BatchCount[c]) : c \in Calls}
BatchesOf(c) == {b \in Batches : b[1] = c}
In(state) == {b \in Batches : batch[b] = state}

TypeOK ==
    /\ call \in [Calls -> {"new", "running", "returned", "raised", "cancelled"}]
    /\ batch \in [Batches -> {"new", "waiting", "asking", "done", "failed"}]
    /\ permits \in 0 .. MaxInFlight
    /\ cost \in Nat
    /\ logged \in [Calls -> Nat]
    /\ shared \in BOOLEAN

Init ==
    /\ call = [c \in Calls |-> "new"]
    /\ batch = [b \in Batches |-> "new"]
    /\ permits = MaxInFlight
    /\ cost = 0
    /\ logged = [c \in Calls |-> 0]
    /\ shared \in BOOLEAN

-----------------------------------------------------------------------------
\* __call__: a new EmbeddingCost, then gather creates the batches' tasks; no
\* chunks, no tasks.
Begin(c) ==
    /\ call[c] = "new"
    /\ shared \/ \A d \in Calls : call[d] # "running"
    /\ cost' = 0
    /\ call' = [call EXCEPT ![c] = IF BatchCount[c] = 0 THEN "returned" ELSE "running"]
    /\ batch' = [b \in Batches |-> IF b[1] = c THEN "waiting" ELSE batch[b]]
    /\ UNCHANGED <<permits, logged, shared>>

\* [fault] the provider is asked without holding the semaphore.
AskUnbounded(b) ==
    /\ batch[b] = "waiting"
    /\ batch' = [batch EXCEPT ![b] = "asking"]
    /\ UNCHANGED <<call, permits, cost, logged, shared>>

\* _embed_batch gets the semaphore and asks the provider.
Ask(b) ==
    /\ batch[b] = "waiting"
    /\ permits > 0
    /\ permits' = permits - 1
    /\ batch' = [batch EXCEPT ![b] = "asking"]
    /\ UNCHANGED <<call, cost, logged, shared>>

\* [fault] a new accounting for every batch.
AnswerResettingCost(b) ==
    /\ batch[b] = "asking"
    /\ batch' = [batch EXCEPT ![b] = "done"]
    /\ permits' = permits + 1
    /\ cost' = 1
    /\ UNCHANGED <<call, logged, shared>>

\* The provider answers: the semaphore is released and the batch's tokens
\* are added to whatever last_run_cost is by now.
Answer(b) ==
    /\ batch[b] = "asking"
    /\ batch' = [batch EXCEPT ![b] = "done"]
    /\ permits' = permits + 1
    /\ cost' = cost + 1
    /\ UNCHANGED <<call, logged, shared>>

\* The provider raises, or answers with too few vectors or too many: that
\* is noticed when the tokens are on the account already.
Fail(b) ==
    /\ batch[b] = "asking"
    /\ batch' = [batch EXCEPT ![b] = "failed"]
    /\ permits' = permits + 1
    /\ cost' \in {cost, cost + 1}
    /\ UNCHANGED <<call, logged, shared>>

\* Every batch has answered: the call flattens them in order and logs.
Return(c) ==
    /\ call[c] = "running"
    /\ BatchesOf(c) \subseteq In("done")
    /\ call' = [call EXCEPT ![c] = "returned"]
    /\ logged' = [logged EXCEPT ![c] = cost]
    /\ UNCHANGED <<batch, permits, cost, shared>>

\* gather passes the first exception on.
Raise(c) ==
    /\ call[c] = "running"
    /\ BatchesOf(c) \cap In("failed") # {}
    /\ call' = [call EXCEPT ![c] = "raised"]
    /\ UNCHANGED <<batch, permits, cost, logged, shared>>

\* The task running the call is cancelled: gather cancels the batches that
\* are not finished, and those asking give the semaphore back.
Cancel(c) ==
    /\ call[c] = "running"
    /\ call' = [call EXCEPT ![c] = "cancelled"]
    /\ batch' = [b \in Batches |->
                   IF b[1] = c /\ batch[b] \in {"waiting", "asking"}
                   THEN "failed" ELSE batch[b]]
    /\ permits' = permits + Cardinality(BatchesOf(c) \cap In("asking"))
    /\ UNCHANGED <<cost, logged, shared>>

-----------------------------------------------------------------------------
Next ==
    \/ \E c \in Calls : Begin(c) \/ Return(c) \/ Raise(c) \/ Cancel(c)
    \/ \E b \in Batches : Ask(b) \/ Answer(b) \/ Fail(b)

Spec == Init /\ [][Next]_vars

-----------------------------------------------------------------------------
(* Properties.                                                            *)

\* At most max_concurrency requests are with the provider, however many calls
\* overlap, and counting the batches a failed call left behind; and a permit
\* is neither lost nor invented when a batch fails or is cancelled
\* (embeddings.py:117-150).
PermitsAccountedFor == Cardinality(In("asking")) + permits = MaxInFlight

\* A call that returned did so with all its batches, and without overlaps the
\* cost it logged covers every one of them: nothing answered goes unaccounted,
\* whatever earlier calls failed or were cancelled (embeddings.py:97-108).
LoggedCoversTheCall ==
    ~shared =>
        \A c \in Calls : call[c] = "returned" =>
            /\ BatchesOf(c) \subseteq In("done")
            /\ logged[c] >= BatchCount[c]
=============================================================================
