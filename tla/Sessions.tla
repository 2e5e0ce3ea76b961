------------------------------ MODULE Sessions ------------------------------
(***************************************************************************)
(* session(tenant_id) of src/src/db/session.py: a connection of the pool, *)
(* a transaction on it and the claim the policies read, for ingests, which *)
(* await the embedder (Embedder) inside the block, and for queries.        *)
(*                                                                         *)
(* A request may fail at every statement, be cancelled at every await and *)
(* find its connection gone.  What the statements do to the tables is in  *)
(* Ingestion and Backfill; close_pool runs when no session is open.       *)
(***************************************************************************)
EXTENDS Integers, FiniteSets

CONSTANTS
    Calls, BatchCount, MaxInFlight,   \* see Embedder; a call is an ingest
    Queries,                          \* requests that do not embed
    Conns,                            \* the pool's connections
    NoOne,                            \* the holder of a free connection
    TenantOf                          \* the tenant_id a request's session is given

Requests == Calls \cup Queries

\* The claims where tenant_id is None, and where none were ever set.
NoClaim == "{}"
Unset == ""

ASSUME CallAssumption == IsFiniteSet(Calls)
ASSUME CountAssumption == BatchCount \in [Calls -> Nat]
ASSUME LimitAssumption == MaxInFlight \in Nat \ {0}
ASSUME QueryAssumption == IsFiniteSet(Queries) /\ Queries \cap Calls = {}
ASSUME ConnAssumption == IsFiniteSet(Conns) /\ Conns # {} /\ NoOne \notin Requests
ASSUME TenantAssumption == TenantOf \in [Requests -> STRING]

VARIABLES
    call, batch, permits, cost, logged, shared,   \* see Embedder
    req,      \* where each request is in its session
    conn      \* each connection

E == INSTANCE Embedder

embedder == <<call, batch, permits, cost, logged, shared>>
vars == <<embedder, req, conn>>

\* A connection as the pool keeps it.
Clean == [holder |-> NoOne, txn |-> FALSE, local |-> Unset, setting |-> Unset]

Claims == {TenantOf[r] : r \in Requests} \cup {Unset}

TypeOK ==
    /\ E!TypeOK
    /\ req \in [Requests -> {"new", "waiting", "begun", "claimed", "embedding", "embedded",
                            "leaving", "left", "done"}]
    /\ conn \in [Conns -> [holder : Requests \cup {NoOne}, txn : BOOLEAN,
                           local : Claims, setting : Claims]]

Init ==
    /\ E!Init
    /\ req = [r \in Requests |-> "new"]
    /\ conn = [c \in Conns |-> Clean]

Held(r) == {c \in Conns : conn[c].holder = r}

\* The claim in effect: what the transaction has set, or else the connection.
Effective(c) == IF conn[c].local # Unset THEN conn[c].local ELSE conn[c].setting

Move(r, from, to) == req[r] \in from /\ req' = [req EXCEPT ![r] = to]

-----------------------------------------------------------------------------
(* session().                                                             *)

\* The service takes ingests one by one or as they come, as shared says.
Arrive(r) ==
    /\ (r \in Calls /\ ~shared) => \A d \in Calls \ {r} : req[d] \in {"new", "done"}
    /\ Move(r, {"new"}, "waiting")
    /\ UNCHANGED <<embedder, conn>>

\* [fault] the session does not open a transaction.
AcquireOnly(r) ==
    /\ Move(r, {"waiting"}, "begun")
    /\ \E c \in Held(NoOne) : conn' = [conn EXCEPT ![c].holder = r]
    /\ UNCHANGED embedder

\* async with pool.acquire() as conn, conn.transaction()
Acquire(r) ==
    /\ Move(r, {"waiting"}, "begun")
    /\ \E c \in Held(NoOne) :
          conn' = [conn EXCEPT ![c].holder = r, ![c].txn = TRUE]
    /\ UNCHANGED embedder

\* [fault] set_config with is_local = false.
SetClaimForGood(r) ==
    /\ Move(r, {"begun"}, "claimed")
    /\ \E c \in Held(r) : conn' = [conn EXCEPT ![c].setting = TenantOf[r]]
    /\ UNCHANGED embedder

\* select set_config('request.jwt.claims', $1, true): until the end of the
\* transaction; outside of one it is gone with its own statement.
SetClaim(r) ==
    /\ Move(r, {"begun"}, "claimed")
    /\ \E c \in Held(r) :
          conn' = IF conn[c].txn THEN [conn EXCEPT ![c].local = TenantOf[r]] ELSE conn
    /\ UNCHANGED embedder

\* The block is left, or a statement raised: COMMIT or ROLLBACK.
EndTransaction(r) ==
    /\ Move(r, {"leaving"}, "left")
    /\ conn' = [c \in Conns |->
                  IF c \in Held(r) THEN [conn[c] EXCEPT !.txn = FALSE, !.local = Unset]
                  ELSE conn[c]]
    /\ UNCHANGED embedder

\* The pool takes the connection back and resets it, rolling back what is
\* still open and resetting all settings, or makes a new one of it.
Release(r) ==
    /\ Move(r, {"left"}, "done")
    /\ conn' = [c \in Conns |-> IF c \in Held(r) THEN Clean ELSE conn[c]]
    /\ UNCHANGED embedder

-----------------------------------------------------------------------------
(* What the requests do inside.                                           *)

\* A query's one statement.
Query(r) ==
    /\ r \in Queries
    /\ Move(r, {"claimed"}, "leaving")
    /\ UNCHANGED <<embedder, conn>>

\* [fault] the embedder opens a session of its own.
EmbedInSecondSession(r) ==
    /\ Held(NoOne) # {}
    /\ Move(r, {"claimed"}, "embedding")
    /\ E!Begin(r)
    /\ UNCHANGED conn

\* An ingest has read its document, chunks it and calls the embedder.
StartEmbedding(r) ==
    /\ Move(r, {"claimed"}, "embedding")
    /\ E!Begin(r)
    /\ UNCHANGED conn

\* await embed(chunks) is over, with or without vectors.
Embedded(r) ==
    /\ call[r] \in {"returned", "raised"}
    /\ Move(r, {"embedding"}, IF call[r] = "returned" THEN "embedded" ELSE "leaving")
    /\ UNCHANGED <<embedder, conn>>

\* The delete and the inserts.
Write(r) ==
    /\ Move(r, {"embedded"}, "leaving")
    /\ UNCHANGED <<embedder, conn>>

\* A statement raises, with the connection still there or gone, the document
\* is not found, or the request's task is cancelled at a statement.
Fail(r) ==
    /\ Move(r, {"begun", "claimed", "embedded"}, "leaving")
    /\ \/ UNCHANGED conn
       \/ \E c \in Held(r) : conn' = [conn EXCEPT ![c] = [Clean EXCEPT !.holder = r]]
    /\ UNCHANGED embedder

\* The task is cancelled while it waits for a connection.
CancelWaiting(r) ==
    /\ Move(r, {"waiting"}, "done")
    /\ UNCHANGED <<embedder, conn>>

\* ... while it waits for the embedder,
CancelEmbedding(r) ==
    /\ Move(r, {"embedding"}, "leaving")
    /\ E!Cancel(r)
    /\ UNCHANGED conn

\* ... or at its COMMIT or ROLLBACK: the transaction is left to Release, which
\* is shielded.
CancelLeaving(r) ==
    /\ Move(r, {"leaving"}, "left")
    /\ UNCHANGED <<embedder, conn>>

-----------------------------------------------------------------------------
\* The embedder's own steps.
CallStep(c) == (E!Return(c) \/ E!Raise(c)) /\ UNCHANGED <<req, conn>>
AskProvider(b) == E!Ask(b) /\ UNCHANGED <<req, conn>>
ProviderAnswers(b) == (E!Answer(b) \/ E!Fail(b)) /\ UNCHANGED <<req, conn>>

\* What a request does with its connection when nothing goes wrong.
Step(r) ==
    \/ SetClaim(r) \/ EndTransaction(r) \/ Release(r)
    \/ Query(r)
    \/ r \in Calls /\ (StartEmbedding(r) \/ Embedded(r) \/ Write(r))

Next ==
    \/ \E r \in Requests :
          Arrive(r) \/ Acquire(r) \/ Step(r) \/ Fail(r) \/ CancelWaiting(r) \/ CancelLeaving(r)
    \/ \E r \in Calls : CancelEmbedding(r) \/ CallStep(r)
    \/ \E b \in E!Batches : AskProvider(b) \/ ProviderAnswers(b)

Spec == Init /\ [][Next]_vars

\* Statements return or raise, tasks that can go on do, the provider answers
\* or raises.  The queues of the pool and of the semaphore are in order: who
\* waits in one is not passed over for ever.
Fairness ==
    /\ \A r \in Requests : SF_vars(Acquire(r)) /\ WF_vars(Step(r))
    /\ \A c \in Calls : WF_vars(CallStep(c))
    /\ \A b \in E!Batches : SF_vars(AskProvider(b)) /\ WF_vars(ProviderAnswers(b))

FairSpec == Spec /\ Fairness

-----------------------------------------------------------------------------
(* Properties.                                                            *)

\* See Embedder: no permit is lost or invented, also where a request's session
\* fails around the call; and every variable keeps its type.
PermitsAccountedFor == TypeOK /\ E!PermitsAccountedFor

\* See Embedder: a call that returned has all its vectors and has logged them.
LoggedCoversTheCall == E!LoggedCoversTheCall

\* Whenever a request is about to run a statement, the claim in effect on its
\* connection is that of its own tenant, whoever had the connection before and
\* however long the embedder took; and a request under way holds one
\* connection, one that waits or is over none (session.py:71-78).
StatementsUnderOwnClaim ==
    \A r \in Requests :
        /\ Cardinality(Held(r)) = IF req[r] \in {"new", "waiting", "done"} THEN 0 ELSE 1
        /\ req[r] \in {"claimed", "embedding", "embedded"} =>
              \A c \in Held(r) : Effective(c) = TenantOf[r]

\* "set_config with is_local=true scopes it to this transaction, so a pooled
\* connection cannot leak one tenant's context into the next request"
\* (session.py:73-75): outside a transaction a connection carries no claim.
ClaimDiesWithTransaction ==
    \A c \in Conns : ~conn[c].txn => Effective(c) = Unset

\* The service comes to rest: though as many ingests as there are connections
\* sit on them while they wait for the embedder's permits, no cycle of waits
\* and no connection or permit lost to a failure or a cancellation keeps a
\* request, or a batch a failed call left behind, waiting for ever
\* (pipeline.py:116-134, embeddings.py:141-168).
EverythingEnds ==
    []<>(/\ \A r \in Requests : req[r] \in {"new", "done"}
         /\ \A b \in E!Batches : batch[b] \in {"new", "done", "failed"})
=============================================================================
