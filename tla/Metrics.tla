------------------------------ MODULE Metrics ------------------------------
(***************************************************************************)
(* The definitions of src/evals/metrics.py.  Rates are in so many parts of *)
(* a whole.  What is aggregated is a bag: how many samples there are of    *)
(* each kind.                                                              *)
(***************************************************************************)
EXTENDS Integers, Sequences, FiniteSetsExt, Functions

CONSTANT Whole   \* the parts a rate of 1.0 has

Part(a, b) == (Whole * a) \div b

\* What is raised when nothing was measured.
ValueError == "ValueError"

-----------------------------------------------------------------------------
(* Retrieval: retrieved is ranked, without duplicates.                    *)

TopOf(retrieved, k) == {retrieved[i] : i \in {j \in DOMAIN retrieved : j <= k}}

hit_rate_at_k(retrieved, expected, k) == TopOf(retrieved, k) \cap expected # {}

\* [fault] ranks counted from one too many.
mrr_from_two(retrieved, expected) ==
    LET ranks == {i \in DOMAIN retrieved : retrieved[i] \in expected}
    IN  IF ranks = {} THEN 0 ELSE Part(1, Min(ranks) + 1)

mrr(retrieved, expected) ==
    LET ranks == {i \in DOMAIN retrieved : retrieved[i] \in expected}
    IN  IF ranks = {} THEN 0 ELSE Part(1, Min(ranks))

recall_at_k(retrieved, expected, k) ==
    IF expected = {} THEN 0
    ELSE Part(Cardinality(TopOf(retrieved, k) \cap expected), Cardinality(expected))

-----------------------------------------------------------------------------
(* Generation.                                                            *)

Count(bag, kinds) == SumFunctionOnSet(bag, kinds \cap DOMAIN bag)
Size(bag) == SumFunction(bag)

\* [fault] nothing said, nothing wrong.
SupportedOrVacuous(bag) == IF Size(bag) = 0 THEN Whole ELSE Part(Count(bag, {TRUE}), Size(bag))

\* faithfulness of a bag of judged claims, supported or not; citation_accuracy
\* is the same of citations.
faithfulness(bag) == IF Size(bag) = 0 THEN 0 ELSE Part(Count(bag, {TRUE}), Size(bag))

\* Of a bag of results <<expected_behaviour, system_refused>>.
refusal_correctness(bag) ==
    LET n(behaviour) == Count(bag, {behaviour} \X BOOLEAN)
        rate(behaviour) ==
            IF n(behaviour) = 0 THEN 0
            ELSE Part(Count(bag, {<<behaviour, TRUE>>}), n(behaviour))
    IN  IF Size(bag) = 0 THEN ValueError
        ELSE [correct_refusal_rate |-> rate("refuse"), false_refusal_rate |-> rate("answer"),
              n_should_refuse |-> n("refuse"), n_should_answer |-> n("answer")]

-----------------------------------------------------------------------------
(* Latency, of a bag of milliseconds.                                     *)

\* Python's round, of x / d: a half goes to the even side.
Round(x, d) ==
    LET q == x \div d
        r == x % d
    IN  IF 2 * r < d \/ (2 * r = d /\ q % 2 = 0) THEN q ELSE q + 1

UpTo(bag, ms) == Count(bag, {m \in DOMAIN bag : m <= ms})

\* max(0, min(top, i))
Clamped(i, top) == IF i > top THEN top ELSE IF i < 0 THEN 0 ELSE i

\* sorted_values[...] at round(pct * (n - 1)), pct in hundredths
Percentile(bag, pct) ==
    LET top == Size(bag) - 1
        rank == 1 + Clamped(Round(pct * top, 100), top)
    IN  IF Size(bag) = 0 THEN ValueError
        ELSE Min({ms \in DOMAIN bag : UpTo(bag, ms) >= rank})

\* What a query has for a stage that it did not run.
NoStage == -1

\* [fault] a query without the stage counts as one that took no time in it.
StageOrZero(queries) ==
    [ms \in {q[2] : q \in DOMAIN queries} \cup {0} |->
        Count(queries, {q \in DOMAIN queries : q[2] = ms}) +
        (IF ms = 0 THEN Count(queries, {q \in DOMAIN queries : q[2] = NoStage}) ELSE 0)]

\* The samples of the stage in a bag of queries <<end_to_end_ms, stage's ms>>:
\* only those it ran on count.
Stage(queries) ==
    [ms \in {q[2] : q \in DOMAIN queries} \ {NoStage} |->
        Count(queries, {q \in DOMAIN queries : q[2] = ms})]

EndToEnd(queries) ==
    [ms \in {q[1] : q \in DOMAIN queries} |->
        Count(queries, {q \in DOMAIN queries : q[1] = ms})]
=============================================================================
