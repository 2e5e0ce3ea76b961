----------------------------- MODULE Evaluation -----------------------------
(***************************************************************************)
(* What is measured, and how: the two retrieval measurements               *)
(* (src/scripts/measure_keyword_baseline.py and measure_chunking_impact.py)*)
(* and the reports evals/metrics.py makes of a log of graded queries.      *)
(*                                                                         *)
(* PostgreSQL's full-text search answers with any of the asking tenant's  *)
(* texts in any order.  A text is a number of characters, an answer the   *)
(* places where it is found.  HEAD may move while the documents are read; *)
(* Length is then that of the texts that were read, of whichever commit.  *)
(***************************************************************************)
EXTENDS Metrics, SequencesExt

CONSTANTS
    Length,       \* the documents, with their lengths in characters
    Tenant,       \* the tenant of each document
    Golden,       \* the answerable questions in order: tenant, type, documents, and
                  \* whether an expected_answer_contains is given
    Occurrences,  \* the sets of places an expected_answer_contains may be found
    Window,       \* the size of a naive chunk
    TOP_K,
    SharedRows,   \* bound: strategies that make one chunk of a document
    MaxHead,      \* bound: commits HEAD is at
    Kinds,        \* the kinds of sample of each report
    MaxLog        \* bound: samples in a report

Docs == DOMAIN Length
Questions == DOMAIN Golden

ASSUME DocAssumption == IsFiniteSet(Docs) /\ Length \in [Docs -> Nat] /\ DOMAIN Tenant = Docs
ASSUME GoldenAssumption ==
    /\ Len(Golden) \in Nat /\ Questions = 1 .. Len(Golden)
    /\ \A q \in Questions :
          /\ Golden[q].type \in {"answerable_single", "answerable_multi"}
          /\ Golden[q].given \in BOOLEAN
          /\ \A d \in Golden[q].docs : d \in Docs /\ Tenant[d] = Golden[q].tenant
ASSUME OccurrenceAssumption ==
    \A places \in Occurrences : \A o \in places :
        o.doc \in Docs /\ o.from \in 1 .. o.to /\ o.to \in 1 .. Length[o.doc]
ASSUME SizeAssumption == {Window, TOP_K, SharedRows, MaxHead, MaxLog} \subseteq Nat \ {0}
ASSUME KindAssumption ==
    /\ \A report \in DOMAIN Kinds :
          /\ report \in {"latency", "refusals", "claims"}
          /\ IsFiniteSet(Kinds[report])
    /\ "latency" \in DOMAIN Kinds => Kinds["latency"] \subseteq Nat \X (Nat \cup {NoStage})
    /\ "refusals" \in DOMAIN Kinds => Kinds["refusals"] = {"answer", "refuse"} \X BOOLEAN
    /\ "claims" \in DOMAIN Kinds => Kinds["claims"] = BOOLEAN

VARIABLES
    job,       \* "baseline", "impact" or the report that is made
    places,    \* where the answer to each question is found
    long,      \* documents the token-based strategies would split
    head,      \* the commit HEAD is at
    left,      \* documents that are not read yet
    read,      \* the commits documents were read at
    pc,        \* "row", "search", "write", "text", "written" or "failed"
    row,       \* the strategy being measured
    table,     \* chunks_baseline, or documents_baseline
    asked,     \* how many questions have been asked in this row
    tally,     \* what has been scored in this row, per type of question
    last,      \* the last question asked, and what came of it
    results,   \* what has been scored in each row that is done
    file,      \* the results file
    log        \* a report's samples, so many of each kind

sources == <<head, left, read>>
vars == <<job, places, long, sources, pc, row, table, asked, tally, last, results, file, log>>

Scripts == {"baseline", "impact"}
Reports == DOMAIN Kinds
Types == {"answerable_single", "answerable_multi"}
Score == [hit1 |-> 0, hit5 |-> 0, mrr |-> 0, n |-> 0, undecidable |-> 0]
Nothing == <<>>

\* The results file: an older measurement's, truncated, or this one's, with the
\* commits its documents were read at.
Older == [of |-> "older", read |-> {}, rows |-> <<>>]
Torn == [of |-> "none", read |-> {}, rows |-> <<>>]
This(rows) == [of |-> "this", read |-> read, rows |-> rows]

Init ==
    /\ job \in Scripts \cup Reports
    /\ places \in [Questions -> Occurrences \cup {{}}]
    /\ \A q \in Questions :
          IF job = "impact" /\ Golden[q].given THEN places[q] \in Occurrences ELSE places[q] = {}
    /\ long \in IF job = "impact" THEN {{}} \cup {{d} : d \in Docs} ELSE {{}}
    /\ head = 1
    /\ left = IF job \in Scripts THEN Docs ELSE {}
    /\ read = {}
    /\ pc = IF job \in Scripts THEN "row" ELSE "log"
    /\ row = 1
    /\ table = {}
    /\ asked = 0
    /\ tally = [t \in Types |-> Score]
    /\ last = Nothing
    /\ results = Nothing
    /\ file = Older
    /\ log = [k \in IF job \in Reports THEN Kinds[job] ELSE {} |-> 0]

-----------------------------------------------------------------------------
(* Documents and chunks.                                                  *)

\* range(0, len(text), size), and one chunk of an empty text
Windows(d) == 1 .. IF Length[d] = 0 THEN 1 ELSE (Length[d] + Window - 1) \div Window

NaiveChunks == UNION {{[doc |-> d, n |-> i] : i \in Windows(d)} : d \in Docs}

\* One chunk per document, "#1"; a document itself in the baseline.
SharedChunks == {[doc |-> d, n |-> 1] : d \in Docs}

\* Rates are fine enough to tell the first rank that is no hit from the last
\* that is, and one of the samples or chunks there can be from none.
ASSUME WholeAssumption ==
    /\ Whole \in Nat \ {0} /\ Whole % TOP_K = 0
    /\ MaxLog <= Whole /\ Cardinality(NaiveChunks) <= Whole

HasAnswer(c, o) ==
    /\ o.doc = c.doc
    /\ (c.n - 1) * Window < o.from
    /\ o.to <= c.n * Window

\* The first strategy is the naive one.
Naive == job = "impact" /\ row = 1

Rows == IF job = "impact" THEN 1 + SharedRows ELSE 1

\* set(q["expected_chunks"]), each of them a document's "#1"
GoldenIds(q) == {[doc |-> d, n |-> 1] : d \in Golden[q].docs}

\* The naive chunks of its documents that have its answer in them; none if no
\* answer is given.
_row1_expected_chunk_ids(q) ==
    {c \in NaiveChunks : c.doc \in Golden[q].docs /\ \E o \in places[q] : HasAnswer(c, o)}

Expected(q) == IF Naive THEN _row1_expected_chunk_ids(q) ELSE GoldenIds(q)

-----------------------------------------------------------------------------
(* A measurement.                                                         *)

\* git show HEAD:<path>, for one document after another; the strategies that
\* measure tokens must leave each in one piece.
ReadDocument ==
    /\ pc = "row"
    /\ \E d \in left :
          /\ left' = left \ {d}
          /\ pc' = IF d \in long THEN "failed" ELSE "row"
    /\ read' = read \cup {head}
    /\ UNCHANGED <<job, places, long, head, row, table, asked, tally, last, results, file, log>>

\* Somebody commits, or checks another branch out.
MoveHead ==
    /\ pc = "row"
    /\ left # {}
    /\ head < MaxHead
    /\ head' = head + 1
    /\ UNCHANGED <<job, places, long, left, read, pc, row, table, asked, tally, last,
                   results, file, log>>

\* drop table if exists, create table, insert; the baseline has its own table
\* before it reads the documents, and fills it after.
CreateTable ==
    /\ pc = "row"
    /\ left = {}
    /\ table' = IF Naive THEN NaiveChunks ELSE SharedChunks
    /\ asked' = 0
    /\ tally' = [t \in Types |-> Score]
    /\ pc' = "search"
    /\ UNCHANGED <<job, places, long, sources, row, last, results, file, log>>

\* Where a text of the tenant's can be in an answer.
Rankings(tenant) ==
    LET texts == {c \in table : Tenant[c.doc] = tenant}
    IN  UNION {SetToSeqs(found) : found \in SUBSET texts}

One(b) == IF b THEN 1 ELSE 0

\* A question is asked for its tenant and the ranking is scored.
Search ==
    /\ pc = "search"
    /\ asked < Len(Golden)
    /\ asked' = asked + 1
    /\ \E q \in {asked + 1} : \E ranked \in Rankings(Golden[q].tenant) :
          LET expected == Expected(q)
              hit1 == hit_rate_at_k(ranked, expected, 1)
              hit5 == hit_rate_at_k(ranked, expected, TOP_K)
              rr == mrr(ranked, expected)
          IN  /\ last' = [ranked |-> ranked, expected |-> expected,
                          hit1 |-> hit1, hit5 |-> hit5, rr |-> rr]
              /\ tally' = [tally EXCEPT ![Golden[q].type] =
                             [hit1 |-> @.hit1 + One(hit1), hit5 |-> @.hit5 + One(hit5),
                              mrr |-> @.mrr + rr, n |-> @.n + 1,
                              undecidable |-> @.undecidable + One(expected = {})]]
    /\ UNCHANGED <<job, places, long, sources, pc, row, table, results, file, log>>

\* What a row publishes: sums over all types, and the hits of each type that was
\* asked.
Published ==
    [all |-> [f \in DOMAIN Score |-> SumFunction([t \in Types |-> tally[t][f]])],
     per_category_hit_at_5 |->
        [t \in {u \in Types : tally[u].n > 0} |-> [sum |-> tally[t].hit5, len |-> tally[t].n]]]

\* The baseline prints the averages of both types, and divides by nothing where
\* there is no question of one.
TypeIsMissing == job = "baseline" /\ \E t \in Types : tally[t].n = 0

ScoreRow ==
    /\ pc = "search"
    /\ asked = Len(Golden)
    /\ last' = Nothing
    /\ IF Questions = {} \/ TypeIsMissing
       THEN pc' = "failed" /\ UNCHANGED <<row, results>>
       ELSE /\ results' = Append(results, Published)
            /\ row' = row + 1
            /\ pc' = IF row < Rows THEN "row" ELSE "write"
    /\ UNCHANGED <<job, places, long, sources, table, asked, tally, file, log>>

\* [fault] the file is opened before the rows are measured.
OpenFirst ==
    /\ pc = "row"
    /\ left = {}
    /\ file = Older
    /\ file' = Torn
    /\ UNCHANGED <<job, places, long, sources, pc, row, table, asked, tally, last, results, log>>

\* write_text, once every row is done: the file that is there is truncated,
OpenFile ==
    /\ pc = "write"
    /\ file' = Torn
    /\ pc' = "text"
    /\ UNCHANGED <<job, places, long, sources, row, table, asked, tally, last, results, log>>

\* and then filled.
Write ==
    /\ pc = "text"
    /\ file' = This(results)
    /\ pc' = "written"
    /\ UNCHANGED <<job, places, long, sources, row, table, asked, tally, last, results, log>>

\* git, the database or the disk fails, or the script is stopped.
Fail ==
    /\ pc \in {"row", "search", "write", "text"}
    /\ pc' = "failed"
    /\ UNCHANGED <<job, places, long, sources, row, table, asked, tally, last, results, file, log>>

-----------------------------------------------------------------------------
\* One more sample for a report.
Record(k) ==
    /\ pc = "log"
    /\ Size(log) < MaxLog
    /\ log' = [log EXCEPT ![k] = @ + 1]
    /\ UNCHANGED <<job, places, long, sources, pc, row, table, asked, tally, last, results, file>>

Next ==
    \/ ReadDocument \/ MoveHead \/ CreateTable \/ Search \/ ScoreRow
    \/ OpenFile \/ Write \/ Fail
    \/ \E k \in DOMAIN log : Record(k)

Spec == Init /\ [][Next]_vars

-----------------------------------------------------------------------------
(* Properties.                                                            *)

\* The questions, of some types, whose answer is in one of their documents
\* without a window's boundary through it.
Uncut(types) ==
    {q \in Questions :
        /\ Golden[q].type \in types
        /\ \E o \in places[q] :
              /\ o.doc \in Golden[q].docs
              /\ (o.from - 1) \div Window = (o.to - 1) \div Window}

\* What the naive row reports is about answers: it has no more hits, over all
\* and per type, than there are questions whose answer no boundary cuts, however
\* the search ranks the first chunks the golden file names; and those it says
\* have no ground truth are just the others (measure_chunking_impact.py:15-35,
\* 355-365).
NaiveHitsAreAnswers ==
    job = "impact" /\ results # <<>> =>
        LET naive == results[1] IN
        /\ naive.all.hit5 <= Cardinality(Uncut(Types))
        /\ naive.all.undecidable = Cardinality(Questions) - Cardinality(Uncut(Types))
        /\ \A t \in DOMAIN naive.per_category_hit_at_5 :
              naive.per_category_hit_at_5[t].sum <= Cardinality(Uncut({t}))

\* The three numbers a row publishes agree with one another and with recall:
\* a question counts for hit@k if its reciprocal rank is 1/k at least, and if
\* its recall at k is not nil; so the mean reciprocal rank is at least hit@1 and
\* at most what hit@1 and hit@5 allow.
ScoresAgree ==
    /\ last # Nothing =>
          /\ last.hit1 <=> last.rr = Whole
          /\ last.hit5 <=> last.rr * TOP_K >= Whole
          /\ last.hit5 <=> recall_at_k(last.ranked, last.expected, TOP_K) > 0
    /\ \A i \in DOMAIN results :
          LET r == results[i].all IN
          /\ r.hit1 * Whole <= r.mrr
          /\ r.mrr <= r.hit1 * Whole + (r.hit5 - r.hit1) * Part(1, 2)
                      + (r.n - r.hit5) * Part(1, TOP_K + 1)

\* The results file is touched only by a measurement whose every row is done, and
\* what it then holds, if anything, is all of its rows, each over every
\* answerable question, the naive row's without an answer in any chunk counted as
\* misses (measure_chunking_impact.py:224-235), and, unless HEAD moved while they
\* were read, of documents of the commit it names (8-9, 445), which is HEAD's when
\* the script starts; a measurement that fails before leaves the older one's
\* numbers.
FileIsOneMeasurement ==
    /\ file # Older => pc \in {"text", "written", "failed"} /\ Len(results) = Rows
    /\ file.of = "this" =>
        /\ head = 1 => file.read \subseteq {1}
        /\ Len(file.rows) = Rows
        /\ \A i \in DOMAIN file.rows :
              LET r == file.rows[i].all IN
              r.n = Cardinality(Questions) /\ r.hit5 + r.undecidable <= r.n

\* A percentile is "a value that was actually observed" (metrics.py:252), at
\* most one rank from where the nearest-rank definition has it; and a stage's is
\* no better for the queries it did not run on: "a stage that ran on only some
\* queries would otherwise report a falsely fast p95" (metrics.py:287-289).
PercentilesAreHonest ==
    job = "latency" =>
        \A pct \in {50, 95} :
            /\ \A bag \in {b \in {EndToEnd(log), Stage(log)} : Size(b) > 0} :
                  LET value == Percentile(bag, pct)
                      nearest == (pct * Size(bag) + 99) \div 100
                  IN  /\ bag[value] > 0
                      /\ UpTo(bag, value) >= nearest - 1
                      /\ UpTo(bag, value) - bag[value] <= nearest
            /\ LET ran == [q \in {p \in DOMAIN log : p[2] # NoStage} |-> log[q]]
               IN  Size(ran) > 0 => Percentile(Stage(log), pct) = Percentile(Stage(ran), pct)

\* No score is full by default: an answer without claims is not faithful, and
\* the two refusal rates together are full and nil only for a system that got
\* every question right, while one that refuses everything shows it in the
\* second (metrics.py:127-133, 197-216).
PerfectMeansPerfect ==
    /\ job = "claims" =>
          (faithfulness(log) = Whole <=> Size(log) > 0 /\ log[FALSE] = 0)
    /\ job = "refusals" /\ Size(log) > 0 =>
          LET r == refusal_correctness(log)
              wrong == Count(log, {<<"refuse", FALSE>>, <<"answer", TRUE>>})
              answered == Count(log, {"refuse", "answer"} \X {FALSE})
          IN  /\ r.correct_refusal_rate = Whole /\ r.false_refusal_rate = 0 => wrong = 0
              /\ wrong = 0 /\ r.n_should_refuse > 0 =>
                    r.correct_refusal_rate = Whole /\ r.false_refusal_rate = 0
              /\ answered = 0 /\ log[<<"answer", TRUE>>] > 0 => r.false_refusal_rate = Whole
=============================================================================
