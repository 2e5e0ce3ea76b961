---------------------------- MODULE MCEvaluation ----------------------------
(* A small instance of Evaluation.                                        *)
EXTENDS Evaluation

MCLength == [a1 |-> 5, a2 |-> 1, g1 |-> 2]
MCTenant == [a1 |-> "acme", a2 |-> "acme", g1 |-> "globex"]

MCGolden ==
    <<[tenant |-> "acme", type |-> "answerable_single", given |-> TRUE, docs |-> {"a1"}],
     [tenant |-> "acme", type |-> "answerable_multi", given |-> FALSE, docs |-> {"a1", "a2"}],
     [tenant |-> "acme", type |-> "answerable_single", given |-> TRUE, docs |-> {"a2"}]>>

At(d, i, j) == [doc |-> d, from |-> i, to |-> j]

\* In the first window, in a later one, on a boundary, twice, in the other
\* document as well, and nowhere.
MCOccurrences ==
    {{At("a1", 1, 2)}, {At("a1", 3, 4)}, {At("a1", 2, 3)}, {At("a1", 2, 3), At("a1", 5, 5)},
     {At("a1", 3, 4), At("a2", 1, 1)}, {}}

MCKinds ==
    [latency |-> {1, 2} \X {NoStage, 1, 2},
     refusals |-> {"answer", "refuse"} \X BOOLEAN,
     claims |-> BOOLEAN]
=============================================================================
