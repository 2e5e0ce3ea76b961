---------------------------- MODULE MCChunking ----------------------------
(* Small instances of Chunking: tables and paragraphs of sentences as long *)
(* as real ones, below the floor, within the target, over it and over the *)
(* ceiling.                                                                *)
EXTENDS Chunking

Paragraph(n, tokens) == [table |-> FALSE, sentences |-> [k \in 1 .. n |-> tokens], stop |-> TRUE]
Rates(n) == [table |-> TRUE, sentences |-> <<n>>, stop |-> FALSE]
Notes(n, tokens) == [table |-> TRUE, sentences |-> [k \in 1 .. n |-> tokens], stop |-> TRUE]

MCBlocks == {Paragraph(4, 25), Paragraph(20, 15), Paragraph(12, 35), Paragraph(2, 300),
             Rates(300), Rates(800), Rates(1000), Notes(10, 50)}
=============================================================================
