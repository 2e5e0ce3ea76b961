------------------------------ MODULE Chunking ------------------------------
(***************************************************************************)
(* The two token-counting splitters of src/src/chunking/rules.py.  The    *)
(* blocks of a parsed document, or its sentences whatever blocks they are *)
(* in, are packed greedily into chunks, each chunk after the first opens  *)
(* with an overlap from the one before, and an undersized tail is merged  *)
(* back.  One step is one turn of a packing loop.                         *)
(*                                                                         *)
(* A block is the sentences it adds to a text.  Its last sentence may lack *)
(* a full stop, as the rows of a rate table do, and then runs on into the *)
(* next block's first one: the splitter sees a sentence end only at       *)
(* punctuation.  A sentence has any number of tokens, and tokens add up.  *)
(* Headings and section paths do not steer the packing and are left out.  *)
(***************************************************************************)
EXTENDS Integers, SequencesExt

CONSTANTS
    Blocks,      \* the blocks documents are made of
    MaxBlocks    \* bound: blocks of a document

Floor == 200
TargetMin == 400
TargetMax == 700
Ceiling == 900
Size == 512        \* target of the sentence-safe strategy

ParsedBlock == [table : BOOLEAN, sentences : Seq(Nat \ {0}), stop : BOOLEAN]

ASSUME BlockAssumption ==
    MaxBlocks \in Nat /\ \A b \in Blocks : b \in ParsedBlock /\ b.sentences # <<>>

VARIABLES
    parsed,    \* the document's blocks, section after section
    strategy,  \* "structure" packs its blocks, "sentence" its sentences
    phase,     \* "measure", "pack" or "done"
    turn,      \* the block or the sentence the packing loop is at
    pending,   \* the blocks or sentences of the chunk being filled
    chunks     \* the texts of the chunks closed so far

packVars == <<parsed, strategy, phase, turn, pending, chunks>>

\* A piece is one sentence, or the start of one, of one block.
Pieces(i) ==
    [k \in DOMAIN parsed[i].sentences |->
       [block |-> i, part |-> k, tokens |-> parsed[i].sentences[k],
        ends |-> k < Len(parsed[i].sentences) \/ parsed[i].stop]]

\* The text of a sequence of blocks.
JoinedText(bs) == FlattenSeq([k \in DOMAIN bs |-> Pieces(bs[k])])

Tokens(text) == SumFunction([k \in DOMAIN text |-> text[k].tokens])
BlockTokens(i) == Tokens(Pieces(i))

Everything == [i \in DOMAIN parsed |-> i]

\* A sentence starts after a piece that ends one.
SentenceStarts(text) == {i \in DOMAIN text : i = 1 \/ text[i - 1].ends}

\* The last n sentences of a text.
LastSentences(text, n) ==
    LET starts == SentenceStarts(text)
        from == CHOOSE i \in starts : Cardinality({j \in starts : j >= i}) = n
    IN  SubSeq(text, from, Len(text))

SentenceCount == Cardinality(SentenceStarts(JoinedText(Everything)))

\* The sentences from..to of the document.
Sentences(from, to) ==
    LET text == LastSentences(JoinedText(Everything), SentenceCount - from + 1)
        starts == SentenceStarts(text)
        end == {i \in starts : Cardinality({j \in starts : j < i}) = to - from + 1}
    IN  SubSeq(text, 1, IF end = {} THEN Len(text) ELSE Min(end) - 1)

PackTypeOK ==
    /\ parsed \in Seq(Blocks)
    /\ phase \in {"measure", "pack", "done"}
    /\ strategy \in {"structure", "sentence"}
    /\ turn \in 1 .. (IF strategy = "structure" THEN Len(parsed) ELSE SentenceCount) + 1
    /\ \A k \in DOMAIN pending : pending[k] = turn - Len(pending) + k - 1
    /\ \A k \in DOMAIN chunks : ToSet(chunks[k]) \subseteq ToSet(JoinedText(Everything))

PackInit ==
    /\ parsed \in SeqOf(Blocks, MaxBlocks)
    /\ strategy \in {"structure", "sentence"}
    /\ phase = "measure"
    /\ turn = 1
    /\ pending = <<>>
    /\ chunks = <<>>

-----------------------------------------------------------------------------
(* Closing a chunk.                                                       *)

\* round() to even, as Python's.
Round(hundredths) ==
    LET whole == hundredths \div 100
        rest == hundredths % 100
    IN  IF rest > 50 \/ (rest = 50 /\ whole % 2 = 1) THEN whole + 1 ELSE whole

\* [fault] the overlap is cut by pieces of text, not by sentences.
OverlapOfPieces(text) == SubSeq(text, Len(text), Len(text))

\* How many of n sentences the next chunk repeats: 15%, at least one.
Repeated(n) == IF Round(15 * n) = 0 THEN 1 ELSE Round(15 * n)

Overlap(text) ==
    LastSentences(text, Repeated(Cardinality(SentenceStarts(text))))

Flushed ==
    IF pending = <<>> THEN chunks
    ELSE IF chunks = <<>> THEN <<JoinedText(pending)>>
    ELSE Append(chunks, Overlap(Last(chunks)) \o JoinedText(pending))

\* A tail under the floor goes back into the chunk before it.
MergeTail(cs) ==
    IF Len(cs) > 1 /\ Tokens(Last(cs)) < Floor
    THEN Append(SubSeq(cs, 1, Len(cs) - 2), cs[Len(cs) - 1] \o Last(cs))
    ELSE cs

-----------------------------------------------------------------------------
\* What a document must hold beside a chunk of the floor to be cut at all.
Smallest == IF strategy = "structure" THEN TargetMin ELSE Size

\* A document too short to be cut without leaving a remainder under the floor
\* is one chunk.
Measure ==
    /\ phase = "measure"
    /\ IF Tokens(JoinedText(Everything)) < Floor + Smallest
       THEN /\ chunks' = <<JoinedText(Everything)>>
            /\ phase' = "done"
       ELSE /\ phase' = "pack"
            /\ UNCHANGED chunks
    /\ UNCHANGED <<parsed, strategy, turn, pending>>

\* [fault] any chunk over the target is closed, however little is in it.
OverTargetOnly(i) == Tokens(JoinedText(pending)) + BlockTokens(i) > TargetMax

\* A table that would pass the ceiling starts its own chunk; any other block
\* that would pass the target closes a chunk that has reached the floor.
StartsNewChunk(i) ==
    LET filled == Tokens(JoinedText(pending)) IN
    \/ parsed[i].table /\ filled + BlockTokens(i) > Ceiling
    \/ filled + BlockTokens(i) > TargetMax /\ filled >= Floor

\* [fault] the block that closes a chunk is lost.
PackBlockLosing ==
    /\ phase = "pack" /\ strategy = "structure"
    /\ turn \in DOMAIN parsed
    /\ IF StartsNewChunk(turn)
       THEN /\ chunks' = Flushed
            /\ pending' = <<>>
       ELSE /\ pending' = Append(pending, turn)
            /\ UNCHANGED chunks
    /\ turn' = turn + 1
    /\ UNCHANGED <<parsed, strategy, phase>>

\* One turn of the loop over the blocks of all sections.
PackBlock ==
    /\ phase = "pack" /\ strategy = "structure"
    /\ turn \in DOMAIN parsed
    /\ IF StartsNewChunk(turn)
       THEN /\ chunks' = Flushed
            /\ pending' = <<turn>>
       ELSE /\ pending' = Append(pending, turn)
            /\ UNCHANGED chunks
    /\ turn' = turn + 1
    /\ UNCHANGED <<parsed, strategy, phase>>

FinishBlocks ==
    /\ phase = "pack" /\ strategy = "structure"
    /\ turn = Len(parsed) + 1
    /\ chunks' = MergeTail(Flushed)
    /\ pending' = <<>>
    /\ phase' = "done"
    /\ UNCHANGED <<parsed, strategy, turn>>

-----------------------------------------------------------------------------
(* The sentence-safe strategy: no structure, the pending sentences are the *)
(* overlap and what was added to it.                                      *)

Window == IF pending = <<>> THEN <<>> ELSE Sentences(Head(pending), Last(pending))

\* One turn of the loop over the sentences.
PackSentence ==
    /\ phase = "pack" /\ strategy = "sentence"
    /\ turn <= SentenceCount
    /\ IF /\ pending # <<>>
          /\ Tokens(Window) + Tokens(Sentences(turn, turn)) > Size
          /\ Tokens(Window) >= Floor
       THEN LET n == Len(pending) IN
            /\ chunks' = Append(chunks, Window)
            /\ pending' = Append(SubSeq(pending, n - Repeated(n) + 1, n), turn)
       ELSE /\ pending' = Append(pending, turn)
            /\ UNCHANGED chunks
    /\ turn' = turn + 1
    /\ UNCHANGED <<parsed, strategy, phase>>

FinishSentences ==
    /\ phase = "pack" /\ strategy = "sentence"
    /\ turn = SentenceCount + 1
    /\ chunks' = MergeTail(Append(chunks, Window))
    /\ pending' = <<>>
    /\ phase' = "done"
    /\ UNCHANGED <<parsed, strategy, turn>>

PackNext == Measure \/ PackBlock \/ FinishBlocks \/ PackSentence \/ FinishSentences

PackSpec == PackInit /\ [][PackNext]_packVars

-----------------------------------------------------------------------------
(* Properties of the result.                                              *)

Packed == phase = "done"

\* Where a piece first appears in the chunks read one after the other.
FirstAt(p) == SelectInSeq(FlattenSeq(chunks), LAMBDA q : q = p)

\* Nothing is lost and nothing moves: reading the chunks in order, every
\* sentence of the document is met, for the first time in document order,
\* whatever is flushed, overlapped and merged; and while packing every
\* variable keeps its type (rules.py:284-330).
NothingLostOrMoved ==
    /\ PackTypeOK
    /\ Packed =>
         LET text == JoinedText(Everything) IN
         /\ \A k \in DOMAIN text : FirstAt(text[k]) > 0
         /\ \A k \in 2 .. Len(text) : FirstAt(text[k - 1]) < FirstAt(text[k])

\* What chunk k adds to the chunks before it: what follows what it repeats.
Own(k) ==
    LET before == UNION {ToSet(chunks[j]) : j \in 1 .. k - 1}
        own == SelectInSeq(chunks[k], LAMBDA p : p \notin before)
    IN  SubSeq(chunks[k], own, Len(chunks[k]))

\* Fifteen of a hundred of c sentences to the nearest, and one at least.
FifteenPercent(c) ==
    {n \in 1 .. c : 20 * n - 3 * c \in -10 .. 10 \/ (n = 1 /\ 3 * c < 10)}

\* Rule 4: a chunk opens with whole sentences of the end of the chunk before
\* it, 15% of them and never the rest of one, and goes on with what is new,
\* even after a merge (rules.py:17, 301-306, 385-386).
OverlapIsWholeSentences ==
    Packed =>
        \A k \in 2 .. Len(chunks) :
            \E n \in FifteenPercent(Cardinality(SentenceStarts(chunks[k - 1]))) :
                IsPrefix(LastSentences(chunks[k - 1], n) \o <<Own(k)[1]>>, chunks[k])

\* The floor is given up in one strategy and one place only: a chunk is under
\* it only if the next one opens with a table that, with it, would pass the
\* ceiling; the last one never is (rules.py:313-318, 324-329).
ShortOnlyBeforeTable ==
    \A k \in DOMAIN chunks :
        Tokens(chunks[k]) < Floor =>
            /\ k < Len(chunks) /\ strategy = "structure"
            /\ LET i == Own(k + 1)[1].block IN
               parsed[i].table /\ Tokens(chunks[k]) + BlockTokens(i) > Ceiling

\* The blocks of a text that repeats nothing pass the target only by the last,
\* which found less than the floor before it; a table alone passes the ceiling.
OverByOneBlock(added) ==
    LET last == Last(added).block
        filled == Tokens(added) - BlockTokens(last) IN
    Tokens(added) > TargetMax =>
        /\ filled < Floor
        /\ parsed[last].table => filled = 0 \/ Tokens(added) <= Ceiling

\* With what it repeats, a window passes its size only by the last sentence,
\* which found less than the floor before it, or is all the window adds.
OverByOneSentence(size, added) ==
    LET last == LastSentences(added, 1) IN
    size > Size => size - Tokens(last) < Floor \/ added = last

\* How large a chunk gets, beside the undersized tail the last one may end
\* with, which repeats its first sentence: a window with all it holds, and a
\* chunk of blocks with what it adds, to which comes the overlap, that is not
\* counted and has no limit of its own (rules.py:304-322, 324-329, 384-389).
OverTargetByOne ==
    \A k \in DOMAIN chunks :
        \E m \in DOMAIN Own(k) :
            LET added == SubSeq(Own(k), 1, m)
                tail == SubSeq(Own(k), m + 1, Len(Own(k)))
                size == Tokens(chunks[k]) - Tokens(tail) IN
            /\ tail # <<>> =>
                 /\ k = Len(chunks) /\ Tokens(tail) < Floor
                 /\ tail[1] \in ToSet(SubSeq(chunks[k], 1, Len(chunks[k]) - Len(tail)))
            /\ IF strategy = "structure" THEN OverByOneBlock(added)
               ELSE OverByOneSentence(size, added)

\* Exactly where the floor, the target and the ceiling give way, for every
\* document: a short one is one chunk, and of any other no chunk is under the
\* floor or over its limit elsewhere (rules.py:260-330, 333-344, 378-397).
SizesAreBounded ==
    Packed =>
        IF Tokens(JoinedText(Everything)) < Floor + Smallest THEN Len(chunks) = 1
        ELSE ShortOnlyBeforeTable /\ OverTargetByOne
=============================================================================
