-------------------------- MODULE StructureProofs --------------------------
(***************************************************************************)
(* What holds of every document, of any length: first of the one that      *)
(* parse_structure reads (module Structure), then of the chunks that are   *)
(* packed from it (module Chunking), whose variables are beside those of   *)
(* the parser and have other names.                                        *)
(***************************************************************************)
EXTENDS Structure, Chunking, FiniteSetTheorems, NaturalsInduction, SequenceTheorems, WellFoundedInduction, TLAPS

Section == [heading : Nat, blocks : Seq(Block)]

\* The locals of the body, as sequences.
ShapeInv ==
    /\ TypeOK
    /\ para \in Seq(Lines) /\ table \in Seq(Lines)
    /\ blocks \in Seq(Block) /\ sections \in Seq(Section)
    /\ pc \in {"title", "gap", "metadata"} =>
          heading = NoLine /\ para = <<>> /\ table = <<>> /\ blocks = <<>> /\ sections = <<>>

\* The last of each label among the lines of S.
LastOfEach(S) == {i \in S : \A j \in S : SameLabel(i, j) => j <= i}

\* The lines after the title that have been read.
Taken == {i \in AfterTitle : i < next}

\* Before the body: what has been read is the title and an unbroken block of
\* labels that began at the first line after it.
LeadInv ==
    /\ pc \in {"title", "gap"} => metadata = {} /\ Taken = {}
    /\ pc = "title" => \A i \in Written : next <= i
    /\ pc # "title" => \A i \in TitleLine : i < next
    /\ pc = "metadata" =>
         /\ metadata = LastOfEach(Taken)
         /\ \A i \in Taken : \A j \in i .. next - 1 : MatchesMetadata(j)
         /\ Taken = {} => AtEnd \/ ~IsBlank(next)
    /\ pc = "body" =>
         /\ metadata = LastOfEach(LeadingLabels)
         /\ \A i \in Written : i >= next => i \in Body

\* The line the pending table begins with, or the one to look at.
Top == next - Len(table)

TablesOf(bs) == {b \in ToSet(bs) : b.rows # <<>>}
TablesSoFar == Tables \cup TablesOf(blocks)
HeaderIsAbove(b) ==
    LET above == b.rows[1] - 1 IN
    b.header = IF above \in Body /\ EndsInColon(above) THEN above ELSE NoLine

\* In the body: the pending table is the beginning of a run that ends at the
\* line to look at, the pending paragraph ends right above it, and every run
\* before it has become a table.
TableInv ==
    pc = "body" =>
        /\ \A k \in DOMAIN table :
              table[k] = Top + k - 1 /\ table[k] \in Body /\ IsTableRow(table[k])
        /\ Top - 1 \in Body => ~IsTableRow(Top - 1)
        /\ para # <<>> => Last(para) = Top - 1 /\ Top - 1 \in Body
        /\ Top - 1 \in Body /\ EndsInColon(Top - 1) => para # <<>>
        /\ {ToSet(b.rows) : b \in TablesSoFar} = {r \in Runs : \A i \in r : i < Top}
        /\ \A b \in TablesSoFar : HeaderIsAbove(b)

IInv == ShapeInv /\ LeadInv /\ TableInv /\ MetadataIsLeadingBlock /\ TablesAreWholeRuns

-----------------------------------------------------------------------------
(* The lines.                                                             *)

\* A set of naturals has a least element.
LEMMA Least ==
    ASSUME NEW S \in SUBSET Nat, S # {}
    PROVE  \E x \in S : \A y \in S : x <= y
<1> DEFINE R == OpToRel(<, Nat)
<1>1. IsWellFoundedOn(R, Nat)
  BY NatLessThanWellFounded
<1>2. \A x, y \in Nat : x < y => <<x, y>> \in R
  BY DEF OpToRel
<1> HIDE DEF R
<1>3. PICK x \in S : \A y \in S : ~(<<y, x>> \in R)
  BY <1>1, WFMin
<1>4. ASSUME NEW y \in S PROVE x <= y
  <2>1. ~(y < x)
    BY <1>2, <1>3
  <2> QED
    BY <2>1
<1> QED
  BY <1>4

LEMMA LinesOfDoc ==
    ASSUME TypeOK
    PROVE  /\ Len(doc) \in Nat /\ Lines = 1 .. Len(doc) /\ Lines \subseteq Nat /\ NoLine \notin Lines
           /\ LeadingLabels \subseteq AfterTitle /\ AfterTitle \subseteq Written
           /\ TitleLine \subseteq Written /\ Written \subseteq Lines /\ Body \subseteq AfterTitle
           /\ next \in 1 .. Len(doc) + 1 /\ next \in Nat
  BY DEF TypeOK, Lines, LeadingLabels, AfterTitle, TitleLine, Written, Body, NoLine

\* No step changes the document.
LEMMA DocFixed ==
    ASSUME doc' = doc
    PROVE  /\ Lines' = Lines /\ Written' = Written /\ TitleLine' = TitleLine /\ AfterTitle' = AfterTitle
           /\ LeadingLabels' = LeadingLabels /\ Body' = Body /\ Runs' = Runs
           /\ \A S : LastOfEach(S)' = LastOfEach(S)
           /\ \A b : HeaderIsAbove(b)' = HeaderIsAbove(b)
           /\ \A i : /\ IsBlank(i)' = IsBlank(i) /\ IsTableRow(i)' = IsTableRow(i)
                     /\ MatchesMetadata(i)' = MatchesMetadata(i) /\ EndsInColon(i)' = EndsInColon(i)
<1>1. /\ Lines' = Lines /\ \A i : IsBlank(i)' = IsBlank(i) /\ IsTableRow(i)' = IsTableRow(i)
      /\ \A i : MatchesMetadata(i)' = MatchesMetadata(i) /\ EndsInColon(i)' = EndsInColon(i)
  BY DEF Lines, IsBlank, IsTableRow, MatchesMetadata, EndsInColon
<1>2. Written' = Written
  BY <1>1 DEF Written
<1>3. TitleLine' = TitleLine
  BY <1>2 DEF TitleLine
<1>4. AfterTitle' = AfterTitle
  BY <1>2, <1>3 DEF AfterTitle
<1>5. LeadingLabels' = LeadingLabels
  BY <1>1, <1>4 DEF LeadingLabels
<1>6. Body' = Body
  BY <1>4, <1>5 DEF Body
<1>7. Runs' = Runs
  BY <1>1, <1>6 DEF Runs
<1>8. \A S : LastOfEach(S)' = LastOfEach(S)
  BY DEF LastOfEach, SameLabel
<1>9. \A b : HeaderIsAbove(b)' = HeaderIsAbove(b)
  BY <1>1, <1>6 DEF HeaderIsAbove
<1> QED
  BY <1>1, <1>2, <1>3, <1>4, <1>5, <1>6, <1>7, <1>8, <1>9

-----------------------------------------------------------------------------
(* Before the body.                                                       *)

\* Nothing has been read.
LEMMA InitIInv == Init => IInv
<1> SUFFICES ASSUME Init PROVE IInv
  OBVIOUS
<1>1. doc \in Seq(Kinds)
  BY LineAssumption DEF Init, SeqOf
<1>2. TypeOK
  BY <1>1 DEF Init, TypeOK, ToSet, NoLine, Lines
<1>3. ShapeInv
  BY <1>2 DEF Init, ShapeInv
<1>4. \A i \in Written : next <= i
  BY <1>2, LinesOfDoc DEF Init
<1>5. Taken = {}
  BY <1>2, <1>4, LinesOfDoc DEF Taken
<1>6. LeadInv
  BY <1>4, <1>5 DEF Init, LeadInv
<1> QED
  BY <1>3, <1>6 DEF Init, IInv, TableInv, MetadataIsLeadingBlock, TablesAreWholeRuns, Done

LEMMA EarlyShape ==
    ASSUME ShapeInv, SkipBlank \/ TakeTitle \/ EndGap \/ TakeMetadata \/ EndMetadata
    PROVE  /\ ShapeInv' /\ doc' = doc /\ UNCHANGED bodyVars
           /\ pc' \in {"title", "gap", "metadata", "body"}
<1>1. doc' = doc /\ UNCHANGED bodyVars
  BY DEF SkipBlank, TakeTitle, EndGap, TakeMetadata, EndMetadata
<1>2. Lines' = Lines
  BY <1>1, DocFixed
<1>3. next \in Nat /\ (next \in Lines => next + 1 \in 1 .. Len(doc) + 1) /\ (~AtEnd => next \in Lines)
  BY LinesOfDoc DEF ShapeInv, AtEnd
<1>4. /\ next' \in 1 .. Len(doc) + 1 /\ title' \in Lines \cup {NoLine} /\ metadata' \subseteq Lines
      /\ pc' \in {"title", "gap", "metadata", "body"}
  BY <1>3 DEF ShapeInv, TypeOK, SkipBlank, TakeTitle, EndGap, TakeMetadata, EndMetadata, OnBlank, OnMetadata
<1>5. TypeOK'
  BY <1>1, <1>2, <1>4 DEF ShapeInv, TypeOK, bodyVars
<1>6. pc \in {"title", "gap", "metadata"}
  BY DEF SkipBlank, TakeTitle, EndGap, TakeMetadata, EndMetadata
<1> QED
  BY <1>1, <1>2, <1>4, <1>5, <1>6 DEF ShapeInv, bodyVars

\* A line is skipped, taken as the title, or ends the search for metadata.
LEMMA BeforeMetadata ==
    ASSUME IInv, SkipBlank \/ TakeTitle \/ EndGap
    PROVE  IInv'
<1>1. /\ ShapeInv' /\ doc' = doc /\ ShapeInv /\ TypeOK
      /\ metadata = {} /\ Taken = {} /\ metadata' = {} /\ pc' \in {"title", "gap", "metadata"}
  BY EarlyShape DEF IInv, ShapeInv, LeadInv, SkipBlank, TakeTitle, EndGap
<1>2. \A i \in Written : i \in Nat /\ i \in Lines
  BY <1>1, LinesOfDoc
<1>3. \A i \in AfterTitle : i \in Written /\ i \notin TitleLine /\ next <= i
  BY <1>1, <1>2, LinesOfDoc DEF Taken, AfterTitle
<1>4. CASE SkipBlank
  <2>1. next \notin Written /\ pc' = pc /\ next' = next + 1
    BY <1>4 DEF SkipBlank, OnBlank, Written
  <2>2. \A i \in AfterTitle : next' <= i
    BY <1>1, <1>2, <1>3, <2>1, LinesOfDoc
  <2>3. pc = "title" => \A i \in Written : next' <= i
    BY <1>1, <1>2, <2>1, LinesOfDoc DEF IInv, LeadInv
  <2>4. pc # "title" => \A i \in TitleLine : i < next'
    BY <1>1, <1>2, <2>1, LinesOfDoc DEF IInv, LeadInv
  <2>5. Taken' = {}
    BY <1>1, <1>2, <1>3, <2>1, <2>2, LinesOfDoc, DocFixed DEF Taken
  <2>6. LeadInv'
    BY <1>1, <1>4, <2>1, <2>3, <2>4, <2>5, DocFixed DEF LeadInv, SkipBlank
  <2> QED
    BY <1>1, <1>4, <2>6 DEF IInv, TableInv, MetadataIsLeadingBlock, TablesAreWholeRuns, Done, SkipBlank
<1>5. CASE TakeTitle
  <2>1. next \in Written /\ pc' = "gap" /\ next' = next + 1 /\ \A i \in Written : next <= i
    BY <1>1, <1>5, LinesOfDoc DEF TakeTitle, Written, AtEnd, IInv, LeadInv
  <2>2. TitleLine = {next}
    BY <1>1, <1>2, <2>1, LinesOfDoc DEF TitleLine
  <2>3. \A i \in AfterTitle : next' <= i
    BY <1>1, <1>2, <1>3, <2>1, <2>2, LinesOfDoc
  <2>4. Taken' = {}
    BY <1>1, <1>2, <1>3, <2>1, <2>3, LinesOfDoc, DocFixed DEF Taken
  <2>5. \A i \in TitleLine : i < next'
    BY <1>1, <2>1, <2>2, LinesOfDoc
  <2>6. LeadInv'
    BY <1>1, <2>1, <2>4, <2>5, DocFixed DEF LeadInv
  <2> QED
    BY <1>1, <2>1, <2>6 DEF IInv, TableInv, MetadataIsLeadingBlock, TablesAreWholeRuns, Done
<1>6. CASE EndGap
  <2>1. pc' = "metadata" /\ next' = next /\ pc # "title" /\ (AtEnd \/ ~IsBlank(next))
    BY <1>6 DEF EndGap, OnBlank
  <2>2. Taken' = {} /\ (AtEnd' <=> AtEnd) /\ (IsBlank(next)' <=> IsBlank(next))
    BY <1>1, <2>1, DocFixed DEF Taken, AtEnd, IsBlank
  <2>3. LastOfEach({}) = {}
    BY DEF LastOfEach
  <2>4. LeadInv'
    BY <1>1, <2>1, <2>2, <2>3, DocFixed DEF IInv, LeadInv
  <2> QED
    BY <1>1, <2>1, <2>4 DEF IInv, TableInv, MetadataIsLeadingBlock, TablesAreWholeRuns, Done
<1> QED
  BY <1>4, <1>5, <1>6

\* A label takes the place of the line that had it before.
LEMMA MetadataLine == ASSUME IInv, TakeMetadata PROVE IInv'
<1>1. /\ ShapeInv' /\ doc' = doc /\ TypeOK /\ pc = "metadata" /\ pc' = "metadata" /\ next' = next + 1
      /\ metadata = LastOfEach(Taken) /\ (\A i \in TitleLine : i < next)
      /\ \A i \in Taken : \A j \in i .. next - 1 : MatchesMetadata(j)
  BY EarlyShape DEF IInv, ShapeInv, LeadInv, TakeMetadata
<1>2. \A i \in Written : i \in Nat /\ i \in Lines
  BY <1>1, LinesOfDoc
<1>3. next \in Lines /\ MatchesMetadata(next) /\ next \in Nat
  BY <1>1, LinesOfDoc DEF TakeMetadata, OnMetadata, AtEnd
<1>4. next \in AfterTitle
  BY <1>1, <1>3, LinesOfDoc DEF MatchesMetadata, Written, IsBlank, AfterTitle
<1>5. Taken' = Taken \cup {next} /\ \A i \in Taken : i < next /\ i \in Nat
  <2>1. Taken' = {i \in AfterTitle : i < next + 1}
    BY <1>1, DocFixed DEF Taken
  <2>2. \A i \in AfterTitle : i \in Nat
    BY <1>1, <1>2, LinesOfDoc
  <2>3. \A i \in AfterTitle : i < next + 1 <=> i < next \/ i = next
    BY <1>3, <2>2
  <2>4. Taken' = Taken \cup {next}
    BY <1>4, <2>1, <2>3 DEF Taken
  <2> QED
    BY <2>2, <2>4 DEF Taken
<1>6. metadata' = {i \in metadata : ~SameLabel(i, next)} \cup {next}
  BY DEF TakeMetadata
<1>7. metadata' = LastOfEach(Taken)'
  BY <1>1, <1>3, <1>5, <1>6, DocFixed DEF LastOfEach, SameLabel
<1>8. \A i \in Taken' : \A j \in i .. next' - 1 : MatchesMetadata(j)
  BY <1>1, <1>3, <1>5
<1>9. LeadInv'
  BY <1>1, <1>2, <1>5, <1>7, <1>8, LinesOfDoc, DocFixed DEF LeadInv
<1> QED
  BY <1>1, <1>9 DEF IInv, TableInv, MetadataIsLeadingBlock, TablesAreWholeRuns, Done

\* The block has ended: what was taken are the leading labels, and the body is
\* what has not been read.
LEMMA LeadingBlockEnds ==
    ASSUME ShapeInv, LeadInv, pc = "metadata", ~OnMetadata
    PROVE  LeadingLabels = Taken /\ Body = {i \in Written : next <= i}
<1>1. /\ TypeOK /\ (\A i \in TitleLine : i < next) /\ (Taken = {} => AtEnd \/ ~IsBlank(next))
      /\ \A i \in Taken : \A j \in i .. next - 1 : MatchesMetadata(j)
  BY DEF ShapeInv, LeadInv
<1>2. (\A i \in Written : i \in Nat /\ i \in Lines) /\ next \in Nat
  BY <1>1, LinesOfDoc
<1>3. ASSUME NEW i \in LeadingLabels PROVE i \in Taken
  <2>1. PICK from \in AfterTitle :
           (\A j \in AfterTitle : from <= j) /\ (\A j \in from .. i : MatchesMetadata(j))
    BY <1>3 DEF LeadingLabels
  <2>2. i \in AfterTitle /\ i \in Nat /\ from \in Nat /\ from <= i
    BY <1>1, <1>2, <1>3, <2>1, LinesOfDoc
  <2>3. SUFFICES ASSUME next <= i PROVE FALSE
    BY <1>2, <2>2 DEF Taken
  <2>4. next \in Lines /\ ~AtEnd /\ ~MatchesMetadata(next)
    BY <1>1, <1>2, <2>2, <2>3, LinesOfDoc DEF OnMetadata, AtEnd
  <2>5. next < from
    BY <1>2, <2>1, <2>2, <2>3, <2>4
  <2>6. Taken = {}
    BY <1>1, <1>2, <2>1, <2>5, LinesOfDoc DEF Taken
  <2>7. next \in AfterTitle
    BY <1>1, <1>2, <2>4, <2>6 DEF AfterTitle, Written
  <2> QED
    BY <1>2, <2>1, <2>2, <2>5, <2>7
<1>4. ASSUME NEW i \in Taken PROVE i \in LeadingLabels
  <2>1. i \in AfterTitle /\ i < next /\ AfterTitle \subseteq Nat /\ AfterTitle # {}
    BY <1>1, <1>2, <1>4, LinesOfDoc DEF Taken
  <2>2. PICK from \in AfterTitle : \A j \in AfterTitle : from <= j
    BY <2>1, Least
  <2>3. from <= i /\ from \in Taken /\ from \in Nat /\ i \in Nat
    BY <1>2, <2>1, <2>2 DEF Taken
  <2>4. \A j \in from .. i : MatchesMetadata(j)
    BY <1>1, <1>2, <2>1, <2>3
  <2> QED
    BY <2>1, <2>2, <2>4 DEF LeadingLabels
<1>5. LeadingLabels = Taken
  BY <1>3, <1>4
<1>6. Body = {i \in Written : next <= i}
  BY <1>1, <1>2, <1>5, LinesOfDoc DEF Body, Taken, AfterTitle
<1> QED
  BY <1>5, <1>6

LEMMA MetadataEnds == ASSUME IInv, EndMetadata PROVE IInv'
<1>1. /\ ShapeInv' /\ doc' = doc /\ TypeOK /\ pc = "metadata" /\ pc' = "body" /\ next' = next
      /\ metadata' = metadata /\ metadata = LastOfEach(Taken) /\ (\A i \in TitleLine : i < next)
  BY EarlyShape DEF IInv, ShapeInv, LeadInv, EndMetadata
<1>2. /\ table' = <<>> /\ para' = <<>> /\ blocks' = <<>> /\ sections' = <<>> /\ next \in Nat
      /\ \A i \in Written : i \in Nat
  BY <1>1, EarlyShape, LinesOfDoc DEF IInv, ShapeInv, EndMetadata, bodyVars
<1>3. LeadingLabels = Taken /\ Body = {i \in Written : next <= i}
  BY LeadingBlockEnds DEF IInv, EndMetadata
<1>4. LeadInv'
  BY <1>1, <1>3, DocFixed DEF LeadInv
<1>5. Top' = next /\ next - 1 \notin Body
  BY <1>1, <1>2, <1>3 DEF Top
<1>6. TablesSoFar' = {}
  BY <1>2 DEF TablesSoFar, Tables, TablesOf, ToSet
<1>7. {r \in Runs : \A i \in r : i < next} = {}
  BY <1>2, <1>3 DEF Runs
<1>8. TableInv'
  BY <1>1, <1>2, <1>5, <1>6, <1>7, DocFixed DEF TableInv
<1> QED
  BY <1>1, <1>4, <1>8 DEF IInv, MetadataIsLeadingBlock, TablesAreWholeRuns, Done

-----------------------------------------------------------------------------
(* The flushes.                                                           *)

\* The last line of a sequence and those before it.
LEMMA LastAndFront ==
    ASSUME NEW S, NEW s \in Seq(S), s # <<>>
    PROVE  Last(s) \in S /\ Front(s) \in Seq(S)
<1>1. Len(s) \in Nat \ {0} /\ \A i \in 1 .. Len(s) : s[i] \in S
  BY EmptySeq, ElementOfSeq
<1>2. Last(s) \in S
  BY <1>1 DEF Last
<1>3. SubSeq(s, 1, Len(s) - 1) \in Seq(S)
  BY <1>1, SubSeqProperties
<1> QED
  BY <1>2, <1>3 DEF Front

LEMMA LinesAreNat == ASSUME TypeOK, NEW s \in Seq(Lines) PROVE s \in Seq(Nat)
  BY LinesOfDoc, SeqMonotonic

LEMMA AppendAdds ==
    ASSUME NEW S, NEW s \in Seq(S), NEW e \in S
    PROVE  /\ Append(s, e) \in Seq(S) /\ Len(s) \in Nat /\ Len(Append(s, e)) = Len(s) + 1
           /\ DOMAIN s = 1 .. Len(s) /\ DOMAIN Append(s, e) = 1 .. Len(s) + 1
           /\ Append(s, e)[Len(s) + 1] = e /\ \A k \in 1 .. Len(s) : Append(s, e)[k] = s[k]
           /\ ToSet(Append(s, e)) = ToSet(s) \cup {e}
<1>1. /\ Append(s, e) \in Seq(S) /\ Len(s) \in Nat /\ Len(Append(s, e)) = Len(s) + 1
      /\ DOMAIN s = 1 .. Len(s) /\ DOMAIN Append(s, e) = 1 .. Len(s) + 1
      /\ Append(s, e)[Len(s) + 1] = e /\ \A k \in 1 .. Len(s) : Append(s, e)[k] = s[k]
  OBVIOUS
<1>2. 1 .. Len(s) + 1 = (1 .. Len(s)) \cup {Len(s) + 1}
  BY <1>1
<1>3. ToSet(Append(s, e)) = {Append(s, e)[k] : k \in 1 .. Len(s)} \cup {Append(s, e)[Len(s) + 1]}
  BY <1>1, <1>2 DEF ToSet
<1> QED
  BY <1>1, <1>3 DEF ToSet

\* A paragraph becomes a block without rows, if there is one.
LEMMA ParaFlushes ==
    ASSUME TypeOK, NEW bs \in Seq(Block), NEW ps \in Seq(Lines)
    PROVE  ParaFlushed(bs, ps) \in Seq(Block) /\ TablesOf(ParaFlushed(bs, ps)) = TablesOf(bs)
<1> DEFINE b == [header |-> NoLine, rows |-> <<>>, text |-> ps]
<1>1. b \in Block /\ b.rows = <<>>
  BY LinesAreNat DEF Block, NoLine
<1> HIDE DEF b
<1>2. Append(bs, b) \in Seq(Block) /\ ToSet(Append(bs, b)) = ToSet(bs) \cup {b}
  BY <1>1, AppendAdds
<1>3. ParaFlushed(bs, ps) = IF ps = <<>> THEN bs ELSE Append(bs, b)
  BY DEF ParaFlushed, b
<1> QED
  BY <1>1, <1>2, <1>3 DEF TablesOf

\* The table a flush adds.
Pending == [header |-> IF HasHeader THEN Last(para) ELSE NoLine, rows |-> table, text |-> <<>>]

LEMMA TableFlushes ==
    ASSUME ShapeInv
    PROVE  /\ TableFlushed.blocks \in Seq(Block) /\ TableFlushed.para \in Seq(Lines)
           /\ TablesOf(TableFlushed.blocks) =
                TablesOf(blocks) \cup (IF table = <<>> THEN {} ELSE {Pending})
<1> DEFINE rest == IF HasHeader THEN Front(para) ELSE para
           bs == ParaFlushed(blocks, rest)
<1>1. TypeOK /\ blocks \in Seq(Block) /\ para \in Seq(Lines) /\ table \in Seq(Lines)
  BY DEF ShapeInv
<1>2. rest \in Seq(Lines) /\ (HasHeader => Last(para) \in Nat)
  BY <1>1, LastAndFront, LinesOfDoc DEF HasHeader
<1>3. bs \in Seq(Block) /\ TablesOf(bs) = TablesOf(blocks)
  BY <1>1, <1>2, ParaFlushes
<1>4. Pending \in Block /\ Pending.rows = table
  BY <1>1, <1>2, LinesAreNat DEF Pending, Block, NoLine
<1>5. TableFlushed = IF table = <<>> THEN [blocks |-> blocks, para |-> para]
                     ELSE [blocks |-> Append(bs, Pending), para |-> <<>>]
  BY DEF TableFlushed, Pending
<1> HIDE DEF bs
<1>6. Append(bs, Pending) \in Seq(Block) /\ ToSet(Append(bs, Pending)) = ToSet(bs) \cup {Pending}
  BY <1>3, <1>4, AppendAdds
<1>7. CASE table = <<>>
  BY <1>1, <1>5, <1>7
<1>8. CASE table # <<>>
  <2>1. TableFlushed.blocks = Append(bs, Pending) /\ TableFlushed.para = <<>>
    BY <1>5, <1>8
  <2>2. TablesOf(Append(bs, Pending)) = TablesOf(bs) \cup {Pending}
    BY <1>4, <1>6, <1>8 DEF TablesOf
  <2> QED
    BY <1>3, <1>6, <1>8, <2>1, <2>2
<1> QED
  BY <1>7, <1>8

LEMMA AllFlushes ==
    ASSUME ShapeInv
    PROVE  /\ AllFlushed \in Seq(Block)
           /\ TablesOf(AllFlushed) = TablesOf(blocks) \cup (IF table = <<>> THEN {} ELSE {Pending})
  BY TableFlushes, ParaFlushes DEF ShapeInv, AllFlushed

\* A section takes its tables along.
LEMMA SectionFlushes ==
    ASSUME ShapeInv
    PROVE  /\ SectionFlushed \in Seq(Section)
           /\ UNION {TablesOf(SectionFlushed[k].blocks) : k \in DOMAIN SectionFlushed}
              = Tables \cup TablesOf(AllFlushed)
<1> DEFINE s == [heading |-> heading, blocks |-> AllFlushed]
<1>1. AllFlushed \in Seq(Block) /\ heading \in Nat /\ sections \in Seq(Section)
  BY AllFlushes, LinesOfDoc DEF ShapeInv, TypeOK, NoLine
<1>2. Tables = UNION {TablesOf(sections[k].blocks) : k \in DOMAIN sections}
  BY DEF Tables, TablesOf
<1>3. SectionFlushed = IF heading = NoLine /\ AllFlushed = <<>> THEN sections ELSE Append(sections, s)
  BY DEF SectionFlushed
<1>4. TablesOf(<<>>) = {}
  BY DEF TablesOf, ToSet
<1>5. s \in Section /\ s.blocks = AllFlushed
  BY <1>1 DEF Section
<1> HIDE DEF s
<1>6. /\ Append(sections, s) \in Seq(Section)
      /\ DOMAIN Append(sections, s) = DOMAIN sections \cup {Len(sections) + 1}
      /\ Append(sections, s)[Len(sections) + 1] = s
      /\ \A k \in DOMAIN sections : Append(sections, s)[k] = sections[k]
  BY <1>1, <1>5, AppendAdds
<1>7. UNION {TablesOf(Append(sections, s)[k].blocks) : k \in DOMAIN Append(sections, s)}
      = Tables \cup TablesOf(AllFlushed)
  BY <1>2, <1>5, <1>6
<1>8. CASE heading = NoLine /\ AllFlushed = <<>>
  BY <1>1, <1>2, <1>3, <1>4, <1>8
<1>9. CASE ~(heading = NoLine /\ AllFlushed = <<>>)
  BY <1>3, <1>6, <1>7, <1>9
<1> QED
  BY <1>8, <1>9

-----------------------------------------------------------------------------
(* The body.                                                              *)

LEMMA RunsAreRows == \A r \in Runs : r # {} /\ r \subseteq Body /\ \A i \in r : IsTableRow(i)
  BY DEF Runs

\* A pending table is a run of its own, from the first row to the line before
\* the one that ends it.
LEMMA PendingIsRun ==
    ASSUME ShapeInv, TableInv, pc = "body", table # <<>>, AtEnd \/ ~IsTableRow(next)
    PROVE  /\ ToSet(table) \in Runs /\ Top < next /\ table[1] = Top
           /\ \A r \in Runs : (\A i \in r : i < next) /\ ~(\A i \in r : i < Top) => r = ToSet(table)
           /\ \A i \in ToSet(table) : i < next
<1>1. /\ TypeOK /\ table \in Seq(Lines) /\ Len(table) \in Nat \ {0} /\ DOMAIN table = 1 .. Len(table)
      /\ next \in Nat /\ Body \subseteq Nat /\ Body \subseteq Lines /\ Lines = 1 .. Len(doc)
  BY LinesOfDoc, EmptySeq DEF ShapeInv
<1>2. /\ Top = next - Len(table) /\ Top \in Int /\ Top < next
      /\ \A k \in 1 .. Len(table) : table[k] = Top + k - 1 /\ table[k] \in Body /\ IsTableRow(table[k])
      /\ Top - 1 \in Body => ~IsTableRow(Top - 1)
  BY <1>1 DEF TableInv, Top
<1>3. ToSet(table) = Top .. next - 1
  <2>1. ToSet(table) \subseteq Top .. next - 1
    BY <1>1, <1>2 DEF ToSet
  <2>2. ASSUME NEW i \in Top .. next - 1 PROVE i \in ToSet(table)
    <3>1. i - Top + 1 \in 1 .. Len(table) /\ table[i - Top + 1] = i
      BY <1>1, <1>2
    <3> QED
      BY <1>1, <3>1 DEF ToSet
  <2> QED
    BY <2>1, <2>2
<1>4. \A i \in Top .. next - 1 : i \in Body /\ IsTableRow(i)
  BY <1>1, <1>2, <1>3 DEF ToSet
<1>5. \A i \in Body : IsTableRow(i) => i # next /\ i # Top - 1
  BY <1>1, <1>2, LinesOfDoc DEF AtEnd, Lines
<1>6. Top .. next - 1 \in Runs
  <2>1. Top \in Body /\ next - 1 \in Body /\ Top .. next - 1 # {}
    <3>1. Top \in Top .. next - 1 /\ next - 1 \in Top .. next - 1
      BY <1>1, <1>2
    <3> QED
      BY <1>4, <3>1
  <2>2. ASSUME NEW i \in Body \ (Top .. next - 1), IsTableRow(i)
        PROVE  {i - 1, i + 1} \cap (Top .. next - 1) = {}
    <3>1. i \in Nat /\ i # next /\ i # Top - 1 /\ i \notin Top .. next - 1
      BY <1>1, <1>5, <2>2
    <3>2. ASSUME NEW t \in Int, NEW n \in Int, i \notin t .. n - 1, i # n, i # t - 1
          PROVE  i - 1 \notin t .. n - 1 /\ i + 1 \notin t .. n - 1
      BY <3>1, <3>2
    <3>3. i - 1 \notin Top .. next - 1 /\ i + 1 \notin Top .. next - 1
      <4>1. Top \in Int /\ next \in Int
        BY <1>1, <1>2
      <4> HIDE DEF Top
      <4> QED
        BY <3>1, <3>2, <4>1
    <3> QED
      BY <3>3
  <2> QED
    BY <1>4, <2>1, <2>2 DEF Runs
<1>7. ASSUME NEW r \in Runs, \A i \in r : i < next, ~(\A i \in r : i < Top)
      PROVE  r = Top .. next - 1
  <2>1. PICK a \in Body, b \in Body : r = a .. b
    BY DEF Runs
  <2>2. /\ r # {} /\ (\A i \in r : i \in Body /\ IsTableRow(i)) /\ a \in Nat /\ b \in Nat
        /\ \A i \in Body \ r : IsTableRow(i) => i - 1 \notin r /\ i + 1 \notin r
    <3>1. \A i \in Body \ r : IsTableRow(i) => {i - 1, i + 1} \cap r = {}
      BY DEF Runs
    <3> QED
      BY <1>1, <2>1, <3>1, RunsAreRows
  <2>3. a <= b /\ a \in r /\ b \in r /\ b < next /\ Top <= b
    <3>1. a <= b /\ a \in r /\ b \in r
      BY <2>1, <2>2
    <3>2. PICK i \in r : ~(i < Top)
      BY <1>7
    <3>3. i \in Nat /\ i <= b
      BY <2>1, <2>2, <3>2
    <3> QED
      BY <1>2, <1>7, <2>2, <3>1, <3>2, <3>3
  <2>4. b = next - 1
    <3>1. SUFFICES ASSUME b + 1 \in Top .. next - 1 PROVE FALSE
      BY <1>1, <1>2, <2>2, <2>3
    <3>2. b + 1 \in Body /\ IsTableRow(b + 1) /\ b + 1 \notin r /\ (b + 1) - 1 = b
      BY <1>4, <2>1, <2>2, <3>1
    <3> QED
      BY <2>2, <2>3, <3>2
  <2>5. a <= Top
    <3>1. SUFFICES ASSUME a - 1 \in Top .. next - 1 PROVE FALSE
      BY <1>1, <1>2, <2>2, <2>3
    <3>2. a - 1 \in Body /\ IsTableRow(a - 1) /\ a - 1 \notin r /\ (a - 1) + 1 = a
      BY <1>4, <2>1, <2>2, <3>1
    <3> QED
      BY <2>2, <2>3, <3>2
  <2>6. Top <= a
    <3>1. SUFFICES ASSUME Top - 1 \in r PROVE FALSE
      BY <1>2, <2>1, <2>2, <2>3, <2>5
    <3> QED
      BY <1>5, <2>2, <3>1
  <2> QED
    BY <1>2, <2>1, <2>2, <2>4, <2>5, <2>6
<1>8. table[1] = Top
  BY <1>1, <1>2
<1>9. \A i \in ToSet(table) : i < next
  BY <1>1, <1>2, <1>3
<1> QED
  BY <1>2, <1>3, <1>6, <1>7, <1>8, <1>9

\* What a flush leaves has a table for every run before the line that caused
\* it, each with the line above it that introduces it.
LEMMA FlushTakesRuns ==
    ASSUME ShapeInv, TableInv, pc = "body", AtEnd \/ ~IsTableRow(next),
           NEW all, all = TablesSoFar \cup (IF table = <<>> THEN {} ELSE {Pending})
    PROVE  /\ {ToSet(b.rows) : b \in all} = {r \in Runs : \A i \in r : i < next}
           /\ \A b \in all : HeaderIsAbove(b)
<1>1. /\ {ToSet(b.rows) : b \in TablesSoFar} = {r \in Runs : \A i \in r : i < Top}
      /\ \A b \in TablesSoFar : HeaderIsAbove(b)
      /\ next \in Nat
  BY LinesOfDoc DEF TableInv, ShapeInv
<1>2. CASE table = <<>>
  <2>1. Top = next
    BY <1>1, <1>2, EmptySeq DEF Top
  <2> QED
    BY <1>1, <1>2, <2>1
<1>3. CASE table # <<>>
  <2>1. all = TablesSoFar \cup {Pending} /\ Pending.rows = table
    BY <1>3 DEF Pending
  <2>2. {ToSet(b.rows) : b \in all} = {ToSet(b.rows) : b \in TablesSoFar} \cup {ToSet(table)}
    BY <2>1
  <2>3. \A r \in Runs : (\A i \in r : i < Top) => (\A i \in r : i < next)
    <3>1. \A r \in Runs : \A i \in r : i \in Nat
      BY RunsAreRows, LinesOfDoc DEF ShapeInv
    <3>2. Top < next /\ Top \in Int
      BY <1>1, <1>3, PendingIsRun, EmptySeq DEF Top, ShapeInv
    <3> QED
      BY <1>1, <3>1, <3>2
  <2>4. {r \in Runs : \A i \in r : i < next} = {r \in Runs : \A i \in r : i < Top} \cup {ToSet(table)}
    BY <1>3, <2>3, PendingIsRun
  <2>5. HeaderIsAbove(Pending)
    <3>1. /\ Pending.header = IF HasHeader THEN Last(para) ELSE NoLine
          /\ Pending.rows[1] - 1 = Top - 1
      BY <1>3, PendingIsRun DEF Pending
    <3>2. /\ para # <<>> => Last(para) = Top - 1 /\ Top - 1 \in Body
          /\ Top - 1 \in Body /\ EndsInColon(Top - 1) => para # <<>>
      BY DEF TableInv
    <3> QED
      BY <3>1, <3>2 DEF HeaderIsAbove, HasHeader
  <2> QED
    BY <1>1, <2>1, <2>2, <2>4, <2>5
<1> QED
  BY <1>2, <1>3

LEMMA BodyShape ==
    ASSUME ShapeInv, doc' = doc, title' = title, metadata' = metadata, pc' \in {"body", "done"},
           next' \in {next} \cup {i + 1 : i \in Lines},
           heading' \in Lines \cup {NoLine}, para' \in Seq(Lines), table' \in Seq(Lines),
           blocks' \in Seq(Block), sections' \in Seq(Section)
    PROVE  ShapeInv'
<1>1. Lines' = Lines /\ Lines = 1 .. Len(doc) /\ Len(doc) \in Nat /\ next' \in 1 .. Len(doc) + 1
  BY DocFixed, LinesOfDoc DEF ShapeInv
<1>2. \A S, s : s \in Seq(S) => ToSet(s) \subseteq S
  BY DEF ToSet
<1>3. ToSet(para') \cup ToSet(table') \subseteq Lines /\ ToSet(blocks') \subseteq Block
  BY <1>2
<1>4. \A k \in DOMAIN sections' : ToSet(sections'[k].blocks) \subseteq Block
  <2>1. \A k \in DOMAIN sections' : sections'[k] \in Section
    OBVIOUS
  <2> QED
    BY <1>2, <2>1 DEF Section
<1>5. TypeOK'
  BY <1>1, <1>3, <1>4 DEF ShapeInv, TypeOK, ToSet
<1> QED
  BY <1>1, <1>5 DEF ShapeInv, Section

\* The line that is read, and what the body leaves alone.
LEMMA LineRead ==
    ASSUME IInv, NEW i \in Lines, BlankLine(i) \/ TableRow(i) \/ HeadingLine(i) \/ TextLine(i)
    PROVE  /\ ShapeInv' /\ LeadInv' /\ ShapeInv /\ TypeOK /\ TableInv
           /\ doc' = doc /\ pc = "body" /\ pc' = "body" /\ i = next /\ next' = i + 1 /\ i \in Nat
           /\ ~AtEnd /\ (i \in Body \/ IsBlank(i))
<1>1. /\ ShapeInv /\ TypeOK /\ LeadInv /\ TableInv
      /\ para \in Seq(Lines) /\ table \in Seq(Lines) /\ heading \in Lines \cup {NoLine}
      /\ blocks \in Seq(Block) /\ sections \in Seq(Section)
  BY DEF IInv, ShapeInv, TypeOK
<1>2. /\ doc' = doc /\ title' = title /\ metadata' = metadata /\ i = next /\ next' = next + 1
      /\ pc = "body" /\ pc' = "body"
  BY DEF BlankLine, TableRow, HeadingLine, TextLine, Reads
<1>3. /\ TableFlushed.blocks \in Seq(Block) /\ TableFlushed.para \in Seq(Lines)
      /\ AllFlushed \in Seq(Block) /\ SectionFlushed \in Seq(Section)
  BY <1>1, TableFlushes, AllFlushes, SectionFlushes
<1>4. /\ Append(table, i) \in Seq(Lines) /\ Append(TableFlushed.para, i) \in Seq(Lines)
      /\ <<>> \in Seq(Lines) /\ <<>> \in Seq(Block)
  BY <1>1, <1>3, AppendAdds, EmptySeq
<1>5. /\ heading' \in Lines \cup {NoLine} /\ para' \in Seq(Lines) /\ table' \in Seq(Lines)
      /\ blocks' \in Seq(Block) /\ sections' \in Seq(Section)
  BY <1>1, <1>3, <1>4 DEF BlankLine, TableRow, HeadingLine, TextLine
<1>6. ShapeInv'
  BY <1>1, <1>2, <1>5, BodyShape
<1>7. /\ i \in Nat /\ ~AtEnd /\ (\A j \in Written : j \in Nat) /\ TitleLine \subseteq Written
      /\ (\A j \in TitleLine : j < next) /\ metadata = LastOfEach(LeadingLabels)
      /\ (\A j \in Written : j >= next => j \in Body) /\ (i \in Written \/ IsBlank(i))
  BY <1>1, <1>2, LinesOfDoc DEF LeadInv, AtEnd, Written
<1>8. (\A j \in TitleLine : j < next + 1) /\ \A j \in Written : j >= next + 1 => j \in Body
  BY <1>2, <1>7
<1>9. LeadInv'
  BY <1>2, <1>7, <1>8, DocFixed DEF LeadInv
<1> QED
  BY <1>1, <1>2, <1>6, <1>7, <1>9

\* A row makes the pending table longer.
LEMMA TableRowStep == ASSUME IInv, NEW i \in Lines, TableRow(i) PROVE IInv'
<1>1. /\ ShapeInv' /\ LeadInv' /\ ShapeInv /\ TypeOK /\ TableInv /\ doc' = doc
      /\ pc = "body" /\ pc' = "body" /\ i = next /\ next' = i + 1 /\ i \in Nat
      /\ i \in Body \/ IsBlank(i)
  BY LineRead
<1>2. /\ table' = Append(table, i) /\ para' = para /\ blocks' = blocks /\ sections' = sections
      /\ IsTableRow(i) /\ table \in Seq(Lines)
  BY <1>1 DEF TableRow, ShapeInv
<1>3. i \in Body
  BY <1>1, <1>2 DEF IsBlank, IsTableRow
<1>4. /\ Len(table) \in Nat /\ Len(table') = Len(table) + 1 /\ DOMAIN table' = 1 .. Len(table) + 1
      /\ table'[Len(table) + 1] = i /\ (\A k \in 1 .. Len(table) : table'[k] = table[k])
      /\ DOMAIN table = 1 .. Len(table)
  BY <1>2, AppendAdds
<1>5. Top' = Top /\ Top = i - Len(table)
  BY <1>1, <1>4 DEF Top
<1>6. \A k \in DOMAIN table' : table'[k] = Top + k - 1 /\ table'[k] \in Body /\ IsTableRow(table'[k])
  BY <1>1, <1>2, <1>3, <1>4, <1>5 DEF TableInv
<1>7. TablesSoFar' = TablesSoFar
  BY <1>2 DEF TablesSoFar, Tables, TablesOf, ToSet
<1>8. TableInv'
  BY <1>1, <1>2, <1>5, <1>6, <1>7, DocFixed DEF TableInv
<1> QED
  BY <1>1, <1>8 DEF IInv, MetadataIsLeadingBlock, TablesAreWholeRuns, Done

\* Any other line ends the table above it.
LEMMA LineEndsTable ==
    ASSUME IInv, NEW i \in Lines, BlankLine(i) \/ HeadingLine(i) \/ TextLine(i),
           TablesSoFar' = TablesSoFar \cup (IF table = <<>> THEN {} ELSE {Pending}),
           para' = <<>> \/ (Last(para') = i /\ i \in Body),
           EndsInColon(i) => para' # <<>>
    PROVE  IInv'
<1>1. /\ ShapeInv' /\ LeadInv' /\ ShapeInv /\ TypeOK /\ TableInv /\ doc' = doc
      /\ pc = "body" /\ pc' = "body" /\ i = next /\ next' = i + 1 /\ i \in Nat
      /\ i \in Body \/ IsBlank(i)
  BY LineRead
<1>2. table' = <<>> /\ ~IsTableRow(i)
  BY DEF BlankLine, HeadingLine, TextLine, IsBlank, IsHeading, IsTableRow
<1>3. Top' = i + 1 /\ Top' - 1 = i
  BY <1>1, <1>2, EmptySeq DEF Top
<1>4. /\ {ToSet(b.rows) : b \in TablesSoFar'} = {r \in Runs : \A j \in r : j < i}
      /\ \A b \in TablesSoFar' : HeaderIsAbove(b)
  BY <1>1, <1>2, FlushTakesRuns
<1>5. ASSUME NEW r \in Runs PROVE (\A j \in r : j < i) <=> (\A j \in r : j < i + 1)
  <2>1. \A j \in r : j \in Nat /\ j # i
    BY <1>1, <1>2, RunsAreRows, LinesOfDoc
  <2> QED
    BY <1>1, <2>1
<1>6. {ToSet(b.rows) : b \in TablesSoFar'} = {r \in Runs : \A j \in r : j < i + 1}
  BY <1>4, <1>5
<1>7. TableInv'
  <2>1. \A k \in DOMAIN table' : FALSE
    BY <1>2, EmptySeq
  <2>2. para' # <<>> => Last(para') = i /\ i \in Body
    OBVIOUS
  <2> QED
    BY <1>1, <1>2, <1>3, <1>4, <1>6, <2>1, <2>2, DocFixed DEF TableInv
<1> QED
  BY <1>1, <1>7 DEF IInv, MetadataIsLeadingBlock, TablesAreWholeRuns, Done

LEMMA BlankLineStep == ASSUME IInv, NEW i \in Lines, BlankLine(i) PROVE IInv'
<1>1. blocks' = AllFlushed /\ para' = <<>> /\ sections' = sections /\ IsBlank(i)
  BY DEF BlankLine
<1>2. TablesSoFar' = TablesSoFar \cup (IF table = <<>> THEN {} ELSE {Pending})
  BY <1>1, AllFlushes DEF IInv, TablesSoFar, Tables, TablesOf
<1> QED
  BY <1>1, <1>2, LineEndsTable DEF IsBlank, EndsInColon

LEMMA HeadingLineStep == ASSUME IInv, NEW i \in Lines, HeadingLine(i) PROVE IInv'
<1>1. blocks' = <<>> /\ para' = <<>> /\ sections' = SectionFlushed /\ IsHeading(i)
  BY DEF HeadingLine
<1>2. Tables' = UNION {TablesOf(SectionFlushed[k].blocks) : k \in DOMAIN SectionFlushed}
  BY <1>1 DEF Tables, TablesOf
<1>3. TablesOf(blocks)' = {}
  BY <1>1 DEF TablesOf, ToSet
<1>4. TablesSoFar' = TablesSoFar \cup (IF table = <<>> THEN {} ELSE {Pending})
  BY <1>2, <1>3, SectionFlushes, AllFlushes DEF IInv, TablesSoFar
<1> QED
  BY <1>1, <1>4, LineEndsTable DEF IsHeading, EndsInColon

LEMMA TextLineStep == ASSUME IInv, NEW i \in Lines, TextLine(i) PROVE IInv'
<1>1. /\ blocks' = TableFlushed.blocks /\ para' = Append(TableFlushed.para, i)
      /\ sections' = sections /\ ~IsBlank(i)
  BY DEF TextLine
<1>2. TablesSoFar' = TablesSoFar \cup (IF table = <<>> THEN {} ELSE {Pending})
  BY <1>1, TableFlushes DEF IInv, TablesSoFar, Tables, TablesOf
<1>3. TableFlushed.para \in Seq(Lines)
  BY TableFlushes DEF IInv
<1>4. para' # <<>> /\ Last(para') = i
  BY <1>1, <1>3, AppendAdds, EmptySeq DEF Last
<1>5. i \in Body
  BY <1>1, LineRead
<1> QED
  BY <1>2, <1>4, <1>5, LineEndsTable

\* At the end every run has become a table of a section.
LEMMA FinishStep == ASSUME IInv, Finish PROVE IInv'
<1>1. /\ ShapeInv /\ TypeOK /\ LeadInv /\ TableInv /\ AtEnd
      /\ pc \in {"title", "body"} /\ pc' = "done" /\ doc' = doc /\ next' = next /\ title' = title
      /\ metadata' = metadata /\ heading' = heading /\ sections' = SectionFlushed
      /\ blocks' = <<>> /\ para' = <<>> /\ table' = <<>>
  BY DEF IInv, ShapeInv, Finish
<1>2. ShapeInv'
  BY <1>1, SectionFlushes, EmptySeq, BodyShape DEF ShapeInv, TypeOK
<1>3. next \in Nat /\ \A i \in Written : i \in Nat /\ i < next
  BY <1>1, LinesOfDoc DEF AtEnd
<1>4. pc = "title" => Written = {}
  BY <1>1, <1>3 DEF LeadInv
<1>5. LeadInv'
  <2>1. \A i \in TitleLine : i < next
    BY <1>1, <1>3, LinesOfDoc
  <2> QED
    BY <1>1, <2>1, DocFixed DEF LeadInv
<1>6. MetadataIsLeadingBlock'
  <2>1. metadata = LastOfEach(LeadingLabels)
    <3>1. CASE pc = "title"
      <4>1. LeadingLabels = {}
        BY <1>1, <1>4, <3>1, LinesOfDoc
      <4> QED
        BY <1>1, <3>1, <4>1 DEF LeadInv, LastOfEach
    <3>2. CASE pc = "body"
      BY <1>1, <3>2 DEF LeadInv
    <3> QED
      BY <1>1, <3>1, <3>2
  <2>2. metadata' = LastOfEach(LeadingLabels)'
    BY <1>1, <2>1, DocFixed
  <2> QED
    BY <2>2 DEF MetadataIsLeadingBlock, LastOfEach
<1>7. TablesAreWholeRuns'
  <2>1. Tables' = TablesSoFar \cup (IF table = <<>> THEN {} ELSE {Pending})
    BY <1>1, SectionFlushes, AllFlushes DEF Tables, TablesOf, TablesSoFar
  <2>2. {ToSet(b.rows) : b \in Tables'} = Runs /\ \A b \in Tables' : HeaderIsAbove(b)
    <3>1. CASE pc = "title"
      <4>1. Body = {} /\ table = <<>> /\ sections = <<>> /\ blocks = <<>>
        BY <1>1, <1>4, <3>1, LinesOfDoc DEF ShapeInv
      <4>2. Tables' = {}
        BY <2>1, <4>1 DEF TablesSoFar, Tables, TablesOf, ToSet
      <4>3. Runs = {}
        BY <4>1 DEF Runs
      <4> QED
        BY <4>2, <4>3
    <3>2. CASE pc = "body"
      <4>1. /\ {ToSet(b.rows) : b \in Tables'} = {r \in Runs : \A i \in r : i < next}
            /\ \A b \in Tables' : HeaderIsAbove(b)
        BY <1>1, <2>1, <3>2, FlushTakesRuns
      <4>2. \A r \in Runs : \A i \in r : i < next
        BY <1>1, <1>3, RunsAreRows, LinesOfDoc
      <4> QED
        BY <4>1, <4>2
    <3> QED
      BY <1>1, <3>1, <3>2
  <2>3. ({ToSet(b.rows) : b \in Tables} = Runs)' /\ (\A b \in Tables : HeaderIsAbove(b))'
    BY <1>1, <2>2, DocFixed
  <2> QED
    BY <2>3 DEF TablesAreWholeRuns, HeaderIsAbove
<1> QED
  BY <1>1, <1>2, <1>5, <1>6, <1>7 DEF IInv, TableInv

-----------------------------------------------------------------------------
(* FlattenSeq, which the library defines by a recursive function.         *)

\* f concatenates the first n elements of s, one after the other.
Concatenates(f, s, n) ==
    /\ n > 0 => f[1] = s[1]
    /\ \A i \in 2 .. n : f[i] = f[i - 1] \o s[i]

\* There is such a function for any length.
LEMMA SomeConcatenates ==
    ASSUME NEW s, NEW n \in Nat
    PROVE  \E f : f = [i \in 1 .. n |-> IF i = 1 THEN s[i] ELSE f[i - 1] \o s[i]]
<1> DEFINE Is(f, k) == f = [i \in 1 .. k |-> IF i = 1 THEN s[i] ELSE f[i - 1] \o s[i]]
           Missing == {m \in Nat : ~\E f : Is(f, m)}
<1>1. SUFFICES ASSUME Missing # {} PROVE FALSE
  OBVIOUS
<1>2. PICK m \in Missing : \A k \in Missing : m <= k
  <2>1. Missing \subseteq Nat
    OBVIOUS
  <2> HIDE DEF Missing
  <2> QED
    BY <1>1, <2>1, Least
<1>3. m \in Nat /\ ~\E f : Is(f, m)
  BY <1>2
<1>4. CASE m = 0
  <2>1. Is([i \in 1 .. 0 |-> s], 0)
    OBVIOUS
  <2> QED
    BY <1>3, <1>4, <2>1
<1>5. CASE m # 0
  <2>1. m - 1 \in Nat /\ \E f : Is(f, m - 1)
    <3> HIDE DEF Is
    <3>1. m - 1 \in Nat /\ ~(m <= m - 1)
      BY <1>3, <1>5
    <3>2. m - 1 \notin Missing
      BY <1>2, <3>1
    <3> QED
      BY <3>1, <3>2
  <2>2. PICK f : Is(f, m - 1)
    BY <2>1
  <2>3. \A i \in 1 .. m - 1 : f[i] = IF i = 1 THEN s[i] ELSE f[i - 1] \o s[i]
    <3> DEFINE e(i) == IF i = 1 THEN s[i] ELSE f[i - 1] \o s[i]
    <3>1. f = [i \in 1 .. m - 1 |-> e(i)]
      BY <2>2
    <3> HIDE DEF e
    <3>2. \A i \in 1 .. m - 1 : f[i] = e(i)
      BY <3>1
    <3> QED
      BY <3>2 DEF e
  <2> DEFINE last == f[m - 1] \o s[m]
             g == [i \in 1 .. m |-> IF i < m THEN f[i] ELSE IF i = 1 THEN s[i] ELSE last]
  <2> HIDE DEF last
  <2>4. /\ \A i \in 1 .. m - 1 : g[i] = f[i]
        /\ g[m] = IF m = 1 THEN s[m] ELSE last
        /\ g = [i \in 1 .. m |-> g[i]]
    BY <1>3, <1>5
  <2> HIDE DEF g
  <2>5. ASSUME NEW i \in 1 .. m PROVE g[i] = IF i = 1 THEN s[i] ELSE g[i - 1] \o s[i]
    <3>1. CASE i = m
      <4>1. m # 1 => m - 1 \in 1 .. m - 1
        BY <1>3, <1>5
      <4> QED
        BY <2>4, <3>1, <4>1 DEF last
    <3>2. CASE i # m
      <4>1. i \in 1 .. m - 1 /\ (i # 1 => i - 1 \in 1 .. m - 1)
        BY <1>3, <3>2
      <4> QED
        BY <2>3, <2>4, <4>1
    <3> QED
      BY <3>1, <3>2
  <2>6. Is(g, m)
    BY <2>4, <2>5
  <2> QED
    BY <1>3, <2>6
<1> QED
  BY <1>4, <1>5

LEMMA FlattenIsConcatenation ==
    ASSUME NEW s, Len(s) \in Nat \ {0}
    PROVE  \E f : Concatenates(f, s, Len(s)) /\ FlattenSeq(s) = f[Len(s)]
<1> DEFINE n == Len(s)
           e(h, i) == IF i = 1 THEN s[i] ELSE h[i - 1] \o s[i]
           f == CHOOSE h : h = [i \in 1 .. n |-> e(h, i)]
<1>1. FlattenSeq(s) = f[n]
  BY DEF FlattenSeq
<1>2. f = [i \in 1 .. n |-> e(f, i)]
  <2>1. \E h : h = [i \in 1 .. n |-> e(h, i)]
    BY SomeConcatenates
  <2> QED
    BY <2>1
<1> HIDE DEF e, f
<1>3. \A i \in 1 .. n : f[i] = e(f, i)
  BY <1>2
<1>4. Concatenates(f, s, n)
  <2>1. n \in Nat \ {0}
    OBVIOUS
  <2> HIDE DEF n
  <2>2. 1 \in 1 .. n /\ \A i \in 2 .. n : i \in 1 .. n /\ i # 1
    BY <2>1
  <2> QED
    BY <1>3, <2>2 DEF Concatenates, e
<1> QED
  BY <1>1, <1>4

\* It depends on the elements it has come by only.
LEMMA SameConcatenation ==
    ASSUME NEW f, NEW g, NEW s, NEW t, NEW n \in Nat,
           Concatenates(f, s, n), Concatenates(g, t, n), \A i \in 1 .. n : s[i] = t[i]
    PROVE  \A i \in 1 .. n : f[i] = g[i]
<1> DEFINE Differ == {i \in 1 .. n : f[i] # g[i]}
<1>1. SUFFICES ASSUME Differ # {} PROVE FALSE
  OBVIOUS
<1>2. PICK i \in Differ : \A k \in Differ : i <= k
  <2>1. Differ \subseteq Nat
    OBVIOUS
  <2> HIDE DEF Differ
  <2> QED
    BY <1>1, <2>1, Least
<1>3. i \in 1 .. n /\ f[i] # g[i] /\ \A k \in 1 .. n : f[k] # g[k] => i <= k
  BY <1>2
<1>4. i # 1
  BY <1>3 DEF Concatenates
<1>5. i \in 2 .. n /\ i - 1 \in 1 .. n /\ ~(i <= i - 1)
  BY <1>3, <1>4
<1>6. f[i - 1] = g[i - 1]
  BY <1>3, <1>5
<1>7. f[i] = f[i - 1] \o s[i] /\ g[i] = g[i - 1] \o t[i] /\ s[i] = t[i]
  BY <1>3, <1>5 DEF Concatenates
<1> QED
  BY <1>3, <1>6, <1>7

\* The concatenation of a longer sequence goes on where the shorter one's ends.
LEMMA FlattenAppend ==
    ASSUME NEW S, NEW s \in Seq(Seq(S)), NEW x \in Seq(S)
    PROVE  FlattenSeq(s) \in Seq(S) /\ FlattenSeq(Append(s, x)) = FlattenSeq(s) \o x
<1> DEFINE t == Append(s, x)
           n == Len(s)
<1>1. /\ n \in Nat /\ Len(t) = n + 1 /\ t[n + 1] = x
      /\ \A i \in 1 .. n : t[i] = s[i] /\ s[i] \in Seq(S)
  OBVIOUS
<1> HIDE DEF t
<1>2. PICK g : Concatenates(g, t, n + 1) /\ FlattenSeq(t) = g[n + 1]
  <2> HIDE DEF n
  <2>1. Len(t) \in Nat \ {0}
    BY <1>1
  <2>2. \E g : Concatenates(g, t, Len(t)) /\ FlattenSeq(t) = g[Len(t)]
    BY <2>1, FlattenIsConcatenation
  <2> QED
    BY <1>1, <2>2
<1>3. CASE n = 0
  <2>1. s = <<>> /\ FlattenSeq(s) = <<>>
    BY <1>3 DEF FlattenSeq
  <2>2. FlattenSeq(t) = x
    BY <1>1, <1>2, <1>3 DEF Concatenates
  <2> QED
    BY <2>1, <2>2, ConcatEmptySeq, EmptySeq DEF t
<1>4. CASE n # 0
  <2>1. PICK f : Concatenates(f, s, n) /\ FlattenSeq(s) = f[n]
    BY <1>1, <1>4, FlattenIsConcatenation
  <2> HIDE DEF n
  <2>2. n + 1 \in 2 .. n + 1 /\ (n + 1) - 1 = n /\ n \in 1 .. n
    BY <1>1, <1>4
  <2>3. g[n + 1] = g[n] \o x
    BY <1>1, <1>2, <2>2 DEF Concatenates
  <2>4. Concatenates(g, t, n)
    <3>1. n > 0 /\ n + 1 > 0 /\ \A i \in 2 .. n : i \in 2 .. n + 1
      BY <1>1, <1>4
    <3> QED
      BY <1>2, <3>1 DEF Concatenates
  <2>5. g[n] = f[n]
    BY <1>1, <2>1, <2>2, <2>4, SameConcatenation
  <2>6. \A i \in 1 .. n : f[i] \in Seq(S)
    <3> DEFINE Other == {i \in 1 .. n : f[i] \notin Seq(S)}
    <3>1. SUFFICES ASSUME Other # {} PROVE FALSE
      OBVIOUS
    <3>2. PICK i \in Other : \A k \in Other : i <= k
      <4>1. Other \subseteq Nat
        BY <1>1
      <4> HIDE DEF Other
      <4> QED
        BY <3>1, <4>1, Least
    <3>3. i \in 1 .. n /\ f[i] \notin Seq(S) /\ \A k \in 1 .. n : f[k] \notin Seq(S) => i <= k
      BY <3>2
    <3>4. i # 1
      BY <1>1, <2>1, <3>3 DEF Concatenates
    <3>5. i \in 2 .. n /\ i - 1 \in 1 .. n /\ ~(i <= i - 1)
      BY <1>1, <3>3, <3>4
    <3>6. f[i - 1] \in Seq(S)
      BY <3>3, <3>5
    <3>7. f[i] = f[i - 1] \o s[i] /\ s[i] \in Seq(S)
      BY <1>1, <2>1, <3>3, <3>5 DEF Concatenates
    <3> QED
      BY <3>3, <3>6, <3>7, ConcatProperties
  <2> QED
    BY <1>2, <2>1, <2>2, <2>3, <2>5, <2>6 DEF t
<1> QED
  BY <1>3, <1>4
-----------------------------------------------------------------------------
(* The text of blocks and sections.                                       *)

LinesOf(bs) == FlattenSeq([k \in DOMAIN bs |-> BlockLines(bs[k])])
SectionText(s) == LineIfAny(s.heading) \o SectionLines(s)
TextOf(ss) == FlattenSeq([k \in DOMAIN ss |-> SectionText(ss[k])])

LEMMA BlockLinesType == ASSUME NEW b \in Block PROVE BlockLines(b) \in Seq(Nat)
<1>1. b.header \in Nat /\ b.rows \in Seq(Nat) /\ b.text \in Seq(Nat)
  BY DEF Block
<1>2. LineIfAny(b.header) \in Seq(Nat)
  BY <1>1 DEF LineIfAny
<1> QED
  BY <1>1, <1>2, ConcatProperties DEF BlockLines

\* A block more is its lines more.
LEMMA LinesOfAppend ==
    ASSUME NEW bs \in Seq(Block), NEW b \in Block
    PROVE  LinesOf(bs) \in Seq(Nat) /\ LinesOf(Append(bs, b)) = LinesOf(bs) \o BlockLines(b)
<1> DEFINE s == [k \in DOMAIN bs |-> BlockLines(bs[k])]
           x == BlockLines(b)
           t == [k \in DOMAIN Append(bs, b) |-> BlockLines(Append(bs, b)[k])]
<1>1. /\ Len(bs) \in Nat /\ DOMAIN bs = 1 .. Len(bs) /\ DOMAIN Append(bs, b) = 1 .. Len(bs) + 1
      /\ Append(bs, b)[Len(bs) + 1] = b /\ \A k \in 1 .. Len(bs) : Append(bs, b)[k] = bs[k] /\ bs[k] \in Block
  BY AppendAdds
<1>2. \A k \in 1 .. Len(bs) : BlockLines(bs[k]) \in Seq(Nat)
  BY <1>1, BlockLinesType
<1>3. s \in Seq(Seq(Nat)) /\ Len(s) = Len(bs) /\ x \in Seq(Nat)
  BY <1>1, <1>2, BlockLinesType
<1>4. t = Append(s, x)
  <2>1. \A k \in 1 .. Len(bs) + 1 : BlockLines(Append(bs, b)[k]) \in Seq(Nat)
    BY <1>1, BlockLinesType
  <2>2. t \in Seq(Seq(Nat)) /\ Len(t) = Len(bs) + 1
    BY <1>1, <2>1
  <2>3. (\A k \in 1 .. Len(bs) : t[k] = s[k]) /\ t[Len(bs) + 1] = x
    BY <1>1
  <2> HIDE DEF s, t, x
  <2>4. /\ Append(s, x) \in Seq(Seq(Nat)) /\ Len(Append(s, x)) = Len(s) + 1
        /\ Append(s, x)[Len(s) + 1] = x /\ \A k \in 1 .. Len(s) : Append(s, x)[k] = s[k]
    BY <1>3, AppendAdds
  <2>5. \A k \in 1 .. Len(t) : t[k] = Append(s, x)[k]
    BY <1>1, <1>3, <2>2, <2>3, <2>4
  <2> QED
    BY <1>3, <2>2, <2>4, <2>5, SeqEqual
<1>5. LinesOf(bs) = FlattenSeq(s) /\ LinesOf(Append(bs, b)) = FlattenSeq(t)
  BY DEF LinesOf
<1> HIDE DEF s, t, x
<1>6. FlattenSeq(s) \in Seq(Nat) /\ FlattenSeq(Append(s, x)) = FlattenSeq(s) \o x
  BY <1>3, FlattenAppend
<1> QED
  BY <1>4, <1>5, <1>6 DEF x

LEMMA LinesOfNone == LinesOf(<<>>) = <<>> /\ TextOf(<<>>) = <<>>
  BY DEF LinesOf, TextOf, FlattenSeq

LEMMA Associative == \A s, t, u \in Seq(Nat) : (s \o t) \o u = s \o (t \o u)
<1>1. \A S : \A s, t, u \in Seq(S) : (s \o t) \o u = s \o (t \o u)
  BY ConcatAssociative, Zenon
<1> QED
  BY <1>1, SMTT(30)

LEMMA SectionTextType ==
    ASSUME NEW c \in Section
    PROVE  SectionText(c) \in Seq(Nat) /\ SectionLines(c) = LinesOf(c.blocks)
<1>1. c.heading \in Nat /\ c.blocks \in Seq(Block)
  BY DEF Section
<1>2. <<>> \in Seq(Block) /\ [header |-> NoLine, rows |-> <<>>, text |-> <<>>] \in Block
  BY DEF Block, NoLine
<1>3. LineIfAny(c.heading) \in Seq(Nat) /\ LinesOf(c.blocks) \in Seq(Nat)
  BY <1>1, <1>2, LinesOfAppend DEF LineIfAny
<1>4. SectionLines(c) = LinesOf(c.blocks)
  BY DEF SectionLines, LinesOf
<1> QED
  BY <1>3, <1>4, ConcatProperties DEF SectionText

\* A section more is its text more.
LEMMA TextOfAppend ==
    ASSUME NEW ss \in Seq(Section), NEW c \in Section
    PROVE  TextOf(ss) \in Seq(Nat) /\ TextOf(Append(ss, c)) = TextOf(ss) \o SectionText(c)
<1> DEFINE s == [k \in DOMAIN ss |-> SectionText(ss[k])]
           x == SectionText(c)
           t == [k \in DOMAIN Append(ss, c) |-> SectionText(Append(ss, c)[k])]
<1>1. /\ Len(ss) \in Nat /\ DOMAIN ss = 1 .. Len(ss) /\ DOMAIN Append(ss, c) = 1 .. Len(ss) + 1
      /\ Append(ss, c)[Len(ss) + 1] = c /\ \A k \in 1 .. Len(ss) : Append(ss, c)[k] = ss[k] /\ ss[k] \in Section
  BY AppendAdds
<1>2. \A k \in 1 .. Len(ss) : SectionText(ss[k]) \in Seq(Nat)
  BY <1>1, SectionTextType
<1>3. s \in Seq(Seq(Nat)) /\ Len(s) = Len(ss) /\ x \in Seq(Nat)
  BY <1>1, <1>2, SectionTextType
<1>4. t = Append(s, x)
  <2>1. \A k \in 1 .. Len(ss) + 1 : SectionText(Append(ss, c)[k]) \in Seq(Nat)
    BY <1>1, SectionTextType
  <2>2. t \in Seq(Seq(Nat)) /\ Len(t) = Len(ss) + 1
    BY <1>1, <2>1
  <2>3. (\A k \in 1 .. Len(ss) : t[k] = s[k]) /\ t[Len(ss) + 1] = x
    BY <1>1
  <2> HIDE DEF s, t, x
  <2>4. /\ Append(s, x) \in Seq(Seq(Nat)) /\ Len(Append(s, x)) = Len(s) + 1
        /\ Append(s, x)[Len(s) + 1] = x /\ \A k \in 1 .. Len(s) : Append(s, x)[k] = s[k]
    BY <1>3, AppendAdds
  <2>5. \A k \in 1 .. Len(t) : t[k] = Append(s, x)[k]
    BY <1>1, <1>3, <2>2, <2>3, <2>4
  <2> QED
    BY <1>3, <2>2, <2>4, <2>5, SeqEqual
<1>5. TextOf(ss) = FlattenSeq(s) /\ TextOf(Append(ss, c)) = FlattenSeq(t)
  BY DEF TextOf
<1> HIDE DEF s, t, x
<1>6. FlattenSeq(s) \in Seq(Nat) /\ FlattenSeq(Append(s, x)) = FlattenSeq(s) \o x
  BY <1>3, FlattenAppend
<1> QED
  BY <1>4, <1>5, <1>6 DEF x


\* A flush keeps the text: it only says which lines are a paragraph and which
\* a table.
LEMMA ParaKeepsText ==
    ASSUME TypeOK, NEW bs \in Seq(Block), NEW ps \in Seq(Lines)
    PROVE  LinesOf(ParaFlushed(bs, ps)) = LinesOf(bs) \o ps /\ LinesOf(bs) \in Seq(Nat)
<1> DEFINE b == [header |-> NoLine, rows |-> <<>>, text |-> ps]
<1>1. ps \in Seq(Nat) /\ <<>> \in Seq(Nat)
  BY LinesAreNat
<1>2. b \in Block /\ b.header = NoLine /\ b.rows = <<>> /\ b.text = ps
  BY <1>1 DEF Block, NoLine
<1>3. ParaFlushed(bs, ps) = IF ps = <<>> THEN bs ELSE Append(bs, b)
  BY DEF ParaFlushed
<1> HIDE DEF b
<1>4. BlockLines(b) = ps
  <2>1. <<>> \o <<>> = <<>> /\ <<>> \o ps = ps
    BY <1>1, ConcatEmptySeq
  <2> QED
    BY <1>2, <2>1 DEF BlockLines, LineIfAny
<1>5. LinesOf(bs) \in Seq(Nat) /\ LinesOf(Append(bs, b)) = LinesOf(bs) \o ps
  BY <1>2, <1>4, LinesOfAppend
<1>6. LinesOf(bs) \o <<>> = LinesOf(bs)
  BY <1>5, ConcatEmptySeq
<1> QED
  BY <1>3, <1>5, <1>6

LEMMA FrontAndLast ==
    ASSUME NEW s \in Seq(Nat), s # <<>>
    PROVE  Front(s) \o <<Last(s)>> = s /\ Front(s) \in Seq(Nat) /\ <<Last(s)>> \in Seq(Nat)
<1>1. Len(s) \in Nat \ {0} /\ Front(s) \in Seq(Nat) /\ Last(s) \in Nat
  BY LastAndFront, EmptySeq
<1>2. SubSeq(s, 1, Len(s)) = SubSeq(s, 1, Len(s) - 1) \o <<s[Len(s)]>>
  BY <1>1, SubSeqRecursiveSecond
<1> QED
  BY <1>1, <1>2, SubSeqFull DEF Front, Last

LEMMA TableKeepsText ==
    ASSUME ShapeInv
    PROVE  /\ LinesOf(TableFlushed.blocks) \in Seq(Nat) /\ LinesOf(blocks) \in Seq(Nat)
           /\ LinesOf(TableFlushed.blocks) \o TableFlushed.para = LinesOf(blocks) \o (para \o table)
<1> DEFINE rest == IF HasHeader THEN Front(para) ELSE para
           bs == ParaFlushed(blocks, rest)
<1>1. /\ TypeOK /\ blocks \in Seq(Block) /\ para \in Seq(Lines) /\ para \in Seq(Nat)
      /\ table \in Seq(Nat) /\ <<>> \in Seq(Nat) /\ <<>> \in Seq(Lines)
  BY LinesAreNat DEF ShapeInv
<1>2. HasHeader => para # <<>> /\ Last(para) \in Nat \ {NoLine}
  <2>1. para # <<>> => Last(para) \in Lines
    BY <1>1, LastAndFront
  <2> QED
    BY <1>1, <2>1, LinesOfDoc DEF HasHeader
<1>3. rest \in Seq(Lines)
  BY <1>1, <1>2, LastAndFront
<1>4. Pending \in Block /\ Pending.rows = table /\ Pending.text = <<>>
  BY <1>1, <1>2 DEF Pending, Block, NoLine
<1>5. TableFlushed = IF table = <<>> THEN [blocks |-> blocks, para |-> para]
                     ELSE [blocks |-> Append(bs, Pending), para |-> <<>>]
  BY DEF TableFlushed, Pending
<1>6. LinesOf(bs) = LinesOf(blocks) \o rest /\ LinesOf(blocks) \in Seq(Nat)
  BY <1>1, <1>3, ParaKeepsText
<1>7. bs \in Seq(Block)
  BY <1>1, <1>3, ParaFlushes
<1>8. LineIfAny(Pending.header) \in Seq(Nat) /\ rest \o LineIfAny(Pending.header) = para /\ rest \in Seq(Nat)
  <2>1. CASE HasHeader
    BY <1>1, <1>2, <2>1, FrontAndLast DEF Pending, LineIfAny
  <2>2. CASE ~HasHeader
    BY <1>1, <2>2, ConcatEmptySeq DEF Pending, LineIfAny
  <2> QED
    BY <2>1, <2>2
<1> HIDE DEF bs, rest
<1>9. CASE table = <<>>
  <2>1. TableFlushed.blocks = blocks /\ TableFlushed.para = para /\ para \o table = para
    BY <1>1, <1>5, <1>9, ConcatEmptySeq
  <2> QED
    BY <1>6, <2>1
<1>10. CASE table # <<>>
  <2> DEFINE h == LineIfAny(Pending.header)
             L == LinesOf(blocks)
  <2>1. TableFlushed.blocks = Append(bs, Pending) /\ TableFlushed.para = <<>>
    BY <1>5, <1>10
  <2>2. BlockLines(Pending) = h \o table
    <3>1. h \o table \in Seq(Nat)
      BY <1>1, <1>8, ConcatProperties
    <3> QED
      BY <1>4, <3>1, ConcatEmptySeq DEF BlockLines
  <2>3. LinesOf(Append(bs, Pending)) = (L \o rest) \o (h \o table)
    BY <1>4, <1>6, <1>7, <2>2, LinesOfAppend
  <2> HIDE DEF h, L
  <2>4. h \in Seq(Nat) /\ L \in Seq(Nat) /\ rest \o h = para
    BY <1>6, <1>8 DEF h, L
  <2>5. (L \o rest) \o (h \o table) = L \o ((rest \o h) \o table)
    <3>1. h \o table \in Seq(Nat)
      BY <1>1, <2>4, ConcatProperties
    <3>2. (L \o rest) \o (h \o table) = L \o (rest \o (h \o table))
      BY <1>8, <2>4, <3>1, Associative
    <3>3. (rest \o h) \o table = rest \o (h \o table)
      <4>1. rest \in Seq(Nat) /\ h \in Seq(Nat) /\ table \in Seq(Nat)
        BY <1>1, <1>8, <2>4
      <4> QED
        BY <4>1, Associative
    <3> QED
      BY <3>2, <3>3
  <2>6. L \o (para \o table) \in Seq(Nat)
    BY <1>1, <2>4, ConcatProperties
  <2> QED
    BY <1>6, <2>1, <2>3, <2>4, <2>5, <2>6, ConcatEmptySeq DEF L
<1> QED
  BY <1>9, <1>10

LEMMA AllKeepsText ==
    ASSUME ShapeInv
    PROVE  LinesOf(AllFlushed) = LinesOf(blocks) \o (para \o table) /\ LinesOf(AllFlushed) \in Seq(Nat)
<1>1. /\ LinesOf(AllFlushed) = LinesOf(TableFlushed.blocks) \o TableFlushed.para
      /\ TableFlushed.para \in Seq(Nat) /\ LinesOf(TableFlushed.blocks) \in Seq(Nat)
  BY TableFlushes, ParaKeepsText, LinesAreNat DEF ShapeInv, AllFlushed
<1> QED
  BY <1>1, TableKeepsText, ConcatProperties

\* The text read so far.
Read == TextOf(sections) \o (LineIfAny(heading) \o (LinesOf(blocks) \o (para \o table)))

LEMMA SectionKeepsText == ASSUME ShapeInv PROVE TextOf(SectionFlushed) = Read
<1> DEFINE c == [heading |-> heading, blocks |-> AllFlushed]
<1>1. AllFlushed \in Seq(Block) /\ heading \in Nat /\ sections \in Seq(Section)
  BY AllFlushes, LinesOfDoc DEF ShapeInv, TypeOK, NoLine
<1>2. c \in Section /\ c.heading = heading /\ c.blocks = AllFlushed
  BY <1>1 DEF Section
<1>3. SectionFlushed = IF heading = NoLine /\ AllFlushed = <<>> THEN sections ELSE Append(sections, c)
  BY DEF SectionFlushed
<1> HIDE DEF c
<1>4. SectionText(c) = LineIfAny(heading) \o (LinesOf(blocks) \o (para \o table))
  BY <1>2, SectionTextType, AllKeepsText DEF SectionText
<1>5. TextOf(sections) \in Seq(Nat) /\ TextOf(Append(sections, c)) = TextOf(sections) \o SectionText(c)
  BY <1>1, <1>2, TextOfAppend
<1>6. heading = NoLine /\ AllFlushed = <<>> => SectionText(c) = <<>>
  <2>1. <<>> \o <<>> = <<>>
    BY ConcatEmptySeq
  <2> QED
    BY <1>2, <2>1, SectionTextType, LinesOfNone DEF SectionText, LineIfAny
<1> QED
  BY <1>3, <1>4, <1>5, <1>6, ConcatEmptySeq DEF Read

-----------------------------------------------------------------------------
(* The induction, and what follows.                                       *)

\* Every step preserves the invariant.
LEMMA StepIInv == IInv /\ [Next]_vars => IInv'
<1> SUFFICES ASSUME IInv, [Next]_vars PROVE IInv'
  OBVIOUS
<1>1. CASE SkipBlank \/ TakeTitle \/ EndGap \/ TakeMetadata \/ EndMetadata
  BY <1>1, BeforeMetadata, MetadataLine, MetadataEnds
<1>2. CASE \E i \in Lines : BlankLine(i) \/ TableRow(i) \/ HeadingLine(i) \/ TextLine(i)
  BY <1>2, BlankLineStep, TableRowStep, HeadingLineStep, TextLineStep
<1>3. CASE Finish
  BY <1>3, FinishStep
<1>4. CASE UNCHANGED vars
  <2>1. ShapeInv' /\ Taken' = Taken /\ Top' = Top /\ TablesSoFar' = TablesSoFar /\ (AtEnd' <=> AtEnd)
    BY <1>4 DEF vars, IInv, ShapeInv, TypeOK, Taken, Top, TablesSoFar, Tables, TablesOf, AtEnd, Lines,
                AfterTitle, Written, TitleLine, IsBlank
  <2>2. LeadInv'
    BY <1>4, <2>1, DocFixed DEF vars, IInv, LeadInv
  <2>3. TableInv'
    BY <1>4, <2>1, DocFixed DEF vars, IInv, TableInv
  <2>4. MetadataIsLeadingBlock' /\ TablesAreWholeRuns'
    BY <1>4, DocFixed DEF vars, IInv, MetadataIsLeadingBlock, TablesAreWholeRuns, Done, Tables, SameLabel
  <2> QED
    BY <2>1, <2>2, <2>3, <2>4 DEF IInv
<1> QED
  BY <1>1, <1>2, <1>3, <1>4 DEF Next

\* The invariant holds at every line of every document.
THEOREM Invariance == Spec => []IInv
  BY InitIInv, StepIInv, PTL DEF Spec

-----------------------------------------------------------------------------
(* The order of the lines, on top of that.                                *)

\* What has been read of the body is in the result or pending, in order.
OrderInv ==
    /\ pc = "body" => InOrder(Read, {j \in Body : j < next})
    /\ Done => InOrder(Text, Body)

LEMMA NoneInOrder == InOrder(<<>>, {})
  BY DEF InOrder, ToSet

LEMMA OneMoreInOrder ==
    ASSUME NEW s \in Seq(Nat), NEW S \in SUBSET Nat, NEW i \in Nat, InOrder(s, S), \A j \in S : j < i
    PROVE  InOrder(s \o <<i>>, S \cup {i})
<1>1. s \o <<i>> = Append(s, i)
  OBVIOUS
<1>2. /\ DOMAIN s = 1 .. Len(s) /\ DOMAIN Append(s, i) = 1 .. Len(s) + 1 /\ Len(s) \in Nat
      /\ Append(s, i)[Len(s) + 1] = i /\ (\A k \in 1 .. Len(s) : Append(s, i)[k] = s[k])
      /\ ToSet(Append(s, i)) = ToSet(s) \cup {i}
  BY AppendAdds
<1>3. ToSet(s) = S /\ \A j, k \in 1 .. Len(s) : j < k => s[j] < s[k]
  BY <1>2 DEF InOrder
<1>4. \A k \in 1 .. Len(s) : s[k] < i
  BY <1>2, <1>3 DEF ToSet
<1>5. ASSUME NEW j \in 1 .. Len(s) + 1, NEW k \in 1 .. Len(s) + 1, j < k
      PROVE  Append(s, i)[j] < Append(s, i)[k]
  <2>1. j \in 1 .. Len(s) /\ (k \in 1 .. Len(s) \/ k = Len(s) + 1)
    BY <1>2, <1>5
  <2>2. CASE k \in 1 .. Len(s)
    BY <1>2, <1>3, <1>5, <2>1, <2>2
  <2>3. CASE k = Len(s) + 1
    BY <1>2, <1>4, <2>1, <2>3
  <2> QED
    BY <2>1, <2>2, <2>3
<1> QED
  BY <1>1, <1>2, <1>3, <1>5 DEF InOrder

LEMMA ReadParts ==
    ASSUME ShapeInv
    PROVE  /\ TextOf(sections) \in Seq(Nat) /\ LineIfAny(heading) \in Seq(Nat)
           /\ LinesOf(blocks) \in Seq(Nat) /\ para \in Seq(Nat) /\ table \in Seq(Nat)
           /\ para \o table \in Seq(Nat) /\ Read \in Seq(Nat)
<1>1. /\ TypeOK /\ blocks \in Seq(Block) /\ sections \in Seq(Section)
      /\ para \in Seq(Nat) /\ table \in Seq(Nat) /\ heading \in Nat /\ <<>> \in Seq(Block)
  BY LinesAreNat, LinesOfDoc DEF ShapeInv, TypeOK, NoLine
<1>2. LineIfAny(heading) \in Seq(Nat)
  BY <1>1 DEF LineIfAny
<1>3. LinesOf(blocks) \in Seq(Nat)
  BY TableKeepsText
<1>4. [heading |-> 0, blocks |-> <<>>] \in Section
  BY <1>1 DEF Section
<1>5. TextOf(sections) \in Seq(Nat)
  BY <1>1, <1>4, TextOfAppend
<1>6. para \o table \in Seq(Nat)
  BY <1>1, ConcatProperties
<1>7. LinesOf(blocks) \o (para \o table) \in Seq(Nat)
  BY <1>3, <1>6, ConcatProperties
<1>8. LineIfAny(heading) \o (LinesOf(blocks) \o (para \o table)) \in Seq(Nat)
  BY <1>2, <1>7, ConcatProperties
<1> QED
  BY <1>1, <1>2, <1>3, <1>5, <1>6, <1>8, ConcatProperties DEF Read

\* Concatenations of sequences of lines exist, and their brackets move.
LEMMA Closed == \A a, b \in Seq(Nat) : \E c \in Seq(Nat) : c = a \o b
  BY ConcatProperties

LEMMA Shift == \A x, u, w \in Seq(Nat) : w \o (u \o x) = (w \o u) \o x
  BY Associative, Zenon

\* What comes at the end of the last part comes at the end of the whole.
LEMMA AtTheEnd ==
    \A t, h, l, p, x \in Seq(Nat) : t \o (h \o (l \o (p \o x))) = (t \o (h \o (l \o p))) \o x
<1> SUFFICES ASSUME NEW t \in Seq(Nat), NEW h \in Seq(Nat), NEW l \in Seq(Nat), NEW p \in Seq(Nat),
                    NEW x \in Seq(Nat)
             PROVE  t \o (h \o (l \o (p \o x))) = (t \o (h \o (l \o p))) \o x
  OBVIOUS
<1>1. PICK lp \in Seq(Nat) : lp = l \o p
  BY Closed, Zenon
<1>2. PICK hlp \in Seq(Nat) : hlp = h \o lp
  BY Closed, Zenon
<1>3. \A u, w \in Seq(Nat) : w \o (u \o x) = (w \o u) \o x
  BY Shift, Zenon
<1>4. \A u \in Seq(Nat) : /\ l \o (u \o x) = (l \o u) \o x
                          /\ h \o (u \o x) = (h \o u) \o x
                          /\ t \o (u \o x) = (t \o u) \o x
  BY <1>3, Zenon
<1>5. /\ l \o (p \o x) = (l \o p) \o x
      /\ h \o (lp \o x) = (h \o lp) \o x
      /\ t \o (hlp \o x) = (t \o hlp) \o x
  BY <1>4, Zenon
<1>6. l \o (p \o x) = lp \o x
  BY <1>1, <1>5, Zenon
<1>7. h \o (l \o (p \o x)) = hlp \o x
  BY <1>2, <1>5, <1>6, Zenon
<1> QED
  BY <1>1, <1>2, <1>5, <1>7, Zenon

\* A line of the body comes at the end of the text, a blank one leaves it.
LEMMA LineIsRead ==
    ASSUME IInv, NEW i \in Lines, BlankLine(i) \/ TableRow(i) \/ HeadingLine(i) \/ TextLine(i)
    PROVE  Read' = IF IsBlank(i) THEN Read ELSE Read \o <<i>>
<1>1. /\ ShapeInv /\ i \in Nat /\ i # NoLine /\ <<i>> \in Seq(Nat) /\ <<>> \in Seq(Nat) /\ <<>> \o <<>> = <<>>
  BY LineRead, LinesOfDoc, ConcatEmptySeq
<1>2. Read \in Seq(Nat) /\ Read \o <<i>> \in Seq(Nat)
  BY <1>1, ReadParts, ConcatProperties
<1> DEFINE t == TextOf(sections)
           h == LineIfAny(heading)
<1>3. t \in Seq(Nat) /\ h \in Seq(Nat)
  BY <1>1, ReadParts
<1>4. CASE BlankLine(i)
  <2>1. /\ IsBlank(i) /\ sections' = sections /\ heading' = heading /\ blocks' = AllFlushed
        /\ para' = <<>> /\ table' = <<>>
    BY <1>4 DEF BlankLine
  <2>2. Read' = t \o (h \o (LinesOf(AllFlushed) \o <<>>))
    BY <1>1, <2>1 DEF Read, TextOf, LinesOf, LineIfAny
  <2>3. LinesOf(AllFlushed) = LinesOf(blocks) \o (para \o table) /\ LinesOf(AllFlushed) \in Seq(Nat)
    BY <1>1, AllKeepsText
  <2>4. LinesOf(AllFlushed) \o <<>> = LinesOf(AllFlushed)
    BY <2>3, ConcatEmptySeq
  <2> QED
    BY <2>1, <2>2, <2>3, <2>4 DEF Read
<1>5. CASE TableRow(i)
  <2>1. /\ ~IsBlank(i) /\ sections' = sections /\ heading' = heading /\ blocks' = blocks
        /\ para' = para /\ table' = Append(table, i)
    BY <1>5 DEF TableRow, IsBlank, IsTableRow
  <2>2. Append(table, i) = table \o <<i>> /\ para \in Seq(Nat) /\ table \in Seq(Nat)
    BY <1>1, ReadParts
  <2>3. para \o (table \o <<i>>) = (para \o table) \o <<i>>
    BY <1>1, <2>2, Associative
  <2> DEFINE l == LinesOf(blocks)
             p == para \o table
  <2>4. Read' = t \o (h \o (l \o (p \o <<i>>)))
    BY <2>1, <2>2, <2>3 DEF Read, TextOf, LinesOf, LineIfAny
  <2>5. l \in Seq(Nat) /\ p \in Seq(Nat)
    BY <1>1, ReadParts
  <2> HIDE DEF t, h, l, p
  <2>6. Read' = (t \o (h \o (l \o p))) \o <<i>>
    <3>1. <<i>> \in Seq(Nat) /\ t \in Seq(Nat) /\ h \in Seq(Nat)
      BY <1>1, <1>3
    <3> DEFINE x == <<i>>
    <3>2. Read' = t \o (h \o (l \o (p \o x))) /\ x \in Seq(Nat)
      BY <2>4, <3>1
    <3> HIDE DEF x
    <3>3. t \o (h \o (l \o (p \o x))) = (t \o (h \o (l \o p))) \o x
      <4>1. \A hh, ll, pp, xx \in Seq(Nat) : t \o (hh \o (ll \o (pp \o xx))) = (t \o (hh \o (ll \o pp))) \o xx
        BY <3>1, AtTheEnd, Zenon
      <4>2. \A ll, pp, xx \in Seq(Nat) : t \o (h \o (ll \o (pp \o xx))) = (t \o (h \o (ll \o pp))) \o xx
        BY <3>1, <4>1, Zenon
      <4>3. \A pp, xx \in Seq(Nat) : t \o (h \o (l \o (pp \o xx))) = (t \o (h \o (l \o pp))) \o xx
        BY <2>5, <4>2, Zenon
      <4>4. \A xx \in Seq(Nat) : t \o (h \o (l \o (p \o xx))) = (t \o (h \o (l \o p))) \o xx
        BY <2>5, <4>3, Zenon
      <4> QED
        BY <3>2, <4>4, Zenon
    <3>4. Read' = (t \o (h \o (l \o p))) \o x
      BY <3>2, <3>3, Zenon
    <3> QED
      BY <3>4 DEF x
  <2> QED
    BY <2>1, <2>6 DEF Read, t, h, l, p
<1>6. CASE HeadingLine(i)
  <2>1. /\ ~IsBlank(i) /\ sections' = SectionFlushed /\ heading' = i /\ blocks' = <<>>
        /\ para' = <<>> /\ table' = <<>>
    BY <1>6 DEF HeadingLine, IsBlank, IsHeading
  <2>2. Read' = TextOf(SectionFlushed) \o (<<i>> \o (LinesOf(<<>>) \o <<>>))
    BY <1>1, <2>1 DEF Read, TextOf, LinesOf, LineIfAny, NoLine
  <2>3. <<i>> \o (LinesOf(<<>>) \o <<>>) = <<i>>
    <3>1. LinesOf(<<>>) \o <<>> = <<>>
      BY <1>1, LinesOfNone
    <3> QED
      BY <1>1, <3>1, ConcatEmptySeq
  <2> QED
    BY <1>1, <2>1, <2>2, <2>3, SectionKeepsText
<1>7. CASE TextLine(i)
  <2> DEFINE l == LinesOf(TableFlushed.blocks)
             p == TableFlushed.para
  <2>1. /\ ~IsBlank(i) /\ sections' = sections /\ heading' = heading /\ blocks' = TableFlushed.blocks
        /\ para' = Append(p, i) /\ table' = <<>>
    BY <1>7 DEF TextLine
  <2>2. /\ p \in Seq(Nat) /\ l \in Seq(Nat) /\ l \o p = LinesOf(blocks) \o (para \o table)
    BY <1>1, TableFlushes, TableKeepsText, LinesAreNat DEF ShapeInv
  <2>3. Append(p, i) \o <<>> = p \o <<i>>
    <3> HIDE DEF p
    <3>1. Append(p, i) = p \o <<i>> /\ Append(p, i) \in Seq(Nat)
      <4>1. p \in Seq(Nat) /\ i \in Nat
        BY <1>1, <2>2
      <4> QED
        BY <4>1
    <3> QED
      BY <3>1, ConcatEmptySeq
  <2>4. Read' = t \o (h \o (l \o (p \o <<i>>)))
    BY <2>1, <2>3 DEF Read, TextOf, LinesOf, LineIfAny
  <2> HIDE DEF t, h, l, p
  <2>5. Read' = (t \o (h \o (l \o p))) \o <<i>>
    <3>1. <<i>> \in Seq(Nat) /\ t \in Seq(Nat) /\ h \in Seq(Nat)
      BY <1>1, <1>3
    <3> DEFINE x == <<i>>
    <3>2. Read' = t \o (h \o (l \o (p \o x))) /\ x \in Seq(Nat)
      BY <2>4, <3>1
    <3> HIDE DEF x
    <3>3. t \o (h \o (l \o (p \o x))) = (t \o (h \o (l \o p))) \o x
      <4>1. \A hh, ll, pp, xx \in Seq(Nat) : t \o (hh \o (ll \o (pp \o xx))) = (t \o (hh \o (ll \o pp))) \o xx
        BY <3>1, AtTheEnd, Zenon
      <4>2. \A ll, pp, xx \in Seq(Nat) : t \o (h \o (ll \o (pp \o xx))) = (t \o (h \o (ll \o pp))) \o xx
        BY <3>1, <4>1, Zenon
      <4>3. \A pp, xx \in Seq(Nat) : t \o (h \o (l \o (pp \o xx))) = (t \o (h \o (l \o pp))) \o xx
        BY <2>2, <4>2, Zenon
      <4>4. \A xx \in Seq(Nat) : t \o (h \o (l \o (p \o xx))) = (t \o (h \o (l \o p))) \o xx
        BY <2>2, <4>3, Zenon
      <4> QED
        BY <3>2, <4>4, Zenon
    <3>4. Read' = (t \o (h \o (l \o p))) \o x
      BY <3>2, <3>3, Zenon
    <3> QED
      BY <3>4 DEF x
  <2> QED
    BY <2>1, <2>2, <2>5 DEF Read, t, h
<1> QED
  BY <1>4, <1>5, <1>6, <1>7

\* Every step keeps the order.
LEMMA StepOrder == IInv /\ OrderInv /\ [Next]_vars => OrderInv'
<1> SUFFICES ASSUME IInv, OrderInv, [Next]_vars PROVE OrderInv'
  OBVIOUS
<1>1. ShapeInv /\ TypeOK /\ Body \subseteq Nat /\ next \in Nat
  BY LinesOfDoc DEF IInv, ShapeInv
<1>2. CASE SkipBlank \/ TakeTitle \/ EndGap \/ TakeMetadata
  BY <1>2 DEF OrderInv, Done, SkipBlank, TakeTitle, EndGap, TakeMetadata
<1>3. CASE EndMetadata
  <2>1. /\ doc' = doc /\ next' = next /\ pc' = "body" /\ sections' = <<>> /\ heading' = NoLine
        /\ blocks' = <<>> /\ para' = <<>> /\ table' = <<>>
    BY <1>1, <1>3 DEF EndMetadata, ShapeInv, bodyVars
  <2>2. {j \in Body : j < next} = {}
    <3>1. Body = {j \in Written : next <= j}
      BY <1>3, LeadingBlockEnds DEF IInv, EndMetadata
    <3>2. \A j \in Body : ~(j < next)
      BY <1>1, <3>1
    <3> QED
      BY <1>1, <3>2
  <2>3. Read' = <<>>
    <3>1. <<>> \o <<>> = <<>>
      BY ConcatEmptySeq
    <3> QED
      BY <2>1, <3>1, LinesOfNone DEF Read, TextOf, LinesOf, LineIfAny
  <2> QED
    BY <2>1, <2>2, <2>3, NoneInOrder, DocFixed DEF OrderInv, Done, InOrder
<1>4. ASSUME NEW i \in Lines, BlankLine(i) \/ TableRow(i) \/ HeadingLine(i) \/ TextLine(i) PROVE OrderInv'
  <2>1. /\ doc' = doc /\ pc = "body" /\ pc' = "body" /\ i = next /\ next' = i + 1 /\ i \in Nat
        /\ i \in Body \/ IsBlank(i)
    BY <1>4, LineRead
  <2>2. InOrder(Read, {j \in Body : j < i}) /\ Read \in Seq(Nat)
    BY <1>1, <2>1, ReadParts DEF OrderInv
  <2>3. \A j \in Body : j < i + 1 <=> j < i \/ j = i
    BY <1>1, <2>1
  <2>4. InOrder(Read', {j \in Body : j < i + 1})
    <3>1. CASE IsBlank(i)
      <4>1. i \notin Body
        BY <1>1, <3>1, LinesOfDoc DEF Written
      <4>2. {j \in Body : j < i + 1} = {j \in Body : j < i}
        BY <2>3, <4>1
      <4> QED
        BY <1>4, <2>2, <3>1, <4>2, LineIsRead
    <3>2. CASE ~IsBlank(i)
      <4>1. {j \in Body : j < i + 1} = {j \in Body : j < i} \cup {i}
        BY <2>1, <2>3, <3>2
      <4>2. {j \in Body : j < i} \in SUBSET Nat /\ \A k \in {j \in Body : j < i} : k < i
        BY <1>1
      <4>3. InOrder(Read \o <<i>>, {j \in Body : j < i} \cup {i})
        BY <2>1, <2>2, <4>2, OneMoreInOrder
      <4> QED
        BY <1>4, <3>2, <4>1, <4>3, LineIsRead
    <3> QED
      BY <3>1, <3>2
  <2> QED
    BY <2>1, <2>4, DocFixed DEF OrderInv, Done, InOrder
<1>5. CASE Finish
  <2>1. /\ doc' = doc /\ pc' = "done" /\ sections' = SectionFlushed /\ AtEnd /\ pc \in {"title", "body"}
    BY <1>5 DEF Finish
  <2>2. Text' = Read
    BY <1>1, <2>1, SectionKeepsText DEF Text, TextOf, SectionText
  <2>3. \A i \in Written : i < next /\ i \in Nat
    BY <1>1, <2>1, LinesOfDoc DEF AtEnd
  <2>4. InOrder(Read, Body)
    <3>1. CASE pc = "title"
      <4>1. Written = {}
        BY <1>1, <2>3, <3>1 DEF IInv, LeadInv
      <4>2. Body = {}
        BY <1>1, <4>1, LinesOfDoc
      <4>3. sections = <<>> /\ heading = NoLine /\ blocks = <<>> /\ para = <<>> /\ table = <<>>
        BY <1>1, <3>1 DEF ShapeInv
      <4>4. <<>> \o <<>> = <<>>
        BY ConcatEmptySeq
      <4>5. Read = <<>>
        BY <4>3, <4>4, LinesOfNone DEF Read, LineIfAny
      <4> QED
        BY <4>2, <4>5, NoneInOrder
    <3>2. CASE pc = "body"
      <4>1. {j \in Body : j < next} = Body
        BY <1>1, <2>3, LinesOfDoc
      <4> QED
        BY <3>2, <4>1 DEF OrderInv
    <3> QED
      BY <2>1, <3>1, <3>2
  <2> QED
    BY <2>1, <2>2, <2>4, DocFixed DEF OrderInv, Done, InOrder
<1>6. CASE UNCHANGED vars
  <2>1. Read' = Read /\ Text' = Text /\ Body' = Body
    BY <1>6, DocFixed DEF vars, Read, Text, TextOf, LinesOf, SectionLines
  <2> QED
    BY <1>6, <2>1 DEF vars, OrderInv, Done, InOrder
<1> QED
  BY <1>2, <1>3, <1>4, <1>5, <1>6 DEF Next

\* Parsing loses nothing and moves nothing, in a document of any length
\* (rules.py:163-230).
THEOREM BodyInOrderAlways == Spec => []BodyInOrder
<1>1. Init => OrderInv
  BY DEF Init, OrderInv, Done
<1>2. IInv /\ OrderInv => BodyInOrder
  BY DEF IInv, ShapeInv, OrderInv, BodyInOrder
<1> QED
  BY <1>1, <1>2, StepOrder, Invariance, PTL DEF Spec

\* A table is the whole of a run of indented lines, under the line that
\* introduces it, in a document of any length (rules.py:193-201, 215-226).
THEOREM TablesAreWholeRunsAlways == Spec => []TablesAreWholeRuns
<1>1. IInv => TablesAreWholeRuns
  BY DEF IInv
<1> QED
  BY <1>1, Invariance, PTL

\* The metadata are the last lines of each label in the unbroken block of
\* labels under the title, and nothing of the body (rules.py:163-186).
THEOREM MetadataIsLeadingBlockAlways == Spec => []MetadataIsLeadingBlock
<1>1. IInv => MetadataIsLeadingBlock
  BY DEF IInv
<1> QED
  BY <1>1, Invariance, PTL

-----------------------------------------------------------------------------
(* The sums of the library, which a function of sets defines.            *)

\* The element the library's sum takes next, and what the rest of s gives.
Chosen(s) == CHOOSE x \in s : TRUE
SumStep(h, f, s) == IF s = {} THEN 0 ELSE f[Chosen(s)] + h[s \ {Chosen(s)}]

\* h has the sum of f over every subset of S.
Sums(h, f, S) == \A s \in SUBSET S : h[s] = SumStep(h, f, s)

\* The element it takes is one of the set.
LEMMA ChosenIn == ASSUME NEW s, s # {} PROVE Chosen(s) \in s
  BY DEF Chosen

\* A set without one of its elements is smaller.
LEMMA Smaller ==
    ASSUME NEW s, IsFiniteSet(s), NEW x \in s
    PROVE  /\ IsFiniteSet(s \ {x}) /\ Cardinality(s \ {x}) \in Nat /\ Cardinality(s) \in Nat
           /\ Cardinality(s \ {x}) = Cardinality(s) - 1
           /\ ~(Cardinality(s) <= Cardinality(s \ {x}))
<1>1. /\ IsFiniteSet(s \ {x}) /\ Cardinality(s \ {x}) \in Nat /\ Cardinality(s) \in Nat
      /\ Cardinality(s \ {x}) = Cardinality(s) - 1
  BY FS_RemoveElement, FS_CardinalityType
<1> QED
  BY <1>1

\* Sets of a family that includes a set have a smallest.
LEMMA SmallestSet ==
    ASSUME NEW F, \A s \in F : IsFiniteSet(s), F # {}
    PROVE  \E s \in F : \A t \in F : Cardinality(s) <= Cardinality(t)
<1> DEFINE C == {Cardinality(s) : s \in F}
<1>1. C \in SUBSET Nat /\ C # {}
  BY FS_CardinalityType
<1>2. PICK c \in C : \A d \in C : c <= d
  <2> HIDE DEF C
  <2> QED
    BY <1>1, Least
<1> QED
  BY <1>2

\* There is such a function for every finite set.
LEMMA SomeSums ==
    ASSUME NEW f, NEW S, IsFiniteSet(S)
    PROVE  \E h : h = [s \in SUBSET S |-> SumStep(h, f, s)]
<1> DEFINE Small(n) == {s \in SUBSET S : Cardinality(s) <= n}
           Is(h, n) == \A s \in Small(n) : h[s] = SumStep(h, f, s)
           Missing == {n \in Nat : ~\E h : Is(h, n)}
<1>1. \A s \in SUBSET S : IsFiniteSet(s) /\ Cardinality(s) \in Nat /\ Cardinality(s) <= Cardinality(S)
  BY FS_Subset, FS_CardinalityType
<1>2. Missing = {}
  <2>1. SUFFICES ASSUME Missing # {} PROVE FALSE
    OBVIOUS
  <2>2. PICK n \in Missing : \A k \in Missing : n <= k
    <3>1. Missing \subseteq Nat
      OBVIOUS
    <3> HIDE DEF Missing
    <3> QED
      BY <2>1, <3>1, Least
  <2>3. n \in Nat /\ ~\E h : Is(h, n)
    BY <2>2
  <2> HIDE DEF Is
  <2>4. CASE n = 0
    <3>1. Is([s \in SUBSET S |-> 0], n)
      <4>1. \A s \in Small(n) : s = {}
        BY <1>1, <2>4, FS_EmptySet
      <4> QED
        BY <4>1 DEF Is, SumStep
    <3> QED
      BY <2>3, <3>1
  <2>5. CASE n # 0
    <3>1. n - 1 \in Nat /\ n - 1 \notin Missing
      <4>1. n - 1 \in Nat /\ ~(n <= n - 1)
        BY <2>3, <2>5
      <4> QED
        BY <2>2, <4>1
    <3>2. PICK h : Is(h, n - 1)
      BY <3>1
    <3> DEFINE g == [s \in SUBSET S |-> IF Cardinality(s) <= n - 1 THEN h[s] ELSE SumStep(h, f, s)]
    <3>3. ASSUME NEW s \in Small(n) PROVE g[s] = SumStep(h, f, s)
      <4>1. Cardinality(s) <= n - 1 => s \in Small(n - 1)
        OBVIOUS
      <4> QED
        BY <3>2, <4>1 DEF Is
    <3>4. ASSUME NEW s \in Small(n) PROVE SumStep(g, f, s) = SumStep(h, f, s)
      <4>1. CASE s = {}
        BY <4>1 DEF SumStep
      <4>2. CASE s # {}
        <5>1. Chosen(s) \in s
          BY <4>2, ChosenIn
        <5>2. s \ {Chosen(s)} \in SUBSET S /\ Cardinality(s \ {Chosen(s)}) <= n - 1
          BY <1>1, <2>3, <5>1, Smaller
        <5>3. g[s \ {Chosen(s)}] = h[s \ {Chosen(s)}]
          BY <5>2
        <5> HIDE DEF g
        <5> QED
          BY <5>3 DEF SumStep
      <4> QED
        BY <4>1, <4>2
    <3>5. Is(g, n)
      <4> HIDE DEF g
      <4> QED
        BY <3>3, <3>4 DEF Is
    <3> QED
      BY <2>3, <3>5
  <2> QED
    BY <2>4, <2>5
<1>3. PICK h : Is(h, Cardinality(S))
  <2>1. Cardinality(S) \in Nat
    BY FS_CardinalityType
  <2> QED
    BY <1>2, <2>1
<1> DEFINE g == [s \in SUBSET S |-> h[s]]
<1>4. ASSUME NEW s \in SUBSET S PROVE g[s] = SumStep(g, f, s)
  <2>1. h[s] = SumStep(h, f, s)
    BY <1>1, <1>3
  <2>2. SumStep(g, f, s) = SumStep(h, f, s)
    <3>1. s \ {Chosen(s)} \in SUBSET S
      OBVIOUS
    <3>2. g[s \ {Chosen(s)}] = h[s \ {Chosen(s)}]
      BY <3>1
    <3> HIDE DEF g
    <3> QED
      BY <3>2 DEF SumStep
  <2> QED
    BY <2>1, <2>2
<1>5. g = [s \in SUBSET S |-> g[s]]
  OBVIOUS
<1> HIDE DEF g
<1> QED
  BY <1>4, <1>5

\* The sum of the library is such an h.
LEMMA SumIs ==
    ASSUME NEW f, NEW S, IsFiniteSet(S)
    PROVE  \E h : Sums(h, f, S) /\ SumFunctionOnSet(f, S) = h[S]
<1> DEFINE h == CHOOSE g : g = [s \in SUBSET S |-> IF s = {} THEN 0 ELSE f[CHOOSE x \in s : TRUE] + g[s \ {CHOOSE x \in s : TRUE}]]
<1>1. SumFunctionOnSet(f, S) = h[S]
  BY DEF SumFunctionOnSet, FoldFunctionOnSet, MapThenFoldSet
<1>2. h = [s \in SUBSET S |-> SumStep(h, f, s)]
  <2>1. \E g : g = [s \in SUBSET S |-> IF s = {} THEN 0 ELSE f[CHOOSE x \in s : TRUE] + g[s \ {CHOOSE x \in s : TRUE}]]
    <3>1. PICK g : g = [s \in SUBSET S |-> SumStep(g, f, s)]
      BY SomeSums
    <3> QED
      BY <3>1, Zenon DEF SumStep, Chosen
  <2> QED
    BY <2>1 DEF SumStep, Chosen
<1> HIDE DEF h
<1>3. Sums(h, f, S)
  BY <1>2 DEF Sums
<1> QED
  BY <1>1, <1>3

\* The sums agree on what both have.
LEMMA SameSums ==
    ASSUME NEW f, NEW g, NEW h, NEW k, NEW S, NEW T, IsFiniteSet(S), T \subseteq S,
           Sums(h, f, S), Sums(k, g, T), \A x \in T : f[x] = g[x]
    PROVE  \A s \in SUBSET T : h[s] = k[s]
<1> DEFINE Differ == {s \in SUBSET T : h[s] # k[s]}
<1>1. SUFFICES ASSUME Differ # {} PROVE FALSE
  OBVIOUS
<1>2. PICK s \in Differ : \A t \in Differ : Cardinality(s) <= Cardinality(t)
  <2>1. \A t \in Differ : IsFiniteSet(t)
    BY FS_Subset
  <2> HIDE DEF Differ
  <2> QED
    BY <1>1, <2>1, SmallestSet
<1>3. s \in SUBSET T /\ h[s] # k[s] /\ IsFiniteSet(s)
  BY <1>2, FS_Subset
<1>4. h[s] = SumStep(h, f, s) /\ k[s] = SumStep(k, g, s)
  BY <1>3 DEF Sums
<1>5. s # {}
  BY <1>3, <1>4 DEF SumStep
<1> DEFINE x == Chosen(s)
           r == s \ {x}
<1>6. x \in s /\ r \in SUBSET T /\ f[x] = g[x]
  BY <1>3, <1>5, ChosenIn
<1>7. h[r] = k[r]
  <2>1. ~(Cardinality(s) <= Cardinality(r))
    BY <1>3, <1>6, Smaller
  <2>2. r \notin Differ
    BY <1>2, <2>1
  <2> QED
    BY <1>6, <2>2
<1>8. h[s] = f[x] + h[r] /\ k[s] = g[x] + k[r]
  BY <1>4, <1>5 DEF SumStep
<1> QED
  BY <1>3, <1>6, <1>7, <1>8

\* The sum over no elements, and over some.
LEMMA SumEmpty == ASSUME NEW f PROVE SumFunctionOnSet(f, {}) = 0
<1>1. PICK h : Sums(h, f, {}) /\ SumFunctionOnSet(f, {}) = h[{}]
  BY SumIs, FS_EmptySet
<1> QED
  BY <1>1 DEF Sums, SumStep

\* A sum, taken apart as the library does.
LEMMA SumNext ==
    ASSUME NEW f, NEW S, IsFiniteSet(S), S # {}
    PROVE  SumFunctionOnSet(f, S) = f[Chosen(S)] + SumFunctionOnSet(f, S \ {Chosen(S)})
<1> DEFINE T == S \ {Chosen(S)}
<1>1. IsFiniteSet(T) /\ T \subseteq S
  BY FS_Subset
<1>2. PICK h : Sums(h, f, S) /\ SumFunctionOnSet(f, S) = h[S]
  BY SumIs
<1>3. PICK k : Sums(k, f, T) /\ SumFunctionOnSet(f, T) = k[T]
  BY <1>1, SumIs
<1>4. h[T] = k[T]
  <2> HIDE DEF T
  <2> QED
    BY <1>1, <1>2, <1>3, SameSums
<1>5. h[S] = f[Chosen(S)] + h[T]
  BY <1>2 DEF Sums, SumStep
<1> QED
  BY <1>2, <1>3, <1>4, <1>5

\* A sum depends on the values over the set only.
LEMMA SameSum ==
    ASSUME NEW f, NEW g, NEW S, IsFiniteSet(S), \A x \in S : f[x] = g[x]
    PROVE  SumFunctionOnSet(f, S) = SumFunctionOnSet(g, S)
<1>1. PICK h : Sums(h, f, S) /\ SumFunctionOnSet(f, S) = h[S]
  BY SumIs
<1>2. PICK k : Sums(k, g, S) /\ SumFunctionOnSet(g, S) = k[S]
  BY SumIs
<1> QED
  BY <1>1, <1>2, SameSums

\* A sum of naturals is one.
LEMMA SumType ==
    ASSUME NEW f, NEW S, IsFiniteSet(S), \A x \in S : f[x] \in Nat
    PROVE  SumFunctionOnSet(f, S) \in Nat
<1> DEFINE Bad == {s \in SUBSET S : SumFunctionOnSet(f, s) \notin Nat}
<1>1. SUFFICES ASSUME Bad # {} PROVE FALSE
  OBVIOUS
<1>2. PICK s \in Bad : \A t \in Bad : Cardinality(s) <= Cardinality(t)
  <2>1. \A t \in Bad : IsFiniteSet(t)
    BY FS_Subset
  <2> HIDE DEF Bad
  <2> QED
    BY <1>1, <2>1, SmallestSet
<1>3. s \in SUBSET S /\ IsFiniteSet(s) /\ SumFunctionOnSet(f, s) \notin Nat
  BY <1>2, FS_Subset
<1>4. s # {}
  BY <1>3, SumEmpty
<1>5. Chosen(s) \in s /\ s \ {Chosen(s)} \in SUBSET S
  BY <1>3, <1>4, ChosenIn
<1>6. SumFunctionOnSet(f, s \ {Chosen(s)}) \in Nat
  <2>1. ~(Cardinality(s) <= Cardinality(s \ {Chosen(s)}))
    BY <1>3, <1>5, Smaller
  <2> QED
    BY <1>2, <1>5, <2>1
<1>7. SumFunctionOnSet(f, s) = f[Chosen(s)] + SumFunctionOnSet(f, s \ {Chosen(s)})
  BY <1>3, <1>4, SumNext
<1> QED
  BY <1>3, <1>5, <1>6, <1>7

\* Any element may be taken out first.
LEMMA SumTake ==
    ASSUME NEW f, NEW S, IsFiniteSet(S), \A x \in S : f[x] \in Nat
    PROVE  \A x \in S : SumFunctionOnSet(f, S) = f[x] + SumFunctionOnSet(f, S \ {x})
<1> DEFINE Off(s, x) == SumFunctionOnSet(f, s) # f[x] + SumFunctionOnSet(f, s \ {x})
           Bad == {s \in SUBSET S : \E x \in s : Off(s, x)}
<1>1. SUFFICES ASSUME Bad # {} PROVE FALSE
  OBVIOUS
<1>2. PICK s \in Bad : \A t \in Bad : Cardinality(s) <= Cardinality(t)
  <2>1. \A t \in Bad : IsFiniteSet(t)
    BY FS_Subset
  <2> HIDE DEF Bad
  <2> QED
    BY <1>1, <2>1, SmallestSet
<1>3. PICK x \in s : Off(s, x)
  BY <1>2
<1> DEFINE c == Chosen(s)
<1>4. s \in SUBSET S /\ IsFiniteSet(s) /\ c \in s /\ s # {}
  BY <1>2, <1>3, FS_Subset, ChosenIn
<1>5. SumFunctionOnSet(f, s) = f[c] + SumFunctionOnSet(f, s \ {c})
  BY <1>4, SumNext
<1> HIDE DEF c
<1>6. x # c
  BY <1>3, <1>5
<1>7. \A y \in s : \A z \in s \ {y} :
        SumFunctionOnSet(f, s \ {y}) = f[z] + SumFunctionOnSet(f, (s \ {y}) \ {z})
  <2> SUFFICES ASSUME NEW y \in s, NEW z \in s \ {y} PROVE ~Off(s \ {y}, z)
    OBVIOUS
  <2>1. s \ {y} \in SUBSET S /\ ~(Cardinality(s) <= Cardinality(s \ {y}))
    BY <1>4, Smaller
  <2>2. s \ {y} \notin Bad
    BY <1>2, <2>1
  <2> HIDE DEF Off
  <2> QED
    BY <2>1, <2>2
<1>8. /\ SumFunctionOnSet(f, s \ {c}) = f[x] + SumFunctionOnSet(f, (s \ {c}) \ {x})
      /\ SumFunctionOnSet(f, s \ {x}) = f[c] + SumFunctionOnSet(f, (s \ {x}) \ {c})
  BY <1>4, <1>6, <1>7
<1>9. (s \ {c}) \ {x} = (s \ {x}) \ {c}
  OBVIOUS
<1>10. f[x] \in Nat /\ f[c] \in Nat /\ SumFunctionOnSet(f, (s \ {x}) \ {c}) \in Nat
  <2>1. IsFiniteSet((s \ {x}) \ {c}) /\ \A y \in (s \ {x}) \ {c} : f[y] \in Nat
    BY <1>4, FS_Subset
  <2> QED
    BY <1>4, <2>1, SumType
<1> QED
  BY <1>3, <1>5, <1>8, <1>9, <1>10

-----------------------------------------------------------------------------
(* The text of a document, block by block.                                *)

\* What a text is a sequence of.
Piece == [block : Nat, part : Nat, tokens : Nat \ {0}, ends : BOOLEAN]

\* A block has pieces, and each names its place.
LEMMA PiecesOf ==
    ASSUME parsed \in Seq(Blocks), NEW i \in DOMAIN parsed
    PROVE  /\ i \in Nat /\ Pieces(i) \in Seq(Piece) /\ Len(Pieces(i)) \in Nat \ {0}
           /\ \A k \in 1 .. Len(Pieces(i)) : Pieces(i)[k].block = i /\ Pieces(i)[k].part = k
<1> DEFINE n == Len(parsed[i].sentences)
           e(k) == [block |-> i, part |-> k, tokens |-> parsed[i].sentences[k],
                    ends |-> k < Len(parsed[i].sentences) \/ parsed[i].stop]
<1>1. i \in Nat /\ parsed[i] \in Blocks
  BY ElementOfSeq
<1>2. parsed[i].sentences \in Seq(Nat \ {0}) /\ parsed[i].sentences # <<>> /\ parsed[i].stop \in BOOLEAN
  BY <1>1, BlockAssumption DEF ParsedBlock
<1>3. n \in Nat \ {0} /\ DOMAIN parsed[i].sentences = 1 .. n
  BY <1>2, LenProperties, EmptySeq
<1>4. \A k \in 1 .. n : parsed[i].sentences[k] \in Nat \ {0}
  BY <1>2, <1>3, ElementOfSeq
<1>5. Pieces(i) = [k \in 1 .. n |-> e(k)]
  BY <1>3 DEF Pieces
<1> HIDE DEF n
<1>6. \A k \in 1 .. n : e(k) \in Piece /\ e(k).block = i /\ e(k).part = k
  BY <1>1, <1>2, <1>3, <1>4 DEF Piece
<1> HIDE DEF e
<1>7. Pieces(i) \in Seq(Piece) /\ Len(Pieces(i)) = n /\ \A k \in 1 .. n : Pieces(i)[k] = e(k)
  BY <1>3, <1>5, <1>6
<1> QED
  BY <1>1, <1>3, <1>6, <1>7

\* The text of some of the document's blocks, and of one more.
LEMMA JoinedOneMore ==
    ASSUME parsed \in Seq(Blocks), NEW bs \in Seq(DOMAIN parsed), NEW i \in DOMAIN parsed
    PROVE  /\ JoinedText(bs) \in Seq(Piece)
           /\ JoinedText(Append(bs, i)) = JoinedText(bs) \o Pieces(i)
<1> DEFINE n == Len(bs)
           cs == Append(bs, i)
           s == [k \in DOMAIN bs |-> Pieces(bs[k])]
           t == [k \in DOMAIN cs |-> Pieces(cs[k])]
<1>1. /\ n \in Nat /\ DOMAIN bs = 1 .. n /\ DOMAIN cs = 1 .. n + 1 /\ cs[n + 1] = i
      /\ \A k \in 1 .. n : cs[k] = bs[k] /\ bs[k] \in DOMAIN parsed
  BY AppendAdds, ElementOfSeq
<1>2. \A k \in 1 .. n : Pieces(bs[k]) \in Seq(Piece)
  BY <1>1, PiecesOf
<1>3. s \in Seq(Seq(Piece)) /\ Len(s) = n /\ \A k \in 1 .. n : s[k] = Pieces(bs[k])
  BY <1>1, <1>2
<1>4. Pieces(i) \in Seq(Piece)
  BY PiecesOf
<1> HIDE DEF n
<1>5. t = Append(s, Pieces(i))
  <2>1. t = [k \in 1 .. n + 1 |-> Pieces(cs[k])]
    BY <1>1
  <2>2. \A k \in 1 .. n + 1 : k \in 1 .. n \/ k = n + 1
    BY <1>1
  <2>3. \A k \in 1 .. n + 1 : Pieces(cs[k]) \in Seq(Piece)
    BY <1>1, <1>2, <1>4, <2>2
  <2> DEFINE v == Append(s, Pieces(i))
  <2>4. v \in Seq(Seq(Piece)) /\ Len(v) = n + 1 /\ v[n + 1] = Pieces(i) /\ \A k \in 1 .. n : v[k] = s[k]
    <3> HIDE DEF s
    <3> QED
      BY <1>1, <1>3, <1>4, AppendProperties
  <2>5. t \in Seq(Seq(Piece)) /\ Len(t) = n + 1 /\ \A k \in 1 .. n + 1 : t[k] = Pieces(cs[k])
    <3> DEFINE e(k) == Pieces(cs[k])
    <3>1. t = [k \in 1 .. n + 1 |-> e(k)] /\ \A k \in 1 .. n + 1 : e(k) \in Seq(Piece)
      BY <2>1, <2>3
    <3> HIDE DEF t, cs, e
    <3>2. t \in Seq(Seq(Piece)) /\ Len(t) = n + 1 /\ \A k \in 1 .. n + 1 : t[k] = e(k)
      BY <1>1, <3>1
    <3> QED
      BY <3>2 DEF e
  <2>6. \A k \in 1 .. n + 1 : t[k] = v[k]
    BY <1>1, <1>3, <2>2, <2>4, <2>5
  <2> HIDE DEF t, v
  <2>7. t = v
    BY <2>4, <2>5, <2>6, SeqEqual
  <2> QED
    BY <2>7 DEF v
<1>6. FlattenSeq(s) \in Seq(Piece) /\ FlattenSeq(Append(s, Pieces(i))) = FlattenSeq(s) \o Pieces(i)
  <2> HIDE DEF s
  <2> QED
    BY <1>3, <1>4, FlattenAppend
<1>7. JoinedText(bs) = FlattenSeq(s) /\ JoinedText(cs) = FlattenSeq(t)
  BY DEF JoinedText
<1> QED
  BY <1>5, <1>6, <1>7

\* The text of no block, of one, of the first i.
LEMMA JoinedNone == JoinedText(<<>>) = <<>>
  BY DEF JoinedText, FlattenSeq

\* The text of one block is its pieces.
LEMMA JoinedOne ==
    ASSUME parsed \in Seq(Blocks), NEW i \in DOMAIN parsed
    PROVE  JoinedText(<<i>>) = Pieces(i)
<1>1. <<>> \in Seq(DOMAIN parsed) /\ <<i>> = Append(<<>>, i)
  OBVIOUS
<1>2. JoinedText(<<i>>) = <<>> \o Pieces(i)
  BY <1>1, JoinedOneMore, JoinedNone
<1> QED
  BY <1>2, PiecesOf, ConcatEmptySeq

\* The text of the first i blocks, and of all.
First(i) == JoinedText([k \in 1 .. i |-> k])
All == JoinedText(Everything)

\* The document's text is built one block after the other.
LEMMA FirstBlocks ==
    ASSUME parsed \in Seq(Blocks)
    PROVE  /\ Len(parsed) \in Nat /\ DOMAIN parsed = 1 .. Len(parsed)
           /\ First(0) = <<>> /\ All = First(Len(parsed))
           /\ \A i \in 0 .. Len(parsed) : First(i) \in Seq(Piece)
           /\ \A i \in 1 .. Len(parsed) : First(i) = First(i - 1) \o Pieces(i)
<1> DEFINE n == Len(parsed)
           u(i) == [k \in 1 .. i |-> k]
<1>1. n \in Nat /\ DOMAIN parsed = 1 .. n
  OBVIOUS
<1>2. u(0) = <<>>
  OBVIOUS
<1>3. All = First(n)
  BY <1>1 DEF All, First, Everything
<1> HIDE DEF n
<1>4. \A i \in 0 .. n : u(i) \in Seq(1 .. n) /\ Len(u(i)) = i
  BY <1>1
<1>5. ASSUME NEW i \in 1 .. n PROVE u(i) = Append(u(i - 1), i)
  <2>1. /\ u(i - 1) \in Seq(1 .. n) /\ Len(u(i - 1)) = i - 1
        /\ u(i) \in Seq(1 .. n) /\ Len(u(i)) = i
    <3>1. i \in 0 .. n /\ i - 1 \in 0 .. n
      BY <1>1
    <3> QED
      BY <1>4, <3>1
  <2>2. /\ Append(u(i - 1), i) \in Seq(1 .. n) /\ Len(Append(u(i - 1), i)) = i
        /\ \A k \in 1 .. i : Append(u(i - 1), i)[k] = k
    BY <1>1, <2>1
  <2> QED
    BY <2>1, <2>2, SeqEqual
<1>6. \A i \in 0 .. n : First(i) \in Seq(Piece)
  <2> SUFFICES ASSUME NEW i \in 0 .. n PROVE JoinedText(u(i)) \in Seq(Piece)
    BY DEF First
  <2>1. CASE n = 0
    <3>1. u(i) = u(0)
      BY <2>1
    <3> QED
      BY <1>2, <3>1, JoinedNone, EmptySeq
  <2>2. CASE n # 0
    <3>1. 1 \in DOMAIN parsed /\ u(i) \in Seq(DOMAIN parsed)
      BY <1>1, <1>4, <2>2
    <3> HIDE DEF u
    <3> QED
      BY <3>1, JoinedOneMore
  <2> QED
    BY <2>1, <2>2
<1>7. \A i \in 1 .. n : First(i) = First(i - 1) \o Pieces(i)
  <2> TAKE i \in 1 .. n
  <2>1. u(i - 1) \in Seq(DOMAIN parsed) /\ i \in DOMAIN parsed /\ u(i) = Append(u(i - 1), i)
    <3>1. i - 1 \in 0 .. n
      BY <1>1
    <3> QED
      BY <1>1, <1>4, <1>5, <3>1
  <2>2. First(i) = JoinedText(u(i)) /\ First(i - 1) = JoinedText(u(i - 1))
    BY DEF First
  <2> HIDE DEF u
  <2> QED
    BY <2>1, <2>2, JoinedOneMore
<1> QED
  BY <1>1, <1>2, <1>3, <1>6, <1>7, JoinedNone DEF n, First

\* Where block i starts in the text.
Off(i) == Len(First(i - 1)) + 1

\* The text of the first i blocks begins that of the first j.
LEMMA FirstIsPrefix ==
    ASSUME parsed \in Seq(Blocks), NEW j \in 0 .. Len(parsed), NEW i \in 0 .. j
    PROVE  /\ Len(First(i)) \in Nat /\ Len(First(j)) \in Nat /\ Len(First(i)) <= Len(First(j))
           /\ \A k \in 1 .. Len(First(i)) : First(j)[k] = First(i)[k]
<1> DEFINE Longer(m) == /\ Len(First(i)) <= Len(First(m))
                        /\ \A k \in 1 .. Len(First(i)) : First(m)[k] = First(i)[k]
           Not == {m \in i .. Len(parsed) : ~Longer(m)}
<1>1. /\ Len(parsed) \in Nat /\ i \in Nat /\ i <= Len(parsed) /\ j \in i .. Len(parsed)
      /\ \A m \in 0 .. Len(parsed) : First(m) \in Seq(Piece) /\ Len(First(m)) \in Nat
  BY FirstBlocks, LenProperties
<1>2. SUFFICES ASSUME Not # {} PROVE FALSE
  <2>1. Longer(j)
    BY <1>1, <1>2
  <2> QED
    BY <1>1, <2>1
<1>3. PICK m \in Not : \A k \in Not : m <= k
  <2>1. Not \subseteq Nat
    BY <1>1
  <2> HIDE DEF Not
  <2> QED
    BY <1>2, <2>1, Least
<1>4. m \in i .. Len(parsed) /\ ~Longer(m) /\ m # i
  BY <1>1, <1>3
<1>5. m - 1 \in i .. Len(parsed) /\ ~(m <= m - 1) /\ m - 1 \in 0 .. Len(parsed) /\ m \in 1 .. Len(parsed)
  BY <1>1, <1>4
<1>6. Longer(m - 1)
  BY <1>3, <1>5
<1>7. First(m) = First(m - 1) \o Pieces(m) /\ Pieces(m) \in Seq(Piece)
  BY <1>5, FirstBlocks, PiecesOf
<1>8. /\ Len(First(m)) >= Len(First(m - 1))
      /\ \A k \in 1 .. Len(First(m - 1)) : First(m)[k] = First(m - 1)[k]
  BY <1>1, <1>5, <1>7, ConcatProperties, LenProperties
<1>9. Len(First(i)) \in Nat /\ Len(First(m - 1)) \in Nat /\ Len(First(m)) \in Nat
  BY <1>1, <1>4, <1>5
<1>10. Longer(m)
  BY <1>6, <1>8, <1>9
<1> QED
  BY <1>4, <1>10

\* Blocks follow one another in the text.
LEMMA OffsetsOf ==
    ASSUME parsed \in Seq(Blocks)
    PROVE  /\ All \in Seq(Piece) /\ Len(All) \in Nat
           /\ Off(1) = 1 /\ Off(Len(parsed) + 1) = Len(All) + 1
           /\ \A i \in 1 .. Len(parsed) + 1 : Off(i) \in 1 .. Len(All) + 1
           /\ \A i \in 1 .. Len(parsed) : Off(i + 1) = Off(i) + Len(Pieces(i)) /\ Off(i) < Off(i + 1)
<1> DEFINE n == Len(parsed)
<1>1. /\ n \in Nat /\ DOMAIN parsed = 1 .. n /\ First(0) = <<>> /\ All = First(n)
      /\ \A i \in 0 .. n : First(i) \in Seq(Piece) /\ Len(First(i)) \in Nat
      /\ \A i \in 1 .. n : First(i) = First(i - 1) \o Pieces(i)
  BY FirstBlocks, LenProperties
<1>2. All \in Seq(Piece) /\ Len(All) \in Nat
  BY <1>1
<1>3. Off(1) = 1 /\ Off(n + 1) = Len(All) + 1
  <2>1. Len(First(0)) = 0
    BY <1>1
  <2>2. 1 - 1 = 0 /\ (n + 1) - 1 = n
    BY <1>1
  <2> QED
    BY <1>1, <2>1, <2>2 DEF Off
<1>4. ASSUME NEW i \in 1 .. n + 1 PROVE Off(i) \in 1 .. Len(All) + 1
  <2>1. i - 1 \in 0 .. n /\ n \in 0 .. Len(parsed) /\ i - 1 \in 0 .. n
    BY <1>1
  <2>2. Len(First(i - 1)) \in Nat /\ Len(First(i - 1)) <= Len(First(n))
    BY <1>1, <2>1, FirstIsPrefix
  <2> QED
    BY <1>1, <1>2, <2>2 DEF Off
<1>5. ASSUME NEW i \in 1 .. n PROVE Off(i + 1) = Off(i) + Len(Pieces(i)) /\ Off(i) < Off(i + 1)
  <2>1. (i + 1) - 1 = i /\ i - 1 \in 0 .. n /\ i \in DOMAIN parsed
    BY <1>1
  <2>2. /\ First(i - 1) \in Seq(Piece) /\ Pieces(i) \in Seq(Piece) /\ First(i) = First(i - 1) \o Pieces(i)
        /\ Len(Pieces(i)) \in Nat \ {0} /\ Len(First(i - 1)) \in Nat
    BY <1>1, <2>1, PiecesOf
  <2>3. Len(First(i)) = Len(First(i - 1)) + Len(Pieces(i))
    BY <2>2, ConcatProperties
  <2> QED
    BY <2>1, <2>2, <2>3 DEF Off
<1> QED
  BY <1>1, <1>2, <1>3, <1>4, <1>5

\* A block's pieces are where it starts.
LEMMA BlockInText ==
    ASSUME parsed \in Seq(Blocks), NEW i \in DOMAIN parsed
    PROVE  /\ i \in 1 .. Len(parsed)
           /\ \A k \in 1 .. Len(Pieces(i)) : All[Off(i) + k - 1] = Pieces(i)[k]
           /\ SubSeq(All, Off(i), Off(i + 1) - 1) = Pieces(i)
<1> DEFINE n == Len(parsed)
           p == Pieces(i)
<1>1. /\ n \in Nat /\ i \in 1 .. n /\ All = First(n) /\ i \in 0 .. n /\ n \in 0 .. Len(parsed)
      /\ First(i - 1) \in Seq(Piece) /\ Len(First(i - 1)) \in Nat /\ First(i) = First(i - 1) \o p
      /\ Len(First(i)) \in Nat
  <2>1. n \in Nat /\ i \in 1 .. n /\ i \in 0 .. n /\ i - 1 \in 0 .. n /\ n \in 0 .. Len(parsed)
    BY FirstBlocks
  <2> QED
    BY <2>1, FirstBlocks, LenProperties
<1>2. p \in Seq(Piece) /\ Len(p) \in Nat \ {0}
  BY PiecesOf
<1>3. /\ All \in Seq(Piece) /\ Len(All) \in Nat /\ Off(i + 1) = Off(i) + Len(p)
      /\ Off(i) \in 1 .. Len(All) + 1 /\ Off(i + 1) \in 1 .. Len(All) + 1
  <2>1. i \in 1 .. n + 1 /\ i + 1 \in 1 .. n + 1
    BY <1>1
  <2> QED
    BY <1>1, <2>1, OffsetsOf
<1>4. ASSUME NEW k \in 1 .. Len(p) PROVE All[Off(i) + k - 1] = p[k]
  <2>1. Len(First(i)) = Len(First(i - 1)) + Len(p) /\ First(i)[Len(First(i - 1)) + k] = p[k]
    BY <1>1, <1>2, ConcatProperties
  <2>2. Off(i) + k - 1 = Len(First(i - 1)) + k /\ Off(i) + k - 1 \in 1 .. Len(First(i))
    BY <1>1, <1>2, <2>1 DEF Off
  <2>3. All[Off(i) + k - 1] = First(i)[Off(i) + k - 1]
    BY <1>1, <2>2, FirstIsPrefix
  <2> QED
    BY <2>1, <2>2, <2>3
<1> DEFINE q == SubSeq(All, Off(i), Off(i + 1) - 1)
<1>5. q = p
  <2>1. q \in Seq(Piece) /\ Len(q) = Len(p) /\ \A k \in 1 .. Len(p) : q[k] = All[Off(i) + k - 1]
    <3>1. Off(i) \in Int /\ Off(i + 1) - 1 \in Int /\ \A k \in Off(i) .. Off(i + 1) - 1 : All[k] \in Piece
      BY <1>3, ElementOfSeq
    <3>2. Off(i) <= Off(i + 1) - 1 /\ (Off(i + 1) - 1) - Off(i) + 1 = Len(p)
      BY <1>2, <1>3
    <3>3. q \in Seq(Piece) /\ Len(q) = Len(p) /\ \A k \in 1 .. Len(p) : q[k] = All[Off(i) + k - 1]
      BY <3>1, <3>2, SubSeqProperties
    <3> QED
      BY <3>3
  <2> HIDE DEF q
  <2> QED
    BY <1>2, <1>4, <2>1, SeqEqual
<1> QED
  BY <1>1, <1>4, <1>5

\* A piece tells where it is, and so occurs once.
LEMMA Located ==
    ASSUME parsed \in Seq(Blocks), NEW x \in 1 .. Len(All)
    PROVE  /\ All[x].block \in DOMAIN parsed
           /\ x = Off(All[x].block) + All[x].part - 1
           /\ x < Off(All[x].block + 1) /\ Off(All[x].block) <= x
<1> DEFINE n == Len(parsed)
           Bad == {j \in 1 .. n + 1 : x < Off(j)}
<1>1. /\ n \in Nat /\ DOMAIN parsed = 1 .. n /\ Len(All) \in Nat /\ Off(n + 1) = Len(All) + 1
      /\ Off(1) = 1 /\ All \in Seq(Piece)
  BY FirstBlocks, OffsetsOf
<1>2. PICK j \in Bad : \A k \in Bad : j <= k
  <2>1. n + 1 \in Bad /\ Bad \subseteq Nat /\ Bad # {}
    BY <1>1
  <2> HIDE DEF Bad
  <2> QED
    BY <2>1, Least
<1>3. j \in 1 .. n + 1 /\ x < Off(j) /\ j # 1
  BY <1>1, <1>2
<1> DEFINE i == j - 1
<1>4. i \in 1 .. n /\ i + 1 = j /\ ~(j <= i) /\ i \in 1 .. n + 1
  BY <1>1, <1>3
<1>5. Off(i) <= x
  <2>1. i \notin Bad
    BY <1>2, <1>4
  <2>2. Off(i) \in 1 .. Len(All) + 1
    BY <1>4, OffsetsOf
  <2> QED
    BY <1>1, <1>4, <2>1, <2>2
<1>6. /\ Off(i) \in 1 .. Len(All) + 1 /\ Off(j) = Off(i) + Len(Pieces(i)) /\ Len(Pieces(i)) \in Nat
      /\ \A k \in 1 .. Len(Pieces(i)) : Pieces(i)[k].block = i /\ Pieces(i)[k].part = k
      /\ \A k \in 1 .. Len(Pieces(i)) : All[Off(i) + k - 1] = Pieces(i)[k]
  <2>1. i \in DOMAIN parsed /\ i \in 1 .. Len(parsed) + 1 /\ Off(i + 1) = Off(j)
    BY <1>1, <1>4
  <2> QED
    BY <1>4, <2>1, OffsetsOf, PiecesOf, BlockInText
<1> HIDE DEF i
<1> DEFINE k == x - Off(i) + 1
<1>7. k \in 1 .. Len(Pieces(i)) /\ Off(i) + k - 1 = x
  BY <1>1, <1>3, <1>5, <1>6
<1> HIDE DEF k
<1>8. All[x].block = i /\ All[x].part = k
  <2>1. All[Off(i) + k - 1] = Pieces(i)[k]
    BY <1>6, <1>7
  <2>2. All[x] = Pieces(i)[k]
    BY <1>7, <2>1
  <2> QED
    BY <1>6, <1>7, <2>2
<1>9. All[x].block + 1 = j
  BY <1>4, <1>8
<1> QED
  BY <1>1, <1>3, <1>4, <1>5, <1>7, <1>8, <1>9 DEF k

\* No piece is in the text twice.
LEMMA Distinct ==
    ASSUME parsed \in Seq(Blocks), NEW x \in 1 .. Len(All), NEW y \in 1 .. Len(All), All[x] = All[y]
    PROVE  x = y
<1>1. x = Off(All[x].block) + All[x].part - 1 /\ y = Off(All[y].block) + All[y].part - 1
  BY Located
<1> QED
  BY <1>1

\* Part of the text, from one place to before another.
Part(from, to) == SubSeq(All, from, to - 1)

\* What a part of the text holds.
LEMMA PartOf ==
    ASSUME parsed \in Seq(Blocks), NEW f \in 1 .. Len(All) + 1, NEW g \in f .. Len(All) + 1
    PROVE  /\ Part(f, g) \in Seq(Piece) /\ Len(Part(f, g)) = g - f /\ Len(Part(f, g)) \in Nat
           /\ \A k \in 1 .. g - f : Part(f, g)[k] = All[f + k - 1] /\ f + k - 1 \in f .. g - 1
           /\ ToSet(Part(f, g)) = {All[x] : x \in f .. g - 1}
<1>1. All \in Seq(Piece) /\ Len(All) \in Nat /\ f \in Int /\ g - 1 \in Int
  BY OffsetsOf
<1>2. \A k \in f .. g - 1 : All[k] \in Piece
  BY <1>1, ElementOfSeq
<1>3. Part(f, g) \in Seq(Piece) /\ Len(Part(f, g)) = g - f /\ \A k \in 1 .. g - f : Part(f, g)[k] = All[f + k - 1]
  <2>1. CASE f = g
    <3>1. Part(f, g) = <<>>
      BY <1>1, <2>1, SubSeqEmpty DEF Part
    <3> QED
      BY <1>1, <2>1, <3>1, EmptySeq
  <2>2. CASE f # g
    <3>1. f <= g - 1 /\ (g - 1) - f + 1 = g - f
      BY <1>1, <2>2
    <3>2. Part(f, g) \in Seq(Piece) /\ Len(Part(f, g)) = g - f
      BY <1>1, <1>2, <3>1, SubSeqProperties DEF Part
    <3>3. \A k \in 1 .. (g - 1) - f + 1 : SubSeq(All, f, g - 1)[k] = All[f + k - 1]
      BY <1>1, <1>2, <3>1, SubSeqProperties
    <3> QED
      BY <3>1, <3>2, <3>3 DEF Part
  <2> QED
    BY <2>1, <2>2
<1>4. \A k \in 1 .. g - f : f + k - 1 \in f .. g - 1
  BY <1>1
<1>5. \A x \in f .. g - 1 : x - f + 1 \in 1 .. g - f /\ f + (x - f + 1) - 1 = x
  BY <1>1
<1>6. DOMAIN Part(f, g) = 1 .. g - f
  BY <1>3
<1>7. ToSet(Part(f, g)) = {Part(f, g)[k] : k \in 1 .. g - f}
  BY <1>6 DEF ToSet
<1>8. {Part(f, g)[k] : k \in 1 .. g - f} = {All[x] : x \in f .. g - 1}
  <2>1. ASSUME NEW k \in 1 .. g - f PROVE Part(f, g)[k] \in {All[x] : x \in f .. g - 1}
    BY <1>3, <1>4
  <2>2. ASSUME NEW x \in f .. g - 1 PROVE All[x] \in {Part(f, g)[k] : k \in 1 .. g - f}
    <3>1. x - f + 1 \in 1 .. g - f /\ f + (x - f + 1) - 1 = x
      BY <1>5
    <3>2. Part(f, g)[x - f + 1] = All[f + (x - f + 1) - 1]
      BY <1>3, <3>1
    <3> QED
      BY <3>1, <3>2
  <2> QED
    BY <2>1, <2>2
<1>9. Len(Part(f, g)) \in Nat
  BY <1>3, LenProperties
<1> QED
  BY <1>3, <1>4, <1>7, <1>8, <1>9

\* Two parts one after the other.
LEMMA PartsJoin ==
    ASSUME parsed \in Seq(Blocks), NEW f \in 1 .. Len(All) + 1, NEW g \in f .. Len(All) + 1,
           NEW h \in g .. Len(All) + 1
    PROVE  Part(f, g) \o Part(g, h) = Part(f, h)
<1> DEFINE u == Part(f, g)
           v == Part(g, h)
           w == Part(f, h)
<1>1. Len(All) \in Nat /\ g \in 1 .. Len(All) + 1 /\ h \in f .. Len(All) + 1
  BY OffsetsOf
<1>2. /\ u \in Seq(Piece) /\ Len(u) = g - f /\ \A k \in 1 .. g - f : u[k] = All[f + k - 1]
      /\ v \in Seq(Piece) /\ Len(v) = h - g /\ \A k \in 1 .. h - g : v[k] = All[g + k - 1]
      /\ w \in Seq(Piece) /\ Len(w) = h - f /\ \A k \in 1 .. h - f : w[k] = All[f + k - 1]
  BY <1>1, PartOf
<1> HIDE DEF u, v, w
<1>3. u \o v \in Seq(Piece) /\ Len(u \o v) = Len(u) + Len(v)
      /\ \A k \in 1 .. Len(u) + Len(v) : (u \o v)[k] = IF k <= Len(u) THEN u[k] ELSE v[k - Len(u)]
  BY <1>2, ConcatProperties
<1>4. Len(u \o v) = h - f
  <2>1. f \in Int /\ g \in Int /\ h \in Int
    BY <1>1
  <2>2. Len(u \o v) = (g - f) + (h - g)
    BY <1>2, <1>3
  <2> QED
    BY <2>1, <2>2
<1>5. ASSUME NEW k \in 1 .. h - f PROVE (u \o v)[k] = w[k]
  <2>1. CASE k <= g - f
    <3>1. k \in 1 .. g - f /\ k \in 1 .. Len(u) + Len(v)
      <4>1. Len(u) = g - f /\ Len(v) = h - g /\ f \in Int /\ g \in Int /\ h \in Int
        BY <1>1, <1>2
      <4>2. k \in Int /\ 1 <= k /\ k <= h - f
        BY <4>1
      <4> QED
        BY <2>1, <4>1, <4>2
    <3> QED
      BY <1>2, <1>3, <2>1, <3>1
  <2>2. CASE ~(k <= g - f)
    <3>1. f \in Int /\ g \in Int /\ h \in Int
      BY <1>1
    <3>2. k - (g - f) \in 1 .. h - g /\ g + (k - (g - f)) - 1 = f + k - 1
      BY <2>2, <3>1
    <3>3. k \in 1 .. Len(u) + Len(v)
      BY <1>2, <3>1
    <3> QED
      BY <1>2, <1>3, <2>2, <3>2, <3>3
  <2> QED
    BY <2>1, <2>2
<1>6. u \o v = w
  BY <1>2, <1>3, <1>4, <1>5, SeqEqual
<1> QED
  BY <1>6 DEF u, v, w

-----------------------------------------------------------------------------
(* Sets of places, and how many of them are left from one on.             *)

\* How many of S are left from i on.
Left(S, i) == Cardinality({j \in S : j >= i})

\* The later the place, the less is left.
LEMMA LeftOf ==
    ASSUME NEW S \in SUBSET Nat, IsFiniteSet(S), NEW i \in Nat
    PROVE  /\ Left(S, i) \in Nat /\ Left(S, i) <= Cardinality(S) /\ IsFiniteSet({j \in S : j >= i})
           /\ (\A j \in S : i <= j) => Left(S, i) = Cardinality(S)
           /\ (\A j \in S : j < i) => Left(S, i) = 0
           /\ \A k \in Nat : i <= k => Left(S, k) <= Left(S, i)
           /\ i \in S => \A k \in Nat : i < k => Left(S, k) < Left(S, i)
           /\ i \in S => Left(S, i) > 0
<1> DEFINE R == {j \in S : j >= i}
<1>0. \A j \in S : j \in Nat
  OBVIOUS
<1>1. IsFiniteSet(R) /\ Cardinality(R) \in Nat /\ Cardinality(R) <= Cardinality(S) /\ Left(S, i) = Cardinality(R)
  BY FS_Subset, FS_CardinalityType DEF Left
<1>2. (\A j \in S : i <= j) => R = S
  OBVIOUS
<1>3. (\A j \in S : j < i) => R = {}
  <2> SUFFICES ASSUME \A j \in S : j < i, NEW j \in R PROVE FALSE
    OBVIOUS
  <2>1. j \in S /\ j >= i /\ j < i /\ j \in Nat
    BY <1>0
  <2> QED
    BY <2>1
<1>4. ASSUME NEW k \in Nat, i <= k PROVE Left(S, k) <= Left(S, i)
  <2>1. {j \in S : j >= k} \in SUBSET R
    <3> SUFFICES ASSUME NEW j \in S, j >= k PROVE j >= i
      OBVIOUS
    <3>1. j \in Nat
      BY <1>0
    <3> QED
      BY <1>4, <3>1
  <2> HIDE DEF R
  <2> QED
    BY <1>1, <2>1, FS_Subset DEF Left
<1>5. ASSUME i \in S, NEW k \in Nat, i < k PROVE Left(S, k) < Left(S, i)
  <2>1. {j \in S : j >= k} \in SUBSET (R \ {i}) /\ i \in R
    <3>1. i \in R
      BY <1>5
    <3>2. ASSUME NEW j \in S, j >= k PROVE j >= i /\ j # i
      <4>1. j \in Nat
        BY <1>0
      <4> QED
        BY <1>5, <3>2, <4>1
    <3> QED
      BY <3>1, <3>2
  <2> HIDE DEF R
  <2>2. IsFiniteSet(R \ {i}) /\ Cardinality(R \ {i}) = Cardinality(R) - 1
    BY <1>1, <2>1, FS_RemoveElement
  <2>3. Left(S, k) <= Cardinality(R \ {i})
    BY <2>1, <2>2, FS_Subset DEF Left
  <2>4. Left(S, k) \in Nat
    BY <2>1, <2>2, FS_Subset, FS_CardinalityType DEF Left
  <2> QED
    BY <1>1, <2>2, <2>3, <2>4
<1>6. i \in S => Left(S, i) > 0
  <2> SUFFICES ASSUME i \in S PROVE Cardinality(R) > 0
    BY <1>1
  <2>1. i \in R
    OBVIOUS
  <2> HIDE DEF R
  <2>2. R # {}
    BY <2>1
  <2>3. Cardinality(R) # 0
    BY <1>1, <2>2, FS_EmptySet
  <2> QED
    BY <1>1, <2>3
<1>7. Cardinality({}) = 0
  BY FS_EmptySet
<1> HIDE DEF R
<1> QED
  BY <1>1, <1>2, <1>3, <1>4, <1>5, <1>6, <1>7 DEF R

\* There is one with any number left, and no other.
LEMMA SomeLeft ==
    ASSUME NEW S \in SUBSET Nat, IsFiniteSet(S), NEW n \in 1 .. Cardinality(S)
    PROVE  \E i \in S : Left(S, i) = n
<1> DEFINE G == {i \in S : Left(S, i) >= n}
           L == {Left(S, i) : i \in G}
<1>0. \A j \in S : j \in Nat
  OBVIOUS
<1>1. /\ Cardinality(S) \in Nat /\ n \in Nat /\ n > 0
      /\ \A i \in Nat : Left(S, i) \in Nat
  <2>1. Cardinality(S) \in Nat
    BY FS_CardinalityType
  <2>2. \A i \in Nat : Left(S, i) \in Nat
    BY LeftOf
  <2> QED
    BY <2>1, <2>2
<1>2. G # {}
  <2>1. S # {}
    BY <1>1, FS_EmptySet
  <2>2. PICK m \in S : \A j \in S : m <= j
    BY <2>1, Least
  <2>3. Left(S, m) = Cardinality(S)
    BY <2>2, LeftOf
  <2> QED
    BY <2>2, <2>3
<1>3. PICK i \in G : \A j \in G : Left(S, i) <= Left(S, j)
  <2>1. L \in SUBSET Nat /\ L # {}
    BY <1>1, <1>2
  <2>2. PICK l \in L : \A k \in L : l <= k
    <3> HIDE DEF L
    <3> QED
      BY <2>1, Least
  <2> QED
    BY <2>2
<1>4. i \in S /\ i \in Nat /\ Left(S, i) >= n /\ Left(S, i) \in Nat
  BY <1>1, <1>3
<1>5. SUFFICES ASSUME Left(S, i) > n PROVE FALSE
  BY <1>1, <1>4
<1> DEFINE R == {j \in S : j >= i + 1}
<1>6. Left(S, i) = Cardinality(R) + 1 /\ IsFiniteSet(R) /\ Cardinality(R) \in Nat
  <2> DEFINE Q == {j \in S : j >= i}
  <2>1. IsFiniteSet(Q) /\ Left(S, i) = Cardinality(Q) /\ Cardinality(Q) \in Nat
    BY <1>4, LeftOf DEF Left
  <2>2. R = Q \ {i} /\ i \in Q
    <3>1. ASSUME NEW j \in S PROVE j >= i + 1 <=> j >= i /\ j # i
      <4>1. j \in Nat
        BY <1>0
      <4> QED
        BY <1>4, <4>1
    <3>2. i \in Q
      BY <1>4
    <3>3. R = {j \in S : j >= i /\ j # i}
      BY <3>1
    <3> QED
      BY <3>2, <3>3
  <2> HIDE DEF Q, R
  <2>3. IsFiniteSet(R) /\ Cardinality(R) = Cardinality(Q) - 1
    BY <2>1, <2>2, FS_RemoveElement
  <2>4. Cardinality(R) \in Nat
    BY <2>3, FS_CardinalityType
  <2> QED
    BY <2>1, <2>3, <2>4
<1>7. R # {}
  <2> HIDE DEF R
  <2>1. Cardinality(R) # 0
    BY <1>1, <1>4, <1>5, <1>6
  <2> QED
    BY <1>6, <2>1, FS_EmptySet
<1>8. PICK j \in R : \A k \in R : j <= k
  <2>1. R \in SUBSET Nat
    OBVIOUS
  <2> HIDE DEF R
  <2> QED
    BY <1>7, <2>1, Least
<1>9. {k \in S : k >= j} = R /\ j \in S
  <2>1. j \in S /\ j \in Nat /\ j >= i + 1
    BY <1>0, <1>8
  <2>2. ASSUME NEW k \in S, k >= i + 1 PROVE k >= j
    BY <1>8, <2>2
  <2>3. ASSUME NEW k \in S, k >= j PROVE k >= i + 1
    BY <1>0, <1>4, <2>1, <2>3
  <2> QED
    BY <2>1, <2>2, <2>3
<1> HIDE DEF R
<1>10. Left(S, j) = Left(S, i) - 1
  BY <1>4, <1>6, <1>9 DEF Left
<1>11. Left(S, j) >= n /\ ~(Left(S, i) <= Left(S, j))
  BY <1>1, <1>4, <1>5, <1>10
<1> QED
  BY <1>3, <1>9, <1>11

\* As many left from two places of S: they are one.
LEMMA SameLeft ==
    ASSUME NEW S \in SUBSET Nat, IsFiniteSet(S), NEW i \in S, NEW j \in S, Left(S, i) = Left(S, j)
    PROVE  i = j
<1>1. i \in Nat /\ j \in Nat /\ Left(S, i) \in Nat
  BY LeftOf
<1>2. ~(i < j) /\ ~(j < i)
  <2>1. i < j => Left(S, j) < Left(S, i)
    BY <1>1, LeftOf
  <2>2. j < i => Left(S, i) < Left(S, j)
    BY <1>1, LeftOf
  <2> QED
    BY <1>1, <2>1, <2>2
<1> QED
  BY <1>1, <1>2

\* Moving every place by as much.
LEMMA Shifted ==
    ASSUME NEW S \in SUBSET Nat, IsFiniteSet(S), NEW d \in Int
    PROVE  IsFiniteSet({x - d : x \in S}) /\ Cardinality({x - d : x \in S}) = Cardinality(S)
<1> DEFINE T == {x - d : x \in S}
           f == [x \in S |-> x - d]
<1>1. f \in [S -> T] /\ \A x \in S : f[x] = x - d
  OBVIOUS
<1>2. \A x, y \in S : f[x] = f[y] => x = y
  BY <1>1
<1>3. \A t \in T : \E x \in S : f[x] = t
  BY <1>1
<1>4. f \in Bijection(S, T)
  BY <1>1, <1>2, <1>3 DEF Bijection, Injection, Surjection, IsInjective
<1>5. ExistsBijection(S, T)
  BY <1>4 DEF ExistsBijection
<1> QED
  BY <1>5, FS_Bijection

-----------------------------------------------------------------------------
(* Sentences.                                                             *)

\* A text starts with a sentence, and has finitely many.
LEMMA StartsOf ==
    ASSUME NEW text \in Seq(Piece)
    PROVE  /\ Len(text) \in Nat /\ SentenceStarts(text) \in SUBSET (1 .. Len(text))
           /\ SentenceStarts(text) \in SUBSET Nat /\ IsFiniteSet(SentenceStarts(text))
           /\ Cardinality(SentenceStarts(text)) \in Nat
           /\ text # <<>> => 1 \in SentenceStarts(text) /\ Cardinality(SentenceStarts(text)) > 0
<1> DEFINE S == SentenceStarts(text)
<1>1. Len(text) \in Nat /\ DOMAIN text = 1 .. Len(text)
  BY LenProperties
<1>2. S \in SUBSET (1 .. Len(text))
  BY <1>1 DEF SentenceStarts
<1>3. S \in SUBSET Nat /\ IsFiniteSet(1 .. Len(text))
  BY <1>1, <1>2, FS_Interval
<1>4. IsFiniteSet(S) /\ Cardinality(S) \in Nat
  <2> HIDE DEF S
  <2> QED
    BY <1>2, <1>3, FS_Subset, FS_CardinalityType
<1>5. ASSUME text # <<>> PROVE 1 \in S
  <2>1. 1 \in DOMAIN text
    BY <1>1, <1>5, EmptySeq
  <2> QED
    BY <2>1 DEF SentenceStarts
<1> HIDE DEF S
<1>6. text # <<>> => Cardinality(S) > 0
  BY <1>4, <1>5, FS_EmptySet
<1> QED
  BY <1>1, <1>2, <1>3, <1>4, <1>5, <1>6 DEF S

\* The last sentences of a text are what follows one of its sentence starts.
LEMMA LastFrom ==
    ASSUME NEW text \in Seq(Piece), NEW i \in SentenceStarts(text)
    PROVE  LastSentences(text, Left(SentenceStarts(text), i)) = SubSeq(text, i, Len(text))
<1> DEFINE S == SentenceStarts(text)
           n == Left(S, i)
           from == CHOOSE k \in S : Cardinality({j \in S : j >= k}) = n
<1>1. from \in S /\ Left(S, from) = n
  <2>1. \E k \in S : Cardinality({j \in S : j >= k}) = n
    BY DEF Left
  <2> HIDE DEF S, n
  <2> QED
    BY <2>1 DEF Left
<1>2. from = i
  <2> HIDE DEF from
  <2> QED
    BY <1>1, StartsOf, SameLeft
<1>3. LastSentences(text, n) = SubSeq(text, from, Len(text))
  BY DEF LastSentences
<1> QED
  BY <1>2, <1>3

\* The last n sentences start at one of the sentence starts.
LEMMA SomeLast ==
    ASSUME NEW text \in Seq(Piece), NEW n \in 1 .. Cardinality(SentenceStarts(text))
    PROVE  \E i \in SentenceStarts(text) :
              Left(SentenceStarts(text), i) = n /\ LastSentences(text, n) = SubSeq(text, i, Len(text))
<1>1. PICK i \in SentenceStarts(text) : Left(SentenceStarts(text), i) = n
  BY StartsOf, SomeLeft
<1>2. LastSentences(text, n) = SubSeq(text, i, Len(text))
  BY <1>1, LastFrom
<1> QED
  BY <1>1, <1>2

\* They are part of it.
LEMMA LastIsPart ==
    ASSUME NEW text \in Seq(Piece), NEW n \in 1 .. Cardinality(SentenceStarts(text))
    PROVE  /\ LastSentences(text, n) \in Seq(Piece) /\ ToSet(LastSentences(text, n)) \subseteq ToSet(text)
           /\ Len(LastSentences(text, n)) \in Nat \ {0}
<1>1. PICK i \in SentenceStarts(text) : LastSentences(text, n) = SubSeq(text, i, Len(text))
  BY SomeLast
<1> DEFINE u == SubSeq(text, i, Len(text))
<1>2. Len(text) \in Nat /\ i \in 1 .. Len(text) /\ DOMAIN text = 1 .. Len(text)
  BY StartsOf, LenProperties
<1>3. \A k \in i .. Len(text) : text[k] \in Piece
  BY <1>2, ElementOfSeq
<1>4. /\ u \in Seq(Piece) /\ Len(u) = Len(text) - i + 1
      /\ \A k \in 1 .. Len(text) - i + 1 : u[k] = text[i + k - 1]
  <2>1. i \in Int /\ Len(text) \in Int /\ i <= Len(text)
    BY <1>2
  <2>2. u \in Seq(Piece) /\ Len(u) = Len(text) - i + 1
    BY <1>3, <2>1, SubSeqProperties
  <2>3. \A k \in 1 .. Len(text) - i + 1 : u[k] = text[i + k - 1]
    BY <1>3, <2>1, SubSeqProperties
  <2> QED
    BY <2>2, <2>3
<1> HIDE DEF u
<1>5. DOMAIN u = 1 .. Len(text) - i + 1
  BY <1>4
<1>6. ASSUME NEW k \in DOMAIN u PROVE u[k] \in ToSet(text)
  <2>1. i + k - 1 \in DOMAIN text /\ u[k] = text[i + k - 1]
    BY <1>2, <1>4, <1>5
  <2> QED
    BY <2>1 DEF ToSet
<1>7. ToSet(u) \subseteq ToSet(text)
  BY <1>6 DEF ToSet
<1>8. Len(u) \in Nat \ {0}
  BY <1>2, <1>4
<1> QED
  BY <1>1, <1>4, <1>7, <1>8 DEF u

\* Parts of parts.
LEMMA PartEnds ==
    ASSUME parsed \in Seq(Blocks), NEW f \in 1 .. Len(All) + 1, NEW g \in f .. Len(All) + 1,
           NEW h \in f .. g
    PROVE  /\ SubSeq(Part(f, g), h - f + 1, Len(Part(f, g))) = Part(h, g)
           /\ SubSeq(Part(f, g), 1, h - f) = Part(f, h)
<1> DEFINE w == Part(f, g)
<1>1. Len(All) \in Nat /\ h \in 1 .. Len(All) + 1 /\ h \in f .. Len(All) + 1 /\ g \in h .. Len(All) + 1
  BY OffsetsOf
<1>2. /\ w \in Seq(Piece) /\ Len(w) = g - f /\ \A k \in 1 .. g - f : w[k] = All[f + k - 1] /\ w[k] \in Piece
      /\ Part(h, g) \in Seq(Piece) /\ Len(Part(h, g)) = g - h
      /\ \A k \in 1 .. g - h : Part(h, g)[k] = All[h + k - 1]
      /\ Part(f, h) \in Seq(Piece) /\ Len(Part(f, h)) = h - f
      /\ \A k \in 1 .. h - f : Part(f, h)[k] = All[f + k - 1]
  <2>1. w \in Seq(Piece) /\ Len(w) = g - f /\ \A k \in 1 .. g - f : w[k] = All[f + k - 1]
    BY <1>1, PartOf
  <2>2. \A k \in 1 .. g - f : w[k] \in Piece
    <3> HIDE DEF w
    <3> QED
      BY <2>1, ElementOfSeq
  <2> QED
    BY <1>1, <2>1, <2>2, PartOf
<1> HIDE DEF w
<1>3. SubSeq(w, h - f + 1, Len(w)) = Part(h, g)
  <2> DEFINE u == SubSeq(w, h - f + 1, g - f)
  <2>1. h - f + 1 \in Int /\ g - f \in Int /\ \A k \in h - f + 1 .. g - f : w[k] \in Piece
    BY <1>1, <1>2
  <2>2. /\ u \in Seq(Piece) /\ Len(u) = IF h - f + 1 <= g - f THEN (g - f) - (h - f + 1) + 1 ELSE 0
        /\ \A k \in 1 .. (g - f) - (h - f + 1) + 1 : u[k] = w[(h - f + 1) + k - 1]
    BY <2>1, SubSeqProperties
  <2> HIDE DEF u
  <2>3. Len(u) = g - h
    BY <1>1, <2>2
  <2>4. ASSUME NEW k \in 1 .. g - h PROVE u[k] = Part(h, g)[k]
    <3>1. k \in 1 .. (g - f) - (h - f + 1) + 1 /\ (h - f + 1) + k - 1 \in 1 .. g - f
      BY <1>1
    <3>2. f + ((h - f + 1) + k - 1) - 1 = h + k - 1
      BY <1>1
    <3> QED
      BY <1>2, <2>2, <3>1, <3>2
  <2>5. u = Part(h, g)
    BY <1>2, <2>2, <2>3, <2>4, SeqEqual
  <2> QED
    BY <1>2, <2>5 DEF u
<1>4. SubSeq(w, 1, h - f) = Part(f, h)
  <2> DEFINE u == SubSeq(w, 1, h - f)
  <2>1. 1 \in Int /\ h - f \in Int /\ \A k \in 1 .. h - f : w[k] \in Piece
    BY <1>1, <1>2
  <2>2. /\ u \in Seq(Piece) /\ Len(u) = IF 1 <= h - f THEN (h - f) - 1 + 1 ELSE 0
        /\ \A k \in 1 .. (h - f) - 1 + 1 : u[k] = w[1 + k - 1]
    BY <2>1, SubSeqProperties
  <2> HIDE DEF u
  <2>3. Len(u) = h - f
    BY <1>1, <2>2
  <2>4. ASSUME NEW k \in 1 .. h - f PROVE u[k] = Part(f, h)[k]
    <3>1. k \in 1 .. (h - f) - 1 + 1 /\ 1 + k - 1 = k /\ k \in 1 .. g - f
      BY <1>1
    <3> QED
      BY <1>2, <2>2, <3>1
  <2>5. u = Part(f, h)
    BY <1>2, <2>2, <2>3, <2>4, SeqEqual
  <2> QED
    BY <2>5 DEF u
<1> QED
  BY <1>3, <1>4 DEF w

\* Where the sentences of the document start.
AllStarts == SentenceStarts(All)

\* The sentence starts of the document's text.
LEMMA AllStartsOf ==
    ASSUME parsed \in Seq(Blocks)
    PROVE  /\ Len(All) \in Nat /\ AllStarts \in SUBSET (1 .. Len(All)) /\ AllStarts \in SUBSET Nat
           /\ IsFiniteSet(AllStarts) /\ SentenceCount = Cardinality(AllStarts) /\ SentenceCount \in Nat
           /\ \A s \in AllStarts : s \in Nat /\ s >= 1 /\ s <= Len(All)
           /\ All # <<>> => 1 \in AllStarts /\ SentenceCount > 0
           /\ \A i \in Nat : Left(AllStarts, i) \in Nat /\ Left(AllStarts, i) <= SentenceCount
           /\ Left(AllStarts, Len(All) + 1) = 0
<1>1. All \in Seq(Piece)
  BY OffsetsOf
<1>2. SentenceCount = Cardinality(AllStarts)
  BY DEF SentenceCount, AllStarts, All
<1>3. /\ Len(All) \in Nat /\ AllStarts \in SUBSET (1 .. Len(All)) /\ AllStarts \in SUBSET Nat
      /\ IsFiniteSet(AllStarts) /\ Cardinality(AllStarts) \in Nat
      /\ All # <<>> => 1 \in AllStarts /\ Cardinality(AllStarts) > 0
  BY <1>1, StartsOf DEF AllStarts
<1>4. \A s \in AllStarts : s \in Nat /\ s >= 1 /\ s <= Len(All)
  BY <1>3
<1>5. \A i \in Nat : Left(AllStarts, i) \in Nat /\ Left(AllStarts, i) <= SentenceCount
  BY <1>2, <1>3, LeftOf
<1>6. Left(AllStarts, Len(All) + 1) = 0
  <2>1. \A s \in AllStarts : s < Len(All) + 1
    BY <1>3, <1>4
  <2>2. Len(All) + 1 \in Nat
    BY <1>3
  <2> QED
    BY <1>3, <2>1, <2>2, LeftOf
<1> QED
  BY <1>2, <1>3, <1>4, <1>5, <1>6

\* Where sentence a starts in the text.
At(a) ==
    IF a = SentenceCount + 1 THEN Len(All) + 1
    ELSE CHOOSE s \in AllStarts : Left(AllStarts, s) = SentenceCount - a + 1

\* Where the sentences start.
LEMMA AtOf ==
    ASSUME parsed \in Seq(Blocks)
    PROVE  /\ \A a \in 1 .. SentenceCount + 1 :
                 At(a) \in 1 .. Len(All) + 1 /\ Left(AllStarts, At(a)) = SentenceCount - a + 1
           /\ \A a \in 1 .. SentenceCount : At(a) \in AllStarts
           /\ At(SentenceCount + 1) = Len(All) + 1 /\ At(1) = 1
<1> DEFINE N == SentenceCount
<1>1. /\ Len(All) \in Nat /\ N = Cardinality(AllStarts) /\ N \in Nat /\ AllStarts \in SUBSET Nat
      /\ IsFiniteSet(AllStarts) /\ (\A s \in AllStarts : s \in Nat /\ s >= 1 /\ s <= Len(All))
      /\ (All # <<>> => 1 \in AllStarts /\ N > 0) /\ Left(AllStarts, Len(All) + 1) = 0
  BY AllStartsOf
<1>2. At(N + 1) = Len(All) + 1
  BY DEF At
<1> HIDE DEF N
<1>3. ASSUME NEW a \in 1 .. N PROVE At(a) \in AllStarts /\ Left(AllStarts, At(a)) = N - a + 1
  <2>1. N - a + 1 \in 1 .. Cardinality(AllStarts) /\ a # N + 1
    BY <1>1
  <2>2. \E s \in AllStarts : Left(AllStarts, s) = N - a + 1
    BY <1>1, <2>1, SomeLeft
  <2>3. At(a) = CHOOSE s \in AllStarts : Left(AllStarts, s) = N - a + 1
    BY <2>1 DEF At, N
  <2> QED
    BY <2>2, <2>3
<1>4. ASSUME NEW a \in 1 .. N + 1
      PROVE  At(a) \in 1 .. Len(All) + 1 /\ Left(AllStarts, At(a)) = N - a + 1
  <2>1. CASE a = N + 1
    <3>1. At(a) = Len(All) + 1 /\ Left(AllStarts, At(a)) = 0
      BY <1>1, <1>2, <2>1
    <3> QED
      BY <1>1, <2>1, <3>1
  <2>2. CASE a # N + 1
    <3>1. a \in 1 .. N
      BY <1>1, <2>2
    <3>2. At(a) \in Nat /\ At(a) >= 1 /\ At(a) <= Len(All)
      BY <1>1, <1>3, <3>1
    <3> QED
      BY <1>1, <1>3, <3>1, <3>2
  <2> QED
    BY <2>1, <2>2
<1>5. At(1) = 1
  <2>1. CASE N = 0
    <3>1. All = <<>> /\ At(1) = Len(All) + 1
      BY <1>1, <1>2, <2>1
    <3> QED
      BY <3>1
  <2>2. CASE N # 0
    <3>1. All # <<>>
      <4>1. AllStarts # {}
        BY <1>1, <2>2, FS_EmptySet
      <4>2. Len(All) # 0
        <5>1. PICK y \in AllStarts : y \in AllStarts
          BY <4>1
        <5> QED
          BY <1>1, <5>1
      <4> QED
        BY <4>2
    <3>2. 1 \in AllStarts /\ \A s \in AllStarts : 1 <= s
      BY <1>1, <3>1
    <3>3. Left(AllStarts, 1) = N
      BY <1>1, <3>2, LeftOf
    <3>4. At(1) \in AllStarts /\ Left(AllStarts, At(1)) = N
      <4>1. 1 \in 1 .. N /\ N - 1 + 1 = N
        BY <1>1, <2>2
      <4> QED
        BY <1>3, <4>1
    <3> QED
      <4>1. Left(AllStarts, 1) = Left(AllStarts, At(1))
        BY <3>3, <3>4
      <4>2. \A i, j \in AllStarts : Left(AllStarts, i) = Left(AllStarts, j) => i = j
        BY <1>1, SameLeft
      <4> QED
        BY <3>2, <3>4, <4>1, <4>2
  <2> QED
    BY <2>1, <2>2
<1> QED
  BY <1>2, <1>3, <1>4, <1>5 DEF N

\* A later sentence starts later.
LEMMA AtGrows ==
    ASSUME parsed \in Seq(Blocks), NEW a \in 1 .. SentenceCount + 1, NEW b \in 1 .. SentenceCount + 1
    PROVE  /\ a < b => At(a) < At(b)
           /\ a <= b => At(a) <= At(b)
<1>1. /\ At(a) \in 1 .. Len(All) + 1 /\ Left(AllStarts, At(a)) = SentenceCount - a + 1
      /\ At(b) \in 1 .. Len(All) + 1 /\ Left(AllStarts, At(b)) = SentenceCount - b + 1
      /\ At(a) \in Nat /\ At(b) \in Nat /\ SentenceCount \in Nat
  <2>1. SentenceCount \in Nat /\ Len(All) \in Nat
    BY AllStartsOf
  <2>2. \A c \in 1 .. SentenceCount + 1 :
           At(c) \in 1 .. Len(All) + 1 /\ Left(AllStarts, At(c)) = SentenceCount - c + 1
    BY AtOf
  <2> QED
    BY <2>1, <2>2
<1>2. ASSUME a < b PROVE At(a) < At(b)
  <2>1. SUFFICES ASSUME At(b) <= At(a) PROVE FALSE
    BY <1>1
  <2>2. Left(AllStarts, At(a)) <= Left(AllStarts, At(b))
    BY <1>1, <2>1, AllStartsOf, LeftOf
  <2> QED
    BY <1>1, <1>2, <2>2
<1> QED
  BY <1>1, <1>2

\* The sentence starts of part of the text that opens with one.
LEMMA StartsOfPart ==
    ASSUME parsed \in Seq(Blocks), NEW f \in AllStarts, NEW g \in f + 1 .. Len(All) + 1
    PROVE  SentenceStarts(Part(f, g)) = {x - (f - 1) : x \in {y \in AllStarts : f <= y /\ y < g}}
<1> DEFINE w == Part(f, g)
<1>1. /\ Len(All) \in Nat /\ f \in 1 .. Len(All) + 1 /\ g \in f .. Len(All) + 1 /\ f <= Len(All) /\ f \in Nat
      /\ All \in Seq(Piece) /\ DOMAIN All = 1 .. Len(All)
  <2>1. Len(All) \in Nat /\ f \in Nat /\ f >= 1 /\ f <= Len(All)
    BY AllStartsOf
  <2>2. All \in Seq(Piece)
    BY OffsetsOf
  <2> QED
    BY <2>1, <2>2, LenProperties
<1>2. Len(w) = g - f /\ DOMAIN w = 1 .. g - f /\ \A k \in 1 .. g - f : w[k] = All[f + k - 1]
  <2>1. w \in Seq(Piece) /\ Len(w) = g - f /\ \A k \in 1 .. g - f : w[k] = All[f + k - 1]
    BY <1>1, PartOf
  <2> HIDE DEF w
  <2> QED
    BY <2>1, LenProperties
<1> HIDE DEF w
<1>3. \A i : i \in SentenceStarts(w) <=> i \in 1 .. g - f /\ (i = 1 \/ w[i - 1].ends)
  BY <1>2 DEF SentenceStarts
<1>4. \A y : y \in AllStarts <=> y \in 1 .. Len(All) /\ (y = 1 \/ All[y - 1].ends)
  BY <1>1 DEF AllStarts, SentenceStarts
<1>5. ASSUME NEW i \in 1 .. g - f PROVE i \in SentenceStarts(w) <=> f + i - 1 \in AllStarts
  <2>1. f + i - 1 \in 1 .. Len(All)
    BY <1>1
  <2>2. CASE i = 1
    <3>1. f + i - 1 = f
      BY <1>1, <2>2
    <3> QED
      BY <1>3, <2>2, <3>1
  <2>3. CASE i # 1
    <3>1. i - 1 \in 1 .. g - f /\ f + (i - 1) - 1 = (f + i - 1) - 1 /\ f + i - 1 # 1
      BY <1>1, <2>3
    <3>2. w[i - 1] = All[(f + i - 1) - 1]
      BY <1>2, <3>1
    <3> QED
      BY <1>3, <1>4, <2>1, <2>3, <3>1, <3>2
  <2> QED
    BY <2>2, <2>3
<1> DEFINE Q == {y \in AllStarts : f <= y /\ y < g}
<1>6. ASSUME NEW i \in SentenceStarts(w) PROVE i \in {x - (f - 1) : x \in Q}
  <2>1. i \in 1 .. g - f /\ f + i - 1 \in AllStarts
    BY <1>3, <1>5
  <2>2. f + i - 1 \in Q /\ i = (f + i - 1) - (f - 1)
    BY <1>1, <2>1
  <2> QED
    BY <2>2
<1>7. ASSUME NEW x \in Q PROVE x - (f - 1) \in SentenceStarts(w)
  <2>1. x \in AllStarts /\ f <= x /\ x < g /\ x \in Nat
    BY AllStartsOf
  <2>2. x - (f - 1) \in 1 .. g - f /\ f + (x - (f - 1)) - 1 = x
    BY <1>1, <2>1
  <2> QED
    BY <1>5, <2>1, <2>2
<1> HIDE DEF Q
<1>8. SentenceStarts(w) = {x - (f - 1) : x \in Q}
  BY <1>6, <1>7
<1> QED
  BY <1>8 DEF w, Q

\* How many it has left from one of them on.
LEMMA LeftInPart ==
    ASSUME parsed \in Seq(Blocks), NEW f \in AllStarts, NEW g \in f + 1 .. Len(All) + 1,
           NEW s \in AllStarts, f <= s, s < g
    PROVE  /\ s - (f - 1) \in SentenceStarts(Part(f, g))
           /\ Left(SentenceStarts(Part(f, g)), s - (f - 1)) = Left(AllStarts, s) - Left(AllStarts, g)
<1> DEFINE Q == {y \in AllStarts : f <= y /\ y < g}
           W == SentenceStarts(Part(f, g))
           d == f - 1
           R == {y \in AllStarts : s <= y /\ y < g}
<1>1. W = {x - d : x \in Q}
  BY StartsOfPart
<1>2. \A y \in AllStarts : y \in Nat
  BY AllStartsOf
<1>3. s \in Q /\ f \in Nat /\ d \in Int /\ s \in Nat /\ g \in Nat
  <2>1. f \in Nat /\ s \in Nat /\ Len(All) \in Nat
    BY AllStartsOf
  <2> QED
    BY <2>1
<1>4. {j \in W : j >= s - d} = {x - d : x \in R}
  <2>1. ASSUME NEW j \in W, j >= s - d PROVE j \in {x - d : x \in R}
    <3>1. PICK x \in Q : j = x - d
      BY <1>1
    <3>2. x \in AllStarts /\ x \in Nat /\ f <= x /\ x < g
      BY <1>2
    <3>3. s <= x
      BY <1>3, <2>1, <3>1, <3>2
    <3> QED
      BY <3>1, <3>2, <3>3
  <2>2. ASSUME NEW x \in R PROVE x - d \in W /\ x - d >= s - d
    <3>1. x \in AllStarts /\ x \in Nat /\ s <= x /\ x < g
      BY <1>2
    <3>2. f <= x
      BY <1>3, <3>1
    <3>3. x \in Q
      BY <3>1, <3>2
    <3> QED
      BY <1>1, <1>3, <3>1, <3>3
  <2> HIDE DEF W, R, d
  <2> QED
    BY <2>1, <2>2
<1>5. /\ R \in SUBSET Nat /\ IsFiniteSet(R)
      /\ Cardinality(R) = Left(AllStarts, s) - Left(AllStarts, g)
  <2> DEFINE A == {j \in AllStarts : j >= s}
             B == {j \in AllStarts : j >= g}
  <2>1. IsFiniteSet(A) /\ IsFiniteSet(B) /\ Left(AllStarts, s) = Cardinality(A) /\ Left(AllStarts, g) = Cardinality(B)
    BY <1>3, AllStartsOf, LeftOf DEF Left
  <2>2. R = A \ B
    <3>1. ASSUME NEW y \in AllStarts PROVE s <= y /\ y < g <=> y >= s /\ ~(y >= g)
      BY <1>2, <1>3
    <3>2. A \ B = {y \in AllStarts : y >= s /\ ~(y >= g)}
      OBVIOUS
    <3> QED
      BY <3>1, <3>2
  <2>3. A \cap B = B
    <3>1. ASSUME NEW y \in AllStarts, y >= g PROVE y >= s
      BY <1>2, <1>3, <3>1
    <3> QED
      BY <3>1
  <2>4. R \in SUBSET Nat
    BY <1>2
  <2> HIDE DEF R, A, B
  <2>5. IsFiniteSet(R) /\ Cardinality(R) = Cardinality(A) - Cardinality(B)
    <3>1. IsFiniteSet(A \ B) /\ Cardinality(A \ B) = Cardinality(A) - Cardinality(A \cap B)
      BY <2>1, FS_Difference
    <3> QED
      BY <2>2, <2>3, <3>1
  <2> QED
    BY <2>1, <2>4, <2>5
<1>6. s - d \in W
  BY <1>1, <1>3
<1> HIDE DEF R, W, d
<1>7. Cardinality({x - d : x \in R}) = Cardinality(R)
  BY <1>3, <1>5, Shifted
<1>8. Left(W, s - d) = Left(AllStarts, s) - Left(AllStarts, g)
  BY <1>4, <1>5, <1>7 DEF Left
<1> QED
  BY <1>6, <1>8 DEF W, d

\* The sentences from a to before b: how many, and the last m of them.
LEMMA LastOfPart ==
    ASSUME parsed \in Seq(Blocks), NEW a \in 1 .. SentenceCount, NEW b \in a + 1 .. SentenceCount + 1,
           NEW m \in 1 .. b - a
    PROVE  /\ Cardinality(SentenceStarts(Part(At(a), At(b)))) = b - a
           /\ LastSentences(Part(At(a), At(b)), m) = Part(At(b - m), At(b))
<1> DEFINE f == At(a)
           g == At(b)
           w == Part(f, g)
           c == b - m
           s == At(c)
<1>1. /\ SentenceCount \in Nat /\ a \in 1 .. SentenceCount + 1 /\ b \in 1 .. SentenceCount + 1
      /\ c \in 1 .. SentenceCount /\ c \in 1 .. SentenceCount + 1 /\ a <= c /\ c < b /\ a < b
  <2>1. SentenceCount \in Nat
    BY AllStartsOf
  <2> QED
    BY <2>1
<1>2. /\ f \in AllStarts /\ Left(AllStarts, f) = SentenceCount - a + 1
      /\ s \in AllStarts /\ Left(AllStarts, s) = SentenceCount - c + 1
      /\ Left(AllStarts, g) = SentenceCount - b + 1
      /\ f \in 1 .. Len(All) + 1 /\ g \in 1 .. Len(All) + 1 /\ s \in 1 .. Len(All) + 1
  BY <1>1, AtOf
<1>3. f < g /\ f <= s /\ s < g
  BY <1>1, AtGrows
<1>4. Len(All) \in Nat /\ g \in f + 1 .. Len(All) + 1 /\ g \in f .. Len(All) + 1 /\ s \in f .. g
  <2>1. Len(All) \in Nat
    BY AllStartsOf
  <2> HIDE DEF f, g, s
  <2> QED
    BY <1>2, <1>3, <2>1
<1> HIDE DEF f, g, s, c
<1>5. w \in Seq(Piece)
  BY <1>2, <1>4, PartOf
<1>6. /\ f - (f - 1) \in SentenceStarts(w) /\ Left(SentenceStarts(w), f - (f - 1)) = b - a
  <2>1. /\ f - (f - 1) \in SentenceStarts(w)
        /\ Left(SentenceStarts(w), f - (f - 1)) = Left(AllStarts, f) - Left(AllStarts, g)
    BY <1>2, <1>3, <1>4, LeftInPart
  <2> QED
    BY <1>1, <1>2, <2>1
<1>7. /\ s - (f - 1) \in SentenceStarts(w) /\ Left(SentenceStarts(w), s - (f - 1)) = m
  <2>1. /\ s - (f - 1) \in SentenceStarts(w)
        /\ Left(SentenceStarts(w), s - (f - 1)) = Left(AllStarts, s) - Left(AllStarts, g)
    BY <1>2, <1>3, <1>4, LeftInPart
  <2> QED
    BY <1>1, <1>2, <2>1 DEF c
<1>8. Cardinality(SentenceStarts(w)) = b - a
  <2>1. f - (f - 1) = 1
    BY <1>2
  <2>2. SentenceStarts(w) \in SUBSET Nat /\ IsFiniteSet(SentenceStarts(w)) /\ SentenceStarts(w) \in SUBSET (1 .. Len(w))
    BY <1>5, StartsOf
  <2>3. \A j \in SentenceStarts(w) : 1 <= j
    BY <1>5, <2>2, LenProperties
  <2>4. Left(SentenceStarts(w), 1) = Cardinality(SentenceStarts(w))
    BY <2>2, <2>3, LeftOf
  <2> QED
    BY <1>6, <2>1, <2>4
<1>9. LastSentences(w, m) = SubSeq(w, s - (f - 1), Len(w))
  BY <1>5, <1>7, LastFrom
<1>10. SubSeq(w, s - f + 1, Len(w)) = Part(s, g)
  BY <1>2, <1>4, PartEnds
<1>11. s - f + 1 = s - (f - 1)
  BY <1>2
<1>12. LastSentences(w, m) = Part(s, g)
  BY <1>9, <1>10, <1>11
<1> QED
  BY <1>8, <1>12 DEF f, g, s, c

\* The sentences from a to b.
LEMMA SentencesAre ==
    ASSUME parsed \in Seq(Blocks), NEW a \in 1 .. SentenceCount, NEW b \in a .. SentenceCount
    PROVE  Sentences(a, b) = Part(At(a), At(b + 1))
<1> DEFINE N == SentenceCount
           f == At(a)
           g == At(b + 1)
           e == Len(All) + 1
           text == LastSentences(JoinedText(Everything), N - a + 1)
           starts == SentenceStarts(text)
           end == {i \in starts : Cardinality({j \in starts : j < i}) = b - a + 1}
<1>1. /\ N \in Nat /\ Len(All) \in Nat /\ All \in Seq(Piece) /\ AllStarts \in SUBSET Nat /\ IsFiniteSet(AllStarts)
      /\ \A x \in AllStarts : x \in Nat /\ x >= 1 /\ x <= Len(All)
  BY AllStartsOf, OffsetsOf
<1>2. /\ f \in AllStarts /\ Left(AllStarts, f) = N - a + 1 /\ f \in 1 .. Len(All)
      /\ g \in 1 .. e /\ Left(AllStarts, g) = N - b /\ f < g /\ (b < N => g \in AllStarts) /\ (b = N => g = e)
      /\ Left(AllStarts, e) = 0
  <2>1. a \in 1 .. N + 1 /\ b + 1 \in 1 .. N + 1 /\ a < b + 1 /\ N - (b + 1) + 1 = N - b /\ (b < N => b + 1 \in 1 .. N)
    BY <1>1
  <2>2. f \in AllStarts /\ Left(AllStarts, f) = N - a + 1 /\ g \in 1 .. e /\ Left(AllStarts, g) = N - (b + 1) + 1
    BY <2>1, AtOf
  <2>3. f < g
    BY <2>1, AtGrows
  <2>4. b < N => g \in AllStarts
    BY <2>1, AtOf
  <2>5. b = N => g = e
    BY AtOf
  <2>6. Left(AllStarts, e) = 0
    BY AllStartsOf
  <2>7. f \in 1 .. Len(All)
    <3> HIDE DEF f
    <3>1. f \in Nat /\ f >= 1 /\ f <= Len(All)
      BY <1>1, <2>2
    <3> QED
      BY <1>1, <3>1
  <2> QED
    BY <2>1, <2>2, <2>3, <2>4, <2>5, <2>6, <2>7
<1>3. text = Part(f, e)
  <2>1. text = SubSeq(All, f, Len(All))
    BY <1>1, <1>2, LastFrom DEF All, AllStarts
  <2>2. e - 1 = Len(All)
    BY <1>1
  <2> QED
    BY <2>1, <2>2 DEF Part
<1> HIDE DEF f, g, text, N
<1>4. e \in f + 1 .. Len(All) + 1 /\ e \in f .. Len(All) + 1 /\ f \in 1 .. Len(All) + 1 /\ g \in f .. e
  BY <1>1, <1>2
<1>5. text \in Seq(Piece) /\ Len(text) = e - f
  BY <1>3, <1>4, PartOf
<1>6. /\ starts \in SUBSET Nat /\ IsFiniteSet(starts) /\ \A i \in starts : i \in 1 .. Len(text)
  BY <1>5, StartsOf
<1>7. starts = {x - (f - 1) : x \in {y \in AllStarts : f <= y /\ y < e}}
  BY <1>2, <1>3, <1>4, StartsOfPart
<1>8. ASSUME NEW x \in AllStarts, f <= x, x < e
      PROVE  /\ x - (f - 1) \in starts
             /\ Cardinality({j \in starts : j < x - (f - 1)}) = N - a + 1 - Left(AllStarts, x)
  <2> DEFINE i == x - (f - 1)
             A == {j \in starts : j >= i}
  <2>1. i \in starts /\ Left(starts, i) = Left(AllStarts, x) /\ Left(AllStarts, x) \in Nat
    <3>1. i \in starts /\ Left(starts, i) = Left(AllStarts, x) - Left(AllStarts, e)
      BY <1>2, <1>3, <1>4, <1>8, LeftInPart
    <3>2. Left(AllStarts, x) \in Nat
      BY AllStartsOf
    <3> QED
      BY <1>2, <3>1, <3>2
  <2>2. f - (f - 1) = 1 /\ 1 \in starts /\ Left(starts, 1) = N - a + 1
    <3>1. f - (f - 1) \in starts /\ Left(starts, f - (f - 1)) = Left(AllStarts, f) - Left(AllStarts, e)
      BY <1>2, <1>3, <1>4, LeftInPart
    <3>2. f - (f - 1) = 1
      BY <1>2
    <3>3. Left(AllStarts, f) \in Nat
      BY <1>1, <1>2, AllStartsOf
    <3> QED
      BY <1>2, <3>1, <3>2, <3>3
  <2>3. Left(starts, 1) = Cardinality(starts)
    <3>1. \A j \in starts : 1 <= j
      BY <1>5, <1>6, LenProperties
    <3> HIDE DEF starts
    <3> QED
      BY <1>6, <3>1, LeftOf
  <2>4. i \in Nat
    BY <1>6, <2>1
  <2> HIDE DEF i
  <2>5. IsFiniteSet(A) /\ Cardinality(A) = Left(starts, i)
    <3> HIDE DEF starts
    <3> QED
      BY <1>6, <2>4, LeftOf DEF Left
  <2>6. {j \in starts : j < i} = starts \ A
    <3>1. ASSUME NEW j \in starts PROVE j < i <=> ~(j >= i)
      <4>1. j \in Nat
        BY <1>6
      <4> QED
        BY <2>4, <4>1
    <3> HIDE DEF starts
    <3> QED
      BY <3>1
  <2>7. Cardinality(starts \ A) = Cardinality(starts) - Cardinality(starts \cap A)
    <3> HIDE DEF starts
    <3> QED
      BY <1>6, FS_Difference
  <2>8. starts \cap A = A
    OBVIOUS
  <2> HIDE DEF A, starts
  <2>9. Cardinality({j \in starts : j < i}) = N - a + 1 - Left(AllStarts, x)
    <3>1. Cardinality({j \in starts : j < i}) = Cardinality(starts \ A)
      BY <2>6
    <3>2. Cardinality(starts \cap A) = Left(starts, i)
      BY <2>5, <2>8
    <3>3. Cardinality(starts) = N - a + 1
      BY <2>2, <2>3
    <3>4. Cardinality(starts \ A) = Cardinality(starts) - Left(starts, i)
      BY <2>7, <3>2
    <3>5. Left(starts, i) = Left(AllStarts, x)
      BY <2>1
    <3>6. N \in Nat /\ a \in Nat
      BY <1>1 DEF N
    <3> QED
      BY <2>1, <3>1, <3>3, <3>4, <3>5, <3>6
  <2> QED
    BY <2>1, <2>9 DEF i
<1>9. ASSUME NEW x \in AllStarts, f <= x, x < e
      PROVE  x - (f - 1) \in end <=> Left(AllStarts, x) = N - b
  <2>1. x - (f - 1) \in starts /\ Cardinality({j \in starts : j < x - (f - 1)}) = N - a + 1 - Left(AllStarts, x)
    BY <1>8, <1>9
  <2>2. Left(AllStarts, x) \in Nat /\ a \in Nat /\ b \in Nat
    BY <1>1, AllStartsOf DEF N
  <2>3. x - (f - 1) \in end <=> N - a + 1 - Left(AllStarts, x) = b - a + 1
    <3> HIDE DEF starts
    <3> QED
      BY <2>1
  <2> HIDE DEF end
  <2> QED
    BY <1>1, <2>2, <2>3
<1> DEFINE upTo == IF end = {} THEN Len(text) ELSE Min(end) - 1
<1>10. upTo = g - f
  <2>1. CASE b = N
    <3>1. end = {}
      <4> SUFFICES ASSUME NEW i \in end PROVE FALSE
        OBVIOUS
      <4>1. i \in starts
        OBVIOUS
      <4>2. PICK x \in AllStarts : f <= x /\ x < e /\ i = x - (f - 1)
        <5> HIDE DEF starts, end
        <5> QED
          BY <1>7, <4>1
      <4>3. Left(AllStarts, x) = 0
        <5>1. Left(AllStarts, x) = N - b
          BY <1>9, <4>2
        <5> QED
          BY <1>1, <2>1, <5>1
      <4>4. Left(AllStarts, x) > 0
        BY <1>1, LeftOf
      <4> QED
        BY <4>3, <4>4
    <3>2. g = e /\ Len(text) = e - f
      BY <1>2, <1>5, <2>1
    <3> HIDE DEF end
    <3> QED
      BY <3>1, <3>2
  <2>2. CASE b # N
    <3>1. b < N /\ g \in AllStarts /\ f <= g /\ g < e
      <4>1. b < N /\ b \in Nat
        BY <1>1, <2>2 DEF N
      <4>2. g \in AllStarts
        BY <1>2, <4>1
      <4> QED
        BY <1>1, <1>2, <4>1, <4>2
    <3>2. g - (f - 1) \in end
      BY <1>2, <1>9, <3>1
    <3>3. ASSUME NEW i \in end PROVE i = g - (f - 1)
      <4>1. i \in starts
        OBVIOUS
      <4>2. PICK x \in AllStarts : f <= x /\ x < e /\ i = x - (f - 1)
        <5> HIDE DEF starts, end
        <5> QED
          BY <1>7, <4>1
      <4>3. Left(AllStarts, x) = Left(AllStarts, g)
        BY <1>2, <1>9, <4>2
      <4>4. x = g
        BY <1>1, <3>1, <4>3, SameLeft
      <4> QED
        BY <4>2, <4>4
    <3> HIDE DEF end
    <3>4. end = {g - (f - 1)}
      BY <3>2, <3>3
    <3>5. g - (f - 1) \in Nat
      BY <1>1, <1>2
    <3>6. Min(end) = g - (f - 1)
      BY <3>4, <3>5 DEF Min
    <3>7. upTo = (g - (f - 1)) - 1
      BY <3>2, <3>6
    <3> QED
      BY <1>2, <3>7
  <2> QED
    BY <2>1, <2>2
<1>11. Sentences(a, b) = SubSeq(text, 1, upTo)
  BY DEF Sentences, text, N
<1> HIDE DEF upTo
<1>12. SubSeq(text, 1, g - f) = Part(f, g)
  BY <1>3, <1>4, PartEnds
<1> QED
  BY <1>10, <1>11, <1>12 DEF f, g

-----------------------------------------------------------------------------
(* Tokens, and how much is repeated.                                      *)

\* No text has no tokens.
LEMMA TokensNone == Tokens(<<>>) = 0
  BY SumEmpty DEF Tokens, SumFunction

\* One more piece adds its tokens.
LEMMA TokensOneMore ==
    ASSUME NEW s \in Seq(Piece), NEW p \in Piece
    PROVE  Tokens(s) \in Nat /\ Tokens(Append(s, p)) = Tokens(s) + p.tokens
<1> DEFINE n == Len(s)
           t == Append(s, p)
           f == [k \in DOMAIN s |-> s[k].tokens]
           g == [k \in DOMAIN t |-> t[k].tokens]
<1>1. /\ n \in Nat /\ DOMAIN s = 1 .. n /\ DOMAIN t = 1 .. n + 1 /\ t[n + 1] = p
      /\ \A k \in 1 .. n : t[k] = s[k] /\ s[k] \in Piece
  BY AppendAdds, ElementOfSeq
<1>2. p.tokens \in Nat /\ \A k \in 1 .. n : s[k].tokens \in Nat
  BY <1>1 DEF Piece
<1>3. Tokens(s) = SumFunctionOnSet(f, 1 .. n) /\ Tokens(t) = SumFunctionOnSet(g, 1 .. n + 1)
  BY <1>1 DEF Tokens, SumFunction
<1> HIDE DEF n, t
<1>4. /\ \A k \in 1 .. n : f[k] = s[k].tokens /\ g[k] = f[k] /\ f[k] \in Nat
      /\ g[n + 1] = p.tokens
      /\ \A k \in 1 .. n + 1 : g[k] \in Nat
  <2>1. \A k \in 1 .. n : k \in 1 .. n + 1 /\ f[k] = s[k].tokens /\ g[k] = t[k].tokens
    BY <1>1
  <2>2. g[n + 1] = p.tokens
    BY <1>1
  <2>3. \A k \in 1 .. n + 1 : k \in 1 .. n \/ k = n + 1
    BY <1>1
  <2> HIDE DEF f, g
  <2>4. \A k \in 1 .. n : g[k] = f[k] /\ f[k] \in Nat
    BY <1>1, <1>2, <2>1
  <2> QED
    BY <1>2, <2>1, <2>2, <2>3, <2>4
<1> HIDE DEF f, g
<1>5. IsFiniteSet(1 .. n) /\ IsFiniteSet(1 .. n + 1) /\ n + 1 \in 1 .. n + 1 /\ (1 .. n + 1) \ {n + 1} = 1 .. n
  <2>1. IsFiniteSet(1 .. n) /\ IsFiniteSet(1 .. n + 1)
    BY <1>1, FS_Interval
  <2> QED
    BY <1>1, <2>1
<1>6. SumFunctionOnSet(f, 1 .. n) \in Nat
  BY <1>4, <1>5, SumType
<1>7. SumFunctionOnSet(g, 1 .. n + 1) = g[n + 1] + SumFunctionOnSet(g, (1 .. n + 1) \ {n + 1})
  BY <1>4, <1>5, SumTake
<1>8. SumFunctionOnSet(g, 1 .. n) = SumFunctionOnSet(f, 1 .. n)
  <2>1. \A k \in 1 .. n : g[k] = f[k]
    BY <1>4
  <2> QED
    BY <1>5, <2>1, SameSum
<1>9. SumFunctionOnSet(g, 1 .. n + 1) = p.tokens + SumFunctionOnSet(f, 1 .. n)
  BY <1>4, <1>5, <1>7, <1>8
<1>10. Tokens(s) \in Nat /\ Tokens(t) = p.tokens + Tokens(s)
  BY <1>3, <1>6, <1>9
<1>11. p.tokens + Tokens(s) = Tokens(s) + p.tokens
  BY <1>2, <1>10
<1> QED
  BY <1>10, <1>11 DEF t

\* Tokens add up.
LEMMA TokensJoin ==
    ASSUME NEW s \in Seq(Piece), NEW t \in Seq(Piece)
    PROVE  /\ Tokens(s) \in Nat /\ Tokens(t) \in Nat
           /\ Tokens(s \o t) = Tokens(s) + Tokens(t)
<1> DEFINE n == Len(t)
           u(m) == SubSeq(t, 1, m)
           Off_(m) == Tokens(s \o u(m)) # Tokens(s) + Tokens(u(m))
           Bad == {m \in 0 .. n : Off_(m)}
<1>1. n \in Nat /\ \A k \in 1 .. n : t[k] \in Piece
  BY ElementOfSeq
<1>2. \A m \in 0 .. n : u(m) \in Seq(Piece)
  <2> TAKE m \in 0 .. n
  <2>1. m \in Int /\ \A k \in 1 .. m : t[k] \in Piece
    BY <1>1
  <2> QED
    BY <2>1, SubSeqProperties
<1>3. \A v \in Seq(Piece) : Tokens(v) \in Nat
  <2>1. [block |-> 0, part |-> 0, tokens |-> 1, ends |-> TRUE] \in Piece
    BY DEF Piece
  <2> QED
    BY <2>1, TokensOneMore
<1>4. u(n) = t /\ u(0) = <<>>
  BY <1>1, SubSeqFull, SubSeqEmpty
<1>5. SUFFICES ASSUME Bad # {} PROVE FALSE
  <2>1. n \in 0 .. n
    BY <1>1
  <2>2. ~Off_(n)
    BY <1>5, <2>1
  <2> QED
    BY <1>3, <1>4, <2>2
<1>6. PICK m \in Bad : \A k \in Bad : m <= k
  <2>1. Bad \in SUBSET Nat
    BY <1>1
  <2> HIDE DEF Bad
  <2> QED
    BY <1>5, <2>1, Least
<1>7. m \in 0 .. n /\ Off_(m)
  BY <1>6
<1>8. m # 0
  <2>1. s \o <<>> = s
    BY ConcatEmptySeq
  <2>2. ~Off_(0)
    <3>1. Tokens(s) \in Nat
      BY <1>3
    <3>2. Tokens(s \o u(0)) = Tokens(s) /\ Tokens(u(0)) = 0
      BY <1>4, <2>1, TokensNone
    <3> HIDE DEF u
    <3> QED
      BY <3>1, <3>2
  <2> QED
    BY <1>7, <2>2
<1>9. m - 1 \in 0 .. n /\ ~(m <= m - 1) /\ m \in 1 .. n
  BY <1>1, <1>7, <1>8
<1>10. ~Off_(m - 1)
  BY <1>6, <1>9
<1> DEFINE v == u(m - 1)
           p == t[m]
<1>11. v \in Seq(Piece) /\ p \in Piece /\ s \o v \in Seq(Piece)
  <2>1. v \in Seq(Piece) /\ p \in Piece
    BY <1>1, <1>2, <1>9
  <2> HIDE DEF v
  <2> QED
    BY <2>1, ConcatProperties
<1>12. u(m) = Append(v, p)
  <2>1. 1 \in 1 .. n /\ 1 <= m /\ m \in 1 .. n
    BY <1>1, <1>9
  <2>2. SubSeq(t, 1, m) = SubSeq(t, 1, m - 1) \o <<t[m]>>
    BY <2>1, SubSeqRecursiveSecond
  <2>3. Append(v, p) = v \o <<p>>
    <3> HIDE DEF v
    <3> QED
      BY <1>11, AppendIsConcat
  <2> QED
    BY <2>2, <2>3
<1>13. s \o u(m) = Append(s \o v, p)
  <2> HIDE DEF v, p
  <2>1. Append(v, p) = v \o <<p>> /\ Append(s \o v, p) = (s \o v) \o <<p>> /\ <<p>> \in Seq(Piece)
    BY <1>11, AppendIsConcat
  <2>2. (s \o v) \o <<p>> = s \o (v \o <<p>>)
    <3>1. s \in Seq(Piece) /\ v \in Seq(Piece) /\ <<p>> \in Seq(Piece)
      BY <1>11, <2>1
    <3> QED
      BY <3>1, ConcatAssociative
  <2> QED
    BY <1>12, <2>1, <2>2
<1>14. Tokens(s \o v) = Tokens(s) + Tokens(v)
  BY <1>10
<1> HIDE DEF v, p, u
<1>15. /\ Tokens(u(m)) = Tokens(v) + p.tokens
       /\ Tokens(s \o u(m)) = Tokens(s \o v) + p.tokens
       /\ Tokens(s) \in Nat /\ Tokens(v) \in Nat /\ p.tokens \in Nat
  <2>1. Tokens(u(m)) = Tokens(v) + p.tokens
    BY <1>11, <1>12, TokensOneMore
  <2>2. Tokens(s \o u(m)) = Tokens(s \o v) + p.tokens
    BY <1>11, <1>13, TokensOneMore
  <2>3. p.tokens \in Nat
    BY <1>11 DEF Piece
  <2> QED
    BY <1>3, <1>11, <2>1, <2>2, <2>3
<1> QED
  BY <1>7, <1>14, <1>15

\* Fifteen of a hundred are at least one, and at most all.
LEMMA FifteenWithin == ASSUME NEW c, NEW n \in FifteenPercent(c) PROVE n \in 1 .. c
  BY DEF FifteenPercent

\* As many sentences are repeated as the rule says.
LEMMA RepeatedOf ==
    ASSUME NEW n \in Nat \ {0}
    PROVE  Repeated(n) \in 1 .. n /\ Repeated(n) \in FifteenPercent(n)
<1> DEFINE w == (15 * n) \div 100
           e == (15 * n) % 100
           r == Round(15 * n)
<1>1. w \in Nat /\ e \in 0 .. 99 /\ 15 * n = 100 * w + e
  OBVIOUS
<1>2. (r = w /\ e <= 50) \/ (r = w + 1 /\ e >= 50)
  BY DEF Round
<1> HIDE DEF w, e, r
<1>3. Repeated(n) = IF r = 0 THEN 1 ELSE r
  BY DEF Repeated, r
<1>4. r \in Nat /\ 20 * r - 3 * n \in -10 .. 10
  BY <1>1, <1>2
<1>5. r = 0 => 3 * n < 10
  <2>1. r = 0 => 15 * n <= 50
    BY <1>1, <1>2
  <2>2. 15 * n <= 50 => 3 * n < 10 \/ 3 * n = 10
    OBVIOUS
  <2> QED
    BY <2>1, <2>2
<1>6. r <= n
  BY <1>4
<1>7. Repeated(n) \in 1 .. n
  BY <1>3, <1>4, <1>6
<1>8. Repeated(n) \in FifteenPercent(n)
  BY <1>3, <1>4, <1>5, <1>7 DEF FifteenPercent
<1> QED
  BY <1>7, <1>8

-----------------------------------------------------------------------------
(* The inductive invariant.                                               *)

\* The variables, as sequences.
PackShape ==
    /\ PackTypeOK
    /\ pending \in Seq(Nat) /\ Len(pending) < turn
    /\ chunks \in Seq(Seq(Piece))
    /\ phase = "measure" => turn = 1 /\ pending = <<>> /\ chunks = <<>>

\* Text x opens with whole sentences of the end of the last of cs and goes on
\* with part.
Opens(x, cs, part) ==
    IF cs = <<>> THEN x = part
    ELSE \E n \in FifteenPercent(Cardinality(SentenceStarts(Last(cs)))) :
            x = LastSentences(Last(cs), n) \o part

\* The text is cut at b: chunk k goes on with what is from b[k] to b[k + 1].
Cuts(b, cs) ==
    /\ b \in [1 .. Len(cs) + 1 -> 1 .. Len(All) + 1]
    /\ b[1] = 1
    /\ \A k \in 1 .. Len(cs) :
          b[k] < b[k + 1] /\ Opens(cs[k], SubSeq(cs, 1, k - 1), Part(b[k], b[k + 1]))

\* The blocks from f to g pass the target by the last; the sentences that make
\* text x do, of which those from f to g are new.
BlocksKept(f, g) == OverByOneBlock(Part(f, g))
SentencesKept(x, f, g) == OverByOneSentence(Tokens(x), Part(f, g))

LengthKept(x, f, g) == IF strategy = "structure" THEN BlocksKept(f, g) ELSE SentencesKept(x, f, g)

\* Text x may be under the floor only before a table, that starts at g.
FloorKept(x, g) ==
    Tokens(x) < Floor =>
        /\ strategy = "structure"
        /\ \E i \in DOMAIN parsed :
              g = Off(i) /\ parsed[i].table /\ Tokens(x) + BlockTokens(i) > Ceiling

\* All chunks keep what is said of their length, and the first n what is said
\* of the floor.
Sized(b, cs, n) ==
    /\ \A k \in 1 .. Len(cs) : LengthKept(cs[k], b[k], b[k + 1])
    /\ \A k \in 1 .. n : FloorKept(cs[k], b[k + 1])

\* From c on, the pending blocks; or the pending sentences after those that
\* are repeated from the chunk before.
BlocksPending(c) ==
    /\ c = Off(turn - Len(pending)) /\ JoinedText(pending) = Part(c, Off(turn))
    /\ pending # <<>> => c < Off(turn) /\ BlocksKept(c, Off(turn))

SentencesPending(c) ==
    \E a \in 1 .. SentenceCount + 1 :
        /\ c = At(a)
        /\ pending = <<>> => a = 1
        /\ pending # <<>> =>
             /\ pending[1] >= 1 /\ pending[1] <= a /\ a < turn
             /\ SentencesKept(Part(At(pending[1]), At(turn)), c, At(turn))
             /\ IF chunks = <<>> THEN pending[1] = a
                ELSE \E n \in FifteenPercent(Cardinality(SentenceStarts(Last(chunks)))) :
                        Part(At(pending[1]), At(a)) = LastSentences(Last(chunks), n)

\* A document too short to be cut.
Short == Tokens(All) < Floor + Smallest

\* While the blocks or sentences are packed.
PackingInv ==
    phase = "pack" =>
        /\ All # <<>> /\ ~Short
        /\ pending = <<>> => chunks = <<>> /\ turn = 1
        /\ \E b \in [1 .. Len(chunks) + 1 -> 1 .. Len(All) + 1] :
             /\ Cuts(b, chunks) /\ Sized(b, chunks, Len(chunks))
             /\ IF strategy = "structure" THEN BlocksPending(b[Len(chunks) + 1])
                ELSE SentencesPending(b[Len(chunks) + 1])

\* A short document is one chunk; of any other these were the chunks before an
\* undersized tail was merged.
WholeText == chunks = <<All>> /\ Short

PackedInv ==
    phase = "done" =>
        \/ WholeText
        \/ /\ ~Short
           /\ \E cs \in Seq(Seq(Piece)) :
                /\ chunks = MergeTail(cs) /\ cs # <<>>
                /\ \E b \in [1 .. Len(cs) + 1 -> 1 .. Len(All) + 1] :
                     /\ Cuts(b, cs) /\ Sized(b, cs, Len(cs) - 1)
                     /\ b[Len(cs) + 1] = Len(All) + 1

\* What holds at every turn.
PackInv == PackShape /\ PackingInv /\ PackedInv

-----------------------------------------------------------------------------
(* What a step leaves alone, and one more chunk.                          *)

\* No step changes the document or the strategy, nor what is said of them.
LEMMA TextFixed ==
    ASSUME parsed' = parsed, strategy' = strategy
    PROVE  /\ Everything' = Everything /\ All' = All /\ SentenceCount' = SentenceCount
           /\ AllStarts' = AllStarts
           /\ \A bs : JoinedText(bs)' = JoinedText(bs)
           /\ \A i : Pieces(i)' = Pieces(i) /\ BlockTokens(i)' = BlockTokens(i)
           /\ \A i : Off(i)' = Off(i) /\ At(i)' = At(i)
           /\ \A i, j : Part(i, j)' = Part(i, j) /\ Sentences(i, j)' = Sentences(i, j)
           /\ \A i, j : BlocksKept(i, j)' = BlocksKept(i, j)
           /\ \A x, i, j : SentencesKept(x, i, j)' = SentencesKept(x, i, j)
           /\ \A b, cs : Cuts(b, cs)' = Cuts(b, cs)
           /\ \A b, cs, n : Sized(b, cs, n)' = Sized(b, cs, n)
           /\ Short' = Short
<1>1. \A i : Pieces(i)' = Pieces(i)
  BY DEF Pieces
<1>2. \A bs : JoinedText(bs)' = JoinedText(bs)
  BY <1>1 DEF JoinedText
<1>3. Everything' = Everything
  BY DEF Everything
<1>4. All' = All
  BY <1>2, <1>3 DEF All
<1>5. AllStarts' = AllStarts
  BY <1>4 DEF AllStarts
<1>6. SentenceCount' = SentenceCount
  BY <1>4 DEF SentenceCount, All
<1>7. \A i : BlockTokens(i)' = BlockTokens(i)
  BY <1>1 DEF BlockTokens
<1>8. \A i : Off(i)' = Off(i)
  BY <1>2 DEF Off, First
<1>9. \A i : At(i)' = At(i)
  BY <1>4, <1>5, <1>6 DEF At
<1>10. \A i, j : Part(i, j)' = Part(i, j)
  BY <1>4 DEF Part
<1>11. \A i, j : Sentences(i, j)' = Sentences(i, j)
  <2>1. JoinedText(Everything)' = JoinedText(Everything)
    BY <1>4 DEF All
  <2> QED
    BY <1>6, <2>1 DEF Sentences
<1>12. \A i, j : BlocksKept(i, j)' = BlocksKept(i, j)
  BY <1>7, <1>10 DEF BlocksKept, OverByOneBlock
<1>13. \A x, i, j : SentencesKept(x, i, j)' = SentencesKept(x, i, j)
  BY <1>10 DEF SentencesKept
<1>14. \A b, cs : Cuts(b, cs)' = Cuts(b, cs)
  BY <1>4, <1>10 DEF Cuts
<1>15. \A b, cs, n : Sized(b, cs, n)' = Sized(b, cs, n)
  <2>1. \A x, i, j : LengthKept(x, i, j)' = LengthKept(x, i, j)
    BY <1>12, <1>13 DEF LengthKept
  <2>2. \A x, i : FloorKept(x, i)' = FloorKept(x, i)
    BY <1>7, <1>8 DEF FloorKept
  <2> QED
    BY <2>1, <2>2 DEF Sized
<1>16. Short' = Short
  BY <1>4 DEF Short, Smallest
<1> QED
  BY <1>1, <1>2, <1>3, <1>4, <1>5, <1>6, <1>7, <1>8, <1>9, <1>10, <1>11, <1>12, <1>13, <1>14, <1>15, <1>16

\* A chunk is at least as long as what it goes on with.
LEMMA OpensOf ==
    ASSUME NEW cs \in Seq(Seq(Piece)), NEW part \in Seq(Piece), NEW x, Opens(x, cs, part)
    PROVE  /\ x \in Seq(Piece) /\ Len(x) \in Nat /\ Len(part) \in Nat /\ Len(x) >= Len(part)
           /\ Tokens(x) \in Nat /\ Tokens(part) \in Nat /\ Tokens(x) >= Tokens(part)
<1>1. Len(part) \in Nat /\ Tokens(part) \in Nat
  BY LenProperties, TokensJoin
<1>2. CASE cs = <<>>
  BY <1>1, <1>2 DEF Opens
<1>3. CASE cs # <<>>
  <2> DEFINE l == Last(cs)
  <2>1. l \in Seq(Piece)
    <3>1. Len(cs) \in 1 .. Len(cs)
      BY <1>3, LenProperties, EmptySeq
    <3> QED
      BY <3>1, ElementOfSeq DEF Last
  <2>2. PICK n \in 1 .. Cardinality(SentenceStarts(l)) : x = LastSentences(l, n) \o part
    BY <1>3, FifteenWithin DEF Opens
  <2> HIDE DEF l
  <2> DEFINE o == LastSentences(l, n)
  <2>3. o \in Seq(Piece)
    BY <2>1, LastIsPart
  <2> HIDE DEF o
  <2>4. o \o part \in Seq(Piece) /\ Len(o \o part) = Len(o) + Len(part) /\ Len(o) \in Nat
    BY <2>3, ConcatProperties, LenProperties
  <2>5. Tokens(o \o part) = Tokens(o) + Tokens(part) /\ Tokens(o) \in Nat
    BY <2>3, TokensJoin
  <2>6. x = o \o part
    BY <2>2 DEF o
  <2> QED
    BY <1>1, <2>4, <2>5, <2>6
<1> QED
  BY <1>2, <1>3

\* The cuts as numbers, the chunks as texts that are not empty.
LEMMA CutsOf ==
    ASSUME parsed \in Seq(Blocks), NEW cs \in Seq(Seq(Piece)), NEW b, Cuts(b, cs)
    PROVE  /\ Len(cs) \in Nat /\ Len(All) \in Nat
           /\ \A k \in 1 .. Len(cs) + 1 : b[k] \in 1 .. Len(All) + 1 /\ b[k] \in Nat
           /\ \A k \in 1 .. Len(cs) :
                 /\ b[k + 1] \in b[k] .. Len(All) + 1 /\ b[k] < b[k + 1]
                 /\ SubSeq(cs, 1, k - 1) \in Seq(Seq(Piece)) /\ Len(SubSeq(cs, 1, k - 1)) = k - 1
                 /\ k > 1 => Last(SubSeq(cs, 1, k - 1)) = cs[k - 1]
                 /\ Part(b[k], b[k + 1]) \in Seq(Piece) /\ Part(b[k], b[k + 1]) # <<>>
                 /\ cs[k] \in Seq(Piece) /\ cs[k] # <<>>
                 /\ Tokens(cs[k]) \in Nat /\ Tokens(Part(b[k], b[k + 1])) <= Tokens(cs[k])
<1>1. Len(cs) \in Nat /\ Len(All) \in Nat
  BY OffsetsOf, LenProperties
<1>2. \A k \in 1 .. Len(cs) + 1 : b[k] \in 1 .. Len(All) + 1 /\ b[k] \in Nat
  <2>1. b \in [1 .. Len(cs) + 1 -> 1 .. Len(All) + 1]
    BY DEF Cuts
  <2> TAKE k \in 1 .. Len(cs) + 1
  <2>2. b[k] \in 1 .. Len(All) + 1
    BY <2>1
  <2> QED
    BY <1>1, <2>2
<1>3. ASSUME NEW k \in 1 .. Len(cs)
      PROVE  /\ b[k + 1] \in b[k] .. Len(All) + 1 /\ b[k] < b[k + 1]
             /\ SubSeq(cs, 1, k - 1) \in Seq(Seq(Piece)) /\ Len(SubSeq(cs, 1, k - 1)) = k - 1
             /\ k > 1 => Last(SubSeq(cs, 1, k - 1)) = cs[k - 1]
             /\ Part(b[k], b[k + 1]) \in Seq(Piece) /\ Part(b[k], b[k + 1]) # <<>>
             /\ cs[k] \in Seq(Piece) /\ cs[k] # <<>>
             /\ Tokens(cs[k]) \in Nat /\ Tokens(Part(b[k], b[k + 1])) <= Tokens(cs[k])
  <2>1. k \in 1 .. Len(cs) + 1 /\ k + 1 \in 1 .. Len(cs) + 1
    BY <1>1
  <2>2. b[k] < b[k + 1] /\ Opens(cs[k], SubSeq(cs, 1, k - 1), Part(b[k], b[k + 1]))
    BY DEF Cuts
  <2>3. b[k + 1] \in b[k] .. Len(All) + 1 /\ b[k] \in 1 .. Len(All) + 1
    BY <1>1, <1>2, <2>1, <2>2
  <2> DEFINE p == Part(b[k], b[k + 1])
             q == SubSeq(cs, 1, k - 1)
  <2>4. p \in Seq(Piece) /\ Len(p) = b[k + 1] - b[k]
    BY <2>3, PartOf
  <2>5. q \in Seq(Seq(Piece)) /\ Len(q) = k - 1 /\ \A i \in 1 .. k - 1 : q[i] = cs[i]
    <3>1. 1 \in Int /\ k - 1 \in Int /\ \A i \in 1 .. k - 1 : cs[i] \in Seq(Piece)
      BY <1>1, ElementOfSeq
    <3>2. q \in Seq(Seq(Piece)) /\ Len(q) = IF 1 <= k - 1 THEN (k - 1) - 1 + 1 ELSE 0
      BY <3>1, SubSeqProperties
    <3>3. \A i \in 1 .. (k - 1) - 1 + 1 : q[i] = cs[1 + i - 1]
      BY <3>1, SubSeqProperties
    <3>4. ASSUME NEW i \in 1 .. k - 1 PROVE q[i] = cs[i]
      <4>1. i \in 1 .. (k - 1) - 1 + 1 /\ 1 + i - 1 = i
        OBVIOUS
      <4> QED
        BY <3>3, <4>1
    <3> HIDE DEF q
    <3> QED
      BY <3>2, <3>4
  <2> HIDE DEF p, q
  <2>6. cs[k] \in Seq(Piece) /\ Len(cs[k]) >= Len(p) /\ Tokens(cs[k]) \in Nat /\ Tokens(p) <= Tokens(cs[k])
        /\ Len(cs[k]) \in Nat /\ Tokens(p) \in Nat
    <3>1. Opens(cs[k], q, p)
      BY <2>2 DEF p, q
    <3> QED
      BY <2>4, <2>5, <3>1, OpensOf
  <2>7. Len(p) > 0
    <3>1. b[k] \in Nat /\ b[k + 1] \in Nat /\ b[k] < b[k + 1]
      BY <1>2, <2>1, <2>2
    <3>2. Len(p) = b[k + 1] - b[k]
      BY <2>4
    <3> QED
      BY <3>1, <3>2
  <2>8. p # <<>> /\ cs[k] # <<>>
    BY <2>6, <2>7
  <2>9. k > 1 => Last(q) = cs[k - 1]
    BY <1>1, <2>5 DEF Last
  <2> QED
    BY <2>2, <2>3, <2>4, <2>5, <2>6, <2>8, <2>9 DEF p, q
<1> QED
  BY <1>1, <1>2, <1>3

\* One more chunk.
LEMMA OneMoreChunk ==
    ASSUME parsed \in Seq(Blocks), NEW cs \in Seq(Seq(Piece)), NEW b, Cuts(b, cs),
           NEW g \in 1 .. Len(All) + 1, b[Len(cs) + 1] < g,
           NEW x, Opens(x, cs, Part(b[Len(cs) + 1], g)),
           Sized(b, cs, Len(cs)), LengthKept(x, b[Len(cs) + 1], g)
    PROVE  /\ x \in Seq(Piece) /\ Append(cs, x) \in Seq(Seq(Piece)) /\ Len(Append(cs, x)) = Len(cs) + 1
           /\ Tokens(x) \in Nat /\ Tokens(x) >= Tokens(Part(b[Len(cs) + 1], g))
           /\ \E d \in [1 .. Len(Append(cs, x)) + 1 -> 1 .. Len(All) + 1] :
                 /\ Cuts(d, Append(cs, x)) /\ d[Len(Append(cs, x)) + 1] = g
                 /\ Sized(d, Append(cs, x), Len(Append(cs, x)) - 1)
                 /\ FloorKept(x, g) => Sized(d, Append(cs, x), Len(Append(cs, x)))
<1> DEFINE n == Len(cs)
           c == b[n + 1]
           p == Part(c, g)
           es == Append(cs, x)
           d == [k \in 1 .. n + 2 |-> IF k = n + 2 THEN g ELSE b[k]]
<1>1. /\ n \in Nat /\ Len(All) \in Nat
      /\ \A k \in 1 .. n + 1 : b[k] \in 1 .. Len(All) + 1 /\ b[k] \in Nat
  BY CutsOf
<1>2. c \in 1 .. Len(All) + 1 /\ g \in c .. Len(All) + 1
  <2>1. n + 1 \in 1 .. n + 1
    BY <1>1
  <2> QED
    BY <1>1, <2>1
<1>3. p \in Seq(Piece)
  BY <1>2, PartOf
<1>4. x \in Seq(Piece) /\ Tokens(x) \in Nat /\ Tokens(x) >= Tokens(p)
  BY <1>3, OpensOf
<1>5. /\ es \in Seq(Seq(Piece)) /\ Len(es) = n + 1 /\ es[n + 1] = x
      /\ \A k \in 1 .. n : es[k] = cs[k]
  BY <1>4, AppendProperties
<1>6. /\ d \in [1 .. n + 2 -> 1 .. Len(All) + 1] /\ d[n + 2] = g
      /\ \A k \in 1 .. n + 1 : d[k] = b[k]
  <2>1. \A k \in 1 .. n + 2 : k = n + 2 \/ k \in 1 .. n + 1
    BY <1>1
  <2>2. \A k \in 1 .. n + 2 : (IF k = n + 2 THEN g ELSE b[k]) \in 1 .. Len(All) + 1
    BY <1>1, <2>1
  <2>3. n + 2 \in 1 .. n + 2 /\ \A k \in 1 .. n + 1 : k \in 1 .. n + 2 /\ k # n + 2
    BY <1>1
  <2> QED
    BY <2>2, <2>3
<1> HIDE DEF d, es, n
<1>7. \A k \in 1 .. n + 1 : SubSeq(es, 1, k - 1) = SubSeq(cs, 1, k - 1)
  <2> TAKE k \in 1 .. n + 1
  <2> DEFINE u == SubSeq(es, 1, k - 1)
             v == SubSeq(cs, 1, k - 1)
  <2>1. 1 \in Int /\ k - 1 \in Int /\ \A i \in 1 .. k - 1 : i \in 1 .. n
    BY <1>1
  <2>2. \A i \in 1 .. k - 1 : cs[i] \in Seq(Piece) /\ es[i] = cs[i]
    BY <1>5, <2>1, ElementOfSeq DEF n
  <2>3. /\ u \in Seq(Seq(Piece)) /\ Len(u) = IF 1 <= k - 1 THEN (k - 1) - 1 + 1 ELSE 0
        /\ \A i \in 1 .. (k - 1) - 1 + 1 : u[i] = es[1 + i - 1]
    <3>1. \A i \in 1 .. k - 1 : es[i] \in Seq(Piece)
      BY <2>2
    <3> QED
      BY <2>1, <3>1, SubSeqProperties
  <2>4. /\ v \in Seq(Seq(Piece)) /\ Len(v) = IF 1 <= k - 1 THEN (k - 1) - 1 + 1 ELSE 0
        /\ \A i \in 1 .. (k - 1) - 1 + 1 : v[i] = cs[1 + i - 1]
    BY <2>1, <2>2, SubSeqProperties
  <2> HIDE DEF u, v
  <2>5. Len(u) = Len(v) /\ Len(u) = k - 1
    BY <1>1, <2>3, <2>4
  <2>6. ASSUME NEW i \in 1 .. Len(u) PROVE u[i] = v[i]
    <3>1. i \in 1 .. (k - 1) - 1 + 1 /\ 1 + i - 1 = i /\ i \in 1 .. k - 1
      BY <1>1, <2>5
    <3> QED
      BY <2>2, <2>3, <2>4, <3>1
  <2>7. u = v
    BY <2>3, <2>4, <2>5, <2>6, SeqEqual
  <2> QED
    BY <2>7 DEF u, v
<1>8. SubSeq(es, 1, n) = cs
  <2>1. (n + 1) - 1 = n /\ n + 1 \in 1 .. n + 1
    BY <1>1
  <2>2. SubSeq(cs, 1, n) = cs
    BY SubSeqFull DEF n
  <2> QED
    BY <1>7, <2>1, <2>2
<1>9. Cuts(d, es)
  <2>1. Len(es) + 1 = n + 2
    BY <1>1, <1>5
  <2>2. d[1] = 1
    BY <1>1, <1>6 DEF Cuts
  <2>3. ASSUME NEW k \in 1 .. n + 1
        PROVE  d[k] < d[k + 1] /\ Opens(es[k], SubSeq(es, 1, k - 1), Part(d[k], d[k + 1]))
    <3>1. CASE k = n + 1
      <4>1. d[k] = c /\ d[k + 1] = g /\ k - 1 = n /\ es[k] = x
        BY <1>1, <1>5, <1>6, <3>1
      <4> QED
        BY <1>8, <4>1 DEF n
    <3>2. CASE k # n + 1
      <4>1. k \in 1 .. n /\ k \in 1 .. n + 1 /\ k + 1 \in 1 .. n + 1
        BY <1>1, <3>2
      <4>2. d[k] = b[k] /\ d[k + 1] = b[k + 1] /\ es[k] = cs[k] /\ SubSeq(es, 1, k - 1) = SubSeq(cs, 1, k - 1)
        BY <1>5, <1>6, <1>7, <4>1
      <4> QED
        BY <4>1, <4>2 DEF Cuts, n
    <3> QED
      BY <3>1, <3>2
  <2> QED
    BY <1>1, <1>5, <1>6, <2>1, <2>2, <2>3 DEF Cuts
<1>10. /\ \A k \in 1 .. n + 1 : LengthKept(es[k], d[k], d[k + 1])
       /\ \A k \in 1 .. n : FloorKept(es[k], d[k + 1])
  <2>1. ASSUME NEW k \in 1 .. n
        PROVE  LengthKept(es[k], d[k], d[k + 1]) /\ FloorKept(es[k], d[k + 1])
    <3>1. k \in 1 .. n + 1 /\ k + 1 \in 1 .. n + 1
      BY <1>1
    <3>2. d[k] = b[k] /\ d[k + 1] = b[k + 1] /\ es[k] = cs[k]
      BY <1>5, <1>6, <3>1
    <3>3. LengthKept(cs[k], b[k], b[k + 1]) /\ FloorKept(cs[k], b[k + 1])
      BY DEF Sized, n
    <3> QED
      BY <3>2, <3>3
  <2>2. LengthKept(es[n + 1], d[n + 1], d[(n + 1) + 1])
    <3>1. d[n + 1] = c /\ d[(n + 1) + 1] = g /\ es[n + 1] = x
      BY <1>1, <1>5, <1>6
    <3> QED
      BY <3>1 DEF n
  <2>3. \A k \in 1 .. n + 1 : k \in 1 .. n \/ k = n + 1
    BY <1>1
  <2> QED
    BY <2>1, <2>2, <2>3
<1>11. FloorKept(x, g) => \A k \in 1 .. n + 1 : FloorKept(es[k], d[k + 1])
  <2>1. d[(n + 1) + 1] = g /\ es[n + 1] = x
    BY <1>1, <1>5, <1>6
  <2>2. \A k \in 1 .. n + 1 : k \in 1 .. n \/ k = n + 1
    BY <1>1
  <2> QED
    BY <1>10, <2>1, <2>2
<1>12. Len(es) + 1 = n + 2 /\ Len(es) - 1 = n /\ Len(es) = n + 1
  BY <1>1, <1>5
<1>13. Sized(d, es, Len(es) - 1) /\ (FloorKept(x, g) => Sized(d, es, Len(es)))
  BY <1>10, <1>11, <1>12 DEF Sized
<1> HIDE DEF c, p
<1>14. \E h \in [1 .. Len(es) + 1 -> 1 .. Len(All) + 1] :
          /\ Cuts(h, es) /\ h[Len(es) + 1] = g
          /\ Sized(h, es, Len(es) - 1) /\ (FloorKept(x, g) => Sized(h, es, Len(es)))
  BY <1>6, <1>9, <1>12, <1>13
<1> QED
  BY <1>4, <1>5, <1>14 DEF n, c, p, es

\* What two texts hold one after the other.
LEMMA ToSetJoin ==
    ASSUME NEW S, NEW s \in Seq(S), NEW t \in Seq(S)
    PROVE  ToSet(s \o t) = ToSet(s) \cup ToSet(t)
<1> DEFINE u == s \o t
           m == Len(s)
           n == Len(t)
<1>1. m \in Nat /\ n \in Nat /\ DOMAIN s = 1 .. m /\ DOMAIN t = 1 .. n
  BY LenProperties
<1>2. /\ DOMAIN u = 1 .. m + n
      /\ \A k \in 1 .. m : u[k] = s[k]
      /\ \A k \in 1 .. n : u[m + k] = t[k]
  <2>1. u \in Seq(S) /\ Len(u) = m + n /\ \A k \in 1 .. m + n : u[k] = IF k <= m THEN s[k] ELSE t[k - m]
    BY ConcatProperties
  <2> HIDE DEF u, m, n
  <2>2. \A k \in 1 .. m : k \in 1 .. m + n /\ k <= m
    BY <1>1
  <2>3. \A k \in 1 .. n : m + k \in 1 .. m + n /\ ~(m + k <= m) /\ (m + k) - m = k
    BY <1>1
  <2> QED
    BY <1>1, <2>1, <2>2, <2>3, LenProperties
<1> HIDE DEF u, m, n
<1>3. ASSUME NEW k \in 1 .. m + n PROVE u[k] \in ToSet(s) \cup ToSet(t)
  <2>1. CASE k <= m
    <3>1. k \in 1 .. m
      BY <1>1, <2>1
    <3> QED
      BY <1>1, <1>2, <3>1 DEF ToSet
  <2>2. CASE ~(k <= m)
    <3>1. k - m \in 1 .. n /\ m + (k - m) = k
      BY <1>1, <2>2
    <3>2. u[m + (k - m)] = t[k - m]
      BY <1>2, <3>1
    <3> QED
      BY <1>1, <3>1, <3>2 DEF ToSet
  <2> QED
    BY <2>1, <2>2
<1>4. \A k \in 1 .. m : s[k] \in ToSet(u)
  <2>1. \A k \in 1 .. m : k \in 1 .. m + n
    BY <1>1
  <2> QED
    BY <1>2, <2>1 DEF ToSet
<1>5. \A k \in 1 .. n : t[k] \in ToSet(u)
  <2>1. \A k \in 1 .. n : m + k \in 1 .. m + n
    BY <1>1
  <2> QED
    BY <1>2, <2>1 DEF ToSet
<1>6. ToSet(u) \subseteq ToSet(s) \cup ToSet(t)
  BY <1>2, <1>3 DEF ToSet
<1>7. ToSet(s) \subseteq ToSet(u) /\ ToSet(t) \subseteq ToSet(u)
  BY <1>1, <1>4, <1>5 DEF ToSet
<1> QED
  BY <1>6, <1>7 DEF u

\* A chunk holds nothing the text has after its cut.
LEMMA ChunksWithin ==
    ASSUME parsed \in Seq(Blocks), NEW cs \in Seq(Seq(Piece)), NEW b, Cuts(b, cs)
    PROVE  \A k \in 1 .. Len(cs) : ToSet(cs[k]) \subseteq {All[x] : x \in 1 .. b[k + 1] - 1}
<1> DEFINE W(k) == {All[x] : x \in 1 .. b[k + 1] - 1}
           Bad == {k \in 1 .. Len(cs) : ~(ToSet(cs[k]) \subseteq W(k))}
<1>1. SUFFICES ASSUME Bad # {} PROVE FALSE
  OBVIOUS
<1>2. Len(cs) \in Nat /\ Len(All) \in Nat
  BY CutsOf
<1>3. PICK k \in Bad : \A j \in Bad : k <= j
  <2>1. Bad \in SUBSET Nat
    BY <1>2
  <2> HIDE DEF Bad
  <2> QED
    BY <1>1, <2>1, Least
<1>4. k \in 1 .. Len(cs) /\ ~(ToSet(cs[k]) \subseteq W(k)) /\ k \in 1 .. Len(cs) + 1 /\ k + 1 \in 1 .. Len(cs) + 1
  BY <1>2, <1>3
<1> DEFINE p == Part(b[k], b[k + 1])
           q == SubSeq(cs, 1, k - 1)
<1>5. /\ b[k] \in 1 .. Len(All) + 1 /\ b[k + 1] \in b[k] .. Len(All) + 1
      /\ q \in Seq(Seq(Piece)) /\ Len(q) = k - 1 /\ (k > 1 => Last(q) = cs[k - 1])
      /\ p \in Seq(Piece)
  BY <1>4, CutsOf
<1>6. Opens(cs[k], q, p)
  BY <1>4 DEF Cuts
<1>7. ToSet(p) \subseteq W(k)
  <2>1. ToSet(p) = {All[x] : x \in b[k] .. b[k + 1] - 1}
    BY <1>5, PartOf
  <2>2. \A x \in b[k] .. b[k + 1] - 1 : x \in 1 .. b[k + 1] - 1
    BY <1>5
  <2> HIDE DEF p
  <2> QED
    BY <2>1, <2>2
<1> HIDE DEF p, q, Bad
<1>8. q # <<>>
  <2>1. q = <<>> => cs[k] = p
    BY <1>6 DEF Opens
  <2> QED
    BY <1>4, <1>7, <2>1
<1>9. k > 1 /\ k - 1 \in 1 .. Len(cs) /\ ~(k <= k - 1) /\ (k - 1) + 1 = k
  <2>1. k # 1
    BY <1>5, <1>8, EmptySeq
  <2>2. ASSUME NEW m \in Nat, NEW i \in 1 .. m, i # 1
        PROVE  i > 1 /\ i - 1 \in 1 .. m /\ ~(i <= i - 1) /\ (i - 1) + 1 = i
    BY <2>2
  <2> QED
    BY <1>2, <1>4, <2>1, <2>2
<1>10. Last(q) = cs[k - 1] /\ cs[k - 1] \in Seq(Piece)
  BY <1>5, <1>9, ElementOfSeq
<1>11. PICK n \in 1 .. Cardinality(SentenceStarts(cs[k - 1])) : cs[k] = LastSentences(cs[k - 1], n) \o p
  BY <1>6, <1>8, <1>10, FifteenWithin DEF Opens
<1> DEFINE o == LastSentences(cs[k - 1], n)
<1>12. o \in Seq(Piece) /\ ToSet(o) \subseteq ToSet(cs[k - 1])
  BY <1>10, LastIsPart
<1>13. ToSet(cs[k - 1]) \subseteq W(k)
  <2>1. k - 1 \notin Bad
    BY <1>3, <1>9
  <2>2. ToSet(cs[k - 1]) \subseteq W(k - 1)
    BY <1>9, <2>1 DEF Bad
  <2>3. W(k - 1) = {All[x] : x \in 1 .. b[k] - 1}
    BY <1>9
  <2>4. \A x \in 1 .. b[k] - 1 : x \in 1 .. b[k + 1] - 1
    BY <1>2, <1>5
  <2> QED
    BY <2>2, <2>3, <2>4
<1> HIDE DEF W, o
<1>14. ToSet(o \o p) = ToSet(o) \cup ToSet(p)
  BY <1>5, <1>12, ToSetJoin
<1> QED
  BY <1>4, <1>7, <1>11, <1>12, <1>13, <1>14 DEF o

\* Chunks hold pieces of the text only.
LEMMA ChunksOfAll ==
    ASSUME parsed \in Seq(Blocks), NEW cs \in Seq(Seq(Piece)), NEW b, Cuts(b, cs)
    PROVE  \A k \in DOMAIN cs : ToSet(cs[k]) \subseteq ToSet(All)
<1> TAKE k \in DOMAIN cs
<1>1. k \in 1 .. Len(cs) /\ Len(cs) \in Nat /\ k + 1 \in 1 .. Len(cs) + 1
  BY LenProperties
<1>2. ToSet(cs[k]) \subseteq {All[x] : x \in 1 .. b[k + 1] - 1}
  BY <1>1, ChunksWithin
<1>3. b[k + 1] \in 1 .. Len(All) + 1 /\ Len(All) \in Nat
  BY <1>1, CutsOf
<1>4. DOMAIN All = 1 .. Len(All)
  BY OffsetsOf, LenProperties
<1>5. \A x \in 1 .. b[k + 1] - 1 : x \in DOMAIN All
  BY <1>3, <1>4
<1> QED
  BY <1>2, <1>5 DEF ToSet

\* Merging the tail back, or not.
LEMMA MergeTailOf ==
    ASSUME NEW cs \in Seq(Seq(Piece)), cs # <<>>
    PROVE  /\ MergeTail(cs) \in Seq(Seq(Piece)) /\ Len(cs) \in Nat \ {0}
           /\ \/ MergeTail(cs) = cs /\ (Len(cs) > 1 => Tokens(Last(cs)) >= Floor)
              \/ /\ Len(cs) > 1 /\ Len(MergeTail(cs)) = Len(cs) - 1 /\ Tokens(cs[Len(cs)]) < Floor
                 /\ MergeTail(cs) = Append(SubSeq(cs, 1, Len(cs) - 2), cs[Len(cs) - 1] \o cs[Len(cs)])
                 /\ SubSeq(cs, 1, Len(cs) - 2) \in Seq(Seq(Piece))
                 /\ \A k \in 1 .. Len(cs) - 2 : MergeTail(cs)[k] = cs[k]
                 /\ MergeTail(cs)[Len(cs) - 1] = cs[Len(cs) - 1] \o cs[Len(cs)]
<1> DEFINE n == Len(cs)
           q == SubSeq(cs, 1, n - 2)
           x == cs[n - 1] \o cs[n]
<1>1. n \in Nat \ {0} /\ \A k \in 1 .. n : cs[k] \in Seq(Piece)
  BY LenProperties, EmptySeq, ElementOfSeq
<1>2. CASE ~(n > 1 /\ Tokens(Last(cs)) < Floor)
  <2>1. MergeTail(cs) = cs
    BY <1>2 DEF MergeTail
  <2>2. Len(cs) > 1 => Tokens(Last(cs)) >= Floor
    <3>1. Last(cs) \in Seq(Piece)
      BY <1>1 DEF Last
    <3>2. Tokens(Last(cs)) \in Nat
      BY <3>1, TokensJoin
    <3> QED
      BY <1>2, <3>2 DEF Floor
  <2> QED
    BY <1>1, <2>1, <2>2
<1>3. CASE n > 1 /\ Tokens(Last(cs)) < Floor
  <2>1. MergeTail(cs) = Append(q, x) /\ Tokens(cs[n]) < Floor
    BY <1>3 DEF MergeTail, Last
  <2>2. x \in Seq(Piece)
    <3>1. n - 1 \in 1 .. n /\ n \in 1 .. n
      BY <1>1, <1>3
    <3> QED
      BY <1>1, <3>1, ConcatProperties
  <2>3. q \in Seq(Seq(Piece)) /\ Len(q) = n - 2 /\ \A k \in 1 .. n - 2 : q[k] = cs[k]
    <3>1. 1 \in Int /\ n - 2 \in Int /\ \A k \in 1 .. n - 2 : cs[k] \in Seq(Piece)
      BY <1>1
    <3>2. q \in Seq(Seq(Piece)) /\ Len(q) = IF 1 <= n - 2 THEN (n - 2) - 1 + 1 ELSE 0
      BY <3>1, SubSeqProperties
    <3>3. \A k \in 1 .. (n - 2) - 1 + 1 : q[k] = cs[1 + k - 1]
      BY <3>1, SubSeqProperties
    <3> HIDE DEF q, n
    <3>4. ASSUME NEW k \in 1 .. n - 2 PROVE q[k] = cs[k]
      <4>1. k \in 1 .. (n - 2) - 1 + 1 /\ 1 + k - 1 = k
        BY <1>1
      <4> QED
        BY <3>3, <4>1
    <3>5. Len(q) = n - 2
      BY <1>1, <1>3, <3>2
    <3> QED
      BY <3>2, <3>4, <3>5
  <2> HIDE DEF q, x, n
  <2>4. /\ Append(q, x) \in Seq(Seq(Piece)) /\ Len(Append(q, x)) = Len(q) + 1
        /\ Append(q, x)[Len(q) + 1] = x /\ \A k \in 1 .. Len(q) : Append(q, x)[k] = q[k]
    BY <2>2, <2>3, AppendAdds
  <2>5. (n - 2) + 1 = n - 1
    BY <1>1
  <2> QED
    BY <1>1, <1>3, <2>1, <2>3, <2>4, <2>5 DEF q, x, n
<1> QED
  BY <1>2, <1>3

\* Merging the tail back adds no piece.
LEMMA MergedOfAll ==
    ASSUME NEW cs \in Seq(Seq(Piece)), cs # <<>>, NEW S, \A k \in DOMAIN cs : ToSet(cs[k]) \subseteq S
    PROVE  \A k \in DOMAIN MergeTail(cs) : ToSet(MergeTail(cs)[k]) \subseteq S
<1> DEFINE n == Len(cs)
           es == MergeTail(cs)
<1>1. /\ n \in Nat \ {0} /\ es \in Seq(Seq(Piece)) /\ DOMAIN cs = 1 .. n
      /\ \A k \in 1 .. n : cs[k] \in Seq(Piece) /\ ToSet(cs[k]) \subseteq S
  BY MergeTailOf, LenProperties, ElementOfSeq
<1>2. CASE es = cs
  BY <1>2
<1>3. CASE n > 1 /\ Len(es) = n - 1 /\ (\A k \in 1 .. n - 2 : es[k] = cs[k]) /\ es[n - 1] = cs[n - 1] \o cs[n]
  <2> HIDE DEF es, n
  <2>1. DOMAIN es = 1 .. n - 1
    BY <1>1, <1>3, LenProperties
  <2>2. n - 1 \in 1 .. n /\ n \in 1 .. n /\ \A k \in 1 .. n - 1 : k = n - 1 \/ k \in 1 .. n - 2
    BY <1>1, <1>3
  <2>3. ToSet(es[n - 1]) = ToSet(cs[n - 1]) \cup ToSet(cs[n])
    BY <1>1, <1>3, <2>2, ToSetJoin
  <2>4. \A k \in 1 .. n - 2 : ToSet(es[k]) \subseteq S
    <3>1. \A k \in 1 .. n - 2 : k \in 1 .. n
      BY <1>1
    <3> QED
      BY <1>1, <1>3, <3>1
  <2>5. \A k \in 1 .. n - 1 : ToSet(es[k]) \subseteq S
    BY <1>1, <2>2, <2>3, <2>4
  <2> QED
    BY <2>1, <2>5 DEF es
<1> QED
  BY <1>1, <1>2, <1>3, MergeTailOf

-----------------------------------------------------------------------------
(* The loop over the blocks.                                              *)

\* The pending blocks are in the document, the one the loop is at is next.
LEMMA PendingBlocks ==
    ASSUME PackShape, strategy = "structure"
    PROVE  /\ parsed \in Seq(Blocks) /\ turn \in 1 .. Len(parsed) + 1 /\ Len(parsed) \in Nat
           /\ Len(pending) \in Nat /\ turn - Len(pending) \in 1 .. turn
           /\ DOMAIN parsed = 1 .. Len(parsed) /\ pending \in Seq(DOMAIN parsed)
<1>1. parsed \in Seq(Blocks) /\ turn \in 1 .. Len(parsed) + 1
  BY DEF PackShape, PackTypeOK
<1>2. Len(parsed) \in Nat /\ DOMAIN parsed = 1 .. Len(parsed)
  BY <1>1, LenProperties
<1>3. /\ pending \in Seq(Nat) /\ Len(pending) < turn
      /\ \A k \in DOMAIN pending : pending[k] = turn - Len(pending) + k - 1
  BY DEF PackShape, PackTypeOK
<1>4. Len(pending) \in Nat /\ DOMAIN pending = 1 .. Len(pending)
  BY <1>3, LenProperties
<1>5. turn - Len(pending) \in 1 .. turn
  BY <1>1, <1>3, <1>4
<1>6. \A k \in 1 .. Len(pending) : pending[k] \in DOMAIN parsed
  <2> TAKE k \in 1 .. Len(pending)
  <2>1. pending[k] = turn - Len(pending) + k - 1
    BY <1>3, <1>4
  <2>2. turn - Len(pending) + k - 1 \in 1 .. Len(parsed)
    BY <1>1, <1>2, <1>3, <1>4
  <2> QED
    BY <1>2, <2>1, <2>2
<1>7. pending \in Seq(DOMAIN parsed)
  BY <1>3, <1>4, <1>6
<1> QED
  BY <1>1, <1>2, <1>4, <1>5, <1>7

\* A block that is packed keeps the length.
LEMMA BlockPacked ==
    ASSUME parsed \in Seq(Blocks), NEW i \in DOMAIN parsed, strategy = "structure",
           NEW c \in 1 .. Off(i),
           ~(Tokens(Part(c, Off(i))) + BlockTokens(i) > TargetMax /\ Tokens(Part(c, Off(i))) >= Floor),
           \/ Tokens(Part(c, Off(i))) = 0
           \/ ~(parsed[i].table /\ Tokens(Part(c, Off(i))) + BlockTokens(i) > Ceiling)
    PROVE  /\ Part(c, Off(i + 1)) = Part(c, Off(i)) \o Pieces(i)
           /\ c < Off(i + 1) /\ BlocksKept(c, Off(i + 1))
<1> DEFINE f == Off(i)
           g == Off(i + 1)
           p == Pieces(i)
           u == Part(c, f)
           w == Part(c, g)
<1>1. /\ i \in 1 .. Len(parsed) /\ i \in 1 .. Len(parsed) + 1 /\ i + 1 \in 1 .. Len(parsed) + 1
  BY FirstBlocks
<1>2. /\ Len(All) \in Nat /\ f \in 1 .. Len(All) + 1 /\ g \in 1 .. Len(All) + 1 /\ f < g
  BY <1>1, OffsetsOf
<1>3. p \in Seq(Piece) /\ Len(p) \in Nat \ {0} /\ \A k \in 1 .. Len(p) : p[k].block = i
  BY PiecesOf
<1>4. p = Part(f, g)
  BY BlockInText DEF Part
<1> HIDE DEF p
<1>5. c \in 1 .. Len(All) + 1 /\ f \in c .. Len(All) + 1 /\ g \in f .. Len(All) + 1 /\ c < g
  <2> HIDE DEF f, g
  <2>1. c \in 1 .. f
    BY DEF f
  <2> QED
    BY <1>2, <2>1
<1>6. w = u \o p
  <2> HIDE DEF f, g
  <2> QED
    BY <1>4, <1>5, PartsJoin
<1>7. u \in Seq(Piece)
  <2> HIDE DEF f, g
  <2> QED
    BY <1>5, PartOf
<1>8. /\ Tokens(u) \in Nat /\ Tokens(p) \in Nat /\ Tokens(w) = Tokens(u) + Tokens(p)
  <2> HIDE DEF u, w
  <2> QED
    BY <1>3, <1>6, <1>7, TokensJoin
<1>9. Last(w).block = i
  <2> HIDE DEF u, w, p
  <2>1. /\ Len(u \o p) = Len(u) + Len(p) /\ Len(u) \in Nat
        /\ \A k \in 1 .. Len(u) + Len(p) : (u \o p)[k] = IF k <= Len(u) THEN u[k] ELSE p[k - Len(u)]
    BY <1>3, <1>7, ConcatProperties, LenProperties
  <2>2. /\ Len(u) + Len(p) \in 1 .. Len(u) + Len(p) /\ ~(Len(u) + Len(p) <= Len(u))
        /\ (Len(u) + Len(p)) - Len(u) = Len(p) /\ Len(p) \in 1 .. Len(p)
    BY <1>3, <2>1
  <2>3. Last(w) = p[Len(p)]
    BY <1>6, <2>1, <2>2 DEF Last
  <2> QED
    BY <1>3, <2>2, <2>3
<1>10. BlockTokens(i) = Tokens(p)
  BY DEF BlockTokens, p
<1>11. Tokens(w) > TargetMax => Tokens(w) - BlockTokens(Last(w).block) < Floor
  <2>1. ~(Tokens(u) + Tokens(p) > TargetMax /\ Tokens(u) >= Floor)
    BY <1>10
  <2>2. Tokens(w) - Tokens(p) = Tokens(u)
    BY <1>8
  <2> HIDE DEF u, w
  <2>3. Tokens(u) + Tokens(p) > TargetMax => Tokens(u) < Floor
    BY <1>8, <2>1 DEF Floor
  <2> QED
    BY <1>8, <1>9, <1>10, <2>2, <2>3
<1>12. parsed[Last(w).block].table =>
          Tokens(w) - BlockTokens(Last(w).block) = 0 \/ Tokens(w) <= Ceiling
  <2> SUFFICES ASSUME parsed[i].table PROVE Tokens(w) - Tokens(p) = 0 \/ Tokens(w) <= Ceiling
    BY <1>9, <1>10
  <2>1. Tokens(u) = 0 \/ ~(Tokens(u) + Tokens(p) > Ceiling)
    BY <1>10
  <2> HIDE DEF u, w
  <2> QED
    BY <1>8, <2>1 DEF Ceiling
<1>13. BlocksKept(c, g)
  <2> HIDE DEF u, f, g
  <2> QED
    BY <1>11, <1>12 DEF BlocksKept, OverByOneBlock
<1> QED
  BY <1>5, <1>6, <1>13 DEF p

\* The last chunk has a sentence, and so some to repeat.
LEMMA RepeatedOfLast ==
    ASSUME parsed \in Seq(Blocks), NEW cs \in Seq(Seq(Piece)), cs # <<>>, NEW b, Cuts(b, cs)
    PROVE  /\ Last(cs) = cs[Len(cs)] /\ Len(cs) \in 1 .. Len(cs) /\ Last(cs) \in Seq(Piece)
           /\ Repeated(Cardinality(SentenceStarts(Last(cs)))) \in FifteenPercent(Cardinality(SentenceStarts(Last(cs))))
<1>1. Len(cs) \in 1 .. Len(cs) /\ Last(cs) = cs[Len(cs)]
  BY LenProperties, EmptySeq DEF Last
<1>2. cs[Len(cs)] \in Seq(Piece) /\ cs[Len(cs)] # <<>>
  BY <1>1, CutsOf
<1>3. Cardinality(SentenceStarts(cs[Len(cs)])) \in Nat \ {0}
  BY <1>2, StartsOf
<1> QED
  BY <1>1, <1>2, <1>3, RepeatedOf

\* The chunk the pending blocks make.
LEMMA FlushedOf ==
    ASSUME PackShape, pending # <<>>, NEW b, Cuts(b, chunks),
           NEW c, JoinedText(pending) = Part(c, Off(turn))
    PROVE  \E x : Flushed = Append(chunks, x) /\ Opens(x, chunks, Part(c, Off(turn)))
<1>1. CASE chunks = <<>>
  <2>1. Flushed = <<JoinedText(pending)>>
    BY <1>1 DEF Flushed
  <2>2. <<JoinedText(pending)>> = Append(chunks, JoinedText(pending))
    BY <1>1
  <2> QED
    BY <1>1, <2>1, <2>2 DEF Opens
<1>2. CASE chunks # <<>>
  <2> DEFINE n == Cardinality(SentenceStarts(Last(chunks)))
             x == LastSentences(Last(chunks), Repeated(n)) \o JoinedText(pending)
  <2>1. Flushed = Append(chunks, x)
    BY <1>2 DEF Flushed, Overlap
  <2>2. Repeated(n) \in FifteenPercent(n)
    BY <1>2, RepeatedOfLast DEF PackShape, PackTypeOK
  <2> QED
    BY <1>2, <2>1, <2>2 DEF Opens
<1> QED
  BY <1>1, <1>2

\* What holds when a block does not start a chunk.
LEMMA BlockAppended ==
    ASSUME PackInv, phase = "pack", strategy = "structure", turn \in DOMAIN parsed,
           ~StartsNewChunk(turn)
    PROVE  \E b \in [1 .. Len(chunks) + 1 -> 1 .. Len(All) + 1] :
              /\ Cuts(b, chunks) /\ Sized(b, chunks, Len(chunks))
              /\ b[Len(chunks) + 1] = Off(turn - Len(pending))
              /\ JoinedText(Append(pending, turn)) = Part(b[Len(chunks) + 1], Off(turn + 1))
              /\ b[Len(chunks) + 1] < Off(turn + 1) /\ BlocksKept(b[Len(chunks) + 1], Off(turn + 1))
<1> USE DEF PackInv
<1>1. /\ parsed \in Seq(Blocks) /\ turn \in 1 .. Len(parsed) + 1 /\ Len(parsed) \in Nat
      /\ Len(pending) \in Nat /\ turn - Len(pending) \in 1 .. turn
      /\ pending \in Seq(DOMAIN parsed)
  BY PendingBlocks
<1>2. PICK b \in [1 .. Len(chunks) + 1 -> 1 .. Len(All) + 1] :
        Cuts(b, chunks) /\ Sized(b, chunks, Len(chunks)) /\ BlocksPending(b[Len(chunks) + 1])
  BY DEF PackingInv
<1> DEFINE c == b[Len(chunks) + 1]
           f == Off(turn)
<1>3. c = Off(turn - Len(pending)) /\ JoinedText(pending) = Part(c, f) /\ (pending # <<>> => c < f)
  BY <1>2 DEF BlocksPending
<1>4. c \in 1 .. f
  <2>1. f \in 1 .. Len(All) + 1 /\ Len(All) \in Nat
    BY <1>1, OffsetsOf
  <2>2. c \in 1 .. Len(All) + 1
    <3>1. turn - Len(pending) \in 1 .. Len(parsed) + 1
      BY <1>1
    <3> QED
      BY <1>1, <1>3, <3>1, OffsetsOf
  <2>3. pending = <<>> => c = f
    <3>1. pending = <<>> => turn - Len(pending) = turn
      BY <1>1
    <3> QED
      BY <1>3, <3>1
  <2> HIDE DEF c, f
  <2> QED
    BY <1>3, <2>1, <2>2, <2>3
<1>5. /\ ~(Tokens(Part(c, f)) + BlockTokens(turn) > TargetMax /\ Tokens(Part(c, f)) >= Floor)
      /\ ~(parsed[turn].table /\ Tokens(Part(c, f)) + BlockTokens(turn) > Ceiling)
  BY <1>3 DEF StartsNewChunk
<1>6. /\ Part(c, Off(turn + 1)) = Part(c, f) \o Pieces(turn)
      /\ c < Off(turn + 1) /\ BlocksKept(c, Off(turn + 1))
  <2> HIDE DEF c
  <2> QED
    BY <1>1, <1>4, <1>5, BlockPacked
<1>7. JoinedText(Append(pending, turn)) = JoinedText(pending) \o Pieces(turn)
  BY <1>1, JoinedOneMore
<1> QED
  BY <1>2, <1>3, <1>6, <1>7

\* What holds when it does, and some blocks are pending.
LEMMA BlockCloses ==
    ASSUME PackInv, phase = "pack", strategy = "structure", turn \in DOMAIN parsed,
           StartsNewChunk(turn), pending # <<>>
    PROVE  /\ Flushed \in Seq(Seq(Piece)) /\ Flushed # <<>>
           /\ \E b \in [1 .. Len(Flushed) + 1 -> 1 .. Len(All) + 1] :
              /\ Cuts(b, Flushed) /\ Sized(b, Flushed, Len(Flushed))
              /\ b[Len(Flushed) + 1] = Off(turn)
<1> USE DEF PackInv
<1>1. /\ parsed \in Seq(Blocks) /\ turn \in 1 .. Len(parsed) + 1 /\ Len(parsed) \in Nat
      /\ chunks \in Seq(Seq(Piece))
  BY PendingBlocks DEF PackShape
<1>2. PICK b \in [1 .. Len(chunks) + 1 -> 1 .. Len(All) + 1] :
        Cuts(b, chunks) /\ Sized(b, chunks, Len(chunks)) /\ BlocksPending(b[Len(chunks) + 1])
  BY DEF PackingInv
<1> DEFINE c == b[Len(chunks) + 1]
           f == Off(turn)
<1>3. JoinedText(pending) = Part(c, f) /\ c < f /\ \A y : LengthKept(y, c, f)
  BY <1>2 DEF BlocksPending, LengthKept
<1>4. f \in 1 .. Len(All) + 1
  BY <1>1, OffsetsOf
<1>5. PICK x : Flushed = Append(chunks, x) /\ Opens(x, chunks, Part(c, f))
  BY <1>2, <1>3, FlushedOf
<1> DEFINE es == Append(chunks, x)
<1>6. /\ es \in Seq(Seq(Piece)) /\ Len(es) = Len(chunks) + 1
      /\ Tokens(x) \in Nat /\ Tokens(x) >= Tokens(Part(c, f))
      /\ \E d \in [1 .. Len(es) + 1 -> 1 .. Len(All) + 1] :
            /\ Cuts(d, es) /\ d[Len(es) + 1] = f
            /\ FloorKept(x, f) => Sized(d, es, Len(es))
  <2> HIDE DEF f
  <2> QED
    BY <1>1, <1>2, <1>3, <1>4, <1>5, OneMoreChunk
<1>7. FloorKept(x, f)
  <2>1. SUFFICES ASSUME Tokens(x) < Floor
                 PROVE  parsed[turn].table /\ Tokens(x) + BlockTokens(turn) > Ceiling
    BY DEF FloorKept
  <2> DEFINE t == Tokens(Part(c, f))
             m == BlockTokens(turn)
  <2>3. \/ parsed[turn].table /\ t + m > Ceiling
        \/ t >= Floor
    BY <1>3 DEF StartsNewChunk
  <2>4. t \in Nat /\ m \in Nat
    <3>1. Part(c, f) \in Seq(Piece) /\ Pieces(turn) \in Seq(Piece)
      <4>1. JoinedText(pending) \in Seq(Piece)
        BY PendingBlocks, JoinedOneMore
      <4> QED
        BY <1>1, <1>3, <4>1, PiecesOf
    <3> QED
      BY <3>1, TokensJoin DEF BlockTokens
  <2> HIDE DEF t, m
  <2>5. Tokens(x) >= t
    BY <1>6 DEF t
  <2>6. ~(t >= Floor)
    BY <1>6, <2>1, <2>4, <2>5 DEF Floor
  <2>7. parsed[turn].table /\ t + m > Ceiling
    BY <2>3, <2>6
  <2>8. Tokens(x) + m > Ceiling
    BY <1>6, <2>4, <2>5, <2>7 DEF Ceiling
  <2> QED
    BY <2>7, <2>8 DEF m
<1>8. es # <<>>
  BY <1>6, LenProperties, EmptySeq
<1> QED
  BY <1>3, <1>5, <1>6, <1>7, <1>8

\* A block alone.
LEMMA BlockAlone ==
    ASSUME parsed \in Seq(Blocks), strategy = "structure", NEW i \in DOMAIN parsed
    PROVE  /\ JoinedText(<<i>>) = Part(Off(i), Off(i + 1))
           /\ Off(i) < Off(i + 1) /\ BlocksKept(Off(i), Off(i + 1))
<1>1. i \in 1 .. Len(parsed) /\ i \in 1 .. Len(parsed) + 1
  BY FirstBlocks
<1>2. Off(i) \in 1 .. Len(All) + 1 /\ Len(All) \in Nat /\ Off(i) < Off(i + 1)
  BY <1>1, OffsetsOf
<1>3. Off(i) \in 1 .. Off(i)
  BY <1>2
<1>4. Tokens(Part(Off(i), Off(i))) = 0
  <2>1. Part(Off(i), Off(i)) = <<>>
    <3>1. Off(i) \in Off(i) .. Len(All) + 1
      BY <1>2
    <3>2. Part(Off(i), Off(i)) \in Seq(Piece) /\ Len(Part(Off(i), Off(i))) = Off(i) - Off(i)
      BY <1>2, <3>1, PartOf
    <3>3. Off(i) - Off(i) = 0
      BY <1>2
    <3> QED
      BY <3>2, <3>3, EmptySeq
  <2> QED
    BY <2>1, TokensNone
<1>5. ~(Tokens(Part(Off(i), Off(i))) >= Floor)
  BY <1>4 DEF Floor
<1>6. BlocksKept(Off(i), Off(i + 1))
  BY <1>3, <1>4, <1>5, BlockPacked
<1>7. JoinedText(<<i>>) = Part(Off(i), Off(i + 1))
  BY JoinedOne, BlockInText DEF Part
<1> QED
  BY <1>2, <1>6, <1>7

\* What a step must give to keep the shape.
LEMMA ShapeKept ==
    ASSUME PackShape, parsed' = parsed, strategy' = strategy, phase' \in {"pack", "done"},
           turn' \in 1 .. (IF strategy = "structure" THEN Len(parsed) ELSE SentenceCount) + 1,
           pending' \in Seq(Nat), Len(pending') < turn',
           \A k \in DOMAIN pending' : pending'[k] = turn' - Len(pending') + k - 1,
           chunks' \in Seq(Seq(Piece)), \A k \in DOMAIN chunks' : ToSet(chunks'[k]) \subseteq ToSet(All)
    PROVE  PackShape'
<1>1. SentenceCount' = SentenceCount /\ All' = All
  BY TextFixed
<1>2. PackTypeOK'
  <2>1. parsed' \in Seq(Blocks) /\ strategy' \in {"structure", "sentence"}
    BY DEF PackShape, PackTypeOK
  <2>2. \A k \in DOMAIN chunks' : ToSet(chunks'[k]) \subseteq ToSet(All')
    BY <1>1
  <2> QED
    BY <1>1, <2>1, <2>2 DEF PackTypeOK, All
<1> QED
  BY <1>2 DEF PackShape

\* The pending numbers, one more of them or only the one the loop is at.
LEMMA PendingAppended ==
    ASSUME PackShape, turn \in Nat, turn' = turn + 1, pending' = Append(pending, turn)
    PROVE  /\ pending' \in Seq(Nat) /\ Len(pending') < turn' /\ Len(pending') = Len(pending) + 1
           /\ Len(pending) \in Nat /\ pending' # <<>> /\ pending'[1] = turn - Len(pending)
           /\ \A k \in DOMAIN pending' : pending'[k] = turn' - Len(pending') + k - 1
<1>1. /\ pending \in Seq(Nat) /\ Len(pending) < turn
      /\ \A k \in DOMAIN pending : pending[k] = turn - Len(pending) + k - 1
  BY DEF PackShape, PackTypeOK
<1>2. /\ pending' \in Seq(Nat) /\ Len(pending) \in Nat /\ Len(pending') = Len(pending) + 1
      /\ DOMAIN pending = 1 .. Len(pending) /\ DOMAIN pending' = 1 .. Len(pending) + 1
      /\ pending'[Len(pending) + 1] = turn /\ \A k \in 1 .. Len(pending) : pending'[k] = pending[k]
  BY <1>1, AppendAdds
<1>3. ASSUME NEW k \in DOMAIN pending' PROVE pending'[k] = turn' - Len(pending') + k - 1
  <2>1. CASE k = Len(pending) + 1
    BY <1>2, <2>1
  <2>2. CASE k # Len(pending) + 1
    <3>1. k \in 1 .. Len(pending)
      BY <1>2, <1>3, <2>2
    <3>2. pending'[k] = turn - Len(pending) + k - 1
      BY <1>1, <1>2, <3>1
    <3> QED
      BY <1>2, <3>1, <3>2
  <2> QED
    BY <2>1, <2>2
<1>4. Len(pending') < turn'
  BY <1>1, <1>2
<1>5. pending' # <<>> /\ pending'[1] = turn - Len(pending)
  <2>1. 1 \in DOMAIN pending'
    BY <1>2
  <2>2. pending'[1] = turn' - Len(pending') + 1 - 1
    BY <1>3, <2>1
  <2>3. Len(pending') # 0
    BY <1>2
  <2> QED
    BY <1>2, <2>2, <2>3, EmptySeq
<1> QED
  BY <1>1, <1>2, <1>3, <1>4, <1>5

\* A chunk opened with what the loop is at.
LEMMA PendingOne ==
    ASSUME turn \in 1 .. turn, turn' = turn + 1, pending' = <<turn>>
    PROVE  /\ pending' \in Seq(Nat) /\ Len(pending') < turn' /\ Len(pending') = 1 /\ pending' # <<>>
           /\ \A k \in DOMAIN pending' : pending'[k] = turn' - Len(pending') + k - 1
  OBVIOUS

\* One turn of the loop over the blocks keeps the invariant.
LEMMA PackBlockKeeps ==
    ASSUME PackInv, PackBlock
    PROVE  PackInv'
<1> USE DEF PackInv
<1>1. /\ phase = "pack" /\ strategy = "structure" /\ turn \in DOMAIN parsed /\ turn' = turn + 1
      /\ parsed' = parsed /\ strategy' = strategy /\ phase' = "pack"
  BY DEF PackBlock
<1>2. /\ parsed \in Seq(Blocks) /\ turn \in 1 .. Len(parsed) + 1 /\ Len(parsed) \in Nat
      /\ Len(pending) \in Nat /\ turn - Len(pending) \in 1 .. turn /\ turn \in 1 .. Len(parsed)
      /\ chunks \in Seq(Seq(Piece)) /\ turn \in Nat /\ turn \in 1 .. turn
  <2>1. DOMAIN parsed = 1 .. Len(parsed)
    BY <1>1, PendingBlocks
  <2> QED
    BY <1>1, <2>1, PendingBlocks DEF PackShape
<1>3. All # <<>> /\ All' = All /\ ~Short /\ Short' = Short
  BY <1>1, TextFixed DEF PackingInv
<1>4. /\ \A b, cs : Cuts(b, cs)' = Cuts(b, cs)
      /\ \A b, cs, n : Sized(b, cs, n)' = Sized(b, cs, n)
      /\ \A i : Off(i)' = Off(i)
      /\ \A i, j : Part(i, j)' = Part(i, j)
      /\ \A i, j : BlocksKept(i, j)' = BlocksKept(i, j)
      /\ \A bs : JoinedText(bs)' = JoinedText(bs)
  BY <1>1, TextFixed
\* It suffices to have the cuts after the step, and what is pending from the last.
<1>5. ASSUME chunks' \in Seq(Seq(Piece)), pending' # <<>>,
             NEW b \in [1 .. Len(chunks') + 1 -> 1 .. Len(All) + 1],
             Cuts(b, chunks'), Sized(b, chunks', Len(chunks')),
             NEW c, c = b[Len(chunks') + 1], c = Off(turn' - Len(pending')),
             JoinedText(pending') = Part(c, Off(turn')), c < Off(turn'), BlocksKept(c, Off(turn')),
             pending' \in Seq(Nat), Len(pending') < turn',
             \A k \in DOMAIN pending' : pending'[k] = turn' - Len(pending') + k - 1
      PROVE  PackInv'
  <2>1. PackShape'
    <3>1. \A k \in DOMAIN chunks' : ToSet(chunks'[k]) \subseteq ToSet(All)
      BY <1>2, <1>5, ChunksOfAll
    <3>2. turn' \in 1 .. Len(parsed) + 1
      BY <1>1, <1>2
    <3> QED
      BY <1>1, <1>5, <3>1, <3>2, ShapeKept
  <2>2. BlocksPending(c)'
    BY <1>4, <1>5 DEF BlocksPending
  <2>3. PackingInv'
    BY <1>1, <1>3, <1>4, <1>5, <2>2 DEF PackingInv
  <2>4. PackedInv'
    BY <1>1 DEF PackedInv
  <2> QED
    BY <2>1, <2>3, <2>4
<1>6. CASE ~StartsNewChunk(turn)
  <2>1. pending' = Append(pending, turn) /\ chunks' = chunks
    BY <1>6 DEF PackBlock
  <2>2. PICK b \in [1 .. Len(chunks) + 1 -> 1 .. Len(All) + 1] :
           /\ Cuts(b, chunks) /\ Sized(b, chunks, Len(chunks))
           /\ b[Len(chunks) + 1] = Off(turn - Len(pending))
           /\ JoinedText(Append(pending, turn)) = Part(b[Len(chunks) + 1], Off(turn + 1))
           /\ b[Len(chunks) + 1] < Off(turn + 1) /\ BlocksKept(b[Len(chunks) + 1], Off(turn + 1))
    BY <1>1, <1>6, BlockAppended
  <2>3. /\ pending' \in Seq(Nat) /\ Len(pending') < turn' /\ Len(pending') = Len(pending) + 1
        /\ pending' # <<>>
        /\ \A k \in DOMAIN pending' : pending'[k] = turn' - Len(pending') + k - 1
    BY <1>1, <1>2, <2>1, PendingAppended
  <2>4. turn' - Len(pending') = turn - Len(pending)
    BY <1>1, <1>2, <2>3
  <2> QED
    BY <1>1, <1>2, <1>5, <2>1, <2>2, <2>3, <2>4
<1>7. CASE StartsNewChunk(turn)
  <2>1. pending' = <<turn>> /\ chunks' = Flushed
    BY <1>7 DEF PackBlock
  <2>2. /\ pending' \in Seq(Nat) /\ Len(pending') < turn' /\ Len(pending') = 1 /\ pending' # <<>>
        /\ \A k \in DOMAIN pending' : pending'[k] = turn' - Len(pending') + k - 1
    BY <1>1, <1>2, <2>1, PendingOne
  <2>3. turn' - Len(pending') = turn
    BY <1>1, <1>2, <2>2
  <2>4. /\ JoinedText(pending') = Part(Off(turn), Off(turn'))
        /\ Off(turn) < Off(turn') /\ BlocksKept(Off(turn), Off(turn'))
    BY <1>1, <1>2, <2>1, BlockAlone
  <2>5. CASE pending # <<>>
    <3>1. chunks' \in Seq(Seq(Piece))
      BY <1>1, <1>7, <2>1, <2>5, BlockCloses
    <3>2. PICK b \in [1 .. Len(chunks') + 1 -> 1 .. Len(All) + 1] :
             /\ Cuts(b, chunks') /\ Sized(b, chunks', Len(chunks'))
             /\ b[Len(chunks') + 1] = Off(turn)
      BY <1>1, <1>7, <2>1, <2>5, BlockCloses
    <3> QED
      BY <1>5, <2>2, <2>3, <2>4, <3>1, <3>2
  <2>6. CASE pending = <<>>
    <3>1. chunks' = chunks /\ turn = turn - Len(pending)
      <4>1. Len(pending) = 0
        BY <2>6
      <4> QED
        BY <1>2, <2>1, <2>6, <4>1 DEF Flushed
    <3>2. PICK b \in [1 .. Len(chunks) + 1 -> 1 .. Len(All) + 1] :
             /\ Cuts(b, chunks) /\ Sized(b, chunks, Len(chunks))
             /\ BlocksPending(b[Len(chunks) + 1])
      BY <1>1 DEF PackingInv
    <3>3. b[Len(chunks) + 1] = Off(turn)
      BY <3>1, <3>2 DEF BlocksPending
    <3> QED
      BY <1>2, <1>5, <2>2, <2>3, <2>4, <3>1, <3>2, <3>3
  <2> QED
    BY <2>5, <2>6
<1> QED
  BY <1>6, <1>7

-----------------------------------------------------------------------------
(* The start, the measure, and the end of that loop.                      *)

\* It holds of the start.
LEMMA PackInitHolds == ASSUME PackInit PROVE PackInv
<1>1. /\ phase = "measure" /\ turn = 1 /\ pending = <<>> /\ chunks = <<>>
      /\ strategy \in {"structure", "sentence"}
  BY DEF PackInit
<1>2. parsed \in Seq(Blocks)
  <2>1. PICK m \in 0 .. MaxBlocks : parsed \in [1 .. m -> Blocks]
    BY DEF PackInit, SeqOf
  <2>2. m \in Nat
    BY <2>1, BlockAssumption
  <2> QED
    BY <2>1, <2>2
<1>3. turn \in 1 .. (IF strategy = "structure" THEN Len(parsed) ELSE SentenceCount) + 1
  <2>1. SentenceCount \in Nat /\ Len(parsed) \in Nat
    BY <1>2, AllStartsOf, LenProperties
  <2> QED
    BY <1>1, <2>1
<1>4. PackTypeOK
  BY <1>1, <1>2, <1>3 DEF PackTypeOK
<1>5. PackShape
  BY <1>1, <1>4 DEF PackShape
<1> QED
  BY <1>1, <1>5 DEF PackInv, PackingInv, PackedInv

\* Before anything is cut.
LEMMA NothingCut ==
    ASSUME parsed \in Seq(Blocks)
    PROVE  \E b \in [1 .. Len(<<>>) + 1 -> 1 .. Len(All) + 1] :
              Cuts(b, <<>>) /\ Sized(b, <<>>, Len(<<>>)) /\ b[Len(<<>>) + 1] = 1
<1> DEFINE b == [k \in 1 .. 1 |-> 1]
<1>1. Len(All) \in Nat
  BY OffsetsOf
<1>2. Len(<<>>) = 0 /\ Len(<<>>) + 1 = 1 /\ 1 .. Len(<<>>) = {}
  OBVIOUS
<1>3. b \in [1 .. Len(<<>>) + 1 -> 1 .. Len(All) + 1] /\ b[1] = 1
  BY <1>1, <1>2
<1> HIDE DEF b
<1>4. Cuts(b, <<>>) /\ Sized(b, <<>>, Len(<<>>))
  BY <1>2, <1>3 DEF Cuts, Sized
<1> QED
  BY <1>2, <1>3, <1>4

\* Measuring the document keeps it: a short one is one chunk.
LEMMA MeasureKeeps ==
    ASSUME PackInv, Measure
    PROVE  PackInv'
<1> USE DEF PackInv
<1>1. /\ phase = "measure" /\ turn = 1 /\ pending = <<>> /\ chunks = <<>>
      /\ parsed' = parsed /\ strategy' = strategy /\ turn' = turn /\ pending' = pending
      /\ strategy \in {"structure", "sentence"}
  BY DEF Measure, PackShape, PackTypeOK
<1>2. /\ parsed \in Seq(Blocks)
      /\ turn \in 1 .. (IF strategy = "structure" THEN Len(parsed) ELSE SentenceCount) + 1
      /\ Len(pending) = 0 /\ Len(pending) < turn /\ pending \in Seq(Nat)
  BY <1>1 DEF PackShape, PackTypeOK
<1>3. All' = All /\ All \in Seq(Piece)
  BY <1>1, <1>2, TextFixed, OffsetsOf
<1>4. CASE Short
  <2>1. phase' = "done" /\ chunks' = <<All>>
    BY <1>4 DEF Measure, All, Short
  <2>2. \A k \in DOMAIN chunks' : chunks'[k] = All
    BY <2>1
  <2>3. chunks' \in Seq(Seq(Piece))
    BY <1>3, <2>1
  <2>4. PackShape'
    BY <1>1, <1>2, <2>1, <2>2, <2>3, ShapeKept DEF PackShape, PackTypeOK
  <2>5. Short'
    BY <1>1, <1>4, TextFixed
  <2> QED
    BY <1>3, <2>1, <2>4, <2>5 DEF PackingInv, PackedInv, WholeText
<1>5. CASE ~Short
  <2>1. phase' = "pack" /\ chunks' = <<>>
    BY <1>1, <1>5 DEF Measure, All, Short
  <2>2. PackShape'
    BY <1>1, <1>2, <2>1, ShapeKept DEF PackShape, PackTypeOK
  <2>3. All # <<>>
    <3>1. Floor + Smallest > 0
      BY DEF Floor, Smallest, TargetMin, Size
    <3> QED
      BY <1>5, <3>1, TokensNone DEF Short
  <2>4. PICK b \in [1 .. Len(chunks') + 1 -> 1 .. Len(All) + 1] :
           Cuts(b, chunks') /\ Sized(b, chunks', Len(chunks')) /\ b[Len(chunks') + 1] = 1
    BY <1>2, <2>1, NothingCut
  <2>5. /\ \A d, cs : Cuts(d, cs)' = Cuts(d, cs)
        /\ \A d, cs, n : Sized(d, cs, n)' = Sized(d, cs, n)
        /\ \A i : Off(i)' = Off(i) /\ At(i)' = At(i)
        /\ \A i, j : Part(i, j)' = Part(i, j)
        /\ \A bs : JoinedText(bs)' = JoinedText(bs)
        /\ SentenceCount' = SentenceCount /\ Short' = Short
    BY <1>1, TextFixed
  <2>6. BlocksPending(1)'
    <3>1. Off(1) = 1 /\ JoinedText(<<>>) = <<>> /\ turn' - Len(pending') = 1 /\ turn' = 1 /\ pending' = <<>>
      BY <1>1, <1>2, OffsetsOf, JoinedNone
    <3>2. Part(1, 1) = <<>>
      BY <1>3, SubSeqEmpty DEF Part
    <3> QED
      BY <2>5, <3>1, <3>2 DEF BlocksPending
  <2>7. SentencesPending(1)'
    <3>1. At(1) = 1 /\ SentenceCount \in Nat /\ 1 \in 1 .. SentenceCount + 1
      BY <1>2, AtOf, AllStartsOf
    <3>2. pending' = <<>>
      BY <1>1
    <3> QED
      BY <2>5, <3>1, <3>2 DEF SentencesPending
  <2>8. PackingInv'
    <3>1. turn' = 1 /\ pending' = <<>>
      BY <1>1
    <3> QED
      BY <1>1, <1>3, <1>5, <2>1, <2>3, <2>4, <2>5, <2>6, <2>7, <3>1 DEF PackingInv
  <2> QED
    BY <2>1, <2>2, <2>8 DEF PackedInv
<1> QED
  BY <1>4, <1>5

\* The last chunk closed and the tail merged: what both ends have in common.
LEMMA FinishKeeps ==
    ASSUME PackShape, parsed' = parsed, strategy' = strategy, turn' = turn, pending' = <<>>, phase' = "done",
           NEW es \in Seq(Seq(Piece)), es # <<>>, chunks' = MergeTail(es),
           NEW b \in [1 .. Len(es) + 1 -> 1 .. Len(All) + 1],
           Cuts(b, es), Sized(b, es, Len(es) - 1), b[Len(es) + 1] = Len(All) + 1, ~Short
    PROVE  PackInv'
<1>1. /\ parsed \in Seq(Blocks)
      /\ turn \in 1 .. (IF strategy = "structure" THEN Len(parsed) ELSE SentenceCount) + 1
      /\ Len(parsed) \in Nat /\ SentenceCount \in Nat
  BY AllStartsOf, LenProperties DEF PackShape, PackTypeOK
<1>2. turn \in Nat /\ turn >= 1
  BY <1>1
<1>3. chunks' \in Seq(Seq(Piece)) /\ \A k \in DOMAIN chunks' : ToSet(chunks'[k]) \subseteq ToSet(All)
  <2>1. \A k \in DOMAIN es : ToSet(es[k]) \subseteq ToSet(All)
    BY <1>1, ChunksOfAll
  <2> QED
    BY <2>1, MergeTailOf, MergedOfAll
<1>4. PackShape'
  <2>1. pending' \in Seq(Nat) /\ Len(pending') < turn' /\ DOMAIN pending' = {}
    BY <1>2
  <2> QED
    BY <1>1, <1>3, <2>1, ShapeKept
<1>5. /\ \A d, cs : Cuts(d, cs)' = Cuts(d, cs)
      /\ \A d, cs, n : Sized(d, cs, n)' = Sized(d, cs, n)
      /\ All' = All /\ Short' = Short /\ \A cs : MergeTail(cs)' = MergeTail(cs)
  BY TextFixed DEF MergeTail
<1>6. PackedInv'
  BY <1>5 DEF PackedInv
<1> QED
  BY <1>4, <1>6 DEF PackInv, PackingInv

\* So does the end of the loop over the blocks.
LEMMA FinishBlocksKeeps ==
    ASSUME PackInv, FinishBlocks
    PROVE  PackInv'
<1> USE DEF PackInv
<1>1. /\ phase = "pack" /\ strategy = "structure" /\ turn = Len(parsed) + 1
      /\ parsed' = parsed /\ strategy' = strategy /\ turn' = turn /\ pending' = <<>> /\ phase' = "done"
      /\ chunks' = MergeTail(Flushed)
  BY DEF FinishBlocks
<1>2. parsed \in Seq(Blocks) /\ chunks \in Seq(Seq(Piece)) /\ Len(All) \in Nat
  BY OffsetsOf DEF PackShape, PackTypeOK
<1>3. pending # <<>>
  <2>1. SUFFICES ASSUME pending = <<>> PROVE FALSE
    OBVIOUS
  <2>2. turn = 1 /\ All # <<>>
    BY <1>1, <2>1 DEF PackingInv
  <2>3. Len(parsed) = 0
    BY <1>1, <1>2, <2>2, LenProperties
  <2> QED
    BY <1>2, <2>2, <2>3, FirstBlocks
<1>4. PICK b \in [1 .. Len(chunks) + 1 -> 1 .. Len(All) + 1] :
        Cuts(b, chunks) /\ Sized(b, chunks, Len(chunks)) /\ BlocksPending(b[Len(chunks) + 1])
  BY <1>1 DEF PackingInv
<1> DEFINE c == b[Len(chunks) + 1]
           g == Len(All) + 1
<1>5. JoinedText(pending) = Part(c, Off(turn)) /\ c < Off(turn) /\ Off(turn) = g /\ \A y : LengthKept(y, c, g)
  <2>1. JoinedText(pending) = Part(c, Off(turn)) /\ c < Off(turn) /\ Off(turn) = g /\ BlocksKept(c, Off(turn))
    BY <1>1, <1>2, <1>3, <1>4, OffsetsOf DEF BlocksPending
  <2> QED
    BY <1>1, <2>1 DEF LengthKept
<1>6. PICK x : Flushed = Append(chunks, x) /\ Opens(x, chunks, Part(c, g))
  BY <1>3, <1>4, <1>5, FlushedOf
<1>7. g \in 1 .. Len(All) + 1
  BY <1>2
<1>8. /\ Flushed \in Seq(Seq(Piece)) /\ Len(Flushed) = Len(chunks) + 1
      /\ \E d \in [1 .. Len(Flushed) + 1 -> 1 .. Len(All) + 1] :
            Cuts(d, Flushed) /\ d[Len(Flushed) + 1] = g /\ Sized(d, Flushed, Len(Flushed) - 1)
  <2> HIDE DEF g
  <2> QED
    BY <1>2, <1>4, <1>5, <1>6, <1>7, OneMoreChunk
<1>9. Flushed # <<>>
  BY <1>2, <1>8, LenProperties, EmptySeq
<1>10. ~Short
  BY <1>1 DEF PackingInv
<1> QED
  BY <1>1, <1>8, <1>9, <1>10, FinishKeeps

-----------------------------------------------------------------------------
(* The loop over the sentences, and the induction.                        *)

\* The window is the text of the pending sentences.
LEMMA WindowOf ==
    ASSUME PackShape, strategy = "sentence", pending # <<>>
    PROVE  /\ parsed \in Seq(Blocks) /\ SentenceCount \in Nat /\ turn \in 2 .. SentenceCount + 1
           /\ Len(pending) \in 1 .. turn - 1 /\ pending[1] = turn - Len(pending)
           /\ pending[1] \in 1 .. turn - 1 /\ pending[1] \in 1 .. SentenceCount
           /\ turn \in pending[1] + 1 .. SentenceCount + 1
           /\ Window = Part(At(pending[1]), At(turn))
<1>1. /\ parsed \in Seq(Blocks) /\ turn \in 1 .. SentenceCount + 1 /\ SentenceCount \in Nat
      /\ pending \in Seq(Nat) /\ Len(pending) < turn
      /\ \A k \in DOMAIN pending : pending[k] = turn - Len(pending) + k - 1
  BY AllStartsOf DEF PackShape, PackTypeOK
<1>2. Len(pending) \in Nat \ {0} /\ DOMAIN pending = 1 .. Len(pending)
  BY <1>1, LenProperties, EmptySeq
<1> DEFINE n == Len(pending)
<1>3. pending[1] = turn - n + 1 - 1 /\ pending[n] = turn - n + n - 1
  BY <1>1, <1>2
<1>4. /\ turn \in 2 .. SentenceCount + 1 /\ n \in 1 .. turn - 1 /\ pending[1] = turn - n /\ pending[n] = turn - 1
      /\ pending[1] \in 1 .. turn - 1 /\ pending[1] \in 1 .. SentenceCount
      /\ turn \in pending[1] + 1 .. SentenceCount + 1
      /\ turn - 1 \in pending[1] .. SentenceCount /\ (turn - 1) + 1 = turn
  <2> HIDE DEF n
  <2>1. n \in Nat \ {0} /\ n < turn
    BY <1>1, <1>2 DEF n
  <2> QED
    BY <1>1, <1>3, <2>1
<1>5. Window = Sentences(pending[1], turn - 1)
  BY <1>4 DEF Window, Last
<1>6. Sentences(pending[1], turn - 1) = Part(At(pending[1]), At(turn))
  <2>1. Sentences(pending[1], turn - 1) = Part(At(pending[1]), At((turn - 1) + 1))
    BY <1>1, <1>4, SentencesAre
  <2> QED
    BY <1>4, <2>1
<1> QED
  BY <1>1, <1>4, <1>5, <1>6

\* Parts from sentence to sentence.
LEMMA PartsOfSentences ==
    ASSUME parsed \in Seq(Blocks), NEW a \in 1 .. SentenceCount + 1, NEW b \in a .. SentenceCount + 1,
           NEW c \in b .. SentenceCount + 1
    PROVE  /\ Part(At(a), At(b)) \in Seq(Piece) /\ Part(At(a), At(b)) \o Part(At(b), At(c)) = Part(At(a), At(c))
           /\ Tokens(Part(At(a), At(b))) \in Nat /\ Tokens(Part(At(b), At(c))) \in Nat
           /\ Tokens(Part(At(a), At(c))) = Tokens(Part(At(a), At(b))) + Tokens(Part(At(b), At(c)))
<1>1. SentenceCount \in Nat /\ Len(All) \in Nat
  BY AllStartsOf
<1>2. b \in 1 .. SentenceCount + 1 /\ c \in 1 .. SentenceCount + 1 /\ a <= b /\ b <= c
  BY <1>1
<1>3. /\ At(a) \in 1 .. Len(All) + 1 /\ At(b) \in 1 .. Len(All) + 1 /\ At(c) \in 1 .. Len(All) + 1
      /\ At(a) <= At(b) /\ At(b) <= At(c)
  BY <1>2, AtOf, AtGrows
<1>4. At(b) \in At(a) .. Len(All) + 1 /\ At(c) \in At(b) .. Len(All) + 1
  BY <1>1, <1>3
<1>5. Part(At(a), At(b)) \in Seq(Piece) /\ Part(At(b), At(c)) \in Seq(Piece)
  BY <1>3, <1>4, PartOf
<1>6. Part(At(a), At(b)) \o Part(At(b), At(c)) = Part(At(a), At(c))
  BY <1>3, <1>4, PartsJoin
<1> QED
  BY <1>5, <1>6, TokensJoin

\* A sentence alone keeps the length, whatever it follows.
LEMMA SentenceAlone ==
    ASSUME parsed \in Seq(Blocks), NEW i \in 1 .. SentenceCount, NEW x
    PROVE  SentencesKept(x, At(i), At(i + 1))
<1>1. SentenceCount \in Nat
  BY AllStartsOf
<1>2. i + 1 \in i + 1 .. SentenceCount + 1 /\ 1 \in 1 .. (i + 1) - i /\ (i + 1) - 1 = i
  BY <1>1
<1>3. LastSentences(Part(At(i), At(i + 1)), 1) = Part(At((i + 1) - 1), At(i + 1))
  BY <1>2, LastOfPart
<1>4. Part(At(i), At(i + 1)) = LastSentences(Part(At(i), At(i + 1)), 1)
  BY <1>2, <1>3
<1> QED
  BY <1>4 DEF SentencesKept, OverByOneSentence

\* A sentence that is packed after others, of which some are repeated.
LEMMA SentencePacked ==
    ASSUME parsed \in Seq(Blocks), NEW i \in 1 .. SentenceCount,
           NEW a \in 1 .. i - 1, NEW p \in 1 .. a,
           ~(/\ Tokens(Part(At(p), At(i))) + Tokens(Sentences(i, i)) > Size
             /\ Tokens(Part(At(p), At(i))) >= Floor)
    PROVE  SentencesKept(Part(At(p), At(i + 1)), At(a), At(i + 1))
<1>1. SentenceCount \in Nat
  BY AllStartsOf
<1>2. /\ i + 1 \in a + 1 .. SentenceCount + 1 /\ 1 \in 1 .. (i + 1) - a /\ (i + 1) - 1 = i
      /\ a \in 1 .. SentenceCount /\ a \in p .. SentenceCount + 1 /\ p \in 1 .. SentenceCount + 1
      /\ a \in 1 .. SentenceCount + 1 /\ i \in a .. SentenceCount + 1 /\ i + 1 \in i .. SentenceCount + 1
      /\ i \in i .. SentenceCount
  BY <1>1
<1> DEFINE o == Tokens(Part(At(p), At(a)))
           u == Tokens(Part(At(a), At(i)))
           v == Tokens(Part(At(i), At(i + 1)))
           w == Tokens(Part(At(p), At(i + 1)))
<1>3. o \in Nat /\ u \in Nat /\ Tokens(Part(At(p), At(i))) = o + u
  BY <1>2, PartsOfSentences
<1>4. v \in Nat /\ w = (o + u) + v
  <2>1. i \in p .. SentenceCount + 1
    BY <1>2
  <2>2. v \in Nat /\ w = Tokens(Part(At(p), At(i))) + v
    BY <1>2, <2>1, PartsOfSentences
  <2> QED
    BY <1>3, <2>2
<1>5. Sentences(i, i) = Part(At(i), At(i + 1))
  BY <1>2, SentencesAre
<1>6. ~(o + u + v > Size /\ o + u >= Floor)
  BY <1>3, <1>5
<1>7. Tokens(LastSentences(Part(At(a), At(i + 1)), 1)) = v
  <2>1. LastSentences(Part(At(a), At(i + 1)), 1) = Part(At((i + 1) - 1), At(i + 1))
    BY <1>2, LastOfPart
  <2> QED
    BY <1>2, <2>1
<1> HIDE DEF o, u, v, w
<1>8. w > Size => w - v < Floor
  BY <1>3, <1>4, <1>6 DEF Size, Floor
<1> QED
  BY <1>7, <1>8 DEF SentencesKept, OverByOneSentence, w

\* The chunk the pending sentences make.
LEMMA WindowCloses ==
    ASSUME PackInv, phase = "pack", strategy = "sentence", pending # <<>>
    PROVE  LET es == Append(chunks, Window) IN
           /\ Window \in Seq(Piece) /\ es \in Seq(Seq(Piece)) /\ Len(es) = Len(chunks) + 1 /\ es # <<>>
           /\ \E b \in [1 .. Len(es) + 1 -> 1 .. Len(All) + 1] :
                 /\ Cuts(b, es) /\ b[Len(es) + 1] = At(turn)
                 /\ Sized(b, es, Len(es) - 1)
                 /\ Tokens(Window) >= Floor => Sized(b, es, Len(es))
<1> USE DEF PackInv
<1> DEFINE es == Append(chunks, Window)
           p == pending[1]
           g == At(turn)
<1>1. /\ parsed \in Seq(Blocks) /\ SentenceCount \in Nat /\ turn \in 2 .. SentenceCount + 1
      /\ p \in 1 .. turn - 1 /\ Window = Part(At(p), g) /\ chunks \in Seq(Seq(Piece))
  BY WindowOf DEF PackShape
<1>2. PICK b \in [1 .. Len(chunks) + 1 -> 1 .. Len(All) + 1] :
        Cuts(b, chunks) /\ Sized(b, chunks, Len(chunks)) /\ SentencesPending(b[Len(chunks) + 1])
  BY DEF PackingInv
<1> DEFINE c == b[Len(chunks) + 1]
<1>3. PICK a \in 1 .. SentenceCount + 1 :
        /\ c = At(a) /\ p >= 1 /\ p <= a /\ a < turn /\ LengthKept(Window, c, g)
        /\ IF chunks = <<>> THEN p = a
           ELSE \E n \in FifteenPercent(Cardinality(SentenceStarts(Last(chunks)))) :
                   Part(At(p), At(a)) = LastSentences(Last(chunks), n)
  BY <1>1, <1>2 DEF SentencesPending, LengthKept
<1> HIDE DEF p
<1>4. /\ p \in 1 .. SentenceCount + 1 /\ a \in p .. SentenceCount + 1 /\ turn \in a .. SentenceCount + 1
      /\ turn \in 1 .. SentenceCount + 1
  BY <1>1, <1>3
<1>5. Window = Part(At(p), At(a)) \o Part(At(a), g)
  BY <1>1, <1>4, PartsOfSentences
<1>6. Opens(Window, chunks, Part(c, g))
  BY <1>1, <1>3, <1>5 DEF Opens
<1>7. g \in 1 .. Len(All) + 1 /\ c < g
  BY <1>1, <1>3, <1>4, AtOf, AtGrows
<1>8. /\ Window \in Seq(Piece) /\ es \in Seq(Seq(Piece)) /\ Len(es) = Len(chunks) + 1
      /\ \E d \in [1 .. Len(es) + 1 -> 1 .. Len(All) + 1] :
            /\ Cuts(d, es) /\ d[Len(es) + 1] = g /\ Sized(d, es, Len(es) - 1)
            /\ FloorKept(Window, g) => Sized(d, es, Len(es))
  <2> HIDE DEF g
  <2> QED
    BY <1>1, <1>2, <1>3, <1>6, <1>7, OneMoreChunk
<1>9. Tokens(Window) >= Floor => FloorKept(Window, g)
  <2>1. Tokens(Window) \in Nat
    BY <1>8, TokensJoin
  <2>2. Tokens(Window) >= Floor => ~(Tokens(Window) < Floor)
    BY <2>1 DEF Floor
  <2> QED
    BY <2>2 DEF FloorKept
<1>10. es # <<>>
  <2>1. Len(chunks) \in Nat
    BY <1>1, LenProperties
  <2>2. Len(es) # 0
    BY <1>8, <2>1
  <2> QED
    BY <2>2
<1> QED
  BY <1>3, <1>8, <1>9, <1>10

\* The pending sentences that are repeated, and the one the loop is at.
LEMMA PendingRepeated ==
    ASSUME PackShape, strategy = "sentence", pending # <<>>, turn' = turn + 1,
           NEW r \in 1 .. Len(pending),
           pending' = Append(SubSeq(pending, Len(pending) - r + 1, Len(pending)), turn)
    PROVE  /\ pending' \in Seq(Nat) /\ Len(pending') < turn' /\ pending' # <<>> /\ pending'[1] = turn - r
           /\ \A k \in DOMAIN pending' : pending'[k] = turn' - Len(pending') + k - 1
<1> DEFINE n == Len(pending)
           q == SubSeq(pending, n - r + 1, n)
<1>1. /\ n \in Nat /\ n < turn /\ turn \in Nat /\ r \in 1 .. n
      /\ \A k \in 1 .. n : pending[k] = turn - n + k - 1
  <2>1. n \in 1 .. turn - 1 /\ turn \in 2 .. SentenceCount + 1 /\ SentenceCount \in Nat
    BY WindowOf
  <2>2. pending \in Seq(Nat)
    BY DEF PackShape
  <2>3. DOMAIN pending = 1 .. n
    BY <2>2, LenProperties
  <2>4. \A k \in 1 .. n : pending[k] = turn - n + k - 1
    BY <2>3 DEF PackShape, PackTypeOK
  <2> QED
    BY <2>1, <2>4
<1>2. q \in Seq(Nat) /\ Len(q) = r /\ \A k \in 1 .. r : q[k] = turn - r + k - 1
  <2>1. n - r + 1 \in Int /\ n \in Int /\ \A k \in n - r + 1 .. n : pending[k] \in Nat
    <3> HIDE DEF n
    <3>1. ASSUME NEW k \in n - r + 1 .. n PROVE pending[k] \in Nat
      <4>1. k \in 1 .. n /\ turn - n + k - 1 \in Nat
        BY <1>1
      <4> QED
        BY <1>1, <4>1
    <3> QED
      BY <1>1, <3>1
  <2>2. q \in Seq(Nat) /\ Len(q) = IF n - r + 1 <= n THEN n - (n - r + 1) + 1 ELSE 0
    BY <2>1, SubSeqProperties
  <2>3. \A k \in 1 .. n - (n - r + 1) + 1 : q[k] = pending[(n - r + 1) + k - 1]
    BY <2>1, SubSeqProperties
  <2> HIDE DEF n, q
  <2>4. Len(q) = r
    BY <1>1, <2>2
  <2>5. ASSUME NEW k \in 1 .. r PROVE q[k] = turn - r + k - 1
    <3>1. k \in 1 .. n - (n - r + 1) + 1 /\ (n - r + 1) + k - 1 \in 1 .. n
      BY <1>1
    <3>2. pending[(n - r + 1) + k - 1] = turn - n + ((n - r + 1) + k - 1) - 1
      BY <1>1, <3>1
    <3> QED
      BY <1>1, <2>3, <3>1, <3>2
  <2> QED
    BY <2>2, <2>4, <2>5
<1> HIDE DEF n, q
<1>3. pending' = Append(q, turn)
  BY DEF n, q
<1>4. /\ pending' \in Seq(Nat) /\ Len(pending') = r + 1 /\ DOMAIN pending' = 1 .. r + 1
      /\ pending'[r + 1] = turn /\ \A k \in 1 .. r : pending'[k] = q[k]
  <2>1. /\ Append(q, turn) \in Seq(Nat) /\ Len(Append(q, turn)) = Len(q) + 1
        /\ DOMAIN Append(q, turn) = 1 .. Len(q) + 1
        /\ Append(q, turn)[Len(q) + 1] = turn /\ \A k \in 1 .. Len(q) : Append(q, turn)[k] = q[k]
    BY <1>1, <1>2, AppendAdds
  <2> QED
    BY <1>2, <1>3, <2>1
<1>5. ASSUME NEW k \in DOMAIN pending' PROVE pending'[k] = turn' - Len(pending') + k - 1
  <2>1. k \in 1 .. r + 1 /\ turn' - Len(pending') + k - 1 = turn - r + k - 1
    BY <1>1, <1>4
  <2>2. CASE k = r + 1
    BY <1>1, <1>4, <2>1, <2>2
  <2>3. CASE k # r + 1
    <3>1. k \in 1 .. r
      BY <1>1, <2>1, <2>3
    <3> QED
      BY <1>2, <1>4, <2>1, <3>1
  <2> QED
    BY <2>2, <2>3
<1>6. pending'[1] = turn - r
  <2>1. 1 \in 1 .. r
    BY <1>1
  <2>2. pending'[1] = turn - r + 1 - 1
    BY <1>2, <1>4, <2>1
  <2> QED
    BY <1>1, <2>2
<1>7. Len(pending') < turn' /\ pending' # <<>>
  <2>1. Len(pending') = r + 1 /\ r \in Nat /\ r < turn /\ turn \in Nat
    BY <1>1, <1>4
  <2>2. Len(pending') # 0 /\ Len(pending') < turn + 1
    BY <2>1
  <2>3. pending' # <<>>
    BY <2>2, EmptySeq
  <2> QED
    BY <2>2, <2>3
<1> QED
  BY <1>4, <1>5, <1>6, <1>7

\* One turn of the loop over the sentences keeps the invariant.
LEMMA PackSentenceKeeps ==
    ASSUME PackInv, PackSentence
    PROVE  PackInv'
<1> USE DEF PackInv
<1>1. /\ phase = "pack" /\ strategy = "sentence" /\ turn <= SentenceCount /\ turn' = turn + 1
      /\ parsed' = parsed /\ strategy' = strategy /\ phase' = "pack"
  BY DEF PackSentence
<1>2. /\ parsed \in Seq(Blocks) /\ SentenceCount \in Nat /\ chunks \in Seq(Seq(Piece))
      /\ turn \in 1 .. SentenceCount /\ turn \in Nat /\ turn + 1 \in 1 .. SentenceCount + 1
  <2>1. parsed \in Seq(Blocks) /\ turn \in 1 .. SentenceCount + 1 /\ chunks \in Seq(Seq(Piece))
    BY <1>1 DEF PackShape, PackTypeOK
  <2>2. SentenceCount \in Nat
    BY <2>1, AllStartsOf
  <2> QED
    BY <1>1, <2>1, <2>2
<1>3. All # <<>> /\ All' = All /\ ~Short /\ Short' = Short
  BY <1>1, TextFixed DEF PackingInv
<1>4. /\ \A b, cs : Cuts(b, cs)' = Cuts(b, cs)
      /\ \A b, cs, n : Sized(b, cs, n)' = Sized(b, cs, n)
      /\ \A i : At(i)' = At(i)
      /\ \A i, j : Part(i, j)' = Part(i, j)
      /\ \A x, i, j : SentencesKept(x, i, j)' = SentencesKept(x, i, j)
      /\ SentenceCount' = SentenceCount
  BY <1>1, TextFixed
\* It suffices to have the cuts after the step, and what is pending from the last.
<1>5. ASSUME chunks' \in Seq(Seq(Piece)), pending' # <<>>,
             NEW b \in [1 .. Len(chunks') + 1 -> 1 .. Len(All) + 1],
             Cuts(b, chunks'), Sized(b, chunks', Len(chunks')),
             NEW a \in 1 .. turn, b[Len(chunks') + 1] = At(a),
             SentencesKept(Part(At(pending'[1]), At(turn')), At(a), At(turn')),
             pending'[1] >= 1, pending'[1] <= a,
             IF chunks' = <<>> THEN pending'[1] = a
             ELSE \E n \in FifteenPercent(Cardinality(SentenceStarts(Last(chunks')))) :
                     Part(At(pending'[1]), At(a)) = LastSentences(Last(chunks'), n),
             pending' \in Seq(Nat), Len(pending') < turn',
             \A k \in DOMAIN pending' : pending'[k] = turn' - Len(pending') + k - 1
      PROVE  PackInv'
  <2>1. PackShape'
    <3>1. \A k \in DOMAIN chunks' : ToSet(chunks'[k]) \subseteq ToSet(All)
      BY <1>2, <1>5, ChunksOfAll
    <3> QED
      BY <1>1, <1>2, <1>5, <3>1, ShapeKept
  <2>2. a \in 1 .. SentenceCount + 1 /\ a < turn'
    BY <1>1, <1>2
  <2> DEFINE c == b[Len(chunks') + 1]
  <2>3. PICK d : d = c
    OBVIOUS
  <2>4. SentencesPending(d)'
    BY <1>4, <1>5, <2>2, <2>3 DEF SentencesPending
  <2>5. PackingInv'
    BY <1>1, <1>3, <1>4, <1>5, <2>3, <2>4 DEF PackingInv
  <2>6. PackedInv'
    BY <1>1 DEF PackedInv
  <2> QED
    BY <2>1, <2>5, <2>6
<1>6. PICK b \in [1 .. Len(chunks) + 1 -> 1 .. Len(All) + 1] :
        Cuts(b, chunks) /\ Sized(b, chunks, Len(chunks)) /\ SentencesPending(b[Len(chunks) + 1])
  BY <1>1 DEF PackingInv
<1>7. CASE pending = <<>>
  <2>1. pending' = Append(pending, turn) /\ chunks' = chunks /\ chunks = <<>> /\ turn = 1 /\ Len(pending) = 0
    BY <1>1, <1>7 DEF PackSentence, PackingInv
  <2>2. b[Len(chunks) + 1] = At(1)
    BY <1>6, <1>7 DEF SentencesPending
  <2>3. /\ pending' \in Seq(Nat) /\ Len(pending') < turn' /\ pending' # <<>> /\ pending'[1] = turn - Len(pending)
        /\ \A k \in DOMAIN pending' : pending'[k] = turn' - Len(pending') + k - 1
    BY <1>1, <1>2, <2>1, PendingAppended
  <2>4. \A x : SentencesKept(x, At(1), At(turn'))
    <3>1. 1 \in 1 .. SentenceCount /\ turn' = 1 + 1
      BY <1>1, <1>2, <2>1
    <3> QED
      BY <1>1, <1>2, <3>1, SentenceAlone
  <2>5. pending'[1] = 1 /\ 1 \in 1 .. turn
    BY <2>1, <2>3
  <2> QED
    BY <1>2, <1>5, <1>6, <2>1, <2>2, <2>3, <2>4, <2>5
<1>8. CASE pending # <<>>
  <2> DEFINE p == pending[1]
             n == Len(pending)
             r == Repeated(n)
  <2>1. /\ turn \in 2 .. SentenceCount + 1 /\ n \in 1 .. turn - 1 /\ p = turn - n
        /\ p \in 1 .. turn - 1 /\ p \in 1 .. SentenceCount
        /\ turn \in p + 1 .. SentenceCount + 1 /\ Window = Part(At(p), At(turn))
    BY <1>1, <1>8, WindowOf
  <2>2. CASE Tokens(Window) + Tokens(Sentences(turn, turn)) > Size /\ Tokens(Window) >= Floor
    <3>1. chunks' = Append(chunks, Window) /\ pending' = Append(SubSeq(pending, n - r + 1, n), turn)
      BY <1>8, <2>2 DEF PackSentence
    <3>2. r \in 1 .. n /\ r \in FifteenPercent(n)
      BY <2>1, RepeatedOf
    <3>3. /\ pending' \in Seq(Nat) /\ Len(pending') < turn' /\ pending' # <<>> /\ pending'[1] = turn - r
          /\ \A k \in DOMAIN pending' : pending'[k] = turn' - Len(pending') + k - 1
      BY <1>1, <1>8, <3>1, <3>2, PendingRepeated
    <3>4. /\ Window \in Seq(Piece) /\ chunks' \in Seq(Seq(Piece)) /\ Len(chunks') = Len(chunks) + 1 /\ chunks' # <<>>
          /\ \E d \in [1 .. Len(chunks') + 1 -> 1 .. Len(All) + 1] :
                /\ Cuts(d, chunks') /\ d[Len(chunks') + 1] = At(turn)
                /\ Sized(d, chunks', Len(chunks'))
      BY <1>1, <1>8, <2>2, <3>1, WindowCloses
    <3>5. PICK d \in [1 .. Len(chunks') + 1 -> 1 .. Len(All) + 1] :
             Cuts(d, chunks') /\ d[Len(chunks') + 1] = At(turn) /\ Sized(d, chunks', Len(chunks'))
      BY <3>4
    <3>6. Last(chunks') = Window
      <4>1. chunks'[Len(chunks) + 1] = Window
        BY <1>2, <3>1, <3>4, AppendProperties
      <4> QED
        BY <3>4, <4>1 DEF Last
    <3> HIDE DEF r
    <3>7. \E m \in FifteenPercent(Cardinality(SentenceStarts(Window))) : Part(At(turn - r), At(turn)) = LastSentences(Window, m)
      <4>1. r \in 1 .. turn - p
        BY <2>1, <3>2
      <4>2. Cardinality(SentenceStarts(Window)) = turn - p /\ LastSentences(Window, r) = Part(At(turn - r), At(turn))
        <5> HIDE DEF p
        <5> QED
          BY <1>2, <2>1, <4>1, LastOfPart
      <4>3. turn - p = n
        BY <2>1
      <4> QED
        BY <3>2, <4>2, <4>3
    <3>8. \A x : SentencesKept(x, At(turn), At(turn'))
      BY <1>1, <1>2, SentenceAlone
    <3>9. turn - r >= 1 /\ turn - r <= turn /\ turn \in 1 .. turn
      BY <1>2, <2>1, <3>2
    <3> QED
      BY <1>5, <3>3, <3>4, <3>5, <3>6, <3>7, <3>8, <3>9
  <2>3. CASE ~(Tokens(Window) + Tokens(Sentences(turn, turn)) > Size /\ Tokens(Window) >= Floor)
    <3>1. pending' = Append(pending, turn) /\ chunks' = chunks
      BY <2>3 DEF PackSentence
    <3>2. /\ pending' \in Seq(Nat) /\ Len(pending') < turn' /\ pending' # <<>> /\ pending'[1] = turn - n
          /\ \A k \in DOMAIN pending' : pending'[k] = turn' - Len(pending') + k - 1
      BY <1>1, <1>2, <3>1, PendingAppended
    <3>3. PICK a \in 1 .. SentenceCount + 1 :
            /\ b[Len(chunks) + 1] = At(a) /\ p >= 1 /\ p <= a /\ a < turn
            /\ IF chunks = <<>> THEN p = a
               ELSE \E m \in FifteenPercent(Cardinality(SentenceStarts(Last(chunks)))) :
                       Part(At(p), At(a)) = LastSentences(Last(chunks), m)
      BY <1>6, <1>8 DEF SentencesPending
    <3>4. pending'[1] = p
      BY <2>1, <3>2
    <3> HIDE DEF p, n, r
    <3>5. a \in 1 .. turn - 1 /\ p \in 1 .. a /\ a \in 1 .. turn
      BY <1>2, <2>1, <3>3
    <3>6. SentencesKept(Part(At(p), At(turn')), At(a), At(turn'))
      <4>1. ~(Tokens(Part(At(p), At(turn))) + Tokens(Sentences(turn, turn)) > Size /\ Tokens(Part(At(p), At(turn))) >= Floor)
        BY <2>1, <2>3
      <4> QED
        BY <1>1, <1>2, <3>5, <4>1, SentencePacked
    <3> QED
      BY <1>2, <1>5, <1>6, <3>1, <3>2, <3>3, <3>4, <3>5, <3>6
  <2> QED
    BY <2>2, <2>3
<1> QED
  BY <1>7, <1>8

\* So does the end of the loop over the sentences.
LEMMA FinishSentencesKeeps ==
    ASSUME PackInv, FinishSentences
    PROVE  PackInv'
<1> USE DEF PackInv
<1>1. /\ phase = "pack" /\ strategy = "sentence" /\ turn = SentenceCount + 1
      /\ parsed' = parsed /\ strategy' = strategy /\ turn' = turn /\ pending' = <<>> /\ phase' = "done"
      /\ chunks' = MergeTail(Append(chunks, Window))
  BY DEF FinishSentences
<1>2. parsed \in Seq(Blocks) /\ SentenceCount \in Nat
  BY AllStartsOf DEF PackShape, PackTypeOK
<1>3. pending # <<>>
  <2>1. SUFFICES ASSUME pending = <<>> PROVE FALSE
    OBVIOUS
  <2>2. turn = 1 /\ All # <<>>
    BY <1>1, <2>1 DEF PackingInv
  <2>3. SentenceCount > 0
    BY <1>2, <2>2, AllStartsOf
  <2> QED
    BY <1>1, <1>2, <2>2, <2>3
<1>4. At(turn) = Len(All) + 1
  BY <1>1, <1>2, AtOf
<1> DEFINE es == Append(chunks, Window)
<1>5. es \in Seq(Seq(Piece)) /\ es # <<>>
  BY <1>1, <1>3, WindowCloses
<1>6. PICK b \in [1 .. Len(es) + 1 -> 1 .. Len(All) + 1] :
        Cuts(b, es) /\ b[Len(es) + 1] = Len(All) + 1 /\ Sized(b, es, Len(es) - 1)
  BY <1>1, <1>3, <1>4, WindowCloses
<1>7. ~Short
  BY <1>1 DEF PackingInv
<1> QED
  BY <1>1, <1>5, <1>6, <1>7, FinishKeeps

\* How the text of a document is cut, at every turn of both loops.
THEOREM PackInvariance == PackSpec => []PackInv
<1>1. PackInit => PackInv
  BY PackInitHolds
<1>2. ASSUME PackInv, [PackNext]_packVars PROVE PackInv'
  <2>1. CASE Measure
    BY <1>2, <2>1, MeasureKeeps
  <2>2. CASE PackBlock
    BY <1>2, <2>2, PackBlockKeeps
  <2>3. CASE FinishBlocks
    BY <1>2, <2>3, FinishBlocksKeeps
  <2>4. CASE PackSentence
    BY <1>2, <2>4, PackSentenceKeeps
  <2>5. CASE FinishSentences
    BY <1>2, <2>5, FinishSentencesKeeps
  <2>6. CASE UNCHANGED packVars
    <3>1. /\ parsed' = parsed /\ strategy' = strategy /\ phase' = phase /\ turn' = turn
          /\ pending' = pending /\ chunks' = chunks
      BY <2>6 DEF packVars
    <3>2. /\ All' = All /\ SentenceCount' = SentenceCount
          /\ \A b, cs : Cuts(b, cs)' = Cuts(b, cs)
          /\ \A b, cs, n : Sized(b, cs, n)' = Sized(b, cs, n)
          /\ \A i : Off(i)' = Off(i) /\ At(i)' = At(i)
          /\ \A i, j : Part(i, j)' = Part(i, j)
          /\ \A i, j : BlocksKept(i, j)' = BlocksKept(i, j)
          /\ \A x, i, j : SentencesKept(x, i, j)' = SentencesKept(x, i, j)
          /\ Short' = Short
          /\ \A bs : JoinedText(bs)' = JoinedText(bs)
      BY <3>1, TextFixed
    <3>3. JoinedText(Everything)' = JoinedText(Everything)
      BY <3>2 DEF All
    <3>4. PackShape'
      BY <1>2, <3>1, <3>2, <3>3 DEF PackInv, PackShape, PackTypeOK
    <3>5. \A c : BlocksPending(c)' = BlocksPending(c) /\ SentencesPending(c)' = SentencesPending(c)
      BY <3>1, <3>2 DEF BlocksPending, SentencesPending
    <3>6. PackingInv'
      BY <1>2, <3>1, <3>2, <3>5 DEF PackInv, PackingInv
    <3>7. PackedInv'
      BY <1>2, <3>1, <3>2 DEF PackInv, PackedInv, WholeText, MergeTail
    <3> QED
      BY <3>4, <3>6, <3>7 DEF PackInv
  <2> QED
    BY <1>2, <2>1, <2>2, <2>3, <2>4, <2>5, <2>6 DEF PackNext
<1> QED
  BY <1>1, <1>2, PTL DEF PackSpec

\* The least element is what the library calls Min.
LEMMA MinIs ==
    ASSUME NEW S \in SUBSET Nat, NEW i \in S, \A j \in S : i <= j
    PROVE  Min(S) = i
<1> DEFINE m == CHOOSE x \in S : \A y \in S : x <= y
<1>1. m \in S /\ \A y \in S : m <= y
  OBVIOUS
<1>2. Min(S) = m
  BY DEF Min
<1> HIDE DEF m
<1>3. m <= i /\ i <= m /\ m \in Nat /\ i \in Nat
  BY <1>1
<1> QED
  BY <1>2, <1>3

-----------------------------------------------------------------------------
(* What is read when the chunks are read one after the other.             *)

\* Text s has the first m pieces of the document, no other, and each for the
\* first time after the one before it.
ReadsUpTo(s, m) ==
    /\ s \in Seq(Piece)
    /\ \A i \in 1 .. m : \E j \in 1 .. Len(s) : s[j] = All[i]
    /\ \A j \in 1 .. Len(s) : \E i \in 1 .. m : s[j] = All[i]
    /\ \A j \in 1 .. Len(s) : \A i \in 2 .. Len(All) :
          s[j] = All[i] => \E h \in 1 .. j - 1 : s[h] = All[i - 1]

\* Two texts, one after the other.
LEMMA JoinIs ==
    ASSUME NEW s \in Seq(Piece), NEW t \in Seq(Piece)
    PROVE  /\ s \o t \in Seq(Piece) /\ Len(s) \in Nat /\ Len(t) \in Nat
           /\ Len(s \o t) = Len(s) + Len(t)
           /\ \A k \in 1 .. Len(s) : (s \o t)[k] = s[k]
           /\ \A k \in 1 .. Len(t) : (s \o t)[Len(s) + k] = t[k]
           /\ \A k \in 1 .. Len(s) + Len(t) : k \in 1 .. Len(s) \/ k - Len(s) \in 1 .. Len(t)
<1> DEFINE u == s \o t
           m == Len(s)
           n == Len(t)
<1>1. /\ u \in Seq(Piece) /\ m \in Nat /\ n \in Nat /\ Len(u) = m + n
      /\ \A k \in 1 .. m + n : u[k] = IF k <= m THEN s[k] ELSE t[k - m]
  BY ConcatProperties, LenProperties
<1> HIDE DEF u, m, n
<1>2. \A k \in 1 .. m : k \in 1 .. m + n /\ k <= m
  BY <1>1
<1>3. \A k \in 1 .. n : m + k \in 1 .. m + n /\ ~(m + k <= m) /\ (m + k) - m = k
  BY <1>1
<1>4. \A k \in 1 .. m + n : k \in 1 .. m \/ k - m \in 1 .. n
  BY <1>1
<1>5. \A k \in 1 .. m : u[k] = s[k]
  BY <1>1, <1>2
<1>6. \A k \in 1 .. n : u[m + k] = t[k]
  BY <1>1, <1>3
<1> QED
  BY <1>1, <1>4, <1>5, <1>6 DEF u, m, n

\* Reading on in what was read before.
LEMMA ReadsAgain ==
    ASSUME parsed \in Seq(Blocks), NEW m \in 0 .. Len(All), NEW s, ReadsUpTo(s, m),
           NEW o \in Seq(Piece), ToSet(o) \subseteq ToSet(s)
    PROVE  ReadsUpTo(s \o o, m)
<1> DEFINE u == s \o o
           a == Len(s)
           e == Len(o)
<1>1. /\ u \in Seq(Piece) /\ a \in Nat /\ e \in Nat /\ Len(u) = a + e
      /\ \A k \in 1 .. a : u[k] = s[k]
      /\ \A k \in 1 .. e : u[a + k] = o[k]
      /\ \A k \in 1 .. a + e : k \in 1 .. a \/ k - a \in 1 .. e
  <2>1. s \in Seq(Piece)
    BY DEF ReadsUpTo
  <2> QED
    BY <2>1, JoinIs
<1>2. \A k \in 1 .. e : \E j \in 1 .. a : o[k] = s[j]
  <2>1. DOMAIN o = 1 .. e /\ DOMAIN s = 1 .. a
    BY LenProperties DEF ReadsUpTo
  <2> QED
    BY <2>1 DEF ToSet
<1>3. /\ \A i \in 1 .. m : \E j \in 1 .. a : s[j] = All[i]
      /\ \A j \in 1 .. a : \E i \in 1 .. m : s[j] = All[i]
      /\ \A j \in 1 .. a : \A i \in 2 .. Len(All) :
            s[j] = All[i] => \E h \in 1 .. j - 1 : s[h] = All[i - 1]
  BY DEF ReadsUpTo
<1> HIDE DEF u, a, e
<1>4. \A k \in 1 .. a : k \in 1 .. a + e
  BY <1>1
<1>5. ASSUME NEW k \in 1 .. a + e PROVE \E j \in 1 .. a : j <= k /\ u[k] = s[j]
  <2>1. CASE k \in 1 .. a
    <3>1. k <= k /\ u[k] = s[k]
      BY <1>1, <2>1
    <3> QED
      BY <2>1, <3>1
  <2>2. CASE ~(k \in 1 .. a)
    <3>1. k - a \in 1 .. e /\ a + (k - a) = k /\ \A j \in 1 .. a : j <= k
      BY <1>1, <2>2
    <3>2. u[a + (k - a)] = o[k - a]
      BY <1>1, <3>1
    <3>3. PICK j \in 1 .. a : o[k - a] = s[j]
      BY <1>2, <3>1
    <3> QED
      BY <3>1, <3>2, <3>3
  <2> QED
    BY <2>1, <2>2
<1>6. \A i \in 1 .. m : \E j \in 1 .. a + e : u[j] = All[i]
  BY <1>1, <1>3, <1>4
<1>7. ASSUME NEW j \in 1 .. a + e PROVE \E i \in 1 .. m : u[j] = All[i]
  <2>1. PICK k \in 1 .. a : u[j] = s[k]
    BY <1>5
  <2>2. PICK i \in 1 .. m : s[k] = All[i]
    BY <1>3
  <2> QED
    BY <2>1, <2>2
<1>8. ASSUME NEW j \in 1 .. a + e, NEW i \in 2 .. Len(All), u[j] = All[i]
      PROVE  \E h \in 1 .. j - 1 : u[h] = All[i - 1]
  <2>1. PICK k \in 1 .. a : k <= j /\ u[j] = s[k]
    BY <1>5
  <2>2. PICK h \in 1 .. k - 1 : s[h] = All[i - 1]
    BY <1>3, <1>8, <2>1
  <2>3. h \in 1 .. a /\ h \in 1 .. j - 1
    BY <1>1, <2>1, <2>2
  <2> QED
    BY <1>1, <2>2, <2>3
<1>9. ReadsUpTo(u, m)
  BY <1>1, <1>6, <1>7, <1>8 DEF ReadsUpTo
<1> QED
  BY <1>9 DEF u

\* Reading on in the text.
LEMMA ReadsOn ==
    ASSUME parsed \in Seq(Blocks), NEW m \in 0 .. Len(All), NEW n \in m .. Len(All), NEW s, ReadsUpTo(s, m)
    PROVE  ReadsUpTo(s \o Part(m + 1, n + 1), n)
<1> DEFINE p == Part(m + 1, n + 1)
           u == s \o p
           a == Len(s)
           e == n - m
<1>1. Len(All) \in Nat /\ m \in Nat /\ n \in Nat /\ e \in Nat
      /\ m + 1 \in 1 .. Len(All) + 1 /\ n + 1 \in m + 1 .. Len(All) + 1
      /\ (n + 1) - (m + 1) = e /\ \A k \in 1 .. e : (m + 1) + k - 1 = m + k
  <2>1. Len(All) \in Nat
    BY OffsetsOf
  <2> QED
    BY <2>1
<1>2. p \in Seq(Piece) /\ Len(p) = e /\ \A k \in 1 .. e : p[k] = All[m + k]
  <2>1. /\ p \in Seq(Piece) /\ Len(p) = (n + 1) - (m + 1)
        /\ \A k \in 1 .. (n + 1) - (m + 1) : p[k] = All[(m + 1) + k - 1]
    BY <1>1, PartOf
  <2> HIDE DEF p
  <2> QED
    BY <1>1, <2>1
<1> HIDE DEF p
<1>3. /\ u \in Seq(Piece) /\ a \in Nat /\ Len(u) = a + e
      /\ \A k \in 1 .. a : u[k] = s[k]
      /\ \A k \in 1 .. e : u[a + k] = p[k]
      /\ \A k \in 1 .. a + e : k \in 1 .. a \/ k - a \in 1 .. e
  <2>1. s \in Seq(Piece)
    BY DEF ReadsUpTo
  <2>2. Len(p) = e /\ p \in Seq(Piece)
    BY <1>2
  <2> HIDE DEF e
  <2> QED
    BY <2>1, <2>2, JoinIs
<1>4. /\ \A i \in 1 .. m : \E j \in 1 .. a : s[j] = All[i]
      /\ \A j \in 1 .. a : \E i \in 1 .. m : s[j] = All[i]
      /\ \A j \in 1 .. a : \A i \in 2 .. Len(All) :
            s[j] = All[i] => \E h \in 1 .. j - 1 : s[h] = All[i - 1]
  BY DEF ReadsUpTo
<1>5. \A k \in 1 .. e : u[a + k] = All[m + k] /\ a + k \in 1 .. a + e /\ m + k \in 1 .. n /\ m + k \in 1 .. Len(All)
  <2>1. \A k \in 1 .. e : a + k \in 1 .. a + e /\ m + k \in 1 .. n /\ m + k \in 1 .. Len(All)
    BY <1>1, <1>3
  <2> QED
    BY <1>2, <1>3, <2>1
<1> HIDE DEF u, a, e
<1>6. ASSUME NEW i \in 1 .. n PROVE \E j \in 1 .. a + e : u[j] = All[i]
  <2>1. CASE i <= m
    <3>1. i \in 1 .. m /\ \A j \in 1 .. a : j \in 1 .. a + e
      BY <1>1, <1>3, <2>1
    <3> QED
      BY <1>3, <1>4, <3>1
  <2>2. CASE ~(i <= m)
    <3>1. i - m \in 1 .. e /\ m + (i - m) = i
      BY <1>1, <2>2 DEF e
    <3>2. u[a + (i - m)] = All[m + (i - m)] /\ a + (i - m) \in 1 .. a + e
      BY <1>5, <3>1
    <3> QED
      BY <3>1, <3>2
  <2> QED
    BY <2>1, <2>2
<1>7. ASSUME NEW j \in 1 .. a + e PROVE \E i \in 1 .. n : u[j] = All[i]
  <2>1. CASE j \in 1 .. a
    <3>1. PICK i \in 1 .. m : s[j] = All[i]
      BY <1>4, <2>1
    <3>2. i \in 1 .. n /\ u[j] = s[j]
      BY <1>1, <1>3, <2>1
    <3> QED
      BY <3>1, <3>2
  <2>2. CASE ~(j \in 1 .. a)
    <3>1. j - a \in 1 .. e /\ a + (j - a) = j
      BY <1>3, <2>2
    <3>2. u[a + (j - a)] = All[m + (j - a)] /\ m + (j - a) \in 1 .. n
      BY <1>5, <3>1
    <3> QED
      BY <3>1, <3>2
  <2> QED
    BY <2>1, <2>2
<1>8. ASSUME NEW j \in 1 .. a + e, NEW i \in 2 .. Len(All), u[j] = All[i]
      PROVE  \E h \in 1 .. j - 1 : u[h] = All[i - 1]
  <2>1. CASE j \in 1 .. a
    <3>1. PICK h \in 1 .. j - 1 : s[h] = All[i - 1]
      <4>1. s[j] = All[i]
        BY <1>3, <1>8, <2>1
      <4> QED
        BY <1>4, <2>1, <4>1
    <3>2. h \in 1 .. a
      BY <1>3, <2>1, <3>1
    <3> QED
      BY <1>3, <3>1, <3>2
  <2>2. CASE ~(j \in 1 .. a)
    <3>1. j - a \in 1 .. e /\ a + (j - a) = j
      BY <1>3, <2>2
    <3>2. u[a + (j - a)] = All[m + (j - a)] /\ m + (j - a) \in 1 .. Len(All) /\ i \in 1 .. Len(All)
      BY <1>1, <1>5, <3>1
    <3>3. i = m + (j - a)
      BY <1>8, <3>1, <3>2, Distinct
    <3>4. CASE j - a = 1
      <4>1. i - 1 \in 1 .. m /\ \A h \in 1 .. a : h \in 1 .. j - 1
        BY <1>1, <1>3, <3>1, <3>3, <3>4
      <4>2. PICK h \in 1 .. a : s[h] = All[i - 1]
        BY <1>4, <4>1
      <4> QED
        BY <1>3, <4>1, <4>2
    <3>5. CASE j - a # 1
      <4>1. (j - a) - 1 \in 1 .. e /\ a + ((j - a) - 1) \in 1 .. j - 1 /\ m + ((j - a) - 1) = i - 1
        BY <1>1, <1>3, <3>1, <3>3, <3>5
      <4>2. u[a + ((j - a) - 1)] = All[m + ((j - a) - 1)]
        BY <1>5, <4>1
      <4> QED
        BY <4>1, <4>2
    <3> QED
      BY <3>4, <3>5
  <2> QED
    BY <2>1, <2>2
<1>9. ReadsUpTo(u, n)
  BY <1>3, <1>6, <1>7, <1>8 DEF ReadsUpTo
<1> QED
  BY <1>9 DEF u, p

\* A text that reads the whole document has every piece, first in order.
LEMMA ReadInOrder ==
    ASSUME parsed \in Seq(Blocks), ReadsUpTo(FlattenSeq(chunks), Len(All))
    PROVE  /\ \A k \in DOMAIN All : FirstAt(All[k]) > 0
           /\ \A k \in 2 .. Len(All) : FirstAt(All[k - 1]) < FirstAt(All[k])
<1> DEFINE s == FlattenSeq(chunks)
           Found(k) == /\ FirstAt(All[k]) \in 1 .. Len(s) /\ s[FirstAt(All[k])] = All[k]
                       /\ \A j \in 1 .. Len(s) : s[j] = All[k] => FirstAt(All[k]) <= j
<1>1. Len(All) \in Nat /\ DOMAIN All = 1 .. Len(All) /\ Len(s) \in Nat
  <2>1. s \in Seq(Piece) /\ All \in Seq(Piece)
    BY OffsetsOf DEF ReadsUpTo
  <2> QED
    BY <2>1, LenProperties
<1>2. ASSUME NEW k \in 1 .. Len(All) PROVE Found(k)
  <2> DEFINE I == {j \in 1 .. Len(s) : s[j] = All[k]}
  <2>1. I # {} /\ I \in SUBSET Nat
    <3>1. PICK j \in 1 .. Len(s) : s[j] = All[k]
      BY DEF ReadsUpTo
    <3>2. j \in I
      BY <3>1
    <3> QED
      BY <1>1, <3>2
  <2>2. FirstAt(All[k]) = IF I # {} THEN Min(I) ELSE 0
    BY DEF FirstAt, SelectInSeq
  <2>3. PICK i \in I : \A j \in I : i <= j
    <3> HIDE DEF I
    <3> QED
      BY <2>1, Least
  <2>4. Min(I) = i
    <3> HIDE DEF I
    <3> QED
      BY <2>1, <2>3, MinIs
  <2>5. FirstAt(All[k]) = i
    BY <2>1, <2>2, <2>4
  <2> QED
    BY <2>3, <2>5
<1>3. \A k \in 1 .. Len(All) : FirstAt(All[k]) > 0
  <2> TAKE k \in 1 .. Len(All)
  <2>1. FirstAt(All[k]) \in 1 .. Len(s)
    BY <1>2
  <2> QED
    BY <1>1, <2>1
<1>4. ASSUME NEW k \in 2 .. Len(All) PROVE FirstAt(All[k - 1]) < FirstAt(All[k])
  <2>1. k \in 1 .. Len(All) /\ k - 1 \in 1 .. Len(All)
    BY <1>1
  <2>2. Found(k) /\ Found(k - 1)
    BY <1>2, <2>1
  <2>3. PICK h \in 1 .. FirstAt(All[k]) - 1 : s[h] = All[k - 1]
    BY <2>2 DEF ReadsUpTo
  <2>4. h \in 1 .. Len(s) /\ h < FirstAt(All[k]) /\ FirstAt(All[k - 1]) \in Nat /\ FirstAt(All[k]) \in Nat /\ h \in Nat
    BY <1>1, <2>2, <2>3
  <2>5. FirstAt(All[k - 1]) <= h
    BY <2>2, <2>3, <2>4
  <2> QED
    BY <2>4, <2>5
<1> QED
  BY <1>1, <1>3, <1>4

\* Joining is associative.
LEMMA JoinAgain ==
    ASSUME NEW s \in Seq(Piece), NEW t \in Seq(Piece), NEW u \in Seq(Piece)
    PROVE  (s \o t) \o u = s \o (t \o u)
  BY ConcatAssociative

\* The first chunks of some.
LEMMA FirstChunks ==
    ASSUME NEW cs \in Seq(Seq(Piece))
    PROVE  /\ Len(cs) \in Nat /\ SubSeq(cs, 1, 0) = <<>> /\ SubSeq(cs, 1, Len(cs)) = cs
           /\ \A k \in 0 .. Len(cs) : SubSeq(cs, 1, k) \in Seq(Seq(Piece))
           /\ \A k \in 1 .. Len(cs) : cs[k] \in Seq(Piece) /\ SubSeq(cs, 1, k) = Append(SubSeq(cs, 1, k - 1), cs[k])
<1>1. Len(cs) \in Nat /\ \A k \in 1 .. Len(cs) : cs[k] \in Seq(Piece)
  BY LenProperties, ElementOfSeq
<1>2. ASSUME NEW k \in 0 .. Len(cs) PROVE SubSeq(cs, 1, k) \in Seq(Seq(Piece))
  <2>1. 1 \in Int /\ k \in Int /\ \A i \in 1 .. k : cs[i] \in Seq(Piece)
    BY <1>1
  <2> QED
    BY <2>1, SubSeqProperties
<1>3. ASSUME NEW k \in 1 .. Len(cs) PROVE SubSeq(cs, 1, k) = Append(SubSeq(cs, 1, k - 1), cs[k])
  <2>1. k - 1 \in 0 .. Len(cs) /\ cs[k] \in Seq(Piece) /\ 1 \in 1 .. Len(cs) /\ 1 <= k
    BY <1>1
  <2>2. SubSeq(cs, 1, k) = SubSeq(cs, 1, k - 1) \o <<cs[k]>>
    BY <2>1, SubSeqRecursiveSecond
  <2> DEFINE q == SubSeq(cs, 1, k - 1)
  <2>3. q \in Seq(Seq(Piece))
    BY <1>2, <2>1
  <2> HIDE DEF q
  <2>4. Append(q, cs[k]) = q \o <<cs[k]>>
    BY <2>1, <2>3, AppendIsConcat
  <2> QED
    BY <2>2, <2>4 DEF q
<1> QED
  BY <1>1, <1>2, <1>3, SubSeqEmpty, SubSeqFull

\* What chunk k repeats: nothing, or whole sentences of the one before it.
Overlaps(o, cs, k) ==
    /\ k = 1 => o = <<>>
    /\ k > 1 => /\ ToSet(o) \subseteq ToSet(cs[k - 1]) /\ k - 1 \in 1 .. Len(cs) /\ (k - 1) + 1 = k
                /\ \E n \in FifteenPercent(Cardinality(SentenceStarts(cs[k - 1]))) : o = LastSentences(cs[k - 1], n)
                /\ Len(o) \in Nat \ {0}

\* A chunk, taken apart: what it repeats, and what it goes on with.
LEMMA ChunkParts ==
    ASSUME parsed \in Seq(Blocks), NEW cs \in Seq(Seq(Piece)), NEW b, Cuts(b, cs), NEW k \in 1 .. Len(cs)
    PROVE  \E o \in Seq(Piece) : cs[k] = o \o Part(b[k], b[k + 1]) /\ Overlaps(o, cs, k)
<1> DEFINE p == Part(b[k], b[k + 1])
           q == SubSeq(cs, 1, k - 1)
<1>1. /\ q \in Seq(Seq(Piece)) /\ Len(q) = k - 1 /\ (k > 1 => Last(q) = cs[k - 1])
      /\ p \in Seq(Piece) /\ Len(cs) \in Nat
  BY CutsOf
<1>2. Opens(cs[k], q, p)
  BY DEF Cuts
<1> HIDE DEF p, q
<1>3. CASE k = 1
  <2>1. q = <<>>
    BY <1>1, <1>3, EmptySeq
  <2>2. cs[k] = <<>> \o p
    BY <1>1, <1>2, <2>1, ConcatEmptySeq DEF Opens
  <2>3. <<>> \in Seq(Piece) /\ ~(k > 1)
    BY <1>3
  <2> QED
    BY <1>3, <2>2, <2>3 DEF p, Overlaps
<1>4. CASE k > 1
  <2>1. q # <<>> /\ k - 1 \in 1 .. Len(cs) /\ (k - 1) + 1 = k /\ k # 1
    <3>1. Len(q) # 0
      BY <1>1, <1>4
    <3> QED
      BY <1>1, <1>4, <3>1, EmptySeq
  <2>2. PICK n \in FifteenPercent(Cardinality(SentenceStarts(cs[k - 1]))) : cs[k] = LastSentences(cs[k - 1], n) \o p
    BY <1>1, <1>2, <1>4, <2>1 DEF Opens
  <2>3. cs[k - 1] \in Seq(Piece)
    BY <2>1, ElementOfSeq
  <2>4. /\ LastSentences(cs[k - 1], n) \in Seq(Piece) /\ ToSet(LastSentences(cs[k - 1], n)) \subseteq ToSet(cs[k - 1])
        /\ Len(LastSentences(cs[k - 1], n)) \in Nat \ {0}
    BY <2>3, FifteenWithin, LastIsPart
  <2> QED
    BY <2>1, <2>2, <2>4 DEF p, Overlaps
<1>5. k = 1 \/ k > 1
  BY <1>1
<1> QED
  BY <1>3, <1>4, <1>5

\* Chunks cut from the text read it up to the last cut.
LEMMA CutsRead ==
    ASSUME parsed \in Seq(Blocks), NEW cs \in Seq(Seq(Piece)), NEW b, Cuts(b, cs)
    PROVE  ReadsUpTo(FlattenSeq(cs), b[Len(cs) + 1] - 1)
<1> DEFINE F(k) == FlattenSeq(SubSeq(cs, 1, k))
           Good(k) == ReadsUpTo(F(k), b[k + 1] - 1) /\ (k > 0 => ToSet(cs[k]) \subseteq ToSet(F(k)))
           Bad == {k \in 0 .. Len(cs) : ~Good(k)}
<1>1. /\ Len(cs) \in Nat /\ Len(All) \in Nat
      /\ \A k \in 1 .. Len(cs) + 1 : b[k] \in 1 .. Len(All) + 1
      /\ \A k \in 1 .. Len(cs) : b[k + 1] \in b[k] .. Len(All) + 1 /\ Part(b[k], b[k + 1]) \in Seq(Piece)
  BY CutsOf
<1>2. /\ SubSeq(cs, 1, 0) = <<>> /\ SubSeq(cs, 1, Len(cs)) = cs
      /\ \A k \in 0 .. Len(cs) : SubSeq(cs, 1, k) \in Seq(Seq(Piece))
      /\ \A k \in 1 .. Len(cs) : cs[k] \in Seq(Piece) /\ SubSeq(cs, 1, k) = Append(SubSeq(cs, 1, k - 1), cs[k])
  BY FirstChunks
<1>3. SUFFICES ASSUME Bad # {} PROVE FALSE
  <2>1. Len(cs) \in 0 .. Len(cs)
    BY <1>1
  <2>2. Good(Len(cs))
    BY <1>3, <2>1
  <2> QED
    BY <1>2, <2>2
<1>4. PICK k \in Bad : \A j \in Bad : k <= j
  <2>1. Bad \in SUBSET Nat
    BY <1>1
  <2> HIDE DEF Bad
  <2> QED
    BY <1>3, <2>1, Least
<1>5. k \in 0 .. Len(cs) /\ ~Good(k)
  BY <1>4
<1>6. k # 0
  <2>1. F(0) = <<>>
    BY <1>2 DEF FlattenSeq
  <2>2. b[1] - 1 = 0 /\ b[0 + 1] = b[1]
    BY DEF Cuts
  <2>3. ReadsUpTo(<<>>, 0)
    BY DEF ReadsUpTo
  <2> HIDE DEF F
  <2> QED
    BY <1>5, <2>1, <2>2, <2>3
<1>7. k \in 1 .. Len(cs) /\ k - 1 \in 0 .. Len(cs) /\ ~(k <= k - 1) /\ (k - 1) + 1 = k
      /\ k \in 1 .. Len(cs) + 1 /\ k + 1 \in 1 .. Len(cs) + 1
  BY <1>1, <1>5, <1>6
<1>8. Good(k - 1)
  <2>1. k - 1 \notin Bad
    BY <1>4, <1>7
  <2> HIDE DEF Good
  <2> QED
    BY <1>7, <2>1
<1>9. ReadsUpTo(F(k - 1), b[k] - 1) /\ (k - 1 > 0 => ToSet(cs[k - 1]) \subseteq ToSet(F(k - 1)))
  BY <1>7, <1>8
<1>10. F(k) = F(k - 1) \o cs[k] /\ F(k - 1) \in Seq(Piece) /\ cs[k] \in Seq(Piece)
  <2> DEFINE q == SubSeq(cs, 1, k - 1)
  <2>1. q \in Seq(Seq(Piece)) /\ cs[k] \in Seq(Piece) /\ SubSeq(cs, 1, k) = Append(q, cs[k])
    BY <1>2, <1>7
  <2>2. FlattenSeq(q) \in Seq(Piece) /\ FlattenSeq(Append(q, cs[k])) = FlattenSeq(q) \o cs[k]
    <3> HIDE DEF q
    <3> QED
      BY <2>1, FlattenAppend
  <2> QED
    BY <2>1, <2>2
<1> DEFINE p == Part(b[k], b[k + 1])
           m == b[k] - 1
           n == b[k + 1] - 1
<1>11. /\ m \in 0 .. Len(All) /\ n \in m .. Len(All) /\ m + 1 = b[k] /\ n + 1 = b[k + 1]
       /\ p \in Seq(Piece)
  <2>1. b[k] \in 1 .. Len(All) + 1 /\ b[k + 1] \in b[k] .. Len(All) + 1 /\ p \in Seq(Piece)
    BY <1>1, <1>7
  <2>2. ASSUME NEW f \in 1 .. Len(All) + 1, NEW g \in f .. Len(All) + 1
        PROVE  f - 1 \in 0 .. Len(All) /\ g - 1 \in f - 1 .. Len(All) /\ (f - 1) + 1 = f /\ (g - 1) + 1 = g
    BY <1>1
  <2> QED
    BY <2>1, <2>2
<1>12. PICK o \in Seq(Piece) : cs[k] = o \o p /\ Overlaps(o, cs, k)
  <2> HIDE DEF Bad, Good
  <2>1. \E o \in Seq(Piece) : cs[k] = o \o Part(b[k], b[k + 1]) /\ Overlaps(o, cs, k)
    BY <1>7, ChunkParts
  <2> QED
    BY <2>1
<1> HIDE DEF F, Good, Bad, p, m, n
<1>13. ToSet(o) \subseteq ToSet(F(k - 1))
  <2>1. CASE k = 1
    <3>1. ToSet(<<>>) = {}
      BY DEF ToSet
    <3> QED
      BY <1>12, <2>1, <3>1 DEF Overlaps
  <2>2. CASE k # 1
    <3>1. k > 1 /\ k - 1 > 0
      BY <1>7, <2>2
    <3> QED
      BY <1>9, <1>12, <3>1 DEF Overlaps
  <2> QED
    BY <2>1, <2>2
<1>14. ReadsUpTo(F(k - 1) \o o, m)
  BY <1>9, <1>11, <1>13, ReadsAgain DEF m
<1>15. ReadsUpTo((F(k - 1) \o o) \o p, n)
  <2>1. ReadsUpTo((F(k - 1) \o o) \o Part(m + 1, n + 1), n)
    BY <1>11, <1>14, ReadsOn
  <2> QED
    BY <1>11, <2>1 DEF p
<1>16. F(k) = (F(k - 1) \o o) \o p
  <2>1. F(k - 1) \in Seq(Piece) /\ o \in Seq(Piece) /\ p \in Seq(Piece)
    BY <1>10, <1>11, <1>12
  <2>2. (F(k - 1) \o o) \o p = F(k - 1) \o (o \o p)
    BY <2>1, JoinAgain
  <2>3. F(k) = F(k - 1) \o (o \o p)
    BY <1>10, <1>12
  <2> QED
    BY <2>2, <2>3
<1>17. ToSet(F(k)) = ToSet(F(k - 1)) \cup ToSet(cs[k])
  BY <1>10, ToSetJoin
<1>18. Good(k)
  BY <1>15, <1>16, <1>17 DEF Good, n
<1> QED
  BY <1>5, <1>18

\* Merging the tail back changes nothing of what is read.
LEMMA MergeReads ==
    ASSUME NEW cs \in Seq(Seq(Piece)), cs # <<>>
    PROVE  FlattenSeq(MergeTail(cs)) = FlattenSeq(cs)
<1> DEFINE n == Len(cs)
           x == cs[n - 1]
           y == cs[n]
           q == SubSeq(cs, 1, n - 2)
<1>1. CASE n > 1 /\ MergeTail(cs) = Append(q, x \o y) /\ q \in Seq(Seq(Piece))
  <2>1. n \in Nat /\ n - 1 \in 1 .. n /\ n \in 1 .. n /\ (n - 1) - 1 = n - 2
    BY <1>1, LenProperties
  <2>2. x \in Seq(Piece) /\ y \in Seq(Piece) /\ SubSeq(cs, 1, n - 1) = Append(q, x)
        /\ cs = Append(SubSeq(cs, 1, n - 1), y) /\ SubSeq(cs, 1, n - 1) \in Seq(Seq(Piece))
    <3>1. /\ \A k \in 1 .. n : cs[k] \in Seq(Piece) /\ SubSeq(cs, 1, k) = Append(SubSeq(cs, 1, k - 1), cs[k])
          /\ SubSeq(cs, 1, n) = cs /\ \A k \in 0 .. n : SubSeq(cs, 1, k) \in Seq(Seq(Piece))
      BY FirstChunks
    <3>2. SubSeq(cs, 1, n - 1) = Append(SubSeq(cs, 1, (n - 1) - 1), cs[n - 1])
      BY <2>1, <3>1
    <3>3. n - 1 \in 0 .. n
      BY <2>1
    <3> QED
      BY <2>1, <3>1, <3>2, <3>3
  <2> DEFINE r == SubSeq(cs, 1, n - 1)
  <2>3. r = Append(q, x) /\ cs = Append(r, y) /\ r \in Seq(Seq(Piece)) /\ q \in Seq(Seq(Piece))
    BY <1>1, <2>2
  <2> HIDE DEF x, y, q, r, n
  <2>4. x \o y \in Seq(Piece)
    BY <2>2, ConcatProperties
  <2>5. FlattenSeq(Append(q, x \o y)) = FlattenSeq(q) \o (x \o y) /\ FlattenSeq(q) \in Seq(Piece)
    BY <2>3, <2>4, FlattenAppend
  <2>6. FlattenSeq(r) = FlattenSeq(q) \o x
    BY <2>2, <2>3, FlattenAppend
  <2>7. FlattenSeq(Append(r, y)) = FlattenSeq(r) \o y
    BY <2>2, <2>3, FlattenAppend
  <2>8. (FlattenSeq(q) \o x) \o y = FlattenSeq(q) \o (x \o y)
    BY <2>2, <2>5, JoinAgain
  <2>9. MergeTail(cs) = Append(q, x \o y)
    BY <1>1
  <2>10. FlattenSeq(cs) = FlattenSeq(Append(r, y))
    BY <2>3
  <2> QED
    BY <2>5, <2>6, <2>7, <2>8, <2>9, <2>10
<1>2. CASE MergeTail(cs) = cs
  BY <1>2
<1> QED
  BY <1>1, <1>2, MergeTailOf

\* The chunks of a packed document read all of it.
LEMMA PackedReads ==
    ASSUME PackInv, phase = "done"
    PROVE  ReadsUpTo(FlattenSeq(chunks), Len(All))
<1>1. parsed \in Seq(Blocks) /\ Len(All) \in Nat /\ All \in Seq(Piece)
  BY OffsetsOf DEF PackInv, PackShape, PackTypeOK
<1>2. CASE WholeText
  <2>1. FlattenSeq(<<>>) = <<>> /\ <<>> \in Seq(Seq(Piece)) /\ <<All>> = Append(<<>>, All)
    BY DEF FlattenSeq
  <2>2. FlattenSeq(<<All>>) = <<>> \o All
    BY <1>1, <2>1, FlattenAppend
  <2>3. ReadsUpTo(<<>>, 0)
    BY DEF ReadsUpTo
  <2>4. ReadsUpTo(<<>> \o Part(0 + 1, Len(All) + 1), Len(All))
    <3>1. 0 \in 0 .. Len(All) /\ Len(All) \in 0 .. Len(All)
      BY <1>1
    <3> QED
      BY <1>1, <2>3, <3>1, ReadsOn
  <2>5. Part(0 + 1, Len(All) + 1) = All
    <3>1. 0 + 1 = 1 /\ (Len(All) + 1) - 1 = Len(All)
      BY <1>1
    <3> QED
      BY <1>1, <3>1, SubSeqFull DEF Part
  <2> QED
    BY <1>2, <2>2, <2>4, <2>5 DEF WholeText
<1>3. CASE ~WholeText
  <2>1. PICK cs \in Seq(Seq(Piece)) :
           /\ chunks = MergeTail(cs) /\ cs # <<>>
           /\ \E b \in [1 .. Len(cs) + 1 -> 1 .. Len(All) + 1] : Cuts(b, cs) /\ b[Len(cs) + 1] = Len(All) + 1
    BY <1>3 DEF PackInv, PackedInv
  <2>2. PICK b : Cuts(b, cs) /\ b[Len(cs) + 1] = Len(All) + 1
    BY <2>1
  <2>3. ReadsUpTo(FlattenSeq(cs), b[Len(cs) + 1] - 1)
    BY <1>1, <2>2, CutsRead
  <2>4. b[Len(cs) + 1] - 1 = Len(All)
    BY <1>1, <2>2
  <2> QED
    BY <2>1, <2>3, <2>4, MergeReads
<1> QED
  BY <1>2, <1>3

\* Nothing is lost and nothing moves, in a document of any length, whatever is
\* flushed, overlapped and merged (rules.py:284-330).
THEOREM NothingLostOrMovedAlways == PackSpec => []NothingLostOrMoved
<1>1. PackInv => NothingLostOrMoved
  <2> SUFFICES ASSUME PackInv PROVE NothingLostOrMoved
    OBVIOUS
  <2>1. PackTypeOK /\ parsed \in Seq(Blocks)
    BY DEF PackInv, PackShape, PackTypeOK
  <2>2. ASSUME phase = "done"
        PROVE  /\ \A k \in DOMAIN All : FirstAt(All[k]) > 0
               /\ \A k \in 2 .. Len(All) : FirstAt(All[k - 1]) < FirstAt(All[k])
    BY <2>1, <2>2, PackedReads, ReadInOrder
  <2> QED
    BY <2>1, <2>2 DEF NothingLostOrMoved, Packed, All
<1> QED
  BY <1>1, PackInvariance, PTL

-----------------------------------------------------------------------------
(* What a chunk adds, and where the sizes give way.                       *)

\* What follows the first of two texts is the second.
LEMMA JoinDrop ==
    ASSUME NEW s \in Seq(Piece), NEW t \in Seq(Piece)
    PROVE  SubSeq(s \o t, Len(s) + 1, Len(s \o t)) = t
<1> DEFINE u == s \o t
           m == Len(s)
           n == Len(t)
           v == SubSeq(u, m + 1, m + n)
<1>1. /\ u \in Seq(Piece) /\ m \in Nat /\ n \in Nat /\ Len(u) = m + n
      /\ \A k \in 1 .. n : u[m + k] = t[k]
  BY JoinIs
<1> HIDE DEF u, m, n
<1>2. \A k \in m + 1 .. m + n : u[k] \in Piece
  <2>1. \A k \in m + 1 .. m + n : k \in 1 .. m + n
    BY <1>1
  <2> QED
    BY <1>1, <2>1, ElementOfSeq
<1>3. /\ v \in Seq(Piece) /\ Len(v) = IF m + 1 <= m + n THEN (m + n) - (m + 1) + 1 ELSE 0
      /\ \A k \in 1 .. (m + n) - (m + 1) + 1 : v[k] = u[(m + 1) + k - 1]
  <2>1. m + 1 \in Int /\ m + n \in Int
    BY <1>1
  <2> QED
    BY <1>2, <2>1, SubSeqProperties
<1> HIDE DEF v
<1>4. Len(v) = n
  BY <1>1, <1>3
<1>5. ASSUME NEW k \in 1 .. n PROVE v[k] = t[k]
  <2>1. k \in 1 .. (m + n) - (m + 1) + 1 /\ (m + 1) + k - 1 = m + k
    BY <1>1
  <2> QED
    BY <1>1, <1>3, <2>1
<1>6. t \in Seq(Piece) /\ Len(t) = n
  BY DEF n
<1>7. v = t
  BY <1>3, <1>4, <1>5, <1>6, SeqEqual
<1> QED
  BY <1>1, <1>7 DEF u, m, n, v

\* What is at or after a cut is in no chunk before it.
LEMMA FreshAfterCut ==
    ASSUME parsed \in Seq(Blocks), NEW cs \in Seq(Seq(Piece)), NEW b, Cuts(b, cs),
           NEW k \in 1 .. Len(cs), NEW j \in 1 .. k - 1, NEW x \in b[k] .. Len(All)
    PROVE  All[x] \notin ToSet(cs[j])
<1> DEFINE Bad == {i \in 1 .. Len(cs) + 1 : j < i /\ ~(b[j + 1] <= b[i])}
<1>1. /\ Len(cs) \in Nat /\ Len(All) \in Nat
      /\ \A i \in 1 .. Len(cs) + 1 : b[i] \in 1 .. Len(All) + 1 /\ b[i] \in Nat
      /\ \A i \in 1 .. Len(cs) : b[i] < b[i + 1]
  BY CutsOf
<1>2. j \in 1 .. Len(cs) /\ j \in Nat /\ k \in 1 .. Len(cs) + 1 /\ j < k /\ j + 1 \in 1 .. Len(cs) + 1
  BY <1>1
<1>3. b[j + 1] <= b[k]
  <2>1. SUFFICES ASSUME Bad # {} PROVE FALSE
    BY <1>2
  <2>2. PICK i \in Bad : \A h \in Bad : i <= h
    <3>1. Bad \in SUBSET Nat
      BY <1>1
    <3> HIDE DEF Bad
    <3> QED
      BY <2>1, <3>1, Least
  <2>3. i \in 1 .. Len(cs) + 1 /\ j < i /\ ~(b[j + 1] <= b[i])
    BY <2>2
  <2>4. i # j + 1
    <3>1. b[j + 1] \in Nat
      BY <1>1, <1>2
    <3>2. ASSUME NEW z \in Nat PROVE z <= z
      OBVIOUS
    <3>3. b[j + 1] <= b[j + 1]
      BY <3>1, <3>2
    <3> QED
      BY <2>3, <3>3
  <2>5. i - 1 \in 1 .. Len(cs) /\ i - 1 \in 1 .. Len(cs) + 1 /\ j < i - 1 /\ ~(i <= i - 1) /\ (i - 1) + 1 = i
    BY <1>1, <1>2, <2>3, <2>4
  <2>6. b[j + 1] <= b[i - 1]
    <3>1. i - 1 \notin Bad
      BY <2>2, <2>5
    <3> QED
      BY <2>5, <3>1
  <2>7. b[i - 1] < b[i] /\ b[i - 1] \in Nat /\ b[i] \in Nat /\ b[j + 1] \in Nat
    <3>1. b[i - 1] < b[(i - 1) + 1]
      BY <1>1, <2>5
    <3> QED
      BY <1>1, <1>2, <2>3, <2>5, <3>1
  <2>8. ASSUME NEW u \in Nat, NEW v \in Nat, NEW w \in Nat, u <= v, v < w PROVE u <= w
    BY <2>8
  <2> QED
    BY <2>3, <2>6, <2>7, <2>8
<1>4. ToSet(cs[j]) \subseteq {All[y] : y \in 1 .. b[j + 1] - 1}
  BY <1>2, ChunksWithin
<1>5. SUFFICES ASSUME All[x] \in ToSet(cs[j]) PROVE FALSE
  OBVIOUS
<1>6. PICK y \in 1 .. b[j + 1] - 1 : All[x] = All[y]
  BY <1>4, <1>5
<1>7. b[j + 1] \in 1 .. Len(All) + 1 /\ b[k] \in 1 .. Len(All) + 1
  BY <1>1, <1>2
<1>8. y \in 1 .. Len(All) /\ x \in 1 .. Len(All) /\ y < x
  <2>1. ASSUME NEW m \in Nat, NEW f \in 1 .. m + 1, NEW g \in 1 .. m + 1, f <= g,
               NEW v \in 1 .. f - 1, NEW w \in g .. m
        PROVE  v \in 1 .. m /\ w \in 1 .. m /\ v < w
    BY <2>1
  <2> QED
    BY <1>1, <1>3, <1>7, <2>1
<1>9. x = y
  BY <1>6, <1>8, Distinct
<1> QED
  BY <1>8, <1>9

\* The chunks before chunk k are those of cs.
SameBefore(k, cs) == \A j \in 1 .. k - 1 : chunks[j] = cs[j]

\* Chunk k opens with the last sentences of text, and goes on with its own.
Repeats(k, text) ==
    \E n \in FifteenPercent(Cardinality(SentenceStarts(text))) :
        \E t \in Seq(Piece) :
            /\ LastSentences(text, n) \in Seq(Piece)
            /\ chunks[k] = LastSentences(text, n) \o t
            /\ Len(t) > 0 /\ t[1] = Own(k)[1]

\* What a chunk adds, and what it repeats.
LEMMA OwnOf ==
    ASSUME parsed \in Seq(Blocks), NEW cs \in Seq(Seq(Piece)), NEW b, Cuts(b, cs),
           NEW k \in 1 .. Len(cs), SameBefore(k, cs),
           NEW rest \in Seq(Piece), chunks[k] = cs[k] \o rest
    PROVE  /\ Own(k) = Part(b[k], b[k + 1]) \o rest /\ Own(k)[1] = All[b[k]]
           /\ k > 1 => Repeats(k, cs[k - 1])
<1> DEFINE p == Part(b[k], b[k + 1])
           t == p \o rest
<1>1. PICK o \in Seq(Piece) : cs[k] = o \o p /\ Overlaps(o, cs, k)
  <2>1. \E o \in Seq(Piece) : cs[k] = o \o Part(b[k], b[k + 1]) /\ Overlaps(o, cs, k)
    BY ChunkParts
  <2> QED
    BY <2>1
<1>2. /\ b[k] \in 1 .. Len(All) + 1 /\ b[k + 1] \in b[k] .. Len(All) + 1 /\ b[k] < b[k + 1]
      /\ p \in Seq(Piece) /\ Len(All) \in Nat /\ Len(cs) \in Nat
  <2>1. k \in 1 .. Len(cs) + 1
    BY CutsOf
  <2> QED
    BY <2>1, CutsOf
<1>3. Len(p) \in Nat \ {0} /\ p[1] = All[b[k]]
  <2>1. Len(p) = b[k + 1] - b[k] /\ \A i \in 1 .. b[k + 1] - b[k] : p[i] = All[b[k] + i - 1]
    BY <1>2, PartOf
  <2> HIDE DEF p
  <2>2. /\ 1 \in 1 .. b[k + 1] - b[k] /\ b[k] + 1 - 1 = b[k]
        /\ b[k + 1] - b[k] \in Nat \ {0}
    <3>1. ASSUME NEW m \in Nat, NEW f \in 1 .. m + 1, NEW g \in f .. m + 1, f < g
          PROVE  1 \in 1 .. g - f /\ f + 1 - 1 = f /\ g - f \in Nat \ {0}
      BY <3>1
    <3> QED
      BY <1>2, <3>1
  <2> QED
    BY <2>1, <2>2
<1> HIDE DEF p
<1>4. t \in Seq(Piece) /\ Len(t) \in Nat \ {0} /\ t[1] = p[1]
  <2>1. t \in Seq(Piece) /\ Len(t) = Len(p) + Len(rest) /\ Len(rest) \in Nat /\ \A i \in 1 .. Len(p) : t[i] = p[i]
    BY <1>2, JoinIs
  <2> HIDE DEF t
  <2> QED
    BY <1>3, <2>1
<1>5. chunks[k] = o \o t
  <2>1. (o \o p) \o rest = o \o (p \o rest)
    BY <1>2, JoinAgain
  <2>2. chunks[k] = (o \o p) \o rest
    BY <1>1
  <2> QED
    BY <2>1, <2>2
<1> DEFINE before == UNION {ToSet(chunks[j]) : j \in 1 .. k - 1}
<1> HIDE DEF t
<1>6. /\ Len(o) \in Nat /\ Len(chunks[k]) \in Nat /\ Len(chunks[k]) = Len(o) + Len(t)
      /\ \A i \in 1 .. Len(o) : chunks[k][i] = o[i]
      /\ chunks[k][Len(o) + 1] = All[b[k]]
  <2>1. /\ o \o t \in Seq(Piece) /\ Len(o) \in Nat /\ Len(o \o t) = Len(o) + Len(t)
        /\ \A i \in 1 .. Len(o) : (o \o t)[i] = o[i]
        /\ \A i \in 1 .. Len(t) : (o \o t)[Len(o) + i] = t[i]
    BY <1>4, JoinIs
  <2>2. 1 \in 1 .. Len(t)
    BY <1>4
  <2>3. (o \o t)[Len(o) + 1] = t[1]
    BY <2>1, <2>2
  <2>4. Len(o) + Len(t) \in Nat
    BY <1>4, <2>1
  <2> QED
    BY <1>3, <1>4, <1>5, <2>1, <2>3, <2>4
<1>7. \A i \in 1 .. Len(o) : chunks[k][i] \in before
  <2>1. CASE k = 1
    <3>1. Len(o) = 0
      BY <1>1, <2>1 DEF Overlaps
    <3> QED
      BY <3>1
  <2>2. CASE k # 1
    <3>1. k > 1 /\ k - 1 \in 1 .. k - 1
      BY <1>2, <2>2
    <3>2. chunks[k - 1] = cs[k - 1] /\ ToSet(o) \subseteq ToSet(cs[k - 1])
      BY <1>1, <3>1 DEF Overlaps, SameBefore
    <3>3. ToSet(o) \subseteq before
      BY <3>1, <3>2
    <3>4. \A i \in 1 .. Len(o) : o[i] \in ToSet(o)
      BY LenProperties DEF ToSet
    <3> QED
      BY <1>6, <3>3, <3>4
  <2> QED
    BY <2>1, <2>2
<1>8. All[b[k]] \notin before
  <2> SUFFICES ASSUME NEW j \in 1 .. k - 1 PROVE All[b[k]] \notin ToSet(chunks[j])
    OBVIOUS
  <2>1. b[k] \in b[k] .. Len(All)
    <3>1. ASSUME NEW m \in Nat, NEW f \in 1 .. m + 1, NEW g \in f .. m + 1, f < g PROVE f \in f .. m
      BY <3>1
    <3> QED
      BY <1>2, <3>1
  <2>2. All[b[k]] \notin ToSet(cs[j])
    BY <2>1, FreshAfterCut
  <2> QED
    BY <2>2 DEF SameBefore
<1>9. SelectInSeq(chunks[k], LAMBDA q : q \notin before) = Len(o) + 1
  <2> DEFINE I == {i \in 1 .. Len(chunks[k]) : chunks[k][i] \notin before}
             f == Len(o) + 1
  <2>1. SelectInSeq(chunks[k], LAMBDA q : q \notin before) = IF I # {} THEN Min(I) ELSE 0
    BY DEF SelectInSeq
  <2> HIDE DEF before
  <2>2. f \in I
    <3>1. Len(o) + 1 \in 1 .. Len(o) + Len(t)
      <4>1. Len(o) \in Nat /\ Len(t) \in Nat \ {0}
        BY <1>4, <1>6
      <4> QED
        BY <4>1
    <3>2. f \in 1 .. Len(chunks[k])
      BY <1>6, <3>1
    <3>3. chunks[k][f] = All[b[k]]
      BY <1>6
    <3> QED
      BY <1>8, <3>2, <3>3
  <2>3. ASSUME NEW i \in I PROVE f <= i
    <3>1. i \notin 1 .. Len(o)
      BY <1>7
    <3> QED
      BY <1>6, <3>1
  <2>4. I \in SUBSET Nat
    OBVIOUS
  <2> HIDE DEF I, f
  <2>5. Min(I) = f
    BY <2>2, <2>3, <2>4, MinIs
  <2> QED
    BY <2>1, <2>2, <2>5 DEF f
<1>10. Own(k) = t
  <2>1. Own(k) = SubSeq(chunks[k], SelectInSeq(chunks[k], LAMBDA q : q \notin before), Len(chunks[k]))
    BY DEF Own
  <2>2. SubSeq(o \o t, Len(o) + 1, Len(o \o t)) = t
    BY <1>4, JoinDrop
  <2> HIDE DEF before
  <2> QED
    BY <1>5, <1>9, <2>1, <2>2
<1>11. Own(k)[1] = All[b[k]] /\ t[1] = Own(k)[1] /\ Len(t) > 0
  BY <1>3, <1>4, <1>10
<1>12. ASSUME k > 1 PROVE Repeats(k, cs[k - 1])
  <2>1. PICK n \in FifteenPercent(Cardinality(SentenceStarts(cs[k - 1]))) : o = LastSentences(cs[k - 1], n)
    BY <1>1, <1>12 DEF Overlaps
  <2> QED
    BY <1>1, <1>4, <1>5, <1>11, <1>12, <2>1 DEF Repeats
<1> QED
  BY <1>10, <1>11, <1>12 DEF p, t

\* A chunk that opens with o, and goes on with t, opens with o and what t does.
LEMMA OpensWith ==
    ASSUME NEW o \in Seq(Piece), NEW t \in Seq(Piece), Len(t) > 0
    PROVE  IsPrefix(o \o <<t[1]>>, o \o t)
<1> DEFINE s == o \o <<t[1]>>
           u == o \o t
           m == Len(o)
           v == SubSeq(s, 1, m + 1)
           w == SubSeq(u, 1, m + 1)
<1>1. Len(t) \in Nat /\ t[1] \in Piece /\ <<t[1]>> \in Seq(Piece) /\ Len(<<t[1]>>) = 1 /\ <<t[1]>>[1] = t[1]
      /\ m \in Nat /\ 1 \in 1 .. 1 /\ 1 \in 1 .. Len(t)
  <2>1. Len(t) \in Nat /\ m \in Nat
    BY LenProperties
  <2>2. 1 \in 1 .. Len(t)
    BY <2>1
  <2>3. t[1] \in Piece
    BY <2>2, ElementOfSeq
  <2> QED
    BY <2>1, <2>2, <2>3
<1>2. /\ s \in Seq(Piece) /\ Len(s) = m + 1 /\ (\A k \in 1 .. m : s[k] = o[k]) /\ s[m + 1] = t[1]
  <2>1. /\ s \in Seq(Piece) /\ Len(s) = m + Len(<<t[1]>>) /\ (\A k \in 1 .. m : s[k] = o[k])
        /\ \A k \in 1 .. Len(<<t[1]>>) : s[m + k] = <<t[1]>>[k]
    BY <1>1, JoinIs
  <2> HIDE DEF s
  <2> QED
    BY <1>1, <2>1
<1>3. /\ u \in Seq(Piece) /\ Len(u) = m + Len(t) /\ (\A k \in 1 .. m : u[k] = o[k]) /\ u[m + 1] = t[1]
  <2>1. /\ u \in Seq(Piece) /\ Len(u) = m + Len(t) /\ (\A k \in 1 .. m : u[k] = o[k])
        /\ \A k \in 1 .. Len(t) : u[m + k] = t[k]
    BY JoinIs
  <2> HIDE DEF u
  <2> QED
    BY <1>1, <2>1
<1> HIDE DEF s, u, m
<1>4. \A k \in 1 .. m + 1 : s[k] = u[k] /\ s[k] \in Piece
  <2> TAKE k \in 1 .. m + 1
  <2>1. k \in 1 .. m \/ k = m + 1
    BY <1>1
  <2>2. s[k] \in Piece
    BY <1>2, ElementOfSeq
  <2> QED
    BY <1>2, <1>3, <2>1, <2>2
<1>5. /\ v \in Seq(Piece) /\ w \in Seq(Piece) /\ Len(v) = Len(w)
      /\ \A k \in 1 .. Len(v) : v[k] = w[k]
  <2>1. 1 \in Int /\ m + 1 \in Int /\ (\A k \in 1 .. m + 1 : s[k] \in Piece) /\ (\A k \in 1 .. m + 1 : u[k] \in Piece)
    BY <1>1, <1>4
  <2>2. /\ v \in Seq(Piece) /\ Len(v) = IF 1 <= m + 1 THEN (m + 1) - 1 + 1 ELSE 0
        /\ \A k \in 1 .. (m + 1) - 1 + 1 : v[k] = s[1 + k - 1]
    BY <2>1, SubSeqProperties
  <2>3. /\ w \in Seq(Piece) /\ Len(w) = IF 1 <= m + 1 THEN (m + 1) - 1 + 1 ELSE 0
        /\ \A k \in 1 .. (m + 1) - 1 + 1 : w[k] = u[1 + k - 1]
    BY <2>1, SubSeqProperties
  <2> HIDE DEF v, w
  <2>4. Len(v) = m + 1 /\ Len(w) = m + 1
    BY <1>1, <2>2, <2>3
  <2>5. ASSUME NEW k \in 1 .. m + 1 PROVE v[k] = w[k]
    <3>1. k \in 1 .. (m + 1) - 1 + 1 /\ 1 + k - 1 = k
      BY <1>1
    <3> QED
      BY <1>4, <2>2, <2>3, <3>1
  <2> QED
    BY <2>2, <2>3, <2>4, <2>5
<1>6. v = w
  <2> HIDE DEF v, w
  <2> QED
    BY <1>5, SeqEqual
<1>7. Len(s) <= Len(u)
  BY <1>1, <1>2, <1>3
<1>8. IsPrefix(s, u)
  BY <1>2, <1>6, <1>7 DEF IsPrefix
<1> QED
  BY <1>8 DEF s, u

\* Chunk k ends with nothing more, or with the undersized tail of cs.
TailOf(rest, cs, k) ==
    \/ rest = <<>>
    \/ /\ k = Len(chunks) /\ k + 1 = Len(cs)
       /\ rest = cs[k + 1] /\ rest # <<>> /\ Tokens(rest) < Floor

\* What is packed is cut from the text; only the last chunk may have had the
\* tail merged into it.
LEMMA PackedAs ==
    ASSUME PackInv, phase = "done", ~WholeText
    PROVE  /\ ~Short
           /\ \E cs \in Seq(Seq(Piece)) : \E b \in [1 .. Len(cs) + 1 -> 1 .. Len(All) + 1] :
              /\ Cuts(b, cs) /\ Sized(b, cs, Len(cs) - 1) /\ b[Len(cs) + 1] = Len(All) + 1
              /\ Len(cs) \in Nat /\ Len(chunks) \in 1 .. Len(cs)
              /\ Len(chunks) = Len(cs) \/ Len(chunks) + 1 = Len(cs)
              /\ Len(chunks) = Len(cs) /\ Len(cs) > 1 => Tokens(cs[Len(cs)]) >= Floor
              /\ Len(chunks) + 1 = Len(cs) => Tokens(cs[Len(cs)]) < Floor
              /\ \A k \in 1 .. Len(chunks) - 1 : chunks[k] = cs[k]
              /\ \A k \in 1 .. Len(chunks) : \E rest \in Seq(Piece) : chunks[k] = cs[k] \o rest /\ TailOf(rest, cs, k)
<1>1. PICK cs \in Seq(Seq(Piece)) :
         /\ chunks = MergeTail(cs) /\ cs # <<>>
         /\ \E b \in [1 .. Len(cs) + 1 -> 1 .. Len(All) + 1] :
               Cuts(b, cs) /\ Sized(b, cs, Len(cs) - 1) /\ b[Len(cs) + 1] = Len(All) + 1
  BY DEF PackInv, PackedInv
<1>2. PICK b \in [1 .. Len(cs) + 1 -> 1 .. Len(All) + 1] :
         Cuts(b, cs) /\ Sized(b, cs, Len(cs) - 1) /\ b[Len(cs) + 1] = Len(All) + 1
  BY <1>1
<1>3. /\ Len(cs) \in Nat \ {0} /\ \A k \in 1 .. Len(cs) : cs[k] \in Seq(Piece) /\ cs[k] # <<>>
      /\ \A k \in 1 .. Len(cs) : \E rest \in Seq(Piece) : cs[k] = cs[k] \o rest /\ TailOf(rest, cs, k)
  <2>1. Len(cs) \in Nat \ {0} /\ \A k \in 1 .. Len(cs) : cs[k] \in Seq(Piece) /\ cs[k] # <<>>
    <3>1. parsed \in Seq(Blocks)
      BY DEF PackInv, PackShape, PackTypeOK
    <3> QED
      BY <1>1, <1>2, <3>1, MergeTailOf, CutsOf
  <2>2. ASSUME NEW k \in 1 .. Len(cs) PROVE cs[k] = cs[k] \o <<>>
    <3>1. cs[k] \in Seq(Piece)
      BY <2>1
    <3> QED
      BY <3>1, ConcatEmptySeq
  <2>3. <<>> \in Seq(Piece) /\ \A k : TailOf(<<>>, cs, k)
    BY DEF TailOf
  <2> QED
    BY <2>1, <2>2, <2>3
<1>4. /\ Len(chunks) \in 1 .. Len(cs)
      /\ Len(chunks) = Len(cs) \/ Len(chunks) + 1 = Len(cs)
      /\ Len(chunks) = Len(cs) /\ Len(cs) > 1 => Tokens(cs[Len(cs)]) >= Floor
      /\ Len(chunks) + 1 = Len(cs) => Tokens(cs[Len(cs)]) < Floor
      /\ \A k \in 1 .. Len(chunks) - 1 : chunks[k] = cs[k]
      /\ \A k \in 1 .. Len(chunks) : \E rest \in Seq(Piece) : chunks[k] = cs[k] \o rest /\ TailOf(rest, cs, k)
  <2>1. CASE chunks = cs /\ (Len(cs) > 1 => Tokens(Last(cs)) >= Floor)
    <3>1. /\ Len(chunks) \in 1 .. Len(cs) /\ (\A k \in 1 .. Len(chunks) - 1 : k \in 1 .. Len(cs))
          /\ Len(chunks) + 1 # Len(cs)
      BY <1>3, <2>1
    <3>2. Len(cs) > 1 => Tokens(cs[Len(cs)]) >= Floor
      BY <2>1 DEF Last
    <3> QED
      BY <1>3, <2>1, <3>1, <3>2
  <2>2. CASE /\ Len(cs) > 1 /\ Len(chunks) = Len(cs) - 1 /\ Tokens(cs[Len(cs)]) < Floor
             /\ \A k \in 1 .. Len(cs) - 2 : chunks[k] = cs[k]
             /\ chunks[Len(cs) - 1] = cs[Len(cs) - 1] \o cs[Len(cs)]
    <3>1. /\ Len(chunks) \in 1 .. Len(cs) /\ Len(cs) \in 1 .. Len(cs)
          /\ Len(chunks) + 1 = Len(cs) /\ Len(chunks) # Len(cs)
          /\ \A k \in 1 .. Len(chunks) - 1 : k \in 1 .. Len(cs) - 2
          /\ \A k \in 1 .. Len(chunks) : k \in 1 .. Len(cs) /\ (k = Len(cs) - 1 \/ k \in 1 .. Len(cs) - 2)
      <4>1. ASSUME NEW n \in Nat, n > 1, NEW m \in Nat, m = n - 1
            PROVE  /\ m \in 1 .. n /\ n \in 1 .. n /\ m + 1 = n /\ m # n
                   /\ \A k \in 1 .. m - 1 : k \in 1 .. n - 2
                   /\ \A k \in 1 .. m : k \in 1 .. n /\ (k = n - 1 \/ k \in 1 .. n - 2)
        BY <4>1
      <4>2. Len(chunks) \in Nat
        BY <1>3, <2>2
      <4> QED
        BY <1>3, <2>2, <4>1, <4>2
    <3>2. ASSUME NEW k \in 1 .. Len(chunks)
          PROVE  \E rest \in Seq(Piece) : chunks[k] = cs[k] \o rest /\ TailOf(rest, cs, k)
      <4>1. CASE k = Len(cs) - 1
        <5>1. cs[Len(cs)] \in Seq(Piece) /\ cs[Len(cs)] # <<>>
          BY <1>3, <3>1
        <5>2. k = Len(chunks) /\ k + 1 = Len(cs)
          BY <1>3, <2>2, <4>1
        <5>3. TailOf(cs[Len(cs)], cs, k)
          BY <2>2, <5>1, <5>2 DEF TailOf
        <5> QED
          BY <2>2, <4>1, <5>1, <5>3
      <4>2. CASE k \in 1 .. Len(cs) - 2
        <5>1. chunks[k] = cs[k] /\ k \in 1 .. Len(cs)
          BY <2>2, <3>1, <4>2
        <5> QED
          BY <1>3, <5>1
      <4> QED
        BY <3>1, <4>1, <4>2
    <3> QED
      BY <2>2, <3>1, <3>2
  <2> QED
    BY <1>1, <2>1, <2>2, MergeTailOf
<1>5. ~Short
  BY DEF PackInv, PackedInv
<1> QED
  BY <1>2, <1>3, <1>4, <1>5

\* A chunk opens with whole sentences of the chunk before it.
LEMMA OverlapsWhole ==
    ASSUME PackInv, phase = "done", NEW k \in 2 .. Len(chunks)
    PROVE  \E n \in FifteenPercent(Cardinality(SentenceStarts(chunks[k - 1]))) :
              IsPrefix(LastSentences(chunks[k - 1], n) \o <<Own(k)[1]>>, chunks[k])
<1>1. parsed \in Seq(Blocks)
  BY DEF PackInv, PackShape, PackTypeOK
<1>2. ~WholeText
  <2> SUFFICES ASSUME WholeText PROVE FALSE
    OBVIOUS
  <2>1. Len(chunks) = 1
    BY DEF WholeText
  <2> QED
    BY <2>1
<1>3. PICK cs \in Seq(Seq(Piece)) : \E b \in [1 .. Len(cs) + 1 -> 1 .. Len(All) + 1] :
         /\ Cuts(b, cs) /\ Len(cs) \in Nat /\ Len(chunks) \in 1 .. Len(cs)
         /\ \A j \in 1 .. Len(chunks) - 1 : chunks[j] = cs[j]
         /\ \A j \in 1 .. Len(chunks) : \E rest \in Seq(Piece) : chunks[j] = cs[j] \o rest
  BY <1>2, PackedAs
<1>4. PICK b : Cuts(b, cs)
  BY <1>3
<1>5. /\ k \in 1 .. Len(cs) /\ k > 1 /\ k - 1 \in 1 .. Len(chunks) - 1 /\ k \in 1 .. Len(chunks)
      /\ \A j \in 1 .. k - 1 : j \in 1 .. Len(chunks) - 1
  BY <1>3
<1>6. PICK rest \in Seq(Piece) : chunks[k] = cs[k] \o rest
  BY <1>3, <1>5
<1>7. SameBefore(k, cs) /\ chunks[k - 1] = cs[k - 1]
  BY <1>3, <1>5 DEF SameBefore
<1>8. PICK n \in FifteenPercent(Cardinality(SentenceStarts(cs[k - 1]))) :
         \E t \in Seq(Piece) :
            /\ LastSentences(cs[k - 1], n) \in Seq(Piece)
            /\ chunks[k] = LastSentences(cs[k - 1], n) \o t
            /\ Len(t) > 0 /\ t[1] = Own(k)[1]
  <2>1. Repeats(k, cs[k - 1])
    BY <1>1, <1>4, <1>5, <1>6, <1>7, OwnOf
  <2> QED
    BY <2>1 DEF Repeats
<1>9. PICK t \in Seq(Piece) :
         /\ LastSentences(cs[k - 1], n) \in Seq(Piece)
         /\ chunks[k] = LastSentences(cs[k - 1], n) \o t
         /\ Len(t) > 0 /\ t[1] = Own(k)[1]
  BY <1>8
<1>10. IsPrefix(LastSentences(cs[k - 1], n) \o <<t[1]>>, LastSentences(cs[k - 1], n) \o t)
  BY <1>9, OpensWith
<1> QED
  BY <1>7, <1>9, <1>10

\* The first of two texts is what comes before the second.
LEMMA JoinTake ==
    ASSUME NEW s \in Seq(Piece), NEW t \in Seq(Piece)
    PROVE  /\ SubSeq(s \o t, 1, Len(s)) = s
           /\ SubSeq(s \o t, 1, Len(s \o t) - Len(t)) = s
<1> DEFINE u == s \o t
           m == Len(s)
           v == SubSeq(u, 1, m)
<1>1. /\ u \in Seq(Piece) /\ m \in Nat /\ Len(t) \in Nat /\ Len(u) = m + Len(t)
      /\ \A k \in 1 .. m : u[k] = s[k]
  BY JoinIs
<1>2. \A k \in 1 .. m : s[k] \in Piece
  BY ElementOfSeq
<1> HIDE DEF u, m
<1>3. /\ v \in Seq(Piece) /\ Len(v) = IF 1 <= m THEN m - 1 + 1 ELSE 0
      /\ \A k \in 1 .. m - 1 + 1 : v[k] = u[1 + k - 1]
  <2>1. 1 \in Int /\ m \in Int /\ \A k \in 1 .. m : u[k] \in Piece
    BY <1>1, <1>2
  <2> QED
    BY <2>1, SubSeqProperties
<1> HIDE DEF v
<1>4. Len(v) = m
  BY <1>1, <1>3
<1>5. ASSUME NEW k \in 1 .. m PROVE v[k] = s[k]
  <2>1. k \in 1 .. m - 1 + 1 /\ 1 + k - 1 = k
    BY <1>1
  <2> QED
    BY <1>1, <1>3, <2>1
<1>6. s \in Seq(Piece) /\ Len(s) = m
  BY DEF m
<1>7. v = s
  BY <1>3, <1>4, <1>5, <1>6, SeqEqual
<1>8. Len(u) - Len(t) = m
  BY <1>1
<1> QED
  BY <1>7, <1>8 DEF u, m, v

\* The tail opens with a sentence it repeats.
LEMMA TailRepeats ==
    ASSUME parsed \in Seq(Blocks), NEW cs \in Seq(Seq(Piece)), NEW b, Cuts(b, cs),
           NEW k \in 1 .. Len(cs), k + 1 \in 1 .. Len(cs)
    PROVE  cs[k + 1][1] \in ToSet(cs[k])
<1> DEFINE j == k + 1
<1>1. j > 1 /\ j - 1 = k /\ j \in 1 .. Len(cs) /\ Len(cs) \in Nat
  BY LenProperties
<1> DEFINE p == Part(b[j], b[j + 1])
<1>2. p \in Seq(Piece)
  BY <1>1, CutsOf
<1> HIDE DEF j
<1>3. PICK o \in Seq(Piece) : cs[j] = o \o p /\ Overlaps(o, cs, j)
  <2>1. \E o \in Seq(Piece) : cs[j] = o \o Part(b[j], b[j + 1]) /\ Overlaps(o, cs, j)
    BY <1>1, ChunkParts
  <2> QED
    BY <2>1
<1> HIDE DEF p
<1>4. ToSet(o) \subseteq ToSet(cs[k]) /\ Len(o) \in Nat \ {0}
  BY <1>1, <1>3 DEF Overlaps
<1>5. 1 \in 1 .. Len(o) /\ (o \o p)[1] = o[1]
  <2>1. 1 \in 1 .. Len(o)
    BY <1>4
  <2> QED
    BY <1>2, <2>1, JoinIs
<1>6. o[1] \in ToSet(o)
  <2>1. DOMAIN o = 1 .. Len(o)
    BY LenProperties
  <2> QED
    BY <1>5, <2>1 DEF ToSet
<1> QED
  BY <1>3, <1>4, <1>5, <1>6 DEF j

\* How large each chunk got, beside the tail.
LEMMA SizesKept ==
    ASSUME PackInv, phase = "done", ~WholeText
    PROVE  OverTargetByOne
<1>1. parsed \in Seq(Blocks)
  BY DEF PackInv, PackShape, PackTypeOK
<1>2. PICK cs \in Seq(Seq(Piece)) : \E b \in [1 .. Len(cs) + 1 -> 1 .. Len(All) + 1] :
         /\ Cuts(b, cs) /\ Sized(b, cs, Len(cs) - 1)
         /\ Len(cs) \in Nat /\ Len(chunks) \in 1 .. Len(cs)
         /\ \A j \in 1 .. Len(chunks) - 1 : chunks[j] = cs[j]
         /\ \A j \in 1 .. Len(chunks) : \E rest \in Seq(Piece) : chunks[j] = cs[j] \o rest /\ TailOf(rest, cs, j)
  BY PackedAs
<1>3. PICK b : Cuts(b, cs) /\ Sized(b, cs, Len(cs) - 1)
  BY <1>2
<1>4. DOMAIN chunks = 1 .. Len(chunks)
  <2>1. chunks \in Seq(Seq(Piece))
    BY DEF PackInv, PackShape
  <2> QED
    BY <2>1, LenProperties
<1> DEFINE Fits(k) ==
             \E m \in DOMAIN Own(k) :
                 LET added == SubSeq(Own(k), 1, m)
                     tail == SubSeq(Own(k), m + 1, Len(Own(k)))
                     size == Tokens(chunks[k]) - Tokens(tail) IN
                 /\ tail # <<>> =>
                      /\ k = Len(chunks) /\ Tokens(tail) < Floor
                      /\ tail[1] \in ToSet(SubSeq(chunks[k], 1, Len(chunks[k]) - Len(tail)))
                 /\ IF strategy = "structure" THEN OverByOneBlock(added)
                    ELSE OverByOneSentence(size, added)
<1>5. SUFFICES ASSUME NEW k \in 1 .. Len(chunks) PROVE Fits(k)
  <2>1. (\A k \in DOMAIN chunks : Fits(k)) => OverTargetByOne
    BY Zenon DEF OverTargetByOne
  <2> HIDE DEF Fits
  <2> QED
    BY <1>4, <2>1
<1>6. k \in 1 .. Len(cs) /\ \A j \in 1 .. k - 1 : j \in 1 .. Len(chunks) - 1
  BY <1>2
<1>7. SameBefore(k, cs)
  BY <1>2, <1>6 DEF SameBefore
<1>8. PICK rest \in Seq(Piece) : chunks[k] = cs[k] \o rest /\ TailOf(rest, cs, k)
  BY <1>2
<1> DEFINE p == Part(b[k], b[k + 1])
           x == cs[k]
<1>9. p \in Seq(Piece) /\ p # <<>> /\ x \in Seq(Piece)
  BY <1>1, <1>3, <1>6, CutsOf
<1>10. Own(k) = p \o rest
  <2>1. Cuts(b, cs)
    BY <1>3
  <2> QED
    BY <1>1, <1>6, <1>7, <1>8, <2>1, OwnOf
<1>11. LengthKept(x, b[k], b[k + 1])
  BY <1>3, <1>6 DEF Sized
<1> HIDE DEF p, x
<1>12. Len(p) \in DOMAIN Own(k)
  <2>1. Len(p) \in Nat \ {0} /\ Len(rest) \in Nat
    BY <1>9, LenProperties, EmptySeq
  <2>2. p \o rest \in Seq(Piece) /\ Len(p \o rest) = Len(p) + Len(rest)
    BY <1>9, ConcatProperties
  <2>3. DOMAIN (p \o rest) = 1 .. Len(p) + Len(rest)
    BY <2>2, LenProperties
  <2> QED
    BY <1>10, <2>1, <2>3
<1>13. SubSeq(Own(k), 1, Len(p)) = p /\ SubSeq(Own(k), Len(p) + 1, Len(Own(k))) = rest
  BY <1>9, <1>10, JoinTake, JoinDrop
<1>14. Tokens(chunks[k]) - Tokens(rest) = Tokens(x)
  <2>1. /\ Tokens(x) \in Nat /\ Tokens(rest) \in Nat
        /\ Tokens(x \o rest) = Tokens(x) + Tokens(rest)
    BY <1>9, TokensJoin
  <2>2. chunks[k] = x \o rest
    BY <1>8 DEF x
  <2> QED
    BY <2>1, <2>2
<1>15. ASSUME rest # <<>>
       PROVE  /\ k = Len(chunks) /\ Tokens(rest) < Floor
              /\ rest[1] \in ToSet(SubSeq(chunks[k], 1, Len(chunks[k]) - Len(rest)))
  <2>1. k = Len(chunks) /\ Tokens(rest) < Floor /\ rest = cs[k + 1] /\ k + 1 = Len(cs)
    BY <1>8, <1>15 DEF TailOf
  <2>2. k + 1 \in 1 .. Len(cs)
    BY <1>2, <1>6, <2>1
  <2>3. rest[1] \in ToSet(x)
    <3>1. Cuts(b, cs)
      BY <1>3
    <3> QED
      BY <1>1, <1>6, <2>1, <2>2, <3>1, TailRepeats DEF x
  <2>4. SubSeq(chunks[k], 1, Len(chunks[k]) - Len(rest)) = x
    <3>1. chunks[k] = x \o rest
      BY <1>8 DEF x
    <3> QED
      BY <1>9, <3>1, JoinTake
  <2> QED
    BY <2>1, <2>3, <2>4
<1>16. IF strategy = "structure" THEN OverByOneBlock(p) ELSE OverByOneSentence(Tokens(x), p)
  BY <1>11 DEF LengthKept, BlocksKept, SentencesKept, p
<1>17. WITNESS Len(p) \in DOMAIN Own(k)
<1> QED
  BY <1>13, <1>14, <1>15, <1>16

\* The block a table starts at is in what is cut from there to the end.
LEMMA BlockWithin ==
    ASSUME parsed \in Seq(Blocks), NEW i \in DOMAIN parsed
    PROVE  /\ All[Off(i)].block = i
           /\ BlockTokens(i) \in Nat /\ BlockTokens(i) <= Tokens(Part(Off(i), Len(All) + 1))
<1>1. i \in 1 .. Len(parsed) /\ i \in 1 .. Len(parsed) + 1 /\ i + 1 \in 1 .. Len(parsed) + 1
  BY FirstBlocks
<1> DEFINE f == Off(i)
           g == Off(i + 1)
           h == Len(All) + 1
           p == Pieces(i)
<1>2. Len(All) \in Nat /\ f \in 1 .. h /\ g \in 1 .. h /\ f < g
  BY <1>1, OffsetsOf
<1>3. p \in Seq(Piece) /\ Len(p) \in Nat \ {0} /\ \A k \in 1 .. Len(p) : p[k].block = i
  BY PiecesOf
<1>4. p = Part(f, g) /\ \A k \in 1 .. Len(p) : All[f + k - 1] = p[k]
  BY BlockInText DEF Part
<1> HIDE DEF f, g, p
<1>5. All[f].block = i
  <2>1. 1 \in 1 .. Len(p) /\ f + 1 - 1 = f
    BY <1>2, <1>3
  <2> QED
    BY <1>3, <1>4, <2>1
<1>6. g \in f .. Len(All) + 1 /\ h \in g .. Len(All) + 1 /\ f \in 1 .. Len(All) + 1 /\ g \in 1 .. Len(All) + 1
  BY <1>2
<1> DEFINE q == Part(g, h)
<1>7. q \in Seq(Piece) /\ p \o q = Part(f, h)
  BY <1>4, <1>6, PartOf, PartsJoin
<1> HIDE DEF q
<1>8. Tokens(p) \in Nat /\ Tokens(q) \in Nat /\ Tokens(p \o q) = Tokens(p) + Tokens(q)
  BY <1>3, <1>7, TokensJoin
<1>9. Tokens(p) \in Nat /\ Tokens(p) <= Tokens(Part(f, h))
  BY <1>7, <1>8
<1> QED
  BY <1>5, <1>9 DEF f, p, BlockTokens

\* The floor: where it is given up, and that the last chunk keeps it.
LEMMA FloorsKept ==
    ASSUME PackInv, phase = "done", ~WholeText
    PROVE  ShortOnlyBeforeTable
<1>1. parsed \in Seq(Blocks) /\ ~Short
  BY PackedAs DEF PackInv, PackShape, PackTypeOK
<1>2. PICK cs \in Seq(Seq(Piece)) : \E b \in [1 .. Len(cs) + 1 -> 1 .. Len(All) + 1] :
         /\ Cuts(b, cs) /\ Sized(b, cs, Len(cs) - 1) /\ b[Len(cs) + 1] = Len(All) + 1
         /\ Len(cs) \in Nat /\ Len(chunks) \in 1 .. Len(cs)
         /\ Len(chunks) = Len(cs) \/ Len(chunks) + 1 = Len(cs)
         /\ Len(chunks) = Len(cs) /\ Len(cs) > 1 => Tokens(cs[Len(cs)]) >= Floor
         /\ Len(chunks) + 1 = Len(cs) => Tokens(cs[Len(cs)]) < Floor
         /\ \A j \in 1 .. Len(chunks) - 1 : chunks[j] = cs[j]
         /\ \A j \in 1 .. Len(chunks) : \E rest \in Seq(Piece) : chunks[j] = cs[j] \o rest
  BY PackedAs
<1>3. PICK b : Cuts(b, cs) /\ Sized(b, cs, Len(cs) - 1) /\ b[Len(cs) + 1] = Len(All) + 1
  BY <1>2
<1>4. DOMAIN chunks = 1 .. Len(chunks)
  <2>1. chunks \in Seq(Seq(Piece))
    BY DEF PackInv, PackShape
  <2> QED
    BY <2>1, LenProperties
<1>5. SUFFICES ASSUME NEW k \in 1 .. Len(chunks), Tokens(chunks[k]) < Floor
               PROVE  /\ k < Len(chunks) /\ strategy = "structure"
                      /\ LET i == Own(k + 1)[1].block IN
                         parsed[i].table /\ Tokens(chunks[k]) + BlockTokens(i) > Ceiling
  BY <1>4 DEF ShortOnlyBeforeTable
<1>6. k \in 1 .. Len(cs) /\ k \in Nat /\ Len(chunks) \in Nat /\ Len(cs) \in Nat
  BY <1>2
<1>7. /\ cs[k] \in Seq(Piece) /\ Tokens(cs[k]) \in Nat /\ Tokens(cs[k]) <= Tokens(chunks[k])
      /\ Tokens(chunks[k]) \in Nat /\ Tokens(cs[k]) < Floor
  <2>1. cs[k] \in Seq(Piece)
    BY <1>6, ElementOfSeq
  <2>2. PICK rest \in Seq(Piece) : chunks[k] = cs[k] \o rest
    BY <1>2
  <2> DEFINE x == cs[k]
  <2> HIDE DEF x
  <2>3. Tokens(x) \in Nat /\ Tokens(rest) \in Nat /\ Tokens(x \o rest) = Tokens(x) + Tokens(rest)
    BY <2>1, TokensJoin DEF x
  <2>4. Tokens(chunks[k]) = Tokens(x) + Tokens(rest)
    BY <2>2, <2>3 DEF x
  <2> QED
    BY <1>5, <2>1, <2>3, <2>4 DEF x, Floor
\* A chunk that is not the last of cs.
<1>8. ASSUME k + 1 \in 1 .. Len(cs)
      PROVE  /\ strategy = "structure"
             /\ \E i \in DOMAIN parsed : b[k + 1] = Off(i) /\ parsed[i].table /\ Tokens(cs[k]) + BlockTokens(i) > Ceiling
  <2>1. k \in 1 .. Len(cs) - 1
    BY <1>6, <1>8
  <2>2. FloorKept(cs[k], b[k + 1])
    BY <1>3, <2>1 DEF Sized
  <2> QED
    BY <1>7, <2>2 DEF FloorKept
<1>9. CASE k < Len(chunks)
  <2>1. k + 1 \in 1 .. Len(cs) /\ k + 1 \in 1 .. Len(chunks) /\ k \in 1 .. Len(chunks) - 1
        /\ \A j \in 1 .. (k + 1) - 1 : j \in 1 .. Len(chunks) - 1
    BY <1>2, <1>6, <1>9
  <2>2. PICK i \in DOMAIN parsed : b[k + 1] = Off(i) /\ parsed[i].table /\ Tokens(cs[k]) + BlockTokens(i) > Ceiling
    BY <1>8, <2>1
  <2>3. Own(k + 1)[1] = All[b[k + 1]]
    <3>1. PICK rest \in Seq(Piece) : chunks[k + 1] = cs[k + 1] \o rest
      BY <1>2, <2>1
    <3>2. SameBefore(k + 1, cs)
      BY <1>2, <2>1 DEF SameBefore
    <3>3. ASSUME NEW m \in 1 .. Len(cs), SameBefore(m, cs), chunks[m] = cs[m] \o rest
          PROVE  Own(m)[1] = All[b[m]]
      <4>1. Cuts(b, cs)
        BY <1>3
      <4> QED
        BY <1>1, <3>3, <4>1, OwnOf
    <3> QED
      BY <2>1, <3>1, <3>2, <3>3
  <2>4. Own(k + 1)[1].block = i
    BY <1>1, <2>2, <2>3, BlockWithin
  <2>5. chunks[k] = cs[k] /\ strategy = "structure"
    BY <1>2, <1>8, <2>1
  <2> QED
    BY <1>9, <2>2, <2>4, <2>5
<1>10. CASE k = Len(chunks) /\ Len(chunks) = Len(cs) /\ Len(cs) > 1
  BY <1>2, <1>7, <1>10 DEF Floor
<1>11. CASE k = Len(chunks) /\ Len(chunks) = Len(cs) /\ ~(Len(cs) > 1)
  <2>1. k = 1 /\ Len(cs) = 1 /\ Len(cs) + 1 = 2
    BY <1>6, <1>11
  <2>2. b[1] = 1 /\ b[2] = Len(All) + 1
    BY <1>3, <2>1 DEF Cuts
  <2>3. All \in Seq(Piece) /\ Len(All) \in Nat
    BY <1>1, OffsetsOf
  <2>4. Part(1, Len(All) + 1) = All
    <3>1. (Len(All) + 1) - 1 = Len(All)
      BY <2>3
    <3> QED
      BY <2>3, <3>1, SubSeqFull DEF Part
  <2>5. Tokens(All) <= Tokens(cs[1])
    <3>1. Cuts(b, cs) /\ 1 \in 1 .. Len(cs) /\ 1 + 1 = 2
      BY <1>3, <2>1
    <3>2. Tokens(Part(b[1], b[2])) <= Tokens(cs[1])
      BY <1>1, <3>1, CutsOf
    <3> QED
      BY <2>2, <2>4, <3>2
  <2>6. Tokens(All) \in Nat /\ ~(Tokens(All) < Floor + Smallest)
    BY <1>1, <2>3, TokensJoin DEF Short
  <2>7. Smallest \in Nat
    BY DEF Smallest, TargetMin, Size
  <2> QED
    BY <1>7, <2>1, <2>5, <2>6, <2>7 DEF Floor
<1>12. CASE k = Len(chunks) /\ Len(chunks) + 1 = Len(cs)
  <2>1. k + 1 \in 1 .. Len(cs) /\ k + 1 = Len(cs)
    BY <1>6, <1>12
  <2>2. PICK i \in DOMAIN parsed : b[k + 1] = Off(i) /\ parsed[i].table /\ Tokens(cs[k]) + BlockTokens(i) > Ceiling
    BY <1>8, <2>1
  <2>3. Tokens(cs[Len(cs)]) < Floor
    BY <1>2, <1>12
  <2>4. Tokens(Part(Off(i), Len(All) + 1)) <= Tokens(cs[Len(cs)])
    <3>1. Cuts(b, cs) /\ Len(cs) \in 1 .. Len(cs)
      BY <1>3, <1>6, <2>1
    <3>2. Tokens(Part(b[Len(cs)], b[Len(cs) + 1])) <= Tokens(cs[Len(cs)]) /\ Tokens(cs[Len(cs)]) \in Nat
      BY <1>1, <3>1, CutsOf
    <3> QED
      BY <1>3, <2>1, <2>2, <3>2
  <2>5. BlockTokens(i) \in Nat /\ BlockTokens(i) <= Tokens(Part(Off(i), Len(All) + 1))
    BY <1>1, BlockWithin
  <2>6. Part(Off(i), Len(All) + 1) \in Seq(Piece) /\ cs[Len(cs)] \in Seq(Piece)
    <3>1. Off(i) \in 1 .. Len(All) + 1 /\ Len(All) \in Nat
      <4>1. i \in 1 .. Len(parsed) /\ i \in 1 .. Len(parsed) + 1
        BY <1>1, FirstBlocks
      <4> QED
        BY <1>1, <4>1, OffsetsOf
    <3>2. Len(All) + 1 \in Off(i) .. Len(All) + 1
      BY <3>1
    <3> QED
      BY <1>1, <1>6, <2>1, <3>1, <3>2, PartOf, ElementOfSeq
  <2>7. Tokens(Part(Off(i), Len(All) + 1)) \in Nat /\ Tokens(cs[Len(cs)]) \in Nat
    BY <2>6, TokensJoin
  <2> QED
    BY <1>7, <2>2, <2>3, <2>4, <2>5, <2>7 DEF Floor, Ceiling
<1> QED
  BY <1>2, <1>6, <1>9, <1>10, <1>11, <1>12

\* Rule 4: a chunk opens with whole sentences of the end of the one before it,
\* in a document of any length (rules.py:17, 301-306).
THEOREM OverlapIsWholeSentencesAlways == PackSpec => []OverlapIsWholeSentences
<1>1. PackInv => OverlapIsWholeSentences
  <2>1. ASSUME PackInv, phase = "done" PROVE OverlapIsWholeSentences
    BY <2>1, OverlapsWhole DEF OverlapIsWholeSentences
  <2> QED
    BY <2>1 DEF OverlapIsWholeSentences, Packed
<1> QED
  BY <1>1, PackInvariance, PTL

\* Exactly where the floor, the target and the ceiling give way, in a document
\* of any length (rules.py:260-330, 333-344, 378-397).
THEOREM SizesAreBoundedAlways == PackSpec => []SizesAreBounded
<1>1. PackInv => SizesAreBounded
  <2> SUFFICES ASSUME PackInv, phase = "done"
               PROVE  IF Tokens(JoinedText(Everything)) < Floor + Smallest THEN Len(chunks) = 1
                      ELSE ShortOnlyBeforeTable /\ OverTargetByOne
    BY DEF SizesAreBounded, Packed
  <2>1. Short <=> Tokens(JoinedText(Everything)) < Floor + Smallest
    BY DEF Short, All
  <2>2. CASE WholeText
    <3>1. Len(chunks) = 1 /\ Short
      BY <2>2 DEF WholeText
    <3> QED
      BY <2>1, <3>1
  <2>3. CASE ~WholeText
    BY <2>1, <2>3, PackedAs, FloorsKept, SizesKept
  <2> QED
    BY <2>2, <2>3
<1> QED
  BY <1>1, PackInvariance, PTL
=============================================================================
