------------------------------ MODULE Structure ------------------------------
(***************************************************************************)
(* parse_structure (src/src/chunking/rules.py): the lines of a document,  *)
(* one after the other, become a title, a leading block of metadata, and  *)
(* sections of paragraphs and tables under their headings.  Module        *)
(* Chunking packs the blocks.                                             *)
(*                                                                         *)
(* A line is its position and what the parser's tests say of it; text is  *)
(* not modelled.  One step is one turn of a loop.                         *)
(***************************************************************************)
EXTENDS Integers, SequencesExt

CONSTANT MaxLines   \* bound: lines of a document

ASSUME LineAssumption == MaxLines \in Nat

\* label is "Term: 24 months", intro is "Zone A (0-100 miles):", row is
\* indented, heading is "CALCULATION" and value is "BASE SURCHARGE: 15.5%".
Kinds == {"blank", "prose", "label", "intro", "row", "heading", "value"}

VARIABLES
    doc,        \* the kinds of the document's lines
    pc,         \* "title", "gap", "metadata", "body" or "done"
    next,       \* the line to look at
    title,      \* the title line, or NoLine
    metadata,   \* the metadata lines, one for each label
    heading,    \* the heading of the section being read, or NoLine
    para,       \* para_lines
    table,      \* table_rows
    blocks,     \* the blocks of the section being read
    sections    \* the sections before it

vars == <<doc, pc, next, title, metadata, heading, para, table, blocks, sections>>
bodyVars == <<heading, para, table, blocks, sections>>

NoLine == 0
Lines == DOMAIN doc
Block == [header : Nat, rows : Seq(Nat), text : Seq(Nat)]

TypeOK ==
    /\ doc \in Seq(Kinds)
    /\ pc \in {"title", "gap", "metadata", "body", "done"}
    /\ next \in 1 .. Len(doc) + 1
    /\ title \in Lines \cup {NoLine}
    /\ metadata \subseteq Lines
    /\ heading \in Lines \cup {NoLine}
    /\ ToSet(para) \cup ToSet(table) \subseteq Lines
    /\ ToSet(blocks) \subseteq Block
    /\ \A k \in DOMAIN sections : ToSet(sections[k].blocks) \subseteq Block

Init ==
    /\ doc \in SeqOf(Kinds, MaxLines)
    /\ pc = "title"
    /\ next = 1
    /\ title = NoLine
    /\ metadata = {}
    /\ heading = NoLine
    /\ para = <<>>
    /\ table = <<>>
    /\ blocks = <<>>
    /\ sections = <<>>

-----------------------------------------------------------------------------
(* The tests on a line, in the order the body loop makes them.            *)

IsBlank(i) == doc[i] = "blank"
IsTableRow(i) == doc[i] = "row"
IsHeading(i) == doc[i] \in {"heading", "value"}
MatchesMetadata(i) == doc[i] \in {"label", "value"}
EndsInColon(i) == doc[i] = "intro"

\* Two lines of one kind carry the same label.
SameLabel(i, j) == doc[i] = doc[j]

AtEnd == next = Len(doc) + 1
OnBlank == ~AtEnd /\ IsBlank(next)
OnMetadata == ~AtEnd /\ MatchesMetadata(next)

-----------------------------------------------------------------------------
(* Before the body.                                                       *)

SkipBlank ==
    /\ pc \in {"title", "gap"}
    /\ OnBlank
    /\ next' = next + 1
    /\ UNCHANGED <<doc, pc, title, metadata, bodyVars>>

TakeTitle ==
    /\ pc = "title"
    /\ ~AtEnd
    /\ ~IsBlank(next)
    /\ title' = next
    /\ next' = next + 1
    /\ pc' = "gap"
    /\ UNCHANGED <<doc, metadata, bodyVars>>

EndGap ==
    /\ pc = "gap"
    /\ ~OnBlank
    /\ pc' = "metadata"
    /\ UNCHANGED <<doc, next, title, metadata, bodyVars>>

\* [fault] the line that ends the block is taken with it.
TakeMetadataGreedily ==
    /\ pc = "metadata"
    /\ ~AtEnd
    /\ ~IsBlank(next)
    /\ metadata' = metadata \cup {next}
    /\ next' = next + 1
    /\ pc' = IF MatchesMetadata(next) THEN "metadata" ELSE "body"
    /\ UNCHANGED <<doc, title, bodyVars>>

\* A label that comes again replaces the line it had.
TakeMetadata ==
    /\ pc = "metadata"
    /\ OnMetadata
    /\ metadata' = {i \in metadata : ~SameLabel(i, next)} \cup {next}
    /\ next' = next + 1
    /\ UNCHANGED <<doc, pc, title, bodyVars>>

EndMetadata ==
    /\ pc = "metadata"
    /\ ~OnMetadata
    /\ pc' = "body"
    /\ UNCHANGED <<doc, next, title, metadata, bodyVars>>

-----------------------------------------------------------------------------
(* flush_para, flush_table and flush_section, as what they leave behind.  *)

ParaFlushed(bs, ps) ==
    IF ps = <<>> THEN bs ELSE Append(bs, [header |-> NoLine, rows |-> <<>>, text |-> ps])

HasHeader == para # <<>> /\ EndsInColon(Last(para))

\* flush_table: the pending line that introduces the rows becomes their
\* header; the paragraph before it is a block of its own.
TableFlushed ==
    IF table = <<>> THEN [blocks |-> blocks, para |-> para]
    ELSE [blocks |-> Append(ParaFlushed(blocks, IF HasHeader THEN Front(para) ELSE para),
                            [header |-> IF HasHeader THEN Last(para) ELSE NoLine,
                             rows |-> table, text |-> <<>>]),
          para |-> <<>>]

AllFlushed == ParaFlushed(TableFlushed.blocks, TableFlushed.para)

SectionFlushed ==
    IF heading = NoLine /\ AllFlushed = <<>> THEN sections
    ELSE Append(sections, [heading |-> heading, blocks |-> AllFlushed])

-----------------------------------------------------------------------------
(* The body.                                                              *)

Reads(i) ==
    /\ pc = "body"
    /\ i = next
    /\ next' = next + 1
    /\ UNCHANGED <<doc, pc, title, metadata>>

BlankLine(i) ==
    /\ Reads(i)
    /\ IsBlank(i)
    /\ blocks' = AllFlushed
    /\ para' = <<>>
    /\ table' = <<>>
    /\ UNCHANGED <<heading, sections>>

\* [fault] a row closes the paragraph before it, header and all.
TableRowFlushing(i) ==
    /\ Reads(i)
    /\ IsTableRow(i)
    /\ blocks' = ParaFlushed(blocks, para)
    /\ para' = <<>>
    /\ table' = Append(table, i)
    /\ UNCHANGED <<heading, sections>>

TableRow(i) ==
    /\ Reads(i)
    /\ IsTableRow(i)
    /\ table' = Append(table, i)
    /\ UNCHANGED <<heading, para, blocks, sections>>

HeadingLine(i) ==
    /\ Reads(i)
    /\ IsHeading(i)
    /\ sections' = SectionFlushed
    /\ blocks' = <<>>
    /\ para' = <<>>
    /\ table' = <<>>
    /\ heading' = i

\* [fault] a line of text does not close the table before it.
TextLineKeepingTable(i) ==
    /\ Reads(i)
    /\ ~IsBlank(i) /\ ~IsTableRow(i) /\ ~IsHeading(i)
    /\ para' = Append(para, i)
    /\ UNCHANGED <<heading, table, blocks, sections>>

TextLine(i) ==
    /\ Reads(i)
    /\ ~IsBlank(i) /\ ~IsTableRow(i) /\ ~IsHeading(i)
    /\ blocks' = TableFlushed.blocks
    /\ para' = Append(TableFlushed.para, i)
    /\ table' = <<>>
    /\ UNCHANGED <<heading, sections>>

\* The lines have run out, in the body or before it.
Finish ==
    /\ \/ pc = "body" /\ AtEnd
       \/ pc = "title" /\ AtEnd
    /\ sections' = SectionFlushed
    /\ blocks' = <<>>
    /\ para' = <<>>
    /\ table' = <<>>
    /\ pc' = "done"
    /\ UNCHANGED <<doc, next, title, metadata, heading>>

Next ==
    \/ SkipBlank \/ TakeTitle \/ EndGap \/ TakeMetadata \/ EndMetadata
    \/ \E i \in Lines : BlankLine(i) \/ TableRow(i) \/ HeadingLine(i) \/ TextLine(i)
    \/ Finish

Spec == Init /\ [][Next]_vars

-----------------------------------------------------------------------------
(* The text of the result, section by section and block by block.         *)

LineIfAny(i) == IF i = NoLine THEN <<>> ELSE <<i>>
BlockLines(b) == LineIfAny(b.header) \o b.rows \o b.text
SectionLines(s) == FlattenSeq([k \in DOMAIN s.blocks |-> BlockLines(s.blocks[k])])
Text == FlattenSeq([k \in DOMAIN sections |->
                      LineIfAny(sections[k].heading) \o SectionLines(sections[k])])

-----------------------------------------------------------------------------
(* What the result should be, said of the lines.                          *)

Done == pc = "done"
Written == {i \in Lines : ~IsBlank(i)}

\* The first line that is neither blank nor the title, and the run of labels
\* that starts there.
TitleLine == {i \in Written : \A j \in Written : i <= j}
AfterTitle == Written \ TitleLine
LeadingLabels ==
    {i \in AfterTitle : \E from \in AfterTitle :
        /\ \A j \in AfterTitle : from <= j
        /\ \A j \in from .. i : MatchesMetadata(j)}
Body == AfterTitle \ LeadingLabels

\* The sequence has the lines of S, each once, in the order of the document.
InOrder(seq, S) ==
    ToSet(seq) = S /\ \A j, k \in DOMAIN seq : j < k => seq[j] < seq[k]

\* Parsing loses nothing and moves nothing: read section by section, heading
\* first, the result is the body of the document line by line, however
\* paragraphs, tables and headings follow each other; a table's header that is
\* popped off a pending paragraph still comes after the rest of it.  On the way
\* every variable keeps its type, indices past the end included
\* (rules.py:163-230).
BodyInOrder == TypeOK /\ (Done => InOrder(Text, Body))

\* A table is the whole of a run of indented lines, and has the line that
\* introduces it: no blank line, heading or paragraph is inside it, no row of
\* the run is outside it, and the intro directly above belongs to it and not
\* to a paragraph (rules.py:193-201, 215-226).
Tables == {b \in UNION {ToSet(sections[k].blocks) : k \in DOMAIN sections} : b.rows # <<>>}
Runs ==
    {r \in {a .. b : a \in Body, b \in Body} :
        /\ r # {}
        /\ \A i \in r : i \in Body /\ IsTableRow(i)
        /\ \A i \in Body \ r : IsTableRow(i) => {i - 1, i + 1} \cap r = {}}
TablesAreWholeRuns ==
    Done =>
        /\ {ToSet(b.rows) : b \in Tables} = Runs
        /\ \A b \in Tables :
              LET above == b.rows[1] - 1 IN
              b.header = IF above \in Body /\ EndsInColon(above) THEN above ELSE NoLine

\* The metadata of a document is its leading labels, the last line of each.
MetadataIsLeadingBlock ==
    Done =>
        metadata = {i \in LeadingLabels :
                       \A j \in LeadingLabels : SameLabel(i, j) => j <= i}
=============================================================================
