---------------------------- MODULE FilingSamples ----------------------------
(* The tables and documents that TLC looks at. *)
EXTENDS Naturals, SequencesExt

\* Each cell of a table has a text of its own, so that a value in the wrong place shows,
\* or is blank; in the first two rows it may span two rows and two columns.
Letters == <<<<"a", "b">>, <<"c", "d">>, <<"e", "f">>>>
CellsAt(r, i, spans) ==
    {[text |-> t, rows |-> x, columns |-> y] :
        t \in {Letters[r][i], "blank"}, x \in spans, y \in spans}
RowsAt(r, spans) ==
    {<<>>} \cup {<<c>> : c \in CellsAt(r, 1, spans)}
           \cup (CellsAt(r, 1, spans) \X CellsAt(r, 2, spans))

SampleTables ==
    {<<row>> : row \in RowsAt(1, 1..2)}
        \cup (RowsAt(1, 1..2) \X RowsAt(2, 1..2) \X RowsAt(3, {1}))

\* Up to two sections of up to three lines of one to three characters, the longest of
\* which nearly fill a chunk.
Ends == 2..4
SampleSections ==
    {<<>>} \cup {<<a>> : a \in Ends} \cup {<<a, a + b>> : a, b \in Ends}
           \cup {<<a, a + b, a + b + c>> : a, b, c \in Ends}
SampleDocuments == SeqOf(SampleSections, 2)
=============================================================================
