----------------------------- MODULE FilingText -----------------------------
(***************************************************************************)
(* From a DART filing to the chunks that are embedded                       *)
(* (external/dart/client.py): a table is expanded to a grid, cell by cell,  *)
(* and written out line by line; the text is split into sections, and these *)
(* line by line into chunks.                                                *)
(*                                                                          *)
(* A text is a name, or "blank" or "dash".  The grid says of each slot      *)
(* whose text is there: that of the i-th cell of the r-th row.  Of a line   *)
(* of a section only the place where it ends matters, its newline included. *)
(***************************************************************************)
EXTENDS Naturals, Sequences

CONSTANTS
    Tables,     \* the tables looked at: rows of cells with a text and two spans
    Documents,  \* the documents looked at: sequences of sections, which are sequences
                \* of the places where lines end; all but the first have a heading
    MaxChars    \* max_chunk_chars

VARIABLES
    table, grid, column, text,        \* the table, its grid and the text made of it
    document, from, number, chunks,   \* the document, the chunk that is being filled: its
                                      \* first line and its index, and the chunks made
    part, item,                       \* the row of the table, or the section, that is
                                      \* looked at, and its next cell or line
    stage                             \* table, split, done

vars == <<table, grid, column, text, document, from, number, chunks, part, item, stage>>

None == [prefix |-> {}, parts |-> <<>>]

Init ==
    /\ grid = <<>> /\ column = 1 /\ text = None
    /\ from = 1 /\ number = 0 /\ chunks = <<>> /\ part = 1 /\ item = 1
    /\ \/ table \in Tables /\ document = <<>> /\ stage = "table"
       \/ table = <<>> /\ document \in Documents /\ stage = "split"

-----------------------------------------------------------------------------
(* _expand_table_to_grid                                                    *)

\* The first column of the row that no cell from above reaches into.
FreeColumn(c) ==
    /\ c >= column /\ <<part, c>> \notin DOMAIN grid
    /\ \A b \in column..(c - 1) : <<part, b>> \in DOMAIN grid

Block(c, cell) == (part..(part + cell.rows - 1)) \X (c..(c + cell.columns - 1))

\* A cell fills its spans, over whatever is there.
PutCell ==
    /\ stage = "table" /\ part <= Len(table) /\ item <= Len(table[part])
    /\ LET cell == table[part][item]
       IN \E c \in {column} \cup {s[2] + 1 : s \in DOMAIN grid} :
             /\ FreeColumn(c) /\ column' = c + cell.columns
             /\ grid' = [s \in DOMAIN grid \cup Block(c, cell) |->
                            IF s \in Block(c, cell) THEN <<part, item>> ELSE grid[s]]
    /\ item' = item + 1
    /\ UNCHANGED <<table, text, document, from, number, chunks, part, stage>>

NextRow ==
    /\ stage = "table" /\ part <= Len(table) /\ item > Len(table[part])
    /\ part' = part + 1 /\ item' = 1 /\ column' = 1
    /\ UNCHANGED <<table, grid, text, document, from, number, chunks, stage>>

-----------------------------------------------------------------------------
(* _serialize_grid                                                          *)

TextAt(s) == IF s \in DOMAIN grid THEN table[grid[s][1]][grid[s][2]].text ELSE "blank"

Rows == {s[1] : s \in DOMAIN grid}
Written(r) == {s \in DOMAIN grid : s[1] = r /\ TextAt(s) # "blank"}
Telling(r) == \E s, u \in Written(r) : TextAt(s) # TextAt(u)

\* The title of a table: the only text of its first row.
Prefix == IF (\E r \in Rows : r > 1) /\ (\A s, u \in Written(1) : s = u)
          THEN {TextAt(s) : s \in Written(1)} ELSE {}

\* The headers are the first row that has several texts; those above are skipped.
Headers == {h \in Rows : Telling(h) /\ \A r \in Rows : Telling(r) => h <= r}

\* A value with the header of its column, unless it repeats it.
Labelled(h) ==
    {s \in DOMAIN grid : s[1] > h /\ TextAt(s) \notin {"blank", "dash", TextAt(<<h, s[2]>>)}}
Plain(h) == {s \in DOMAIN grid : s[1] >= h /\ TextAt(s) \notin {"blank", "dash"}}

\* The slots that are written, each with its header; those of one row make a line.
Parts(h) ==
    IF Labelled(h) # {}
    THEN [s \in Labelled(h) |-> [header |-> TextAt(<<h, s[2]>>), value |-> TextAt(s)]]
    ELSE [s \in Plain(h) |-> [header |-> "blank", value |-> TextAt(s)]]

\* serialize_table_full
SerializeTable ==
    /\ stage = "table" /\ part > Len(table) /\ stage' = "done"
    /\ \/ \E h \in Headers : text' = [prefix |-> Prefix, parts |-> Parts(h)]
       \/ Headers = {} /\ text' = [prefix |-> Prefix, parts |-> <<>>]
    /\ UNCHANGED <<table, grid, column, document, from, number, chunks, part, item>>

-----------------------------------------------------------------------------
(* _split_text, build_filing_chunks                                         *)

Start(s, line) == IF line <= 1 THEN 0 ELSE document[s][line - 1]

\* The characters of the lines from first to last, without the last newline.
Length(s, first, last) == document[s][last] - Start(s, first) - 1

Chunk(first, last) == [id |-> <<part, number>>, first |-> first, last |-> last]

NextSection == part' = part + 1 /\ item' = 1 /\ from' = 1 /\ number' = 0

InSection == stage = "split" /\ part <= Len(document)

\* A section without lines has its heading, line 0; a first one without text is left out.
EmptySection ==
    /\ InSection /\ document[part] = <<>> /\ NextSection
    /\ chunks' = IF part = 1 THEN chunks ELSE Append(chunks, Chunk(0, 0))
    /\ UNCHANGED <<table, grid, column, text, document, stage>>

Fits == Length(part, 1, Len(document[part])) <= MaxChars

ShortSection ==
    /\ InSection /\ document[part] # <<>> /\ Fits /\ NextSection
    /\ chunks' = Append(chunks, Chunk(1, Len(document[part])))
    /\ UNCHANGED <<table, grid, column, text, document, stage>>

\* current_len + line_len
Grown == document[part][item] - Start(part, from)

\* A line joins the current chunk if it fits, and starts a new one otherwise.
AddLine ==
    /\ InSection /\ document[part] # <<>> /\ ~Fits /\ item <= Len(document[part])
    /\ IF Grown > MaxChars /\ from < item
       THEN /\ chunks' = Append(chunks, Chunk(from, item - 1))
            /\ from' = item /\ number' = number + 1
       ELSE UNCHANGED <<chunks, from, number>>
    /\ item' = item + 1
    /\ UNCHANGED <<table, grid, column, text, document, part, stage>>

EndSection ==
    /\ InSection /\ document[part] # <<>> /\ ~Fits /\ item > Len(document[part])
    /\ chunks' = Append(chunks, Chunk(from, item - 1)) /\ NextSection
    /\ UNCHANGED <<table, grid, column, text, document, stage>>

EndDocument ==
    /\ stage = "split" /\ part > Len(document) /\ stage' = "done"
    /\ UNCHANGED <<table, grid, column, text, document, from, number, chunks, part, item>>

-----------------------------------------------------------------------------
Next ==
    \/ PutCell \/ NextRow \/ SerializeTable
    \/ EmptySection \/ ShortSection \/ AddLine \/ EndSection \/ EndDocument

Spec == Init /\ [][Next]_vars

-----------------------------------------------------------------------------
(* Properties                                                               *)

Places == UNION {{r} \X (1..Len(table[r])) : r \in 1..Len(table)}
Cell(p) == table[p[1]][p[2]]
Texts == {Cell(p).text : p \in Places} \ {"blank", "dash"}
Shown == text.prefix \cup {text.parts[s].header : s \in DOMAIN text.parts}
                     \cup {text.parts[s].value : s \in DOMAIN text.parts}

TypeOK ==
    /\ stage \in {"table", "split", "done"}
    /\ \A s \in DOMAIN grid : grid[s] \in Places
    /\ text.prefix \subseteq Texts \cup {"dash"} /\ Shown \subseteq Texts \cup {"blank", "dash"}
    /\ \A k \in 1..Len(chunks) : chunks[k].id[1] \in 1..Len(document)

\* In a table whose cells span rows alone, a cell is in all the rows that it spans, in
\* one column, whatever else reaches into these rows.
GridShowsSpans ==
    stage = "done" /\ (\A p \in Places : Cell(p).columns = 1) =>
        \A p \in Places : \E s \in DOMAIN grid :
            {u \in DOMAIN grid : grid[u] = p} =
                (p[1]..(p[1] + Cell(p).rows - 1)) \X {s[2]}

\* What is written of a table loses a text only in rows, next to each other and to the
\* top, that have a single one, or in the heading of a column that says nothing else.
LossExplained ==
    stage = "done" => \A t \in Texts \ Shown : \E s \in DOMAIN grid :
        /\ TextAt(s) = t
        /\ \/ \A r \in Rows : r <= s[1] => ~Telling(r)
           \/ /\ \A r \in Rows : r < s[1] => ~Telling(r)
              /\ \A u \in DOMAIN grid :
                    u[2] = s[2] /\ u[1] > s[1] => TextAt(u) \in {t, "blank", "dash"}

\* The chunks have every line of every section once and in order, no chunk of several
\* lines is too long, and no two chunks have the same id.
ChunksWhole ==
    stage = "done" =>
        /\ \A s \in 1..Len(document) : \A line \in 1..Len(document[s]) :
              \E k \in 1..Len(chunks) :
                 chunks[k].id[1] = s /\ line \in chunks[k].first..chunks[k].last
        /\ \A j, k \in 1..Len(chunks) : j < k =>
              \/ chunks[j].id[1] < chunks[k].id[1]
              \/ /\ chunks[j].id[1] = chunks[k].id[1] /\ chunks[j].id[2] < chunks[k].id[2]
                 /\ chunks[j].last < chunks[k].first
        /\ \A k \in 1..Len(chunks) :
              \/ chunks[k].first = chunks[k].last
              \/ Length(chunks[k].id[1], chunks[k].first, chunks[k].last) <= MaxChars
=============================================================================
