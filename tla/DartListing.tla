---------------------------- MODULE DartListing ----------------------------
(***************************************************************************)
(* How a sync learns which filings a company has made                       *)
(* (external/dart/client.py, corp_code.py, domain/filing_ingestion.py).     *)
(*                                                                         *)
(* Several processes share a file that maps symbols to DART's codes, which  *)
(* whoever finds it missing or old downloads and writes again.  Then the    *)
(* list of filings is read page by page, newest first, while new filings    *)
(* come in, and upserted.                                                   *)
(***************************************************************************)
EXTENDS Integers, FiniteSets, SequencesExt

CONSTANTS
    Syncs,      \* the syncs, each with a client of its own
    PageCount,  \* the filings of a page
    MaxFiled,   \* bound on the filings of the company
    MaxFaults   \* bound on failing calls and dying processes

VARIABLES
    file,       \* seeds/corp_code_map.json: missing, old, partial or whole
    filed,      \* DART has the filings 1..filed, the last one is the newest
    rows,       \* the committed filings of the cache
    pc,         \* of each sync: code, download, write, list, upsert, done or failed
    known,      \* history: what was filed when it began to list
    page,       \* the page that it asks for
    items,      \* what it has listed
    crashed,    \* history: a sync has ended while it wrote the file
    faults

vars == <<file, filed, rows, pc, known, page, items, crashed, faults>>
listing == <<known, page, items>>

TypeOK ==
    /\ file \in {"missing", "old", "partial", "whole"} /\ filed \in 0..MaxFiled
    /\ rows \subseteq 1..filed /\ crashed \in BOOLEAN
    /\ pc \in [Syncs -> {"code", "download", "write", "list", "upsert", "done", "failed"}]
    /\ \A s \in Syncs : ToSet(items[s]) \subseteq 1..filed /\ page[s] \in 1..(MaxFiled + 1)

Init ==
    /\ file \in {"missing", "old", "whole"} /\ filed \in 0..MaxFiled /\ rows = {}
    /\ pc = [s \in Syncs |-> "code"] /\ known = [s \in Syncs |-> 0]
    /\ page = [s \in Syncs |-> 1] /\ items = [s \in Syncs |-> <<>>]
    /\ crashed = FALSE /\ faults = 0

Go(s, from, to) == pc[s] = from /\ pc' = [pc EXCEPT ![s] = to]

-----------------------------------------------------------------------------
(* CorpCodeProvider.load_mapping                                            *)

\* A file that is fresh is read; half of one cannot be parsed.
ReadMapping(s) ==
    /\ \/ file \in {"missing", "old"} /\ Go(s, "code", "download")
       \/ file = "partial" /\ Go(s, "code", "failed")
       \/ file = "whole" /\ Go(s, "code", "list")
    /\ known' = [known EXCEPT ![s] = filed]
    /\ UNCHANGED <<file, filed, rows, page, items, crashed, faults>>

\* write_text truncates the file when it opens it.
BeginWrite(s) ==
    /\ Go(s, "download", "write") /\ file' = "partial"
    /\ UNCHANGED <<filed, rows, listing, crashed, faults>>

\* It may be truncated by another writer in the same moment.
EndWrite(s) ==
    /\ Go(s, "write", "list")
    /\ \/ file' = "whole"
       \/ (\E t \in Syncs \ {s} : pc[t] = "write") /\ UNCHANGED file
    /\ known' = [known EXCEPT ![s] = filed]
    /\ UNCHANGED <<filed, rows, page, items, crashed, faults>>

-----------------------------------------------------------------------------
(* list_filings and sync_filings_for_ticker                                 *)

NewFiling ==
    /\ filed < MaxFiled /\ filed' = filed + 1
    /\ UNCHANGED <<file, rows, pc, listing, crashed, faults>>

\* The page n of the list, newest first; the last one may be shorter, or empty.
Before(n) == (n - 1) * PageCount
PageSize(n) == IF filed <= Before(n) THEN 0
               ELSE IF filed - Before(n) < PageCount THEN filed - Before(n) ELSE PageCount
Page(n) == [i \in 1..PageSize(n) |-> filed + 1 - (Before(n) + i)]

TotalPages == (filed + PageCount - 1) \div PageCount

\* A bug to compare with: a last page that is not full is not counted.
FullPages == IF filed < PageCount THEN 1 ELSE filed \div PageCount

\* The number of pages as the answer names it.
LastPage == IF TotalPages = 0 THEN 1 ELSE TotalPages

ListPage(s) ==
    /\ pc[s] = "list"
    /\ items' = [items EXCEPT ![s] = items[s] \o Page(page[s])]
    /\ IF page[s] >= LastPage
       THEN Go(s, "list", "upsert") /\ UNCHANGED page
       ELSE page' = [page EXCEPT ![s] = page[s] + 1] /\ UNCHANGED pc
    /\ UNCHANGED <<file, filed, rows, known, crashed, faults>>

\* upsert_filing: a receipt number that the table has is updated, another is inserted.
Upserted(numbers) == rows \cup numbers

\* One upsert a filing that is listed, and the commit of the caller.
Upsert(s) ==
    /\ Go(s, "upsert", "done")
    /\ rows' = Upserted(ToSet(items[s]))
    /\ UNCHANGED <<file, filed, listing, crashed, faults>>

\* A download, a page after three attempts, or a statement fails; or the process dies.
Fail(s) ==
    /\ pc[s] \notin {"done", "failed"} /\ faults < MaxFaults /\ faults' = faults + 1
    /\ Go(s, pc[s], "failed")
    /\ crashed' = (crashed \/ pc[s] = "write")
    /\ UNCHANGED <<file, filed, rows, listing>>

Next == NewFiling \/ \E s \in Syncs :
            \/ ReadMapping(s) \/ BeginWrite(s) \/ EndWrite(s)
            \/ ListPage(s) \/ Upsert(s) \/ Fail(s)

Spec == Init /\ [][Next]_vars

-----------------------------------------------------------------------------
(* Properties                                                               *)

\* However many filings come in while the pages are read, a finished sync has stored
\* every one that there was when it began; what it lists twice has one row.
ListingComplete == \A s \in Syncs : pc[s] = "done" => 1..known[s] \subseteq rows

\* Half of a mapping lies in the file only while a process writes it or after one has
\* died doing so; after that every sync fails, because the file counts as fresh.
PartialMapExplained ==
    file = "partial" => crashed \/ \E s \in Syncs : pc[s] = "write"
=============================================================================
