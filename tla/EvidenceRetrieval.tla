------------------------- MODULE EvidenceRetrieval -------------------------
(***************************************************************************)
(* The evidence of a debate, from the search for it to the database         *)
(* (domain/evidence_retrieval.py, moderator_node, debate_repo).             *)
(*                                                                         *)
(* A search asks two Chroma collections and two keyword indexes, fuses the  *)
(* four rankings and may rerank them.  A news has one vector, a filing one  *)
(* for each of its chunks.  What the agents quote is saved when the debate  *)
(* is over, minutes later; meanwhile syncs, cleanups and purges remove rows *)
(* and vectors of the symbol.                                               *)
(***************************************************************************)
EXTENDS Naturals, FiniteSets, SequencesExt

CONSTANTS
    News, Filings,  \* the documents of the symbol
    Chunks,         \* how many chunks a filing has
    TopK,           \* how much evidence the caller asks for
    SourceK,        \* how many hits Chroma returns: max(top_k, 3) in the code
    RerankK,        \* how many of them the reranker sees, TopK at least
    RrfK,           \* rag_rrf_k
    Scale,          \* what scores are multiplied by, so that each is a whole number
    MaxFaults       \* bound on failing statements and calls

Docs == News \cup Filings
Vectors == (News \X {1}) \cup (Filings \X (1..Chunks))
VectorsOf(docs) == {v \in Vectors : v[1] \in docs}

VARIABLES
    settings,   \* rag_hybrid_enabled, rag_reranker_enabled
    rows,       \* documents whose cache row is committed
    vec,        \* vectors in Chroma
    source,     \* which of the four searches is next
    hits,       \* what Chroma has answered to it, if it has
    lists,      \* the rankings so far, of documents
    broken,     \* whether a failed SELECT has aborted the transaction
    stage,      \* search, debate or failed
    evidence,   \* the evidence found
    unsaved,    \* what is still to be saved of it
    saved,      \* the saved evidence: a document or, once its row is gone, null
    gone,       \* history: the documents whose row has been removed
    faults

vars == <<settings, rows, vec, source, hits, lists, broken, stage, evidence,
          unsaved, saved, gone, faults>>
caches == <<rows, vec, gone>>
search == <<source, hits, lists, broken, evidence>>

Sources == <<"vector news", "vector filings", "lexical news", "lexical filings">>
KindOf == <<News, Filings, News, Filings>>

Init ==
    /\ settings \in [hybrid : BOOLEAN, reranker : BOOLEAN]
    /\ rows \in SUBSET Docs
    /\ vec \in {VectorsOf(docs) : docs \in SUBSET Docs}
    /\ source = 1 /\ hits = {} /\ lists = <<>> /\ broken = FALSE
    /\ stage = "search" /\ evidence = <<>> /\ unsaved = <<>> /\ saved = {}
    /\ gone = {} /\ faults = 0

-----------------------------------------------------------------------------
(* The rankings                                                             *)

\* All ways to rank n of the elements of S, or all of S if it has fewer.
Rankings(S, n) == {SubSeq(s, 1, IF n < Len(s) THEN n ELSE Len(s)) : s \in SetToSeqs(S)}

\* Chroma ranks the vectors of the symbol; an error is logged and finds nothing.
Query ==
    /\ stage = "search" /\ source \in {1, 2} /\ hits = {}
    /\ \/ /\ \E s \in Rankings({v \in vec : v[1] \in KindOf[source]}, SourceK) : hits' = {s}
          /\ UNCHANGED faults
       \/ /\ faults < MaxFaults /\ faults' = faults + 1 /\ hits' = {<<>>}
    /\ UNCHANGED <<caches, settings, source, lists, broken, stage, evidence, unsaved, saved>>

\* A statement after one that failed raises; without ids there is no statement.
Raises(ids) == broken /\ ids # {}

Found(ranking) ==
    /\ lists' = Append(lists, ranking) /\ hits' = {} /\ source' = source + 1

\* The analyses are looked up; an error is logged, but the transaction is aborted.
LookUpAnalyses(ids) ==
    \/ UNCHANGED <<broken, faults>>
    \/ ids # {} /\ faults < MaxFaults /\ faults' = faults + 1 /\ broken' = TRUE

\* A bug to compare with: the hit is built from Chroma's answer alone.
AnyHit(s) == DOMAIN s

\* A hit whose row is gone is dropped.
Cached(s) == {i \in DOMAIN s : s[i][1] \in rows}

\* Chunks become hits of their filing; the order is Chroma's.
Hits(s) ==
    {[i \in DOMAIN places |-> s[places[i]][1]] : places \in
        {p \in SetToSeqs(Cached(s)) : \A i, j \in DOMAIN p : i < j => p[i] < p[j]}}

LoadRows ==
    /\ stage = "search" /\ source \in {1, 2} /\ hits # {}
    /\ \E s \in hits : \E ranking \in Hits(s) :
          ~Raises(ToSet(s)) /\ Found(ranking) /\ LookUpAnalyses(ToSet(ranking))
    /\ UNCHANGED <<caches, settings, stage, evidence, unsaved, saved>>

\* BM25 ranks those rows whose words match the query.
Lexical ==
    /\ stage = "search" /\ source \in {3, 4} /\ settings.hybrid /\ ~broken
    /\ \E docs \in SUBSET (rows \cap KindOf[source]) : \E s \in SetToSeqs(docs) : Found(s)
    /\ LookUpAnalyses(rows \cap KindOf[source])
    /\ UNCHANGED <<caches, settings, stage, evidence, unsaved, saved>>

\* A statement that selects the rows raises: one that fails, or any one after a
\* swallowed error. The search, and the debate that waits for it, is over.
SearchFails ==
    /\ stage = "search"
    /\ \/ source \in {1, 2} /\ \E s \in hits : s # <<>>
       \/ source \in {3, 4} /\ settings.hybrid
    /\ IF broken THEN UNCHANGED faults ELSE faults < MaxFaults /\ faults' = faults + 1
    /\ stage' = "failed"
    /\ UNCHANGED <<caches, settings, search, unsaved, saved>>

-----------------------------------------------------------------------------
(* Fusion                                                                   *)

\* 1 / (rrf_k + rank)
Weight(rank) == Scale \div (RrfK + rank)

PlacesIn(d, l) == {i \in 1..Len(lists[l]) : lists[l][i] = d}

Places(d) == UNION {{l} \X PlacesIn(d, l) : l \in 1..Len(lists)}

\* What the first n hits of a list have added to the score of a document.
Gains(d, l) ==
    LET sum[n \in 0..Len(lists[l])] ==
            IF n = 0 THEN 0 ELSE sum[n - 1] + (IF lists[l][n] = d THEN Weight(n) ELSE 0)
    IN sum

Gain(d, l) == Gains(d, l)[Len(lists[l])]

Score(d) == Gain(d, 1) + Gain(d, 2) + Gain(d, 3) + Gain(d, 4)

First(d) == CHOOSE p \in Places(d) :
                \A q \in Places(d) : p[1] < q[1] \/ (p[1] = q[1] /\ p[2] <= q[2])

\* A bug to compare with: sorted without reverse.
LowestFirst(d, e) == Score(d) < Score(e) \/ (Score(d) = Score(e) /\ First(d)[1] < First(e)[1])

\* The order of the fused list, in which equal scores keep the order of insertion.
Before(d, e) ==
    \/ Score(d) > Score(e)
    \/ /\ Score(d) = Score(e)
       /\ \/ First(d)[1] < First(e)[1]
          \/ (First(d)[1] = First(e)[1] /\ First(d)[2] < First(e)[2])

Candidates == {d \in Docs : Places(d) # {}}

\* Without fusion each hit is a result of its own.
Unfused == lists[1] \o lists[2]

\* The candidates in that order, which leaves no two of them where they are.
Fused == {s \in SetToSeqs(Candidates) : \A i, j \in DOMAIN s : i < j => Before(s[i], s[j])}

Take(s, n) == SubSeq(s, 1, IF n < Len(s) THEN n ELSE Len(s))

\* All ways to merge a list of m places with one of n places.
Merges(m, n) == {s \in SetToSeqs(1..(m + n)) :
    \A i, j \in 1..(m + n) : i < j /\ (s[i] <= m <=> s[j] <= m) => s[i] < s[j]}

\* The reranker orders the candidates anew; if it fails the fused order stays.
\* Without fusion the hits of the two collections are merged by their distance.
Rank ==
    /\ stage = "search"
    /\ IF settings.hybrid
       THEN /\ source = 5
            /\ \E s \in Fused :
                  \/ evidence' = Take(s, TopK)
                  \/ /\ settings.reranker
                     /\ \E t \in SetToSeqs(ToSet(Take(s, RerankK))) : evidence' = Take(t, TopK)
       ELSE /\ source = 3
            /\ \E s \in Merges(Len(lists[1]), Len(lists[2])) :
                  evidence' = Take([i \in 1..Len(s) |-> Unfused[s[i]]], TopK)
    /\ stage' = "debate" /\ unsaved' = evidence'
    /\ UNCHANGED <<caches, settings, source, hits, lists, broken, saved, faults>>

-----------------------------------------------------------------------------
(* The end of the debate, and the syncs meanwhile                           *)

\* save_evidence: the foreign key refuses a row that is gone, and the handler goes on.
SaveEvidence ==
    /\ stage = "debate" /\ unsaved # <<>>
    /\ unsaved' = Tail(unsaved)
    /\ saved' = IF Head(unsaved) \in rows
                THEN saved \cup {[doc |-> Head(unsaved), live |-> TRUE]} ELSE saved
    /\ UNCHANGED <<caches, settings, search, stage, faults>>

\* ON DELETE SET NULL
ClearReferences(d) == {[s EXCEPT !.live = s.live /\ s.doc # d] : s \in saved}

\* A trim, cleanup or purge removes a row, or its vectors.
Drop(d) ==
    /\ d \in rows /\ rows' = rows \ {d} /\ gone' = gone \cup {d}
    /\ saved' = ClearReferences(d)
    /\ UNCHANGED <<vec, settings, search, stage, unsaved, faults>>

Unembed(d) ==
    /\ VectorsOf({d}) \cap vec # {} /\ vec' = vec \ VectorsOf({d})
    /\ UNCHANGED <<rows, gone, settings, search, stage, unsaved, saved, faults>>

Next ==
    \/ Query \/ LoadRows \/ Lexical \/ SearchFails \/ Rank
    \/ SaveEvidence
    \/ \E d \in Docs : Drop(d) \/ Unembed(d)

Spec == Init /\ [][Next]_vars

-----------------------------------------------------------------------------
(* Properties                                                               *)

TypeOK ==
    /\ rows \subseteq Docs /\ vec \subseteq Vectors
    /\ source \in 1..5 /\ Len(lists) = source - 1
    /\ ToSet(evidence) \subseteq Docs /\ broken \in BOOLEAN
    /\ stage \in {"search", "debate", "failed"}

\* The n-th best place of a document in a list is ahead of the other's.
Outranks(d, e, l) == \A j \in PlacesIn(e, l) :
    Cardinality({i \in PlacesIn(d, l) : i < j}) >= Cardinality({i \in PlacesIn(e, l) : i <= j})

\* Fusion respects the rankings: a document that every list ranks above another is
\* found first.
FusionRespectsLists ==
    [][Rank /\ settings.hybrid /\ ~settings.reranker =>
         \A d, e \in Candidates : d # e /\ (\A l \in 1..4 : Outranks(d, e, l))
             => \A j \in 1..Len(evidence') : evidence'[j] = e =>
                    \E i \in 1..(j - 1) : evidence'[i] = d]_vars

\* A fused answer names no document twice, however many of its chunks were found,
\* and no more than it was asked for.
EvidenceDistinct ==
    /\ Len(evidence) <= TopK
    /\ settings.hybrid => Cardinality(ToSet(evidence)) = Len(evidence)

\* Vectors whose row is gone are never quoted: a document in the evidence had its row
\* when the search began.
OrphansNotQuoted == ToSet(evidence) \subseteq rows \cup gone

\* What the debate quotes is on record in the end, unless its row was removed first;
\* and what is on record as a reference refers to a row.
EvidenceOnRecord ==
    /\ stage = "debate" /\ unsaved = <<>> =>
           \A d \in ToSet(evidence) : d \in gone \/ \E s \in saved : s.doc = d
    /\ \A s \in saved : s.live => s.doc \in rows
=============================================================================
