------------------------------ MODULE NewsSync ------------------------------
(***************************************************************************)
(* The news cache of one symbol: rows of news_cache in PostgreSQL, one      *)
(* vector per row in Chroma, and the lock and the cooldown in Redis.        *)
(*                                                                          *)
(* A watcher is a background sync of the watchlist endpoints: it ignores    *)
(* the cooldown and indexes the rows again after its sync.  A sweeper is    *)
(* the scheduler's refresh of the symbol, a cleaner its cleanup.  Each runs *)
(* in one database transaction, whose writes are in ins and del until it    *)
(* commits; Redis and Chroma take effect at once.                           *)
(***************************************************************************)
EXTENDS Naturals, Sequences, FiniteSets

CONSTANTS
    Links,          \* search results; an article published later is larger
    UrlOf,          \* normalize_url of a result's link
    Alike,          \* {a, b} is in it when _titles_similar holds of a and b;
                    \* a title of less than five words is not even like itself
    Old,            \* results stored before
    Expired,        \* those of them whose ttl_until has passed
    IdOf,           \* the rank of the primary key of a result's row
    Watchers, Sweepers, Cleaners,
    FetchLimit,     \* results that pass the filters and have a text
    MaxRows,        \* MAX_CACHE_ROWS
    TtlOutlastsSyncs, \* whether no sync holds the lock for longer than its TTL
    FaultKinds,     \* subset of {"redis", "chroma", "db", "crash"}
    MaxFaults,      \* bound on the faults of one behaviour
    NoTask

Syncs == Watchers \union Sweepers
Tasks == Syncs \union Cleaners

ASSUME NewsAssumption ==
    /\ Links \subseteq Nat /\ IsFiniteSet(Links)
    /\ Expired \subseteq Old /\ Old \subseteq Links
    /\ \A a, b \in Old : UrlOf[a] = UrlOf[b] => a = b
    /\ IdOf \in [Links -> Nat]
    /\ Watchers \intersect Sweepers = {} /\ Syncs \intersect Cleaners = {}
    /\ FetchLimit \in Nat /\ MaxRows \in Nat /\ MaxFaults \in Nat
    /\ TtlOutlastsSyncs \in BOOLEAN
    /\ NoTask \notin Tasks

VARIABLES
    rows,       \* committed rows: the result stored and the sync that stored it
    vectors,    \* ids (again such records) of the documents in Chroma
    lock,       \* Redis news-sync:lock, the token by the task that chose it
    cool,       \* Redis news-sync:last-run while it is recent, by its task
    ins, del,   \* rows a task has inserted and deleted, uncommitted
    pc,
    cand,       \* candidates a sync has still to store
    recent,     \* links of recent_rows
    drop,       \* rows a task is deleting
    docs,       \* rows a watcher indexes again
    failing,    \* whether an exception is leaving sync_news_for_ticker
    outcome,
    holders,    \* history: tasks that set the lock and have not let it go
    faults

txn == <<ins, del>>
plan == <<cand, recent, drop, docs>>
redis == <<lock, cool, holders>>
vars == <<rows, vectors, redis, txn, pc, plan, failing, outcome, faults>>

Row(l, t) == [link |-> l, by |-> t]
UrlsOf(R) == {UrlOf[r.link] : r \in R}
Visible(t) == (rows \union ins[t]) \ del[t]

Goto(t, to) == pc' = [pc EXCEPT ![t] = to]

Fault(f) ==
    /\ f \in FaultKinds
    /\ faults < MaxFaults
    /\ faults' = faults + 1

Init ==
    /\ rows = {Row(l, NoTask) : l \in Old}
    /\ vectors = rows
    /\ lock = NoTask /\ cool = NoTask /\ holders = {}
    /\ ins = [t \in Tasks |-> {}] /\ del = [t \in Tasks |-> {}]
    /\ pc = [t \in Tasks |-> "idle"]
    /\ cand = [t \in Tasks |-> <<>>] /\ recent = [t \in Tasks |-> {}]
    /\ drop = [t \in Tasks |-> {}] /\ docs = [t \in Tasks |-> {}]
    /\ failing = [t \in Tasks |-> FALSE]
    /\ outcome = [t \in Tasks |-> "none"]
    /\ faults = 0

-----------------------------------------------------------------------------
(* Transactions.                                                            *)

\* _has_recent_similar_topic.
SimilarTopic(t, l) == \E m \in recent[t] : {l, m} \in Alike

\* Rows that t has still to delete; a flush takes them by their primary key.
ToDrop(t) == drop[t] \intersect Visible(t)
NextDrop(t) == {r \in ToDrop(t) : \A s \in ToDrop(t) : IdOf[r.link] <= IdOf[s.link]}

\* Those whose open transaction the next statement of t has to wait for: the
\* unique index on source_url, or the lock of a row to delete.
BlockedBy(t) ==
    {u \in Tasks \ {t} :
        \/ /\ pc[t] = "insert" /\ cand[t] # <<>> /\ ~ SimilarTopic(t, Head(cand[t]))
           /\ UrlOf[Head(cand[t])] \in UrlsOf(ins[u] \union del[u])
        \/ /\ pc[t] \in {"drop", "dropexpired"}
           /\ NextDrop(t) \intersect del[u] # {}}

\* t is on a cycle of tasks that wait for each other.
Deadlocked(t) ==
    \E S \in SUBSET Tasks : t \in S /\ UNION {BlockedBy(u) : u \in S} = S

\* A flush that fails rolls its transaction back at once.
RolledBack(gone) ==
    /\ ins' = [t \in Tasks |-> IF t \in gone THEN {} ELSE ins[t]]
    /\ del' = [t \in Tasks |-> IF t \in gone THEN {} ELSE del[t]]

Finish(t, out) ==
    /\ Goto(t, "done")
    /\ outcome' = [outcome EXCEPT ![t] = out]

-----------------------------------------------------------------------------
(* sync_news_for_ticker.                                                    *)

\* Every caller indexes.
IndexesAlways(t) == "list"

\* A watcher whose sync was skipped indexes all the same.
AfterSync(t) == IF t \in Watchers THEN "list" ELSE "commit"

\* A lock that is set whatever it holds.
AcquireAnyway(t) ==
    /\ t \in Syncs /\ pc[t] = "idle"
    /\ lock' = t /\ holders' = holders \union {t}
    /\ Goto(t, IF t \in Sweepers THEN "cooldown" ELSE "search")
    /\ UNCHANGED <<rows, vectors, cool, txn, plan, failing, outcome, faults>>

\* _acquire_lock, SET NX EX; an error skips the sync, though the key may be set.
Acquire(t) ==
    /\ t \in Syncs /\ pc[t] = "idle"
    /\ \/ /\ lock = NoTask
          /\ lock' = t /\ holders' = holders \union {t}
          /\ \/ Goto(t, IF t \in Sweepers THEN "cooldown" ELSE "search") /\ UNCHANGED faults
             \/ Goto(t, "skip") /\ Fault("redis")
       \/ /\ lock # NoTask \/ "redis" \in FaultKinds
          /\ IF lock # NoTask THEN UNCHANGED faults ELSE Fault("redis")
          /\ Goto(t, AfterSync(t))
          /\ UNCHANGED <<lock, holders>>
    /\ UNCHANGED <<rows, vectors, cool, txn, plan, failing, outcome>>

\* The sync returns without knowing that it has set the key.
Skip(t) ==
    /\ pc[t] = "skip"
    /\ holders' = holders \ {t}
    /\ Goto(t, AfterSync(t))
    /\ UNCHANGED <<rows, vectors, lock, cool, txn, plan, failing, outcome, faults>>

\* _is_within_cooldown; an error counts as no cooldown.
CheckCooldown(t) ==
    /\ pc[t] = "cooldown"
    /\ \/ cool # NoTask /\ Goto(t, "get") /\ UNCHANGED faults
       \/ cool = NoTask /\ Goto(t, "search") /\ UNCHANGED faults
       \/ Goto(t, "search") /\ Fault("redis")
    /\ UNCHANGED <<rows, vectors, redis, txn, plan, failing, outcome>>

\* What a search may give, without the results that no filter lets through.
Fetches ==
    {q \in UNION {[1 .. n -> Links] : n \in 0 .. FetchLimit} :
        \A i, j \in DOMAIN q : q[i] = q[j] => i = j}

\* The candidates found in the cache already are never stored again.
NewOnes(q) == SelectSeq(q, LAMBDA l : UrlOf[l] \notin UrlsOf(rows))

\* search_news and _build_candidates; the search may fail.
Search(t) ==
    /\ pc[t] = "search"
    /\ \/ /\ \E q \in Fetches : cand' = [cand EXCEPT ![t] = NewOnes(q)]
          /\ Goto(t, "recent")
          /\ UNCHANGED failing
       \/ /\ failing' = [failing EXCEPT ![t] = TRUE]
          /\ Goto(t, "get")
          /\ UNCHANGED cand
    /\ UNCHANGED <<rows, vectors, redis, txn, recent, drop, docs, outcome, faults>>

\* get_recent_by_symbol: a behaviour lasts for less than RECENT_GROUPING_HOURS,
\* so that every row but those there at first is recent.
ReadRecent(t) ==
    /\ pc[t] = "recent"
    /\ recent' = [recent EXCEPT ![t] = {r.link : r \in {s \in rows : s.by # NoTask}}]
    /\ Goto(t, "insert")
    /\ UNCHANGED <<rows, vectors, redis, txn, cand, drop, docs, failing, outcome, faults>>

\* A loop that does not take the next candidate.
SkipSimilarAgain(t) ==
    /\ pc[t] = "insert" /\ cand[t] # <<>>
    /\ SimilarTopic(t, Head(cand[t]))
    /\ UNCHANGED vars

\* The topic is there already.
SkipSimilar(t) ==
    /\ pc[t] = "insert" /\ cand[t] # <<>>
    /\ SimilarTopic(t, Head(cand[t]))
    /\ cand' = [cand EXCEPT ![t] = Tail(@)]
    /\ UNCHANGED <<rows, vectors, redis, txn, pc, recent, drop, docs, failing, outcome, faults>>

Clashes(t) == UrlOf[Head(cand[t])] \in UrlsOf((rows \union ins[t]) \ del[t])

\* A vector written in the background.
InsertWithoutVector(t) ==
    /\ pc[t] = "insert" /\ cand[t] # <<>>
    /\ ~ SimilarTopic(t, Head(cand[t])) /\ BlockedBy(t) = {} /\ ~ Clashes(t)
    /\ ins' = [ins EXCEPT ![t] = @ \union {Row(Head(cand[t]), t)}]
    /\ cand' = [cand EXCEPT ![t] = Tail(@)]
    /\ UNCHANGED <<rows, vectors, redis, del, pc, recent, drop, docs, failing, outcome, faults>>

\* repo.save.
Insert(t) ==
    /\ pc[t] = "insert" /\ cand[t] # <<>>
    /\ ~ SimilarTopic(t, Head(cand[t])) /\ BlockedBy(t) = {} /\ ~ Clashes(t)
    /\ ins' = [ins EXCEPT ![t] = @ \union {Row(Head(cand[t]), t)}]
    /\ Goto(t, "embed")
    /\ UNCHANGED <<rows, vectors, redis, del, plan, failing, outcome, faults>>

\* _upsert_chroma_row, then the row counts as recent; an error is logged.
Embed(t) ==
    /\ pc[t] = "embed"
    /\ \/ vectors' = vectors \union {Row(Head(cand[t]), t)} /\ UNCHANGED faults
       \/ UNCHANGED vectors /\ Fault("chroma")
    /\ recent' = [recent EXCEPT ![t] = @ \union {Head(cand[t])}]
    /\ cand' = [cand EXCEPT ![t] = Tail(@)]
    /\ Goto(t, "insert")
    /\ UNCHANGED <<rows, redis, txn, drop, docs, failing, outcome>>

\* A statement fails: IntegrityError, a deadlock, the database.  The exception
\* leaves the sync by its finally, or ends the cleanup.
StatementFails(t) ==
    /\ \/ pc[t] = "insert" /\ cand[t] # <<>> /\ ~ SimilarTopic(t, Head(cand[t]))
          /\ BlockedBy(t) = {} /\ Clashes(t) /\ UNCHANGED faults
       \/ pc[t] \in {"insert", "drop", "dropexpired"} /\ Deadlocked(t) /\ UNCHANGED faults
       \/ pc[t] \in {"search", "recent", "insert", "trim", "drop", "dropexpired"} /\ Fault("db")
    /\ RolledBack({t})
    /\ \/ /\ t \in Syncs
          /\ failing' = [failing EXCEPT ![t] = TRUE]
          /\ Goto(t, "get")
          /\ UNCHANGED outcome
       \/ t \in Cleaners /\ Finish(t, "failed") /\ UNCHANGED failing
    /\ UNCHANGED <<rows, vectors, redis, plan>>

-----------------------------------------------------------------------------
(* Trimming, by a sync after it has stored its rows and by a cleanup.       *)

\* The rows beyond the newest MaxRows.
Overflow(R) == {r \in R : Cardinality({s \in R : s.link > r.link}) >= MaxRows}

\* trim_rows_for_symbol_returning_ids, the SELECT.
Trim(t) ==
    /\ pc[t] = "trim" \/ (pc[t] = "insert" /\ cand[t] = <<>>)
    /\ drop' = [drop EXCEPT ![t] = Overflow(Visible(t))]
    /\ Goto(t, IF drop'[t] # {} THEN "drop" ELSE IF t \in Cleaners THEN "commit" ELSE "stamp")
    /\ UNCHANGED <<rows, vectors, redis, txn, cand, recent, docs, failing, outcome, faults>>

\* delete_expired_rows_returning_ids, the SELECT.
SelectExpired(t) ==
    /\ t \in Cleaners /\ pc[t] = "idle"
    /\ drop' = [drop EXCEPT ![t] = {r \in rows : r.link \in Expired}]
    /\ Goto(t, IF drop'[t] # {} THEN "dropexpired" ELSE "trim")
    /\ UNCHANGED <<rows, vectors, redis, txn, cand, recent, docs, failing, outcome, faults>>

\* A DELETE of the flush; rows that are gone by now are only warned about.
Drop(t) ==
    /\ pc[t] \in {"drop", "dropexpired"}
    /\ BlockedBy(t) = {}
    /\ del' = [del EXCEPT ![t] = @ \union (NextDrop(t) \intersect rows)]
    /\ ins' = [ins EXCEPT ![t] = @ \ NextDrop(t)]
    /\ IF ToDrop(t) = NextDrop(t)
       THEN Goto(t, IF pc[t] = "drop" THEN "unembed" ELSE "unembedexpired")
       ELSE UNCHANGED pc
    /\ UNCHANGED <<rows, vectors, redis, plan, failing, outcome, faults>>

\* A deletion of rows that does not return their ids.
UnembedNothing(t) ==
    /\ pc[t] \in {"unembed", "unembedexpired"}
    /\ Goto(t, IF pc[t] = "unembedexpired" THEN "trim"
               ELSE IF t \in Cleaners THEN "commit" ELSE "stamp")
    /\ UNCHANGED <<rows, vectors, redis, txn, plan, failing, outcome, faults>>

\* _delete_chroma_documents; an error is logged.
Unembed(t) ==
    /\ pc[t] \in {"unembed", "unembedexpired"}
    /\ \/ vectors' = vectors \ drop[t] /\ UNCHANGED faults
       \/ UNCHANGED vectors /\ Fault("chroma")
    /\ Goto(t, IF pc[t] = "unembedexpired" THEN "trim"
               ELSE IF t \in Cleaners THEN "commit" ELSE "stamp")
    /\ UNCHANGED <<rows, redis, txn, plan, failing, outcome>>

\* The cooldown set where the sync begins.
StampFirst(t) ==
    /\ \/ pc[t] = "search" /\ cool # t /\ UNCHANGED pc
       \/ pc[t] = "stamp" /\ Goto(t, "get")
    /\ cool' = t
    /\ UNCHANGED <<rows, vectors, lock, holders, txn, plan, failing, outcome, faults>>

\* _set_last_run; an error is logged, whether or not the command took effect.
Stamp(t) ==
    /\ pc[t] = "stamp"
    /\ \/ cool' = t /\ (UNCHANGED faults \/ Fault("redis"))
       \/ UNCHANGED cool /\ Fault("redis")
    /\ Goto(t, "get")
    /\ UNCHANGED <<rows, vectors, lock, holders, txn, plan, failing, outcome>>

-----------------------------------------------------------------------------
(* _release_lock, in the finally, and the caller's transaction.             *)

AfterRelease(t) ==
    IF failing[t] THEN Finish(t, "failed")
    ELSE Goto(t, AfterSync(t)) /\ UNCHANGED outcome

\* The GET; an error leaves the key to its TTL.
ReleaseGet(t) ==
    /\ pc[t] = "get"
    /\ \/ lock = t /\ Goto(t, "del") /\ UNCHANGED <<holders, outcome, faults>>
       \/ /\ IF lock = t THEN Fault("redis") ELSE UNCHANGED faults
          /\ holders' = holders \ {t}
          /\ AfterRelease(t)
    /\ UNCHANGED <<rows, vectors, lock, cool, txn, plan, failing>>

\* The DELETE; an error may lose it.
ReleaseDel(t) ==
    /\ pc[t] = "del"
    /\ \/ lock' = NoTask /\ (UNCHANGED faults \/ Fault("redis"))
       \/ UNCHANGED lock /\ Fault("redis")
    /\ holders' = holders \ {t}
    /\ AfterRelease(t)
    /\ UNCHANGED <<rows, vectors, cool, txn, plan, failing>>

\* reindex_news_for_symbol lists the rows and fetches the texts it can.
ListRows(t) ==
    /\ pc[t] = "list"
    /\ \E D \in SUBSET Visible(t) :
        /\ docs' = [docs EXCEPT ![t] = D]
        /\ Goto(t, IF D = {} THEN "commit" ELSE "index")
    /\ UNCHANGED <<rows, vectors, redis, txn, cand, recent, drop, failing, outcome, faults>>

\* It writes their vectors; the caller swallows an error.
Index(t) ==
    /\ pc[t] = "index"
    /\ \/ vectors' = vectors \union docs[t] /\ UNCHANGED faults
       \/ UNCHANGED vectors /\ Fault("chroma")
    /\ Goto(t, "commit")
    /\ UNCHANGED <<rows, redis, txn, plan, failing, outcome>>

\* The end of session_scope.  The transaction is lost if a statement of the
\* analyses failed, which the caller has swallowed, or if COMMIT fails.
Commit(t) ==
    /\ pc[t] = "commit"
    /\ \/ rows' = (rows \ del[t]) \union ins[t] /\ Finish(t, "committed") /\ UNCHANGED faults
       \/ UNCHANGED rows /\ Finish(t, "failed") /\ Fault("db")
    /\ RolledBack({t})
    /\ UNCHANGED <<vectors, redis, plan, failing>>

-----------------------------------------------------------------------------
\* The web process and the MCP server each serve some of the watchers; every
\* scheduler is a process.
Processes == (SUBSET Watchers \ {{}}) \union {{t} : t \in Sweepers \union Cleaners}

Live == {t \in Tasks : pc[t] \notin {"idle", "done"}}

\* A process dies: its transactions are rolled back, its key stays.
Crash(P) ==
    /\ P \intersect Live # {}
    /\ Fault("crash")
    /\ LET lost == P \intersect Live
       IN  /\ pc' = [t \in Tasks |-> IF t \in lost THEN "done" ELSE pc[t]]
           /\ outcome' = [t \in Tasks |-> IF t \in lost THEN "failed" ELSE outcome[t]]
           /\ holders' = holders \ lost
           /\ RolledBack(lost)
    /\ UNCHANGED <<rows, vectors, lock, cool, plan, failing>>

\* A key set without EX.
NeverExpires ==
    /\ FALSE
    /\ UNCHANGED vars

\* LOCK_TTL_SECONDS pass.
ExpireLock ==
    /\ lock # NoTask
    /\ TtlOutlastsSyncs => holders = {}
    /\ lock' = NoTask
    /\ UNCHANGED <<rows, vectors, cool, holders, txn, pc, plan, failing, outcome, faults>>

\* COOLDOWN_MINUTES pass.
EndCooldown ==
    /\ cool # NoTask
    /\ cool' = NoTask
    /\ UNCHANGED <<rows, vectors, lock, holders, txn, pc, plan, failing, outcome, faults>>

\* What a task does once it has begun.
Progress(t) ==
    \/ Skip(t) \/ CheckCooldown(t) \/ Search(t) \/ ReadRecent(t)
    \/ SkipSimilar(t) \/ Insert(t) \/ Embed(t) \/ StatementFails(t)
    \/ Trim(t) \/ Drop(t) \/ Unembed(t) \/ Stamp(t)
    \/ ReleaseGet(t) \/ ReleaseDel(t) \/ ListRows(t) \/ Index(t) \/ Commit(t)

Next ==
    \/ \E t \in Tasks : Acquire(t) \/ SelectExpired(t) \/ Progress(t)
    \/ \E P \in Processes : Crash(P)
    \/ ExpireLock \/ EndCooldown

Spec == Init /\ [][Next]_vars

\* A task that has begun goes on: every call it makes has a time-out, a deadlock
\* is broken, and Redis expires the key.
FairSpec ==
    /\ Spec
    /\ \A t \in Tasks : WF_vars(Progress(t))
    /\ WF_vars(ExpireLock)

-----------------------------------------------------------------------------
(* Properties.                                                              *)

Rows == [link : Links, by : Syncs \union {NoTask}]
Pcs == {"idle", "skip", "cooldown", "search", "recent", "insert", "embed", "trim",
        "drop", "dropexpired", "unembed", "unembedexpired", "stamp", "get", "del",
        "list", "index", "commit", "done"}

\* The variables have their types, and only watchers index.
TypeOK ==
    /\ rows \subseteq Rows /\ vectors \subseteq Rows
    /\ lock \in Syncs \union {NoTask} /\ cool \in Syncs \union {NoTask}
    /\ holders \subseteq Syncs
    /\ ins \in [Tasks -> SUBSET Rows] /\ del \in [Tasks -> SUBSET Rows]
    /\ pc \in [Tasks -> Pcs] /\ \A t \in Tasks \ Watchers : pc[t] \notin {"list", "index"}
    /\ cand \in [Tasks -> Seq(Links)] /\ recent \in [Tasks -> SUBSET Links]
    /\ drop \in [Tasks -> SUBSET Rows] /\ docs \in [Tasks -> SUBSET Rows]
    /\ failing \in [Tasks -> BOOLEAN]
    /\ outcome \in [Tasks -> {"none", "committed", "failed"}]
    /\ faults \in 0 .. MaxFaults

\* The rows are the truth and Chroma follows them: as long as nothing fails, a
\* stored row that nobody is deleting can be found by the search, however syncs,
\* sweeps and cleanups interleave, though vectors are deleted before the commit.
\* (A cleanup that loses a deadlock has deleted vectors of rows that stay.)
RowsHaveVectors ==
    faults = 0 /\ (\A c \in Cleaners : outcome[c] # "failed") =>
        \A r \in rows : (\A t \in Tasks : r \notin del[t]) => r \in vectors

\* When all is quiet and nothing has failed, a vector without a row was left by
\* a sync that lost the race for another article and was rolled back, or was
\* written again by a watcher that had listed its row before it was deleted.
OrphanVectorExplained ==
    faults = 0 /\ Live = {} => \A v \in vectors \ rows :
        \/ v.by # NoTask /\ outcome[v.by] = "failed"
        \/ \E w \in Watchers : v \in docs[w]

\* As long as nothing fails, a sync that keeps sweeps away for the cooldown has
\* stored what it found, though it sets the cooldown before its commit.
CooldownMeansStored ==
    faults = 0 /\ cool # NoTask /\ pc[cool] = "done" => outcome[cool] = "committed"

\* The lock is module KeyLock's: a sync enters only when the key is free and
\* nobody is inside, and nobody else frees the key of one that is inside.
Lock == INSTANCE KeyLock WITH
    Keys <- {"news"}, Tasks <- Syncs,
    taken <- IF lock = NoTask THEN {} ELSE {"news"},
    inside <- [k \in {"news"} |-> holders]
LockRefinement == Lock!Spec

\* Every sync and every cleanup ends, and the lock comes free.
TasksEnd == \A t \in Tasks : pc[t] # "idle" ~> pc[t] = "done"
LockComesFree == lock # NoTask ~> lock = NoTask

=============================================================================
