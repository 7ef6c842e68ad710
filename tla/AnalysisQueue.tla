--------------------------- MODULE AnalysisQueue ---------------------------
(***************************************************************************)
(* The evidence-analysis queue: a PostgreSQL table, analysis_jobs, filled  *)
(* by the background syncs of a watchlist symbol and emptied by worker     *)
(* processes.                                                              *)
(*                                                                         *)
(* A sync (an indexer here) stores the documents it fetched, a baseline    *)
(* analysis of each and a job for those worth a language model; a worker   *)
(* claims a batch of jobs, analyses each again and settles the jobs.  Each *)
(* of the two does all of this in ONE database transaction: what a process *)
(* writes is kept in jobW and anW, seen by nobody, until it commits, and   *)
(* meanwhile its row locks make the others wait.  PostgreSQL breaks a      *)
(* deadlock by failing the statement of one process of the cycle.          *)
(***************************************************************************)
EXTENDS Naturals, FiniteSets

CONSTANTS
    Docs,           \* documents (news_cache or filing_cache rows), 1 .. n in
                    \* the order list_by_symbol returns them
    NeedsQwen,      \* those of them that pass the gate of _maybe_enrich
    Workers,        \* analysis_worker processes
    Indexers,       \* background syncs of the symbol
    BatchSize,      \* analysis_worker_batch_size
    MaxAttempts,    \* analysis_worker_max_attempts
    MaxRuns,        \* bound on the runs of one indexer
    FaultKinds,     \* subset of {"db", "crash"}
    MaxFaults,      \* bound on the faults of one behaviour
    NoDoc

ASSUME QueueAssumption ==
    /\ Docs \subseteq Nat /\ IsFiniteSet(Docs)
    /\ NeedsQwen \subseteq Docs
    /\ Workers \intersect Indexers = {}
    /\ BatchSize \in Nat \ {0}
    /\ MaxAttempts \in Nat \ {0}
    /\ MaxRuns \in Nat
    /\ MaxFaults \in Nat
    /\ NoDoc \notin Docs

VARIABLES
    job,        \* committed analysis_jobs row of a document
    analysis,   \* who wrote its committed evidence_analysis row
    stored,     \* documents whose own row is committed
    jobW, anW,  \* what a process has written and not committed
    pc, todo, cur,
    broken,     \* whether the process's transaction is in the aborted state
    fresh,      \* documents an indexer has inserted in its last run
    outcome,    \* what that run logged in the end
    runs,       \* runs begun, per indexer
    faults

tables == <<job, analysis, stored>>
writes == <<jobW, anW>>
syncs == <<fresh, outcome, runs>>
vars == <<tables, writes, pc, todo, cur, broken, syncs, faults>>

Procs == Workers \union Indexers
NoJob == [status |-> "absent", attempts |-> 0]
Unset == [status |-> "unset", attempts |-> 0]
NewJob == [status |-> "pending", attempts |-> 0]
NothingWritten(x) ==
    /\ jobW' = [jobW EXCEPT ![x] = [d \in Docs |-> Unset]]
    /\ anW' = [anW EXCEPT ![x] = [d \in Docs |-> "unset"]]

-----------------------------------------------------------------------------
(* Transactions.  A row a transaction has written is locked until its end; *)
(* an error ends it at once, though its process may not know yet.          *)

HasJob(x, d) == ~ broken[x] /\ jobW[x][d].status # "unset"
HasAnalysis(x, d) == ~ broken[x] /\ anW[x][d] # "unset"

\* Those a process is waiting for, when its next statement writes a row of theirs.
BlockedBy(x) ==
    {y \in Procs \ {x} :
        \/ pc[x] \in {"upsert", "baseline"} /\ HasAnalysis(y, cur[x])
        \/ pc[x] = "enqueue" /\ HasJob(y, cur[x])}

\* x is on a cycle of processes that wait for each other.
Deadlocked(x) ==
    \E S \in SUBSET Procs : x \in S /\ UNION {BlockedBy(y) : y \in S} = S

Commit(x) ==
    /\ job' = [d \in Docs |-> IF jobW[x][d].status = "unset" THEN job[d] ELSE jobW[x][d]]
    /\ analysis' = [d \in Docs |-> IF anW[x][d] = "unset" THEN analysis[d] ELSE anW[x][d]]

Fault(f) ==
    /\ f \in FaultKinds
    /\ faults < MaxFaults
    /\ faults' = faults + 1

Goto(x, to) == pc' = [pc EXCEPT ![x] = to]

-----------------------------------------------------------------------------
Init ==
    /\ job = [d \in Docs |-> NoJob]
    /\ analysis = [d \in Docs |-> "none"]
    /\ stored = {}
    /\ jobW = [x \in Procs |-> [d \in Docs |-> Unset]]
    /\ anW = [x \in Procs |-> [d \in Docs |-> "unset"]]
    /\ pc = [x \in Procs |-> "idle"]
    /\ todo = [x \in Procs |-> {}]
    /\ cur = [x \in Procs |-> NoDoc]
    /\ broken = [x \in Procs |-> FALSE]
    /\ fresh = [i \in Indexers |-> {}]
    /\ outcome = [i \in Indexers |-> "none"]
    /\ runs = [i \in Indexers |-> 0]
    /\ faults = 0

-----------------------------------------------------------------------------
(* The worker: run_once.                                                   *)

\* The attempt not counted.
ClaimedUncounted(w, S) ==
    [jobW EXCEPT ![w] = [d \in Docs |->
        IF d \in S THEN [job[d] EXCEPT !.status = "running"] ELSE Unset]]

ClaimedBy(w, S) ==
    [jobW EXCEPT ![w] = [d \in Docs |->
        IF d \in S THEN [status |-> "running", attempts |-> job[d].attempts + 1] ELSE Unset]]

Pending == {d \in Docs : job[d].status = "pending"}

\* SELECT without FOR UPDATE SKIP LOCKED.
AvailableUnlocked == Pending

Available == {d \in Pending : \A x \in Procs : ~ HasJob(x, d)}

\* The oldest pending jobs nobody has locked, as many as fit.  The jobs of one
\* sync share their created_at, so any of them may come first.
Batches ==
    {S \in SUBSET Available \ {{}} :
        \/ Cardinality(S) = BatchSize
        \/ S = Available /\ Cardinality(S) < BatchSize}

\* The claim committed by itself.
ClaimCommitted(w) ==
    /\ pc[w] = "idle"
    /\ \E S \in Batches :
        /\ jobW' = ClaimedBy(w, S)
        /\ job' = [d \in Docs |-> IF d \in S THEN jobW'[w][d] ELSE job[d]]
        /\ todo' = [todo EXCEPT ![w] = S]
    /\ Goto(w, "work")
    /\ UNCHANGED <<analysis, stored, anW, cur, broken, syncs, faults>>

\* claim_batch.
Claim(w) ==
    /\ pc[w] = "idle"
    /\ \E S \in Batches :
        /\ jobW' = ClaimedBy(w, S)
        /\ todo' = [todo EXCEPT ![w] = S]
    /\ Goto(w, "work")
    /\ UNCHANGED <<tables, anW, cur, broken, syncs, faults>>

\* _process_job has read the document and the model has answered: the row of
\* the analysis is sent.
StartUpsert(w) ==
    /\ pc[w] = "work" /\ ~ broken[w]
    /\ \E d \in todo[w] : cur' = [cur EXCEPT ![w] = d]
    /\ Goto(w, "upsert")
    /\ UNCHANGED <<tables, writes, todo, broken, syncs, faults>>

\* upsert_analysis, then mark_done on a row the worker has locked already.
SaveEnriched(w) ==
    /\ pc[w] = "upsert"
    /\ BlockedBy(w) = {}
    /\ anW' = [anW EXCEPT ![w][cur[w]] = "enriched"]
    /\ jobW' = [jobW EXCEPT ![w][cur[w]].status = "done"]
    /\ todo' = [todo EXCEPT ![w] = @ \ {cur[w]}]
    /\ Goto(w, "work")
    /\ UNCHANGED <<tables, cur, broken, syncs, faults>>

StatusAfterOneTooMany(n) == IF n > MaxAttempts THEN "failed" ELSE "pending"

StatusAfterFailure(n) == IF n >= MaxAttempts THEN "failed" ELSE "pending"

\* _process_job raises before it writes (no such document, no answer from the
\* article's site or the model): mark_failed.
MarkFailed(w) ==
    /\ pc[w] = "work" /\ ~ broken[w]
    /\ \E d \in todo[w] :
        /\ jobW' = [jobW EXCEPT ![w][d].status = StatusAfterFailure(jobW[w][d].attempts)]
        /\ todo' = [todo EXCEPT ![w] = @ \ {d}]
    /\ UNCHANGED <<tables, anW, pc, cur, broken, syncs, faults>>

\* A statement of _process_job fails: the flush in mark_failed fails too, in a
\* transaction that is aborted, and its exception leaves run_once.
BreakBatch(w) ==
    /\ pc[w] \in {"work", "upsert"} /\ ~ broken[w]
    /\ \/ Deadlocked(w) /\ UNCHANGED faults
       \/ Fault("db")
    /\ broken' = [broken EXCEPT ![w] = TRUE]
    /\ Goto(w, "work")
    /\ UNCHANGED <<tables, writes, todo, cur, syncs>>

EndBatch(w) ==
    /\ NothingWritten(w)
    /\ todo' = [todo EXCEPT ![w] = {}]
    /\ cur' = [cur EXCEPT ![w] = NoDoc]
    /\ broken' = [broken EXCEPT ![w] = FALSE]
    /\ Goto(w, "idle")

\* The end of session_scope.
CommitBatch(w) ==
    /\ pc[w] = "work" /\ ~ broken[w] /\ todo[w] = {}
    /\ Commit(w)
    /\ EndBatch(w)
    /\ UNCHANGED <<stored, syncs, faults>>

\* session_scope rolls back; main logs "worker batch failed" and goes on.
RollBackBatch(w) ==
    /\ broken[w]
    /\ EndBatch(w)
    /\ UNCHANGED <<tables, syncs, faults>>

-----------------------------------------------------------------------------
(* The indexer: sync_watchlist_news and sync_watchlist_filings.            *)

\* The sync itself stores what it found, and reindex_*_for_symbol lists the
\* symbol's documents, its own new ones included, keeps those whose text it can
\* fetch and writes their vectors.  Two syncs do not insert the same document:
\* the unique key lets one of them only, and the other's INSERT waits for it.
BeginSync(i) ==
    /\ pc[i] = "idle"
    /\ runs[i] < MaxRuns
    /\ runs' = [runs EXCEPT ![i] = @ + 1]
    /\ outcome' = [outcome EXCEPT ![i] = "none"]
    /\ \E F \in SUBSET {d \in Docs \ stored :
                          \A j \in Indexers : pc[j] # "idle" => d \notin fresh[j]} :
        /\ fresh' = [fresh EXCEPT ![i] = F]
        /\ \E S \in SUBSET (stored \union F) : todo' = [todo EXCEPT ![i] = S]
    /\ Goto(i, "index")
    /\ UNCHANGED <<tables, writes, cur, broken, faults>>

\* The next document in the order of the list; its baseline is ready.
NextDoc(i) ==
    /\ pc[i] = "index" /\ ~ broken[i]
    /\ \E d \in todo[i] :
        /\ \A e \in todo[i] : d <= e
        /\ cur' = [cur EXCEPT ![i] = d]
        /\ todo' = [todo EXCEPT ![i] = @ \ {d}]
    /\ Goto(i, "baseline")
    /\ UNCHANGED <<tables, writes, broken, syncs, faults>>

\* analyze_*_row raises before it writes: the next document.
SkipDoc(i) ==
    /\ pc[i] = "baseline"
    /\ Goto(i, "index")
    /\ UNCHANGED <<tables, writes, todo, cur, broken, syncs, faults>>

SaveBaseline(i) ==
    /\ pc[i] = "baseline"
    /\ BlockedBy(i) = {}
    /\ anW' = [anW EXCEPT ![i][cur[i]] = "baseline"]
    /\ Goto(i, IF cur[i] \in NeedsQwen THEN "enqueue" ELSE "index")
    /\ UNCHANGED <<tables, jobW, todo, cur, broken, syncs, faults>>

\* ON CONFLICT DO NOTHING.
EnqueueOnce(i) ==
    /\ pc[i] = "enqueue"
    /\ BlockedBy(i) = {}
    /\ jobW' = IF job[cur[i]] = NoJob THEN [jobW EXCEPT ![i][cur[i]] = NewJob] ELSE jobW
    /\ Goto(i, "index")
    /\ UNCHANGED <<tables, anW, todo, cur, broken, syncs, faults>>

\* The attempts not reset.
EnqueueKeepsAttempts(i) ==
    /\ pc[i] = "enqueue"
    /\ BlockedBy(i) = {}
    /\ jobW' = [jobW EXCEPT ![i][cur[i]] = [job[cur[i]] EXCEPT !.status = "pending"]]
    /\ Goto(i, "index")
    /\ UNCHANGED <<tables, anW, todo, cur, broken, syncs, faults>>

\* enqueue: a job that is there already is reset, whatever its status.
Enqueue(i) ==
    /\ pc[i] = "enqueue"
    /\ BlockedBy(i) = {}
    /\ jobW' = [jobW EXCEPT ![i][cur[i]] = NewJob]
    /\ Goto(i, "index")
    /\ UNCHANGED <<tables, anW, todo, cur, broken, syncs, faults>>

\* A statement fails.  The handler around each document logs it, and the
\* statements for the documents that follow fail in the aborted transaction.
BreakSync(i) ==
    /\ pc[i] \in {"baseline", "enqueue"}
    /\ \/ Deadlocked(i) /\ UNCHANGED faults
       \/ Fault("db")
    /\ broken' = [broken EXCEPT ![i] = TRUE]
    /\ todo' = [todo EXCEPT ![i] = {}]
    /\ Goto(i, "index")
    /\ UNCHANGED <<tables, writes, cur, syncs>>

EndSync(i) ==
    /\ NothingWritten(i)
    /\ cur' = [cur EXCEPT ![i] = NoDoc]
    /\ broken' = [broken EXCEPT ![i] = FALSE]
    /\ Goto(i, "idle")

\* The end of session_scope: COMMIT, which in an aborted transaction rolls back
\* and raises nothing.
CommitSync(i) ==
    /\ pc[i] = "index" /\ todo[i] = {}
    /\ IF broken[i]
       THEN UNCHANGED tables
       ELSE Commit(i) /\ stored' = stored \union fresh[i]
    /\ EndSync(i)
    /\ outcome' = [outcome EXCEPT ![i] = "finished"]
    /\ UNCHANGED <<todo, fresh, runs, faults>>

-----------------------------------------------------------------------------
\* A process dies, or loses its connection; a worker is started again.
Crash(x) ==
    /\ pc[x] # "idle"
    /\ Fault("crash")
    /\ EndBatch(x)
    /\ UNCHANGED <<tables, syncs>>

Work(w) ==
    \/ Claim(w) \/ StartUpsert(w) \/ SaveEnriched(w) \/ MarkFailed(w)
    \/ BreakBatch(w) \/ CommitBatch(w) \/ RollBackBatch(w)

Sync(i) ==
    \/ NextDoc(i) \/ SkipDoc(i) \/ SaveBaseline(i) \/ Enqueue(i)
    \/ BreakSync(i) \/ CommitSync(i)

Next ==
    \/ \E w \in Workers : Work(w)
    \/ \E i \in Indexers : BeginSync(i) \/ Sync(i)
    \/ \E x \in Procs : Crash(x)

Spec == Init /\ [][Next]_vars

\* A worker polls for ever (main), a sync that has begun goes on, and a
\* deadlock is broken after deadlock_timeout.  A row that is released goes to
\* one that waits for it: the waiter is woken at once, and a worker whose batch
\* failed sleeps for analysis_worker_poll_interval before it claims again.
FairSpec ==
    /\ Spec
    /\ \A w \in Workers : WF_vars(Work(w)) /\ SF_vars(SaveEnriched(w))
    /\ \A i \in Indexers :
        /\ WF_vars(Sync(i))
        /\ SF_vars(SaveBaseline(i)) /\ SF_vars(Enqueue(i))

-----------------------------------------------------------------------------
(* Properties.                                                             *)

Statuses == {"absent", "pending", "running", "done", "failed"}

\* The variables have their types.
TypeOK ==
    /\ job \in [Docs -> [status : Statuses, attempts : 0 .. MaxAttempts]]
    /\ analysis \in [Docs -> {"none", "baseline", "enriched"}]
    /\ stored \in SUBSET Docs
    /\ jobW \in [Procs -> [Docs -> [status : Statuses \union {"unset"}, attempts : 0 .. MaxAttempts]]]
    /\ anW \in [Procs -> [Docs -> {"unset", "baseline", "enriched"}]]
    /\ pc \in [Procs -> {"idle", "work", "upsert", "index", "baseline", "enqueue"}]
    /\ todo \in [Procs -> SUBSET Docs]
    /\ cur \in [Procs -> Docs \union {NoDoc}]
    /\ broken \in [Procs -> BOOLEAN]
    /\ fresh \in [Indexers -> SUBSET Docs]
    /\ outcome \in [Indexers -> {"none", "finished"}]
    /\ runs \in [Indexers -> 0 .. MaxRuns]
    /\ faults \in 0 .. MaxFaults

\* No committed job is RUNNING: a worker that dies, at any moment, leaves every
\* job of its batch pending, and nothing has to look for stale locked_at values.
NoJobStranded == \A d \in Docs : job[d].status # "running"

\* Workers do not contend (the docstring of AnalysisJobRepository): no job is
\* in the batches of two of them, and none of them ever waits for another.
WorkersDoNotContend ==
    \A v, w \in Workers : v # w =>
        /\ \A d \in Docs : ~ (HasJob(v, d) /\ HasJob(w, d))
        /\ v \notin BlockedBy(w)

\* A document whose analysis is only the baseline, and which a model should
\* look at, has a job that will see to it, or has had all its attempts: however
\* syncs and workers interleave, the two tables do not come apart.
BaselineIsQueued ==
    \A d \in NeedsQwen :
        analysis[d] = "baseline" => job[d].status \in {"pending", "failed"}

\* A job is given up after exactly MaxAttempts attempts since it was enqueued,
\* and one that is still pending has an attempt left.
AttemptsSpent ==
    \A d \in Docs :
        /\ job[d].status = "failed" => job[d].attempts = MaxAttempts
        /\ job[d].status = "pending" => job[d].attempts < MaxAttempts

\* Every job is settled: no order of syncs, deadlocks and restarts keeps one
\* pending for ever.
JobsSettle ==
    \A d \in Docs : job[d].status = "pending" ~> job[d].status \in {"done", "failed"}

(* What comments say of the queue, and the code does not do.               *)

\* Jobs are isolated from each other (the comment at the worker's handler): a
\* job that fails takes no job with it that was done.
JobIsolation ==
    \A w \in Workers : broken[w] => \A d \in Docs : jobW[w][d].status # "done"

\* The news stay stored if their analysis fails (the comment in
\* sync_watchlist_news).
NewsOutliveAnalysis ==
    \A i \in Indexers : outcome[i] = "finished" /\ pc[i] = "idle" => fresh[i] \subseteq stored

=============================================================================
