# A formal model of the TickerTaka backend

TickerTaka lets a user pick a Korean stock, collects news, filings, prices and
financial statements about it, and stages a debate of language-model agents (a
bull, a bear, a moderator, optionally a judge) over three topics. This directory
holds TLA+ modules that model the parts of the backend (`src/app`) in which
order, concurrency and failure matter, TLC runs that check them on small
instances, and TLAPS proofs of the main invariants for every value of the
constants. `PROJECT.json` maps every definition to the lines it models and lists
runs, mutants, hazards, findings and theorems.

    tlc -config MCDebateRuntime.cfg MCDebateRuntime     # one run
    tlapm DebateRuntime_proofs.tla                      # one proof module

## 1. The system

| component | state | operations | interacts with |
|---|---|---|---|
| Debate graph (`agents/`) | the LangGraph state of one debate: node, topic, turn, round order, moderator flag, tallies, statements, corrections | one superstep per node | run by the execution service; calls models and tools |
| Debate execution (`domain/debate_service.py`, `api/debate.py`, `repositories/debate_repo.py`) | rows `debate_session`, `agent_statement`, `moderator_summary` | create, prepare, stream, delete, replay, publish | guard, graph, PostgreSQL, SSE clients |
| Debate guard (`core/debate_runtime_guard.py`) | Redis `debate:active:*`, `rate:user:*` | try_start_session, end_session, record_token_usage | execution service |
| Checkpoint (`agents/debate_checkpoint.py`) | Redis `debate:checkpoint:*` | save after each chunk, load, clear, merge_state | execution service, summary node |
| Analysis queue (`repositories/analysis_jobs_repository.py`, `workers/analysis_worker.py`) | rows `analysis_jobs`, `evidence_analysis` | enqueue, claim_batch, mark_done, mark_failed | syncs fill it, workers empty it |
| Evidence indexing (`domain/evidence_indexing.py`) | `evidence_analysis`, Chroma | reindex news and filings of a symbol | called inside a sync's transaction |
| Evidence rules (`domain/evidence_analysis.py`) | none (pure) | rules, keywords, classifier and Qwen give a verdict | indexing, worker |
| Evidence retrieval (`domain/evidence_retrieval.py`) | none; reads Chroma and the caches | search, fuse, rerank | debate tools, `save_evidence` |
| News ingestion (`domain/news_ingestion.py`) | `news_cache`, lock and cooldown in Redis, vectors in Chroma | sync_news_for_ticker | watchlist, scheduler, debate tools |
| Price, indicator and financial ingestion | `price_cache`, `technical_indicator_cache`, `financial_statement_cache`, locks and cooldowns | sync_*_for_ticker, both with a valuation at the end | watchlist, schedulers |
| Filing ingestion (`domain/filing_ingestion.py`, `external/dart/`) | `filing_cache`, the file of company codes | list, upsert, text and chunks | watchlist, schedulers |
| Watchlist (`api/watchlist.py`, `domain/watchlist_service.py`) | `watchlist`, refresh slots in Redis | add, delete with purge, refresh, background syncs, the feed | every cache; the MCP tool `add_watchlist` |
| Schedulers (`domain/*_scheduler.py`) | none | run the syncs of all watched symbols, cleanups | ingestion |
| LLM factory and cache (`core/llm_*.py`) | Redis response cache, token counters | retry, fallback to the second model | agents, worker |
| Notion publishing (`integrations/notion_mcp.py`) | `debate_session.notion_*` | publish a debate | debate endpoint |
| Debate evaluation (`domain/debate_evaluation.py`, `run_ragas_eval.py`) | rows `debate_eval_result`, the script's report | score a summary, score the evidence, save; a script that does so again and passes or fails golden cases | scheduled by the graph's last node; deletion of a session |
| Quotes (`domain/intraday_quote.py`) | a key in Redis | read-through | market endpoints, agents, purge |
| Pool (`core/database.py`) | one asyncpg pool | get_pool | market endpoints |

Where it is hard:

* Requests share one event loop but are split at every await; the MCP server is a
  second process that calls `create_debate` on the same rows and keys.
* A session lives in three places (rows, Redis key, task) that are written one
  after the other, by normal ends, refusals, errors, deadlines, clients that
  leave (`CancelledError`, `GeneratorExit`), deletions and process deaths.
* Statements, summary and status are separate transactions.
* The guard is GET, SET NX, INCR, then GET, compare, DEL: each is atomic, the
  sequence is not; Redis errors are swallowed at some places and not at others.
* Syncs and workers write the same rows in transactions that last as long as
  their network calls, in orders of their own: they wait, deadlock and abort.
* The ingestion lock is given back, the cooldown set and vectors written before
  the caller's transaction commits.
* A purge asks once whether somebody watches the symbol and deletes afterwards,
  while syncs that began before it still write.
* Prices are committed before their indicators, and PER and PBR are written by two
  syncs under two locks.
* Calls of a model are retried in two layers, fall back, are cached and counted;
  a request to Notion outlives the one that gave it up.
* The grades of a debate are inserts of their own, made by tasks that swallow every
  error, while the session may be deleted.
* Several endpoints read two tables in two statements while a sync commits between.
* Unpersisted order matters in pure code too: the rules are tried in an order, a
  table's cells are placed by what spans into their row, similar titles are not
  transitive, and search pages shift while they are turned.

What makes each component correct:

* *Graph*: four turns per topic in order whatever the moderator does; round
  orders without gap (they are a unique key); a debate is cut at an agent's own
  third strike and never otherwise; tallies and corrections agree with the
  transcript; the graph ends within LangGraph's recursion limit.
* *Execution*: a completed session is whole and stays so; clients are told what
  the rows say; a row left RUNNING has one of a few known reasons; every request
  ends.
* *Guard*: at most one debate per user and symbol; a release deletes no other
  session's key; a key comes free; the daily limit holds up to a known slack.
* *Queue*: no job is lost, shared or stranded; a baseline that a model should
  improve has a job or has had all its attempts; jobs settle.
* *News*: one sync per symbol within the lock's TTL, rows and vectors agree after
  every outcome, a rolled-back sync does not start a cooldown; of each topic one
  row is kept, and a usable page is not lost.
* *Prices and financials*: no hole that a sync could have filled, rates and
  indicators fit the closes stored, a ratio belongs to the quarter of its row.
* *Filings*: every filing that was there when a sync began is stored; no value of a
  table and no line of a document is lost without one of the known reasons.
* *Watchlist*: what is cached is what is watched once everything has run; rows of
  a watched symbol are wiped only by a purge that looked too early.
* *Feed*: nothing newer is left out than what is shown.
* *Evaluation*: a missing grade tells why, scores are complete or a fault explains it,
  no score outlives its session, a golden case passes only if it was scored.
* *Evidence*: the sentiment and the impact of a verdict agree; rules are not
  overruled; fusion respects the rankings; nothing is quoted that had no row.
* *Models, Notion, quotes, pool*: an answer belongs to its question, a page to its
  session, a quote to the moment it is asked for, a pool to the module.

## 2. Modules

    DebateGraph          the graph of one debate
    DebateRuntime        requests, rows, guard, checkpoint       instantiates KeyLock
    KeyLock              abstract: what a lock with a token and a TTL promises
    AnalysisQueue        jobs, workers, syncs, PostgreSQL locks
    NewsSync             the news of a symbol: rows, vectors     instantiates KeyLock
    WatchlistCache       watchlist, chains of syncs, sweeps and purges of a symbol
    ModelCall            a call of a model: cache, retries, fallback, usage
    NotionPublish        publishers and a deletion of one session
    ConnectionPool       the first requests for the pool
    EvidenceAnalysis     the verdict on a document, twice
    EvidenceRetrieval    search, fusion, evidence saved with a debate
    NewsSelection        which articles of a search become rows
    PriceHistory         closes, change rates, indicators over days
    Valuation            PER and PBR under syncs of two kinds
    DartListing          the pages of the list of filings, the file of codes
    FilingText           tables to lines, documents to chunks
    QuoteCache           the quote of a symbol
    DebateEvaluation     the scores of a debate, the script for golden cases
    WatchlistFeed        the feed of a user
    Services             caches, calls, pages, scores and pool, each alone
    Evidence             what makes evidence of other services' data, each alone
    *_proofs             EXTENDS the module and TLAPS
    MC*, FilingSamples   constants for TLC

`Services` EXTENDS `WatchlistCache` and instantiates `ModelCall`, `NotionPublish`,
`ConnectionPool` and, twice, `DebateEvaluation` (`Evaluation`: a session of the service;
`Regression`: golden cases only); `Evidence` EXTENDS `EvidenceAnalysis` and instantiates
the other eight. These components share no state in the code, or share it through rows
that each of them treats as input, so one specification, `AllSpec`, has them side by side
instead of interleaved: the initial state chooses `which` component a behaviour is about,
and the variables of the others are parked at a constant. The products of the components
would add states and no behaviour. `MCServices` and `MCEvidence` give them constants and
bounds for TLC; the theorems are about `AllSpec` itself.

An operator whose comment says "A bug to compare with" is a plausible mistake in
the code; `PROJECT.json` names, for each property, the definition it replaces and
the property TLC then finds violated.

### DebateGraph

One action is one superstep: `node` says which function of `agents/nodes` runs;
the action applies the patch it returns with the reducers of `state.py` and
follows the edge of `debate_graph.py`. `Router` is `_router`. The moderator's
check is two actions, `CheckOk` and `CheckHallucination`, since only the verdict
matters; what an agent says is left out, except who said it, about which topic,
in which round and order. `Raise` is whatever stops
the graph from outside: a database error, the deadline, `GraphRecursionError`.

### DebateRuntime

A *task* is one request. `pc[t]` is the place it has reached in the code, with
one value between two commands that another task or process may separate:

    CreateDebate / OpenStream+ClaimSession    api/debate.py
    CheckUsage, AcquireGuard, CountDebate     try_start_session
    LoadState, Chunk, StartSummary            run_session / stream_session
    SaveStatement, SaveSummary,
    CompleteSession, ClearCheckpoint          moderator_summary_node
    EndGet, EndDel                            end_session ("1": by the node,
                                              "2": by the service's finally)
    GraphError, FailRow, FailStream           except and finally clauses
    Cancel, CloseGenerator, DropGenerator     a client that leaves
    Crash, ExpireActive, ExpireCheckpoint     process deaths and TTLs

`loop[p]` makes the event loop explicit: a task that has not awaited keeps it, so
that, e.g., two streams cannot both read PENDING in one process. The turns of the
graph are one action (`Chunk`) here; what the summary node stores is
`NumStatements` statements, one transaction each. `holders` is a history
variable: the tasks that set the key and have not let it go.

Left out: the token counter, which is one more refusal that `CheckUsage` may
choose at any time; statement texts and evidence rows; the Redis client being
absent, in which case the guard and the checkpoint do nothing at all; Notion.

### KeyLock

The promise of a key in Redis with a token and a TTL, without GETs and DELs:
`Acquire` needs the key free and nobody inside, `Release` is by the one inside, a
task may `Abandon` the key, and an abandoned key is freed. `DebateRuntime` and
`NewsSync` implement it (`LockRefinement`) with `taken` the keys set in Redis and
`inside` the holders: the guard of the debates for each user and symbol, the lock
of a sync for its one symbol.

### AnalysisQueue

`job`, `analysis` and `stored` are committed rows; `jobW` and `anW` what the open
transaction of a process has written. A written row is locked: `BlockedBy` is who
a process waits for, `Deadlocked` a cycle of them, and PostgreSQL fails one
statement of the cycle (`BreakBatch`, `BreakSync`). `broken` is a transaction in
the aborted state, in which every further statement fails and COMMIT rolls back.
A worker claims with SKIP LOCKED (`Claim`), analyses one job after another
(`StartUpsert`, `SaveEnriched`, `MarkFailed`) and commits the batch at the end of
`session_scope`. A sync stores its documents, and baseline and job for each
(`BeginSync` ... `CommitSync`), all in one transaction too. Left out: which texts
can be fetched (`BeginSync` chooses), the vectors, and the mode in which
`analysis_async_enabled` is off and the queue is not used. `NeedsQwen` is
external to the module: the gate of `_maybe_enrich`.

### NewsSync

One symbol: `rows` is `news_cache`, `vectors` the documents in Chroma, `lock` and
`cool` the keys in Redis. A *watcher* is `sync_watchlist_news` (it ignores the
cooldown and indexes the rows again afterwards, also when its sync was skipped),
a *sweeper* the scheduler's refresh of the symbol, a *cleaner* its cleanup. `pc`
names the statement of `sync_news_for_ticker` a task has reached: `Acquire`,
`CheckCooldown`, `Search`, `ReadRecent`, then `SkipSimilar` or `Insert` and
`Embed` for each article, `Trim`, `Drop`, `Unembed`, `Stamp`, `ReleaseGet` and
`ReleaseDel`; then the caller's `ListRows`, `Index` and `Commit`. `ins` and `del`
are the uncommitted writes of a task; PostgreSQL makes others wait for them
(`BlockedBy`: the unique index on `source_url`, the lock of a deleted row) and
breaks cycles (`Deadlocked`). An exception leaves through the `finally`
(`StatementFails`, then the release).

An article is a number, later ones larger; `UrlOf` is its normalized URL and
`Alike` says which titles `_titles_similar` holds of. Which results pass the
filters and have a text is a free choice of `Search`. Left out: other symbols
(the unique index spans them, so syncs of two symbols meet in it as two syncs of
one do), the daily call counter, Redis being absent, the baseline analyses (they
are in `AnalysisQueue`; a statement of theirs that fails is a lost `Commit`).

`RowsHaveVectors`, `OrphanVectorExplained` and `CooldownMeansStored` are claims
about behaviours without faults: they rule out that interleaving alone pulls
rows, vectors and cooldown apart. With a fault they do come apart, since Chroma
and Redis are written before the commit: a commit that fails leaves the vectors
of rows that are not there and a cooldown for articles that were not stored.

### WatchlistCache

One symbol. `db[k]` says whether table `k` has committed rows of it, `work[t][k]`
what the open transaction of task `t` has done there, `vec` whether Chroma has
vectors. A *chain* is what `_enqueue_symbol_sync` queues after an add or a refresh: news, financials, prices,
filings and a valuation, each in a `session_scope` of its own, each swallowing its
exceptions; `AddByTool` is the MCP tool, which runs the same chain within its call, in a
process of its own: a crash takes any subset of the tasks along; a *sweep* is a scheduler's refresh of prices or financials; a *purge*
is `purge_symbol_cache`. `pc` names the statement a task has reached and `todo`
what is left of its chain or of the purge's tables. `WaitsFor` and `Deadlocked`
are row locks, as in `AnalysisQueue`. A DELETE sees only committed rows and waits
for those another transaction has touched; an UPDATE of a row that has gone breaks
the session (`FlushRatio`). `late` remembers that the symbol was added while a
purge was past its look, `mixed` that a purge past its look met a sync, or that a
sweep held a lock a chain would have needed: `CacheFollowsWatch` is about the
rest, and what is lost in these cases comes back with the next sweep only.

### WatchlistFeed

`SelectNews` and `SelectFilings` are the two SELECTs with their ORDER BY (undated rows
last) and LIMIT, `Merge` the sort in Python, by another date, and the cut. `Change` is
whatever commits between. The answer is a set: how it is sorted is `Newer` itself.

### ModelCall

One call each of the judge or moderator (cached, with a fallback), of a speaker
(retried, excused) or of Qwen (JSON mode, then without, then not at all). `Key` is
`_build_key`, `AfterFailure` the tenacity retry and the handlers behind it,
`Tries` the retries of the client library below it. `Record` is
`record_token_usage` (day first, then session), `Write` the SETEX. Anthropic's
exceptions are not among those retried (`Handled`).

### NotionPublish, ConnectionPool

`Select` is SELECT ... FOR UPDATE and its early returns; `Create` and `Reply` are
Notion's side and the answer; `GiveUp`, `Disconnect` and `Crash` part them, and a
request that was given up may still create its page (`CreateLate`). In
`ConnectionPool` the await between the look and the assignment is `Created`.

### EvidenceAnalysis

A document is what the rules see in it: which rules match, keywords of each sign,
the kind. `Apply` is `InvestmentImpactRuleEngine.apply`, `Stored` the harness,
`Sentiment` and `Impact` the consistency guard and the rule that a news keeps the
classifier's label, `Gate` the worker's question whether to ask the model.
`Baseline`, `MaybeEnrich` and `Enrich` are the two passes; the classifier, which
is deterministic, may fail in the second.

### EvidenceRetrieval

`Query`, `LoadRows` and `Lexical` are the four searches, `Fused` is reciprocal rank
fusion and `Rank` the reranker or the merge by distance. `Gains` is the loop that adds
`1 / (rrf_k + rank)` to a score; `Scale` is a common multiple of all these denominators,
so that the fractions are exact. The code rounds them to floats, whose errors are far
below the smallest difference of two scores; left out is that equal sums of different
terms may come out unequal by a rounding, which then decides instead of the first place.
Meanwhile `Drop` and `Unembed` are trims, cleanups and purges; `SaveEvidence` is the insert at the end of the debate, whose foreign key may refuse,
and `ClearReferences` is ON DELETE SET NULL. A SELECT that fails aborts the
transaction (`broken`), though its error is swallowed.

### NewsSelection

An article is known by its place in the answer of the search. `Group` is one pass of the
loop of `_select_body_candidate_groups` with its two limits, `Scrape` one page of a
group, `Store` one pass of the second loop; `EndGroup`, `EndScrape` and `EndStore` are
where the loops end. What the filters say is a subset of the
search. Another symbol may store an address at any time (`StoredForOther`), since
the unique index is on `source_url` alone and the lock on the symbol. That a group tries
all its pages (`TopicsTried`) has an exception that came up in the proof: an address
that the search gives twice, in two groups, is scraped twice, and the text belongs to the
article it was scraped for last; no article of the first group need be in the table then,
nor one like it, although one of its pages could be used.

### PriceHistory, Valuation

`PriceHistory` has a calendar: `Begin` computes the window, `Fetch` asks KRX (today's
close is not final), `Store` and `Finish` are the two commits, `Cleanup` runs without
the lock. `price[d].base` is the close from which the change rate was computed.
`ReadPrice` and `ReadIndicator` are the two SELECTs of `get_stock_detail`, which a sync
may part; `view` is what the page shows.
`Valuation` follows both syncs through `_sync_latest_valuation_metrics`; `own` is
what a financial sync has written and not committed, `loaded` what SQLAlchemy
compares with before it sends an UPDATE.

### DartListing, FilingText, QuoteCache

`ListPage` reads the page of a list that grows meanwhile; `BeginWrite` and `EndWrite`
are the truncation and the contents of the file of codes. `PutCell` and `NextRow` are the
loops of `_expand_table_to_grid`, `SerializeTable` is `_serialize_grid`, and
`EmptySection`, `ShortSection`, `AddLine`, `EndSection` and `EndDocument` are
`build_filing_chunks` with the loop of `_split_text`, line by line. In `QuoteCache`, `Load` reads the key and judges its age by
the stamp, `Fetch` sees a price, `Store` stamps it with the time of its return.

### DebateEvaluation

`Conclude` is the end of `moderator_summary_node`: the row is completed, and one or two
background tasks are scheduled. `ScoreSummary` and `ScoreEvidence` are the calls of
RAGAS in a thread of the executor, `SaveScore` one `_save_eval_result`, which goes on
whatever becomes of its INSERT. `NaN` is the grade of a metric that failed inside RAGAS
(`raise_exceptions=False`), `None` no grade at all. The script is one more task, with
its cases (`left`), its gate (`Passes`) and its report; `RunSession` scores a session
that is completed and skips any other. `Delete` takes the rows along (ON DELETE CASCADE).
Grades are integers, which `Minimum` cuts as the two minima do.

## 3. Runs

Every passing run explores its instance completely.

| run | instance | states | shows |
|---|---|---|---|
| graph | the deployed constants: 3 topics, threshold 3, limit 64 | 17 456 | all graph properties and `Concludes` |
| runtime | 2 HTTP and 1 MCP request, 2 processes, 2 sessions on one key, 2 statements, one fault of any kind | 1.4 M | guard, rows, replies, lock refinement |
| runtime_live | 1 HTTP and 1 MCP request, one fault | 0.4 M | every request ends, the key comes free |
| runtime_limit | 3 requests, 2 symbols of one user, limit 1, no fault | 2.4 M | the daily limit is overrun by at most one per further process |
| queue | 2 workers, a source with 2 syncs, 2 documents, batch 2, one fault, fair | 133 437 | no job lost or stranded, and every job settles |
| news | a watcher, a sweeper, a cleaner, 5 articles of which 2 are stored, cut to 2 rows, 2 results a search, one fault, the lock may expire at any time | 2.8 M | rows, vectors and cooldown agree |
| news_lock | the same tasks, 4 articles, no sync outlasts its lock | 0.2 M | the lock is a lock, tasks end, the key comes free |
| services | the caches of a symbol: 2 users, a chain, a sweep, a purge, one fault; 2 model calls, one Redis fault; 3 publishers and a deletion, 2 faults; the scores of one debate with a session run of the script, and of two golden cases, one fault; 4 requests for the pool | 2.7 M | caches follow the watchlist; calls, pages, scores and pools are accounted for |
| evidence | all documents with at most 2 rules and 2 keywords a sign; 2 news and a filing of 2 chunks; 5 days, a reader of the page; 2 quarters, 3 syncs; 5 filings, 2 syncs; 3-row tables; 3 articles; 2 readers of a quote; a feed of at most 2 out of 2 news and 2 filings | 3.0 M | verdicts, the evidence of a debate (`EvidenceSound`) and its ranking (`RankFusion`), closes (`PricesConsistent`), ratios and quotes (`NumbersOfTheirTime`), the listing and the feed (`ListsComplete`), texts and topics (`TextsWellChosen`) are what they should be |

Why the bounds are enough. The graph's are the deployed ones, so that run is
exhaustive up to the texts. In the runtime, exclusion, deletion and completion
are between two requests; the third can meet what the second left behind, and
two of the three share an event loop while the third does not. Two statements are
the fewest for which a run can be cut between them. One fault lets every single
error meet every interleaving; several faults are covered by the proofs, where
`MaxFaults` is any number. `runtime_limit` needs a second symbol, for otherwise
the guard itself keeps a second debate from being counted. In the queue two
workers and a source give the lock cycles of worker and sync, a batch of two can be half done, and two attempts distinguish a
retry from giving up. Two syncs with two articles each deadlock on the unique
index, lose the race for an article, or find it stored; two results behind one
link with a title too short to compare are inserted twice by a single sync, which
fails. A limit of two rows makes every insert trim.

In `services` a purge can meet a chain, a sweep and a second add, and a chain runs
again on a refresh; `FaultBound` keeps sweeps away once a fault has happened, since
they repeat what the chain does to the same tables. Two calls are enough for one
to find, overwrite or miss the other's answer; three publishers and two faults for
a page to be lost, another to be created and a third request to be told. In
`evidence` two rules and two keywords of a sign reach every branch of the engine,
one impact is out of range; two chunks make a filing occur twice in a ranking; a
backfill of three days and a limit of three rows in five days make gaps, trims and
late closes meet; three rows of two cells, with spans of two in the first two rows,
let spans collide in every way; three articles let a topic be shared, split by a
non-transitive similarity, or lost to an address; the quote's times-to-live differ
from its greatest age. A request for the page of a stock is over by the end of its day
(`SameDay`). Two rows of each kind and a feed of one or two let both cuts bite, and two
days make every order of dates, known and unknown; three rows at least are there at the
start (`FeedBound`), and one comes or goes in the request. One session, all its ways to
end and grades of one value reach every place of the two background tasks and the
script; the verdicts of golden cases need three values (below, between and above the
minima) and two cases, for the script to go from one to the next. Each component stops when its work is done or its bound is
reached, so no run checks deadlock.

No run checks a `TypeOK`: where a module has proofs, it is a theorem; elsewhere it
documents the variables.

Fairness. `DebateGraph`: the service drives the graph until its stream stops, and
each wait is bounded by the deadline; so the next node runs or the run is cut.
`DebateRuntime`: the event loop runs any task that can go on, each wait of a task
is bounded, and Redis expires keys with a TTL: weak fairness of each task and of
each expiry, none of clients, faults or requests. `AnalysisQueue`: weak fairness
of each worker (`main` polls for ever) and of a sync that has begun; strong
fairness of the statements that wait for a row lock, because PostgreSQL wakes the
waiter when the lock is released, while a worker whose batch failed sleeps
before it claims again. `NewsSync`: every call a task makes has a time-out, and
PostgreSQL breaks deadlocks, so a task that has begun goes on; Redis expires the
lock. No fairness of new syncs or faults: both are bounded.

### Where code and documents disagree

Each of these runs states what a comment or document says and TLC finds the
behaviour of the code that contradicts it; the quotations are in `PROJECT.json`.

| run | the text says | the code does |
|---|---|---|
| runtime_failed_reply | the reply says "failed" | the row stays RUNNING if the guard raised |
| queue_isolation | jobs are isolated | a failed statement rolls back the batch |
| queue_news | news outlive a failed analysis | an aborted transaction loses them, silently |

Other disagreements show in properties that hold. After an intervention the other
agent speaks, since `FourTurnsPerTopic` holds whatever the moderator does, though
the comment at `agents/debate_graph.py:40` sends the debate back to the speaker.
A debate is cut at one agent's third strike (`CutOnlyAtThreshold`), not at the
second of both (`docs/design/sequence-diagram.md:157`). No request ever gets to
`load_checkpoint` while a checkpoint is there (`CheckpointNeverLoaded`), so an
interrupted debate is not resumed (`docs/design/sequence-diagram.md:160`); and the
guard does not fail open where it reads the counters: `UsageError` ends the
request, the same line says otherwise. The chunk of the summary node saves the
checkpoint again after the node has cleared it (`DeliverSummary`). A row that a
crash left RUNNING (`StrandedRowExplained`) is never recorded as FAILED, as
`memo/plans/debate-runtime-infrastructure-plan.md:115` plans. And "upsert
news_cache (source_url unique dedup)" (`docs/design/sequence-diagram.md:40`) is
not what a sync does: two results with one normalized URL and a short title clash
on the index, and `StatementFails` rolls the whole sync back.

Some more, from the modules of the services and the evidence:

* A deletion leaves the caches of the symbol, say `docs/design/interface-definition.md:61`
  and `docs/design/erd.md:294`; the code purges them. It keeps those that others watch, says
  `domain/watchlist_service.py:68`; but it looks once and then deletes, so that a symbol
  added again in between loses what its syncs have stored (`WipeIsStaleCheck` says when).
* The time-to-live of a quote is 30 minutes after the close and a day at weekends
  (`api/market_data.py:203`), but a quote older than 300 s is fetched again: the
  longer times are never used (`QuoteRecent`). Two fetches at once may leave the older
  price with the newer stamp, and a fetch under way stores the quote again after a purge.
* `llm_factory.py:145` promises a fallback after failures; exceptions of the anthropic
  client are neither retried nor followed by the fallback (`Handled`). Answers that
  turn out to be useless are cached like others.
* The financial sync upserts a quarter without touching its ratios, as its comment
  says, and then overwrites the ratios of the latest quarter, also with nothing
  (`Update`). An EPS of zero that KRX reports hides the one derived from the quarter.
* The change rate of a day is to the close of the day before
  (`memo/plans/price-cache-ingestion-plan.md:142`); the first row of an answer of KRX has
  none, also when the row before it is stored (`Base`).
* A table whose first rows have one text spanning all columns loses that text, and
  short tables are dropped, where `docs/filing-ingestion-enhancement.md:442` asks for
  all of them (`LossExplained` names the known losses).
* `source_url` is unique over all symbols: an article about two of them is stored for
  one, and a search that names an address twice loses its whole sync
  (`LostToSharedUrl`).
* A metric that fails is None, says the comment at `models/debate.py:223`; RAGAS reports it
  as NaN, which is stored as the score of a row without an error
  (`MissingGradeExplained` is about None).
* "Scores are saved in debate_eval_result" (`debate_evaluation.py:12`): those of a golden
  case never are, since its session is in no table and the foreign key refuses them; the
  error is logged, and the case passes or fails all the same (`ScoresHaveSession`). A
  golden case whose evidence could not be scored passes as well (`Passes`).
* The MCP tool `add_watchlist` lists each sync that raised as failed, but the syncs swallow
  their exceptions: it reports them all as done.
* The feed is in the order of publication (`api/watchlist.py:143`): a row without that date
  is placed by the date of its retrieval, but last in the SELECT, so it may be cut off
  although it would be on top (`CutUndated`).
* `close_pool` is there, but the server never calls it.

Outside the models, `merge_state` (`agents/debate_checkpoint.py:72`) overwrites
the correction lists that the comment of `state.py:45` says are accumulated.

## 4. Proofs

All theorems hold for every value of the constants under the named assumptions,
which TLC evaluates in the runs.

**DebateGraph_proofs.** `TypeCorrect`, `RoundOrders`, `CutAtThreshold`,
`RecursionLimitSuffices`, from `NumTopics`, `EndThreshold` positive and
`8 * NumTopics + 4 <= RecursionLimit`. The invariant `IInv` is `Typed`,
`Control`, the round orders and the cut. `Control` carries the argument for the
recursion limit: at each node the number of supersteps is a function of topic and
turn (`8 * topic + 2 * turn`), so it is bounded by the topics. The assumption is
as weak as the graph allows: 8 supersteps a topic (speech and check, four times)
and four nodes around them. Three more theorems rest on it, each with an invariant
of its own. `StrikesFollowTranscript` needs `Spoken`: while the moderator checks, the
last statement is the speaker's and not yet struck, so that the next strike adds one
intervention to `Struck`. `TurnsInOrder` and `NothingLeftOut` need `Counted`: the
transcript has `4 * topic + turn - 1` speeches, interventions left aside, so the turn
to come is the number of the next speech; `AfterAll` says that a debate nobody cut
reaches the judge or the summary only with all topics behind it.

**DebateRuntime_proofs.** `TypeCorrect`, `CompletedSessionsAreWhole` and
`Finality` from `ConstantsAssumption` and `OneHttpProcess` (the image starts one
uvicorn worker). The invariant `Control` says who may run a session: between
reading PENDING and writing RUNNING a stream has the event loop (`Claiming`),
hence two requests never run one session (`OneRunner`) and the row of a run is
RUNNING or deleted (`RunningRow`). `Whole` says which statements a run has stored
at each place. `GuardExclusion`, `DelOwnKey` and `ImplementsLock` need one more
assumption, `TtlOutlastsRuns`: no run outlives the 1800 s of its key. The
deadline of 300 s gives that unless a client that reads slowly holds its stream
up. `Holding` and `Deleting` are the strengthening: who has the key is alive and
the key names its session, also between GET and DEL. `ImplementsLock` maps every
step to a step of `KeyLock` or a stutter.

Five more theorems say what becomes of a run, without that assumption. `Fate` is the
invariant of `SuccessIsCompletion` and `StrandedRowsExplained`: the exception that a
task is unwinding says what it has made of its row (`Unwinding`), for `Ended` and `Over`
sessions stay so (`OverStays`), and only a task that is done has answered.
`StillExplained` then shows for all tasks' steps at once that a row is left RUNNING only
with an excuse. `KeysHaveHolders` needs `Kept`, in which the key names the session of
its holder as long as nothing has failed; a key that expired early may have two holders,
and the one it names is enough. `NoResume` rests on `Fresh`: a checkpoint is left only
by a run past `load_checkpoint`, and a session runs once. `LimitPassedByProcesses`
counts the processes that have let a debate through and not counted it yet (`Passed`):
that number and the counter stay within the bound together, since no task leaves its
event loop in between (`Looping`); it assumes finitely many processes, and one at least
(`FiniteProcs`).

**AnalysisQueue_proofs.** `TypeCorrect`, `NothingStranded`, `NoContention`,
`BaselinesQueued`, `AttemptsCounted` from `QueueAssumption`, for any number of
processes and faults. The properties are about committed rows, and no induction
on these alone goes through; `IInv` adds what an open transaction may hold:
`Places` (where a process may be), `Locks` (no job row is locked twice), `Batch`
(what a worker has written) and `Pass` (a sync with a baseline to commit has the
job for it, or is about to).

**NewsSync_proofs.** `ImplementsLock`: every step of a sync, sweep or cleanup is a
step of `KeyLock` or a stutter, if no sync outlasts its TTL (`TtlOutlastsSyncs`,
without which a sync whose key has expired is inside beside its successor). The
invariant `Held` says that a sync between `Acquire` and its release is a holder
and that every holder's token is in the key. `CooldownStored` needs no such
assumption: `Stamped` follows a sync from `Stamp` to its commit and shows that
only a fault can come between, since no exception is under way when the cooldown
is set. `VectorsFollowRows` and
`OrphansExplained` rest on four invariants about what an open transaction has done.
`Own` says that a task inserts only its own rows and deletes only `Settled` ones, hence
no other task can bring a deleted row back; `Dropped`, that the DELETEs come before the
vectors are taken away; `Found`, that a row without its vector is being deleted by a task
past the point where a statement may fail (`Bare`; a cleanup may still lose a deadlock
there, the exception that `RowsHaveVectors` makes); `Left`, that each vector without a
row has an excuse that lasts until all is quiet.

**Evidence_proofs: the verdict.** `HarnessIdle`, `ModelOverrulesNothing` and `IdleJobs`, for
every bound on the keywords, every threshold of the gate and every set of integers
that the model may name. The argument is a case analysis of the engine:
`BaseImpactAgrees`, `RuleSound` and `KeywordsSound` show that each branch yields a
sentiment and an impact of compatible signs, `ApplySound` puts them together, and
`StoredAsItIs` then says that the harness repairs nothing. That a rule decides at
all needs the least matching index (`SomeRuleDecides`, by cases, since there is no
induction). The invariant adds `UntilEnriched` (the verdict stored until the worker
comes is the engine's on the classifier's label alone) and `QueuedForReason` (a
queued document has passed its gate). `IdleJobs` assumes a threshold above zero: at
zero every news is queued.

**Evidence_proofs: prices, ratios, quotes, lists, retrieval, texts, topics.**
`PricesAreConsistent`, `NumbersTimely`, `ListsAreComplete`, `EvidenceIsSound`,
`FusionKeepsRankings` and `TextsAreWellChosen` are theorems of `AllSpec`. Each component is argued
about alone, and a lemma of its own (`PricesAlone`, `RatiosAlone`, `QuoteAlone`,
`ListAlone`, `RetrievalAlone`, `FeedAlone`, `FilingAlone`, `SelectionAlone`) says that a behaviour of the composition is one of the component
or never concerns it.

* *Prices.* For any backfill, overwriting, table size and window of the averages. `Whole`
  says of any two rows what `HistoryIsWhole` says of the oldest and the newest; that a sync
  closes its gap or puts it into `unasked` needs `SyncOfRange`, what a sync in flight has
  asked for and was given: it reaches back to a stored row or as far as a backfill, has
  every day but the last for good, and has no other sync beside it. Change rates need a
  stronger fact than theirs, which trimming does not preserve: `RatesOfDayBefore`, the rate
  of a row is from the trading day before it, stored or not. The indicators fit the closes
  because what only the indicators have is older than the rows that are kept
  (`IndicatorsOlder`), also after a sync that died and a cleanup of one table; so the days
  that are trimmed are the same in both (`NewestAmong`), which is an argument about
  cardinalities of the days after a day (`Since`).

* *Ratios.* A session writes to the row that is the latest by then, and
  `RatioOfItsRow` says nothing of what it has read before. `KeysHeld` gives each lock one
  holder, so that without an overlap of the kinds (`met`) a single financial sync has
  uncommitted rows; `Reads` then says that the quarter a sync has read is the latest
  still, among all rows committed or not (`Stored`), for only a financial sync adds
  quarters, and it does so before it reads. That trimming keeps the latest row needs a
  latest member of a set of naturals (`HasLatest`), which the library's well-foundedness
  of finite subsets gives without an induction of our own. `LatestValued` is the half
  about faults: except while a price sync is between its closes and its commit, the
  latest row is valued at the close that is stored.
* *Quotes.* `Stamped` ties stamps, prices and times of fetches together, which gives the
  age; `NewestKept` says that without overlap and error one reader fetches at a time and
  nobody has seen an older price than the one in Redis.
* *Filings.* `ListedSoFar`: a filing that was there at the start is listed, or is on a
  page that has not been asked for, since those that come in meanwhile only move it to
  later pages. `PagesSuffice` is the arithmetic of the number of pages, for every page
  size; the answer counts the pages anew on each page.
* *Retrieval.* For any finite sets of news and filings and any limits, whatever vectors
  Chroma still has. `ListsQuotable`: whatever a list names had its row at some time since
  the search began (`Quotable`), so the same holds of what is fused, merged, reranked
  and cut (`EvidenceQuotable`); a later cleanup can only move it from `rows` to `gone`.
  `EvidenceSaved` follows each document of the evidence from the debate to its record: it
  waits in `unsaved`, is saved, or is gone, and a live reference has its row since the
  foreign key refuses or clears the others. Distinctness comes from the fused order being
  an order of a set; as `EvidenceDistinct` counts the documents named, `DistinctCount` turns it
  into a cardinality. The scores do not matter here.
* *Fusion.* For any limits, any `rrf_k` above zero and any `Scale` that makes the weights
  whole (`FusionAssumption`): a document that outranks another in each list is before it
  in the fused one. The sums are recursive functions, and there is no induction over
  data; instead `SumsExist` takes the union of all beginnings of a sum, and a claim about
  all of them is proved by its least counterexample (`UpTo`). The claim is
  `GainsOrdered`: after each beginning of a list the one that outranks has gained more, by
  at least the weight of the next rank for each place that it has more there. Its places
  are at least as many (`Ahead`), and the weights fall (`WeightsFall`),
  so the surplus only grows. Where the scores are equal, the first place decides.
* *Feed.* `ListsCut`: a row that has been there all the time is in its list, or the list
  is full of rows that are not behind it. The two orders differ, so what the merge leaves
  out is compared by counting (`FullListCut`): if the feed shows a row of the other list,
  some row of the full list was cut by the merge too, and lies between the two.
* *Texts.* For any tables, any documents and any limit on the characters of a chunk; spans
  are positive, as `_span_to_int` makes them, and a line ends after the one before it
  (`TextAssumption`). `GridInv` says that each cell has a slot in the first row that it
  spans (`HasFirstSlot`), since a cell of a later row starts lower and one of the same row
  further right; and that a cell one column wide, in a table without wider ones, has
  all its rows in that column (`HasItsRows`), since nothing else is ever put on a
  slot that is taken. That the first gives `LossExplained` needs the least row that tells
  something (`HasLeast`). `ChunkInv` says that the lines before the current chunk are in
  one chunk each (`LinesIn`), in order and of the right size (`ChunksRight`), and that
  what is in the current chunk fits (`CurrentFits`).
* *Topics.* For any answers of the search (`SearchAssumption`). Of `SelectionInv`,
  `TextsKept` follows each usable text until its article has been gone through and is in
  the table or has a like one there; `GroupsTried` each group until a page could be used or
  none is left; `RowsFound` says that a row of this sync comes from an article that was
  found before all those in the queue, so that a unique index that is broken with no
  fault was broken by an address found twice. That titles are alike is symmetric
  (`SimilarSymmetric`) but not transitive, and nothing rests on more.

**WatchlistCache_proofs.** `CachesTypeCorrect` and `WipesAreStale`, for any number of
users, chains, sweeps, purges and faults, from `WatchAssumption` (the kinds of tasks
are disjoint). Rows go when a transaction commits that has deleted them. `WorkOK`
says that no sync deletes any and `PlacesOK` that no sync ever stands where a purge
does, so it is a purge past its look; `PastExplained` says that such a purge found
nobody watching, and that if somebody watches now, `late` is set. That invariant is
kept by every step, whichever task takes it, because a purge can only come past its
look while `watching` is empty (`EntersUnwatched`) and `late` is set by any step that
makes `watching` non-empty while one is past it.
`CachesFollowWatch` needs more than any other theorem here, since nothing in the state of
a table says who will fill it. `Shape` follows what each task has still to do: the place
fits the kind of sync (`PlaceFitsKind`), a purge has written only tables that it has
passed (`PurgeFits`), rows have one writer and a lock is held by the sync of its kind. At a
fault the shape is lost, and the property claims nothing then. `Settles` adds, as long as
no purge past its look has met a sync (`mixed`), that each table of a watched symbol has its rows
or some sync on its way to write them (`Filling`), and that each row of an unwatched one
has a purge that will still delete it (`Emptying`). As syncs and such purges are apart,
no circle of waiting transactions can form either, so that no deadlock breaks in.
When all is quiet, nobody is on the way, and what remains is the property.

**DebateEvaluation_proofs.** `EvaluationTypeCorrect`, `GradesExplained`,
`CompleteScores`, `ScoresOnRecord`, `PassesAreScored` and `ReportsAreWhole`, the
invariants that `Services` states as parts of `BackgroundAccounted`, for any number of
sessions, golden cases, grades and faults; `Constants` says that grades are not below
zero (so NaN and None are none) and that golden cases are not sessions. `Explained`
follows a grade from its evaluation to its row, `Saved` says which rows a background
task has stored at each place as long as nothing has failed, `Scheduling` that both
tasks of a debate begin together and when it completes, and `Cases` that each case of
the script is under way, left, or has its one verdict.

**Services_proofs.** `CallersAnswered`, `OnePage` and `BackgroundWork`, theorems of
`AllSpec` for any number of callers, requests, sessions, golden cases and faults. *Calls*:
the cache has under each key an answer to the messages of the key (`CacheSound`),
so a hit is as good as a request; `Effort` bounds the requests sent by the attempts
that have failed and the retries below them; and as long as Redis works the counted
answers are `Counted`, a set to which each call belongs from the moment its usage is
recorded. *Pool*: of the creations that have begun, all but one began during another's
(`Races`, an inequality between cardinalities), so a pool nobody holds was raced for. *Pages*: a publisher whose
connection lasts has the row locked, with no page stored and the session there
(`RowLocked`), so its commit replaces no page, and whoever was told a page was told the
stored one (`PageTold`). *Scores*: `DebateEvaluation_proofs` is instantiated twice, as
its module is in `Services`, and its theorems are carried over.

**Only model-checked.** The liveness properties (`Concludes`, `RequestsEnd`,
`KeyComesFree`, `JobsSettle`, `TasksEnd`, `LockComesFree`): the prover does no liveness
under fairness, and no ENABLED. Every other property of a passing run is stated by a theorem.
`GuardExclusive`, `DelOnlyOwnKey`, `WorkersDoNotContend` and the types are proved
and no longer run.

## 5. Not modelled, and why

* Scripts, seeds, tests, migrations, configuration, schemas: no behaviour at run
  time, beyond the unique keys and defaults that appear in guards.
* Market-data endpoints other than the page of a stock and the quote: single queries and
  views of what they return.
* The analyses that the feed joins to its rows, and the names of symbols.
* What RAGAS makes of a text: any grade, NaN or an error.
* The arithmetic of the indicators beyond which closes they average, and the parsing
  of numbers, dates and pages: what they return is a free choice where it matters.
  So is what the news filters say of a title or a page.
* KRX's adjusted closes: a split changes closes that are already stored, and the
  overwriting of the last days does not reach them; `PriceHistory` has final closes
  stay final.
* A NaN that the model answers as impact; an empty answer of the embedding service.
* Footnotes of tables. The texts of prompts, events and pages.
* Providers are taken to report the tokens they used; without a report nothing is counted.
* What Redis and Chroma do while they are absent from the configuration: the code
  that would call them does nothing.

## 6. Plan

Done: DebateGraph, DebateRuntime, KeyLock and its refinement, AnalysisQueue, NewsSync
and their proofs; then WatchlistCache, ModelCall, NotionPublish, ConnectionPool,
EvidenceAnalysis, EvidenceRetrieval, NewsSelection, PriceHistory, Valuation,
DartListing, FilingText, QuoteCache, DebateEvaluation and WatchlistFeed, composed in
Services and Evidence, with proofs for the caches, the services, the verdicts, prices,
ratios, quotes, listings, retrieval and its fusion, the feed, the texts of filings and
the topics of news.
Left:

1. Composition: DebateGraph inside DebateRuntime (the statements saved are the
   transcript); an abstract job queue that AnalysisQueue implements; a read-through
   cache that QuoteCache and ModelCall implement.
2. Liveness of WatchlistCache: a symbol that stays watched has its caches again after
   the next sweep of each kind.
