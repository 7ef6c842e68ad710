--------------------------- MODULE WatchlistCache ---------------------------
(***************************************************************************)
(* The caches of one symbol: the watchlist that asks for them, the          *)
(* background syncs that fill them, the sweeps of the schedulers that       *)
(* refresh them and the purge that removes them when the symbol is taken    *)
(* off a watchlist (api/watchlist.py, domain/watchlist_service.py and the   *)
(* ingestion services).                                                     *)
(*                                                                          *)
(* A table is either filled or empty: db[k] says whether rows of the symbol *)
(* are committed.  work[t] is what the open transaction of task t has done  *)
(* to each table.  A row written by an open transaction is locked until its *)
(* end, and PostgreSQL breaks cycles of waiting transactions.               *)
(***************************************************************************)
EXTENDS Naturals, Sequences, FiniteSets

CONSTANTS Users,      \* the users who may watch the symbol
          Chains,     \* background chains of syncs, one per add or refresh
          Sweeps,     \* refreshes of the symbol by a scheduler
          Purges,     \* background purges, one per delete
          NoTask,     \* holds a lock that is free
          MaxFaults   \* how many faults the environment may inject

Tables == {"price", "financial", "technical", "news", "filing"}
Locked == {"news", "financials", "prices"}
ChainOrder == <<"news", "financials", "prices", "filings", "valuation">>
\* A bug to compare with: the purge does not know of the indicators.
PurgeOrderNoIndicators == <<"price", "financial", "news", "filing">>

PurgeOrder == <<"price", "financial", "technical", "news", "filing">>

TableOf == [news |-> "news", financials |-> "financial", prices |-> "price",
            filings |-> "filing", valuation |-> "financial"]
Syncs == Chains \cup Sweeps
Tasks == Syncs \cup Purges

ASSUME WatchAssumption ==
    /\ MaxFaults \in Nat /\ NoTask \notin Tasks
    /\ Chains \cap Sweeps = {} /\ Syncs \cap Purges = {}


VARIABLES
    watching,   \* the users with a row in watchlist
    db,         \* committed rows of the symbol, per table
    work,       \* uncommitted writes of each task, per table
    broken,     \* the tasks whose transaction is aborted
    vec,        \* vectors of the symbol in Chroma, per collection
    lock,       \* who holds the Redis lock of each kind of sync
    todo,       \* what a task has still to do: kinds of syncs, or tables
    pc,         \* the place a task has reached
    faults,
    late,       \* history: the symbol was added while the purge was past its check
    mixed       \* history: since the last rest, a purge past its check met a sync,
                \* or a sweep that its cooldown stops held a lock under a chain

vars == <<watching, db, work, broken, vec, lock, todo, pc, faults, late, mixed>>
rows == <<db, work, broken>>

Untouched == [k \in Tables |-> "none"]
Running(t) == pc[t] # "idle"
Kind(t) == Head(todo[t])
Visible(t, k) == work[t][k] \in {"insert", "update"} \/ (db[k] /\ work[t][k] # "delete")
Holder(t, k) == work[t][k] # "none"
HeldByOther(t, k) == \E u \in Tasks \ {t} : Holder(u, k)

TypeOK ==
    /\ watching \subseteq Users
    /\ late \in BOOLEAN /\ mixed \in BOOLEAN
    /\ db \in [Tables -> BOOLEAN]
    /\ work \in [Tasks -> [Tables -> {"none", "insert", "update", "delete"}]]
    /\ broken \subseteq Tasks
    /\ vec \in [{"news", "filing"} -> BOOLEAN]
    /\ lock \in [Locked -> Tasks \cup {NoTask}]
    /\ pc \in [Tasks -> {"idle", "begin", "upsert", "commitPrices",
                         "indicators", "value", "ratio", "trim",
                         "skip", "release", "list", "vectors", "commit", "unlock",
                         "rollback", "check", "delete", "unvector"}]
    /\ faults \in 0..MaxFaults

Init ==
    /\ watching = {}
    /\ db = [k \in Tables |-> FALSE]
    /\ work = [t \in Tasks |-> Untouched]
    /\ broken = {}
    /\ vec = [k \in {"news", "filing"} |-> FALSE]
    /\ lock = [k \in Locked |-> NoTask]
    /\ todo = [t \in Tasks |-> <<>>]
    /\ pc = [t \in Tasks |-> "idle"]
    /\ faults = 0 /\ late = FALSE /\ mixed = FALSE

-----------------------------------------------------------------------------
(* Moving a task, and the history it leaves                                 *)

Past(p) == p \in Purges /\ pc[p] \in {"delete", "commit", "unvector"}
Quiet == \A t \in Tasks : ~Running(t)

Move(t, place) == pc' = [pc EXCEPT ![t] = place]
Goto(t, place) == Move(t, place) /\ UNCHANGED <<todo, watching>>

Write(t, k, how) == work' = [work EXCEPT ![t][k] = how]

\* ON CONFLICT DO UPDATE: an insert if the row is not there, else an update.
Upserted(t, k) == IF work[t][k] # "none" THEN work[t][k]
                  ELSE IF db[k] THEN "update" ELSE "insert"

-----------------------------------------------------------------------------
(* Requests                                                                 *)

\* POST /api/watchlists: the row is committed, then the chain is queued.
Add(u, t) ==
    /\ u \notin watching /\ t \in Chains /\ pc[t] = "idle"
    /\ watching' = watching \cup {u}
    /\ todo' = [todo EXCEPT ![t] = ChainOrder]
    /\ Move(t, "begin")
    /\ UNCHANGED <<rows, vec, lock>>

\* POST .../refresh: the chain is queued, unless the throttle key is still set.
Refresh(u, t) ==
    /\ u \in watching /\ t \in Chains /\ pc[t] = "idle"
    /\ todo' = [todo EXCEPT ![t] = ChainOrder]
    /\ Move(t, "begin")
    /\ UNCHANGED <<rows, vec, lock, watching>>

\* The MCP tool add_watchlist: a symbol that is watched already is no error, and the
\* chain runs within the call, in a process of its own.
AddByTool(u, t) ==
    /\ t \in Chains /\ pc[t] = "idle"
    /\ watching' = watching \cup {u}
    /\ todo' = [todo EXCEPT ![t] = ChainOrder]
    /\ Move(t, "begin")
    /\ UNCHANGED <<rows, vec, lock>>

\* DELETE .../{symbol}: the row is gone, then the purge is queued.
Delete(u, p) ==
    /\ u \in watching /\ p \in Purges /\ pc[p] = "idle"
    /\ watching' = watching \ {u}
    /\ Move(p, "check")
    /\ UNCHANGED <<rows, vec, lock, todo>>

\* A scheduler has listed the symbols that are watched and comes to this one.
BeginSweep(t) ==
    /\ t \in Sweeps /\ pc[t] = "idle" /\ watching # {}
    /\ \E kind \in {"prices", "financials"} : todo' = [todo EXCEPT ![t] = <<kind>>]
    /\ Move(t, "begin")
    /\ UNCHANGED <<rows, vec, lock, watching>>

-----------------------------------------------------------------------------
(* One sync of a chain or sweep                                             *)

\* SET NX of the sync's lock, then the key of the last sync, which only a sweep
\* respects: it may be set or not. The filing and valuation syncs take no lock.
Acquire(t) ==
    /\ pc[t] = "begin" /\ t \in Syncs /\ Kind(t) \in Locked
    /\ \/ /\ lock[Kind(t)] # NoTask /\ UNCHANGED lock
          /\ Goto(t, IF Kind(t) = "news" THEN "list" ELSE "commit")
       \/ /\ lock[Kind(t)] = NoTask /\ lock' = [lock EXCEPT ![Kind(t)] = t]
          /\ \/ Goto(t, "upsert")
             \/ t \in Sweeps /\ Goto(t, "skip")
    /\ UNCHANGED <<rows, vec>>

BeginUnlocked(t) ==
    /\ pc[t] = "begin" /\ t \in Syncs /\ Kind(t) \notin Locked
    /\ Goto(t, IF Kind(t) = "filings" THEN "upsert" ELSE "value")
    /\ UNCHANGED <<rows, vec, lock>>

\* The fetched rows are written; the vectors of the news with them.
Upsert(t) ==
    /\ pc[t] = "upsert" /\ ~HeldByOther(t, TableOf[Kind(t)])
    /\ Write(t, TableOf[Kind(t)], Upserted(t, TableOf[Kind(t)]))
    /\ vec' = IF Kind(t) = "news" THEN [vec EXCEPT !["news"] = TRUE] ELSE vec
    /\ Goto(t, CASE Kind(t) = "news" -> "release"
                 [] Kind(t) = "financials" -> "value"
                 [] Kind(t) = "prices" -> "commitPrices"
                 [] OTHER -> "vectors")
    /\ UNCHANGED <<db, broken, lock>>

\* What COMMIT makes of the tables, and of the transaction: a roll-back if it is aborted.
Committed(t) == IF t \in broken THEN db
                ELSE [k \in Tables |-> CASE work[t][k] \in {"insert", "update"} -> TRUE
                                         [] work[t][k] = "delete" -> FALSE
                                         [] OTHER -> db[k]]

EndTransaction(t, after) ==
    /\ db' = after
    /\ work' = [work EXCEPT ![t] = Untouched]
    /\ broken' = broken \ {t}

\* The price sync commits its prices before it computes the indicators.
CommitPrices(t) ==
    /\ pc[t] = "commitPrices"
    /\ EndTransaction(t, Committed(t)) /\ Goto(t, "indicators")
    /\ UNCHANGED <<vec, lock>>

Indicators(t) ==
    /\ pc[t] = "indicators"
    /\ \/ ~Visible(t, "price") /\ UNCHANGED work
       \/ /\ Visible(t, "price") /\ ~HeldByOther(t, "technical")
          /\ Write(t, "technical", Upserted(t, "technical"))
    /\ Goto(t, "value")
    /\ UNCHANGED <<db, broken, vec, lock>>

AfterValue(t) == CASE Kind(t) = "financials" -> "release"
                   [] Kind(t) = "prices" -> "trim"
                   [] OTHER -> "commit"

\* The latest price and the market give a ratio, or none; update_latest_valuation
\* selects the latest row ...
Value(t) ==
    /\ pc[t] = "value"
    /\ \/ Goto(t, AfterValue(t))
       \/ Visible(t, "price") /\ Visible(t, "financial") /\ Goto(t, "ratio")
    /\ UNCHANGED <<rows, vec, lock>>

\* ... and the flush updates it: a row deleted in between breaks the session.
FlushRatio(t) ==
    /\ pc[t] = "ratio" /\ ~HeldByOther(t, "financial")
    /\ IF Visible(t, "financial")
       THEN Write(t, "financial", Upserted(t, "financial")) /\ UNCHANGED broken
       ELSE broken' = broken \cup {t} /\ UNCHANGED work
    /\ Goto(t, AfterValue(t))
    /\ UNCHANGED <<db, vec, lock>>

\* Rows beyond the limit are cut and all is committed; an aborted session raises.
TrimAndCommit(t) ==
    /\ pc[t] = "trim"
    /\ IF t \in broken
       THEN Goto(t, "unlock") /\ UNCHANGED rows
       ELSE EndTransaction(t, Committed(t)) /\ Goto(t, "release")
    /\ UNCHANGED <<vec, lock>>

AfterRelease(t) == IF pc[t] = "unlock" THEN "rollback"
                   ELSE IF Kind(t) = "news" THEN "list" ELSE "commit"

Release(t) ==
    /\ pc[t] \in {"skip", "release", "unlock"}
    /\ lock' = [lock EXCEPT ![Kind(t)] = NoTask]
    /\ Goto(t, AfterRelease(t))
    /\ UNCHANGED <<rows, vec>>

\* The reindex of the news lists the rows and scrapes their pages ...
ListRows(t) ==
    /\ pc[t] = "list"
    /\ Goto(t, IF Visible(t, "news") THEN "vectors" ELSE "commit")
    /\ UNCHANGED <<rows, vec, lock>>

\* ... and then writes the vectors of what it has listed; filings likewise.
WriteVectors(t) ==
    /\ pc[t] = "vectors"
    /\ vec' = [vec EXCEPT ![TableOf[Kind(t)]] = TRUE] /\ Goto(t, "commit")
    /\ UNCHANGED <<rows, lock>>

NextSync(t) ==
    /\ todo' = [todo EXCEPT ![t] = Tail(@)]
    /\ Move(t, IF Tail(todo[t]) = <<>> THEN "idle" ELSE "begin")
    /\ UNCHANGED watching

\* session_scope commits, or rolls back what an exception leaves; the chain goes on.
EndSync(t) ==
    /\ t \in Syncs /\ pc[t] \in {"commit", "rollback"}
    /\ EndTransaction(t, IF pc[t] = "commit" THEN Committed(t) ELSE db)
    /\ NextSync(t) /\ UNCHANGED <<vec, lock>>

-----------------------------------------------------------------------------
(* The purge                                                                *)

\* A bug to compare with: the purge does not ask who else watches.
PurgesAnyway(p) ==
    /\ pc[p] = "check"
    /\ Move(p, "delete") /\ todo' = [todo EXCEPT ![p] = PurgeOrder]
    /\ UNCHANGED <<rows, vec, lock, watching>>

CheckWatched(p) ==
    /\ pc[p] = "check"
    /\ IF watching # {}
       THEN Move(p, "idle") /\ UNCHANGED todo
       ELSE Move(p, "delete") /\ todo' = [todo EXCEPT ![p] = PurgeOrder]
    /\ UNCHANGED <<rows, vec, lock, watching>>

\* One step of the purge's list is over, whatever became of it.
NextTable(p) ==
    /\ todo' = [todo EXCEPT ![p] = Tail(@)]
    /\ Move(p, IF Tail(todo[p]) = <<>> THEN "commit" ELSE "delete")
    /\ UNCHANGED watching

\* A DELETE waits for the rows that others have written, and does not see their inserts.
DeleteRows(p) ==
    /\ pc[p] = "delete"
    /\ \/ (p \in broken \/ ~db[Kind(p)]) /\ UNCHANGED work
       \/ /\ p \notin broken /\ db[Kind(p)] /\ ~HeldByOther(p, Kind(p))
          /\ Write(p, Kind(p), "delete")
    /\ NextTable(p)
    /\ UNCHANGED <<db, broken, vec, lock>>

\* Whatever became of the rows, Chroma is next (and the quote key, which lives seconds).
ToStores(p) == Goto(p, "unvector")

CommitPurge(p) ==
    /\ p \in Purges /\ pc[p] = "commit"
    /\ EndTransaction(p, Committed(p)) /\ ToStores(p)
    /\ UNCHANGED <<vec, lock>>

DropVectors(p) ==
    /\ pc[p] = "unvector"
    /\ vec' = [k \in DOMAIN vec |-> FALSE]
    /\ Goto(p, "idle")
    /\ UNCHANGED <<rows, lock>>

-----------------------------------------------------------------------------
(* Waiting, deadlocks and faults                                            *)

\* The table whose rows the next statement of t writes, if it waits for them.
Wants(t) == CASE pc[t] = "upsert" -> {TableOf[Kind(t)]}
              [] pc[t] = "indicators" -> {"technical"}
              [] pc[t] = "ratio" -> {"financial"}
              [] pc[t] = "delete" -> {k \in {Kind(t)} : db[k] /\ t \notin broken}
              [] OTHER -> {}

WaitsFor(t, u) == u # t /\ \E k \in Wants(t) : Holder(u, k)
Deadlocked(t) == \E u \in Tasks : WaitsFor(t, u) /\ (WaitsFor(u, t)
                                   \/ \E v \in Tasks : WaitsFor(u, v) /\ WaitsFor(v, t))

\* An exception: caught around the valuation, the news reindex, each analysis and
\* each DELETE, with the transaction aborted; elsewhere it ends the sync.
StatementFails(t) ==
    /\ \/ /\ pc[t] \in {"value", "ratio"}
          /\ broken' = broken \cup {t} /\ Goto(t, AfterValue(t))
       \/ /\ pc[t] \in {"list", "vectors"} /\ Kind(t) = "news"
          /\ broken' = broken \cup {t} /\ Goto(t, "commit")
       \/ /\ pc[t] = "delete" /\ broken' = broken \cup {t}
          /\ NextTable(t)
       \/ /\ pc[t] \in {"upsert", "commitPrices", "indicators", "trim"}
          /\ UNCHANGED broken
          /\ Goto(t, IF Kind(t) \in Locked THEN "unlock" ELSE "rollback")
       \/ /\ pc[t] = "vectors" /\ Kind(t) = "filings"
          /\ UNCHANGED broken /\ Goto(t, "rollback")
    /\ UNCHANGED <<db, work, vec, lock>>

\* A COMMIT that fails: the sync is over, the purge goes on to the other stores.
CommitFails(t) ==
    /\ pc[t] = "commit"
    /\ EndTransaction(t, db)
    /\ IF t \in Purges THEN ToStores(t) ELSE NextSync(t)
    /\ UNCHANGED <<vec, lock>>

\* Redis or Chroma fails: logged, and the step is skipped.
StoreFails(t) ==
    /\ \/ /\ pc[t] \in {"skip", "release", "unlock"} /\ UNCHANGED vec
          /\ Goto(t, AfterRelease(t))
       \/ /\ pc[t] = "unvector" /\ Goto(t, "idle")
          /\ \E k \in DOMAIN vec : vec' = [c \in DOMAIN vec |-> c = k /\ vec[c]]
    /\ UNCHANGED <<rows, lock>>

\* A process dies with the tasks that it runs: their transactions are rolled back, Redis
\* keeps its keys.
Crash(dead) ==
    /\ \E t \in dead : Running(t)
    /\ pc' = [t \in Tasks |-> IF t \in dead THEN "idle" ELSE pc[t]]
    /\ todo' = [t \in Tasks |-> IF t \in dead THEN <<>> ELSE todo[t]]
    /\ work' = [t \in Tasks |-> IF t \in dead THEN Untouched ELSE work[t]]
    /\ broken' = broken \ dead
    /\ UNCHANGED <<watching, db, vec, lock>>

\* A lock nobody will release goes when its time-to-live is over.
ExpireLock(k) ==
    /\ lock[k] # NoTask
    /\ ~(/\ pc[lock[k]] \in {"upsert", "commitPrices", "indicators", "value", "ratio",
                            "trim", "skip", "release", "unlock"}
         /\ Kind(lock[k]) = k)
    /\ lock' = [lock EXCEPT ![k] = NoTask]
    /\ UNCHANGED <<watching, rows, vec, todo, pc>>

-----------------------------------------------------------------------------
SyncStep(t) ==
    \/ Acquire(t) \/ BeginUnlocked(t) \/ Upsert(t) \/ CommitPrices(t)
    \/ Indicators(t) \/ Value(t) \/ FlushRatio(t) \/ TrimAndCommit(t)
    \/ Release(t) \/ ListRows(t) \/ WriteVectors(t) \/ EndSync(t)

PurgeStep(p) ==
    CheckWatched(p) \/ DeleteRows(p) \/ CommitPurge(p) \/ DropVectors(p)

\* PostgreSQL fails a statement of a cycle of waiting transactions.
BreakDeadlock(t) == Deadlocked(t) /\ StatementFails(t)

Fault == \/ \E t \in Tasks : StatementFails(t) \/ CommitFails(t) \/ StoreFails(t)
         \/ \E dead \in SUBSET Tasks : Crash(dead)

TaskStep(t) == (SyncStep(t) \/ PurgeStep(t) \/ BreakDeadlock(t)) /\ UNCHANGED faults

Request ==
    \/ \E u \in Users, t \in Chains : Add(u, t) \/ Refresh(u, t) \/ AddByTool(u, t)
    \/ \E u \in Users, p \in Purges : Delete(u, p)
    \/ \E t \in Sweeps : BeginSweep(t)

Step ==
    \/ Request /\ UNCHANGED faults
    \/ \E t \in Tasks : TaskStep(t)
    \/ \E k \in Locked : ExpireLock(k) /\ UNCHANGED faults
    \/ faults < MaxFaults /\ faults' = faults + 1 /\ Fault

\* What the properties remember of the past.
History ==
    /\ mixed' = (\/ mixed /\ ~(Quiet /\ \E t \in Chains : Running(t)')
                 \/ \E s \in Syncs, p \in Purges : Running(s)' /\ Past(p)'
                 \/ \E c \in Chains, s \in Sweeps : Running(c)' /\ pc'[s] = "skip")
    /\ late' = (\E p \in Purges : Past(p)' /\ (late \/ (watching = {} /\ watching' # {})))

Next == Step /\ History

Spec == Init /\ [][Next]_vars

-----------------------------------------------------------------------------
(* Properties                                                               *)

Cached == {"price", "financial", "technical", "news", "filing"}

\* Once everything has run, and unless a purge met a running sync, the caches of
\* the symbol and its vectors are there exactly if somebody watches it.
CacheFollowsWatch ==
    Quiet /\ faults = 0 /\ ~mixed =>
        /\ \A k \in Cached : db[k] = (watching # {})
        /\ \A k \in DOMAIN vec : vec[k] = (watching # {})

\* Rows of a symbol that is watched are removed only by a purge that asked before
\* the symbol was added again.
WipeIsStaleCheck ==
    [][(\E k \in Tables : db[k] /\ ~db'[k]) => watching = {} \/ late]_vars
=============================================================================
