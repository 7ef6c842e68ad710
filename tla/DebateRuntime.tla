--------------------------- MODULE DebateRuntime ---------------------------
(***************************************************************************)
(* How a debate is run: the requests that create, stream and delete a      *)
(* debate session, the per-user/per-symbol guard and the daily counter in  *)
(* Redis, the checkpoint in Redis and the session, statement and summary   *)
(* rows in PostgreSQL.                                                     *)
(*                                                                         *)
(* A task is one request being served.  It runs on the event loop of a     *)
(* process: between two awaits no other task of that process runs, but the *)
(* other processes (the MCP server calls create_debate too) interleave at  *)
(* every Redis and database command.  loop[p] names the task that is       *)
(* between two awaits in process p.  A statement sent with an await takes  *)
(* effect in the database at any moment, so its action needs no loop.      *)
(***************************************************************************)
EXTENDS Naturals, FiniteSets

CONSTANTS
    Sessions,       \* debate_session identifiers
    Keys,           \* (user, symbol) pairs: the identifiers of active keys
    Users,
    Tasks,          \* requests that run a debate
    Procs,          \* processes that serve them, each with one event loop
    HttpProcs,      \* those of them that serve the HTTP API (and so streams)
    KeyOf,          \* the (user, symbol) of a session
    UserOf,         \* the user of a key
    ProcOf,         \* the process that serves a task
    NumStatements,  \* rows a whole debate saves, its summary statement included
    MaxDebates,     \* max_debates_per_user_per_day
    TtlOutlastsRuns, \* whether no run lasts longer than the TTL of its key
    FaultKinds,     \* subset of {"redis", "db", "crash"}
    MaxFaults,      \* bound on the faults of one behaviour
    NoSession,      \* an active key that is not set
    NoTask          \* an event loop that is not inside a task

ASSUME ConstantsAssumption ==
    /\ HttpProcs \subseteq Procs
    /\ KeyOf \in [Sessions -> Keys]
    /\ UserOf \in [Keys -> Users]
    /\ ProcOf \in [Tasks -> Procs]
    /\ NumStatements \in Nat \ {0}
    /\ MaxDebates \in Nat
    /\ TtlOutlastsRuns \in BOOLEAN
    /\ MaxFaults \in Nat
    /\ NoSession \notin Sessions
    /\ NoTask \notin Tasks

ASSUME FiniteProcs == IsFiniteSet(Procs) /\ Procs # {}

\* The image starts one uvicorn worker (src/Dockerfile:48).
ASSUME OneHttpProcess == \A p, q \in HttpProcs : p = q

VARIABLES
    row,        \* debate_session.status, "absent" before and "deleted" after
    stmts,      \* round_order values of the session's agent_statement rows
    summary,    \* whether the session has a moderator_summary row
    active,     \* Redis debate:active:{user}:{symbol}
    debates,    \* Redis rate:user:{user}:debates:{date}, of one day
    ckpt,       \* whether Redis holds debate:checkpoint:{session}
    pc,         \* where a task is; each value is explained at its action
    kind,       \* the endpoint a task serves
    sess,       \* the session a task runs
    upto,       \* statements a task has saved
    exc,        \* the exception a task is unwinding, or has unwound
    reply,      \* what the client saw in the end
    loop,       \* the task an event loop is inside of
    holders,    \* tasks that set the active key and have not let it go: a
                \* history variable, no code reads it
    faults      \* faults so far

db == <<row, stmts, summary>>
redis == <<active, debates, ckpt>>
request == <<kind, sess>>
vars == <<db, redis, pc, request, upto, exc, reply, loop, holders, faults>>

Statuses == {"absent", "pending", "running", "completed", "failed", "deleted"}
Stored == {"pending", "running", "completed", "failed"}
Orders == 1 .. NumStatements

GuardPcs == {"acquire", "incr", "load"}
GraphPcs == {"graph", "debating", "save", "summarize", "complete", "clear", "deliver"}
EndPcs == {"get1", "del1", "get2", "del2"}
Pcs == {"idle", "claim", "usage", "failrow", "failstream", "respond", "done"}
          \union GuardPcs \union GraphPcs \union EndPcs

K(t) == KeyOf[sess[t]]
Live == {t \in Tasks : pc[t] \notin {"idle", "done"}}

-----------------------------------------------------------------------------
(* Control.                                                                *)

Goto(t, to) == pc' = [pc EXCEPT ![t] = to]

\* The event loop of t's process is t's, or nobody's.
Scheduled(t) == loop[ProcOf[t]] \in {t, NoTask}
Keep(t) == loop' = [loop EXCEPT ![ProcOf[t]] = t]
Await(t) == loop' = [loop EXCEPT ![ProcOf[t]] = NoTask]

Finish(t, r) ==
    /\ Goto(t, "done")
    /\ reply' = [reply EXCEPT ![t] = r]

Fault(f) ==
    /\ f \in FaultKinds
    /\ faults < MaxFaults
    /\ faults' = faults + 1

Unless(f) == UNCHANGED faults \/ Fault(f)

-----------------------------------------------------------------------------
Init ==
    /\ row = [s \in Sessions |-> "absent"]
    /\ stmts = [s \in Sessions |-> {}]
    /\ summary = [s \in Sessions |-> FALSE]
    /\ active = [k \in Keys |-> NoSession]
    /\ debates = [u \in Users |-> 0]
    /\ ckpt = [s \in Sessions |-> FALSE]
    /\ pc = [t \in Tasks |-> "idle"]
    /\ kind = [t \in Tasks |-> "none"]
    /\ sess = [t \in Tasks |-> NoSession]
    /\ upto = [t \in Tasks |-> 0]
    /\ exc = [t \in Tasks |-> "none"]
    /\ reply = [t \in Tasks |-> "none"]
    /\ loop = [p \in Procs |-> NoTask]
    /\ holders = {}
    /\ faults = 0

-----------------------------------------------------------------------------
(* The endpoints.                                                          *)

Accept(t, knd, s) ==
    /\ pc[t] = "idle"
    /\ Scheduled(t)
    /\ kind' = [kind EXCEPT ![t] = knd]
    /\ sess' = [sess EXCEPT ![t] = s]

\* create_debate (HTTP, or the MCP tool start_debate): inserts the row as
\* RUNNING and goes straight on into try_start_session.
CreateDebate(t, s) ==
    /\ row[s] = "absent"
    /\ Accept(t, "create", s)
    /\ row' = [row EXCEPT ![s] = "running"]
    /\ Goto(t, "usage")
    /\ Keep(t)
    /\ UNCHANGED <<stmts, summary, redis, upto, exc, reply, holders, faults>>

\* prepare_debate_session, a plain function: it runs in the thread pool.
PrepareSession(s) ==
    /\ row[s] = "absent"
    /\ row' = [row EXCEPT ![s] = "pending"]
    /\ UNCHANGED <<stmts, summary, redis, pc, request, upto, exc, reply, loop, holders, faults>>

\* stream_debate that takes a failed session for one that may run.
OpenStreamOnFailed(t, s) ==
    /\ ProcOf[t] \in HttpProcs
    /\ row[s] \in {"pending", "failed"}
    /\ Accept(t, "stream", s)
    /\ Goto(t, "claim")
    /\ Keep(t)
    /\ UNCHANGED <<db, redis, upto, exc, reply, holders, faults>>

\* stream_debate reads the row: a running debate is refused with 409, a
\* finished one is replayed, a failed one answered with its error.
OpenStream(t, s) ==
    /\ ProcOf[t] \in HttpProcs
    /\ row[s] \in Stored
    /\ Accept(t, "stream", s)
    /\ \/ /\ row[s] = "pending"
          /\ Goto(t, "claim")
          /\ Keep(t)
          /\ UNCHANGED reply
       \/ /\ row[s] # "pending"
          /\ Finish(t, CASE row[s] = "running" -> "conflict"
                         [] row[s] = "completed" -> "replay"
                         [] row[s] = "failed" -> "failure")
          /\ UNCHANGED loop
    /\ UNCHANGED <<db, redis, upto, exc, holders, faults>>

\* stream_debate commits RUNNING and returns the response; its generator, and
\* with it try_start_session, starts later.  If the row went away in between
\* the UPDATE matches nothing and the request fails.
ClaimSession(t) ==
    /\ pc[t] = "claim"
    /\ Scheduled(t)
    /\ \/ /\ row[sess[t]] \in Stored
          /\ row' = [row EXCEPT ![sess[t]] = "running"]
          /\ Goto(t, "usage")
          /\ UNCHANGED reply
       \/ /\ row[sess[t]] \notin Stored
          /\ Finish(t, "error")
          /\ UNCHANGED row
    /\ Await(t)
    /\ UNCHANGED <<stmts, summary, redis, request, upto, exc, holders, faults>>

\* delete_debate, in the thread pool, whatever the status; the foreign keys
\* cascade.
DeleteDebate(s) ==
    /\ row[s] \in Stored
    /\ row' = [row EXCEPT ![s] = "deleted"]
    /\ stmts' = [stmts EXCEPT ![s] = {}]
    /\ summary' = [summary EXCEPT ![s] = FALSE]
    /\ UNCHANGED <<redis, pc, request, upto, exc, reply, loop, holders, faults>>

-----------------------------------------------------------------------------
(* DebateRuntimeGuard.try_start_session.                                   *)

\* A refused create deletes its row again and answers 409; a refused stream
\* reports it and goes on to its finally.
Reject(t) ==
    /\ exc' = [exc EXCEPT ![t] = "rejected"]
    /\ \/ /\ kind[t] = "create"
          /\ row' = [row EXCEPT ![sess[t]] = "deleted"]
          /\ Finish(t, "rejected")
       \/ /\ kind[t] = "stream"
          /\ Goto(t, "failstream")
          /\ UNCHANGED <<row, reply>>
    /\ Await(t)

\* get_usage raises: try_start_session has no handler for it, and neither the
\* call in run_session nor the one in stream_session is inside its try block.
\* create_debate answers 503, stream_debate reports it and fails the row.
UsageError(t) ==
    /\ Fault("redis")
    /\ exc' = [exc EXCEPT ![t] = "guard"]
    /\ \/ kind[t] = "create" /\ Finish(t, "failed")
       \/ kind[t] = "stream" /\ Goto(t, "failstream") /\ UNCHANGED reply
    /\ Await(t)
    /\ UNCHANGED row

\* One too many let through: the counter compared with > instead of >=.
BelowOrAtLimit(u) == debates[u] <= MaxDebates

BelowDailyLimit(u) == debates[u] < MaxDebates

\* The daily counters.  The token total is another counter of the same shape;
\* its refusal is a free choice here.
CheckUsage(t) ==
    /\ pc[t] = "usage"
    /\ Scheduled(t)
    /\ \/ /\ BelowDailyLimit(UserOf[K(t)])
          /\ Goto(t, "acquire")
          /\ Keep(t)
          /\ UNCHANGED <<row, exc, reply, faults>>
       \/ Reject(t) /\ UNCHANGED faults
       \/ UsageError(t)
    /\ UNCHANGED <<stmts, summary, redis, request, upto, holders>>

\* SET without NX.
KeyAlwaysSettable(k) == TRUE

KeySettable(k) == active[k] = NoSession

\* SET active_key session_id NX EX ttl.  An error lets the debate start
\* without the guard, whether or not the command took effect.
AcquireGuard(t) ==
    /\ pc[t] = "acquire"
    /\ Scheduled(t)
    /\ \/ /\ KeySettable(K(t))
          /\ active' = [active EXCEPT ![K(t)] = sess[t]]
          /\ holders' = holders \union {t}
          /\ \/ Goto(t, "incr") /\ UNCHANGED faults
             \/ Goto(t, "load") /\ Fault("redis")
          /\ Keep(t)
          /\ UNCHANGED <<row, exc, reply>>
       \/ /\ ~ KeySettable(K(t))
          /\ Reject(t)
          /\ UNCHANGED <<active, holders, faults>>
       \/ /\ Fault("redis")
          /\ Goto(t, "load")
          /\ Keep(t)
          /\ UNCHANGED <<row, active, exc, reply, holders>>
    /\ UNCHANGED <<stmts, summary, debates, ckpt, request, upto>>

\* INCR of the daily counter; an error is logged, and the counter may or may
\* not have moved.
CountDebate(t) ==
    /\ pc[t] = "incr"
    /\ Scheduled(t)
    /\ \/ debates' = [debates EXCEPT ![UserOf[K(t)]] = @ + 1] /\ Unless("redis")
       \/ UNCHANGED debates /\ Fault("redis")
    /\ Goto(t, "load")
    /\ Keep(t)
    /\ UNCHANGED <<db, active, ckpt, request, upto, exc, reply, holders>>

\* load_checkpoint or _build_initial_state, then the first await.
LoadState(t) ==
    /\ pc[t] = "load"
    /\ Scheduled(t)
    /\ Goto(t, "graph")
    /\ Await(t)
    /\ UNCHANGED <<db, redis, request, upto, exc, reply, holders, faults>>

-----------------------------------------------------------------------------
(* The graph, one chunk after another; module DebateGraph has the turns.   *)

\* A chunk reaches the service, which merges it and saves the checkpoint.  A
\* later chunk changes nothing here once the checkpoint is there.
Chunk(t) ==
    /\ pc[t] = "graph" \/ (pc[t] = "debating" /\ ~ ckpt[sess[t]])
    /\ Scheduled(t)
    /\ Goto(t, "debating")
    /\ \/ ckpt' = [ckpt EXCEPT ![sess[t]] = TRUE] /\ UNCHANGED faults
       \/ UNCHANGED ckpt /\ Fault("redis")
    /\ UNCHANGED <<db, active, debates, request, upto, exc, reply, loop, holders>>

\* moderator_summary starts: its model call is done, the first INSERT is sent.
StartSummary(t) ==
    /\ pc[t] = "debating"
    /\ Scheduled(t)
    /\ Goto(t, "save")
    /\ UNCHANGED <<db, redis, request, upto, exc, reply, loop, holders, faults>>

\* An INSERT that fails on the foreign key or on uq_statement_order raises.
CanInsert(t) ==
    row[sess[t]] \in Stored /\ upto[t] + 1 \notin stmts[sess[t]]

\* The last statement missed by one.
SaveStatementOneMore(t) ==
    /\ pc[t] = "save"
    /\ CanInsert(t)
    /\ stmts' = [stmts EXCEPT ![sess[t]] = @ \union {upto[t] + 1}]
    /\ upto' = [upto EXCEPT ![t] = @ + 1]
    /\ Goto(t, IF upto[t] = NumStatements THEN "summarize" ELSE "save")
    /\ UNCHANGED <<row, summary, redis, request, exc, reply, loop, holders, faults>>

\* save_statement commits every statement by itself, the summary's last.
SaveStatement(t) ==
    /\ pc[t] = "save"
    /\ CanInsert(t)
    /\ stmts' = [stmts EXCEPT ![sess[t]] = @ \union {upto[t] + 1}]
    /\ upto' = [upto EXCEPT ![t] = @ + 1]
    /\ Goto(t, IF upto[t] + 1 = NumStatements THEN "summarize" ELSE "save")
    /\ UNCHANGED <<row, summary, redis, request, exc, reply, loop, holders, faults>>

\* The session marked completed before its summary is stored.
CompleteFirst(t) ==
    /\ pc[t] = "summarize"
    /\ row' = [row EXCEPT ![sess[t]] =
                  IF row[sess[t]] \in Stored THEN "completed" ELSE @]
    /\ Goto(t, "complete")
    /\ UNCHANGED <<stmts, summary, redis, request, upto, exc, reply, loop, holders, faults>>

\* save_moderator_summary, an upsert.
SaveSummary(t) ==
    /\ pc[t] = "summarize"
    /\ row[sess[t]] \in Stored
    /\ summary' = [summary EXCEPT ![sess[t]] = TRUE]
    /\ Goto(t, "complete")
    /\ UNCHANGED <<row, stmts, redis, request, upto, exc, reply, loop, holders, faults>>

\* update_session_status("completed") has no condition on the status.
CompleteSession(t) ==
    /\ pc[t] = "complete"
    /\ row' = [row EXCEPT ![sess[t]] =
                  IF row[sess[t]] \in Stored THEN "completed" ELSE @]
    /\ Goto(t, "clear")
    /\ UNCHANGED <<stmts, summary, redis, request, upto, exc, reply, loop, holders, faults>>

\* clear_checkpoint, after which the node goes on into end_session.
ClearCheckpoint(t) ==
    /\ pc[t] = "clear"
    /\ Scheduled(t)
    /\ \/ ckpt' = [ckpt EXCEPT ![sess[t]] = FALSE] /\ UNCHANGED faults
       \/ UNCHANGED ckpt /\ Fault("redis")
    /\ Goto(t, "get1")
    /\ Keep(t)
    /\ UNCHANGED <<db, active, debates, request, upto, exc, reply, holders>>

\* The chunk of moderator_summary reaches the service, which merges it and
\* saves the checkpoint once more.
DeliverSummary(t) ==
    /\ pc[t] = "deliver"
    /\ Scheduled(t)
    /\ \/ ckpt' = [ckpt EXCEPT ![sess[t]] = TRUE] /\ UNCHANGED faults
       \/ UNCHANGED ckpt /\ Fault("redis")
    /\ Goto(t, "get2")
    /\ UNCHANGED <<db, active, debates, request, upto, exc, reply, loop, holders>>

-----------------------------------------------------------------------------
(* DebateRuntimeGuard.end_session: a GET, a comparison and a DEL.  The     *)
(* summary node calls it ("get1", "del1") and then the service's finally   *)
(* ("get2", "del2").                                                       *)

AfterEnd(t) ==
    IF pc[t] \in {"get1", "del1"} THEN "deliver"
    ELSE IF exc[t] \in {"none", "closed", "closed_unsaved"} THEN "respond"
    ELSE IF kind[t] = "stream" THEN "failstream" ELSE "respond"

\* A release that does not look whose key it is.
AnyKeyIsOurs(t) == active[K(t)] # NoSession

KeyIsOurs(t) == active[K(t)] = sess[t]

\* An error, or a key that is no longer ours, ends end_session here.
EndGet(t) ==
    /\ pc[t] \in {"get1", "get2"}
    /\ Scheduled(t)
    /\ \/ /\ KeyIsOurs(t)
          /\ Goto(t, IF pc[t] = "get1" THEN "del1" ELSE "del2")
          /\ Keep(t)
          /\ UNCHANGED <<holders, faults>>
       \/ /\ IF KeyIsOurs(t) THEN Fault("redis") ELSE UNCHANGED faults
          /\ Goto(t, AfterEnd(t))
          /\ Await(t)
          /\ holders' = holders \ {t}
    /\ UNCHANGED <<db, redis, request, upto, exc, reply>>

\* The DEL deletes whatever the key holds by now; an error may lose it.
EndDel(t) ==
    /\ pc[t] \in {"del1", "del2"}
    /\ Scheduled(t)
    /\ \/ active' = [active EXCEPT ![K(t)] = NoSession] /\ Unless("redis")
       \/ UNCHANGED active /\ Fault("redis")
    /\ holders' = holders \ {t}
    /\ Goto(t, AfterEnd(t))
    /\ Await(t)
    /\ UNCHANGED <<db, debates, ckpt, request, upto, exc, reply>>

-----------------------------------------------------------------------------
(* Errors, cancellation and the answers.                                   *)

\* A database error, a constraint, or the deadline of the whole graph, at any
\* await of the graph; run_session and stream_session then fail the row.
GraphError(t) ==
    /\ pc[t] \in GraphPcs
    /\ loop[ProcOf[t]] # t
    /\ exc' = [exc EXCEPT ![t] = "error"]
    /\ Goto(t, "failrow")
    /\ UNCHANGED <<db, redis, request, upto, reply, loop, holders, faults>>

\* A failure that overwrites whatever the status was.
FailUnlessDeleted(s) ==
    [row EXCEPT ![s] = IF @ \in Stored THEN "failed" ELSE @]

\* fail_session_if_running: UPDATE ... WHERE status = 'running'.
FailIfRunning(s) ==
    [row EXCEPT ![s] = IF @ = "running" THEN "failed" ELSE @]

\* An except clause that does not raise again.
FailRowSwallowed(t) ==
    /\ pc[t] = "failrow"
    /\ row' = FailIfRunning(sess[t])
    /\ exc' = [exc EXCEPT ![t] = "none"]
    /\ Goto(t, "get2")
    /\ UNCHANGED <<stmts, summary, redis, request, upto, reply, loop, holders, faults>>

\* An UPDATE repeated until it matches a running row.
FailRowUntilMatched(t) ==
    /\ pc[t] = "failrow"
    /\ row[sess[t]] = "running"
    /\ row' = FailIfRunning(sess[t])
    /\ Goto(t, "get2")
    /\ UNCHANGED <<stmts, summary, redis, request, upto, exc, reply, loop, holders, faults>>

\* The except clause of run_session and stream_session.  If the UPDATE fails
\* too, its exception takes the place of the first.
FailRow(t) ==
    /\ pc[t] = "failrow"
    /\ \/ row' = FailIfRunning(sess[t]) /\ UNCHANGED <<exc, faults>>
       \/ UNCHANGED row /\ Fault("db") /\ exc' = [exc EXCEPT ![t] = "unsaved"]
    /\ Goto(t, "get2")
    /\ UNCHANGED <<stmts, summary, redis, request, upto, reply, loop, holders>>

\* A cancelled stream whose generator forgets the row.
FailStreamForgotten(t) ==
    /\ pc[t] = "failstream"
    /\ IF exc[t] = "closed" THEN Goto(t, "get2") /\ UNCHANGED reply
                            ELSE Finish(t, IF exc[t] = "cancel" THEN "cancelled" ELSE "failed")
    /\ UNCHANGED <<db, redis, request, upto, exc, loop, holders, faults>>

\* The finally of event_generator, shielded from cancellation.  A generator
\* closed at its yield gets here first and releases the guard afterwards.
FailStream(t) ==
    /\ pc[t] = "failstream"
    /\ \/ row' = FailIfRunning(sess[t]) /\ UNCHANGED <<exc, faults>>
       \/ /\ UNCHANGED row
          /\ Fault("db")
          /\ exc' = [exc EXCEPT ![t] = IF @ = "closed" THEN "closed_unsaved" ELSE "unsaved"]
    /\ IF exc[t] = "closed" THEN Goto(t, "get2") /\ UNCHANGED reply
                            ELSE Finish(t, IF exc[t] = "cancel" THEN "cancelled" ELSE "failed")
    /\ UNCHANGED <<stmts, summary, redis, request, upto, loop, holders>>

\* A client leaves; the guard and the row are then up to the finally clauses,
\* for CancelledError and GeneratorExit pass `except Exception`.
Cancelled(t, how, to) ==
    /\ exc' = [exc EXCEPT ![t] = how]
    /\ Goto(t, to)

\* A cancellation after which end_session is not called.
CancelWithoutFinally(t) ==
    /\ pc[t] \in GraphPcs \union {"failrow"}
    /\ loop[ProcOf[t]] # t
    /\ kind[t] = "stream" \/ ProcOf[t] \notin HttpProcs
    /\ Cancelled(t, "cancel", IF kind[t] = "stream" THEN "failstream" ELSE "respond")
    /\ UNCHANGED <<db, redis, request, upto, reply, loop, holders, faults>>

\* CancelledError at an await: the SSE response cancels its generator, the MCP
\* server cancels the tool call.  create_debate over HTTP is never cancelled.
Cancel(t) ==
    /\ pc[t] \in GraphPcs \union {"failrow"}
    /\ loop[ProcOf[t]] # t
    /\ kind[t] = "stream" \/ ProcOf[t] \notin HttpProcs
    /\ Cancelled(t, "cancel", "get2")
    /\ UNCHANGED <<db, redis, request, upto, reply, loop, holders, faults>>

\* GeneratorExit at a yield, when the response was cancelled while it sent an
\* event: the outer generator is closed first, the inner one after it.
CloseGenerator(t) ==
    /\ pc[t] \in {"graph", "debating"}
    /\ kind[t] = "stream"
    /\ loop[ProcOf[t]] # t
    /\ Cancelled(t, "closed", "failstream")
    /\ UNCHANGED <<db, redis, request, upto, reply, loop, holders, faults>>

\* The response is dropped before its generator was started: a generator that
\* never ran has no finally.
DropGenerator(t) ==
    /\ pc[t] = "usage"
    /\ kind[t] = "stream"
    /\ loop[ProcOf[t]] # t
    /\ exc' = [exc EXCEPT ![t] = "unstarted"]
    /\ Finish(t, "cancelled")
    /\ UNCHANGED <<db, redis, request, upto, loop, holders, faults>>

\* The service has returned or raised.  The stream sends its "done" event,
\* create_debate builds its answer from the rows, or answers 503; either of
\* these two fails with 500 when the row is gone.
Respond(t) ==
    /\ pc[t] = "respond"
    /\ Scheduled(t)
    /\ Finish(t, IF exc[t] \in {"cancel", "closed", "closed_unsaved"} THEN "cancelled"
                 ELSE IF kind[t] = "create" /\ row[sess[t]] \notin Stored THEN "error"
                 ELSE IF exc[t] = "none" THEN "success" ELSE "failed")
    /\ UNCHANGED <<db, redis, request, upto, exc, loop, holders, faults>>

\* A process dies, and everything it was doing with it.  Starting it again
\* changes no row and no key.
Crash(p) ==
    /\ Fault("crash")
    /\ \E t \in Live : ProcOf[t] = p
    /\ LET lost == {t \in Live : ProcOf[t] = p}
       IN  /\ pc' = [t \in Tasks |-> IF t \in lost THEN "done" ELSE pc[t]]
           /\ reply' = [t \in Tasks |-> IF t \in lost THEN "lost" ELSE reply[t]]
           /\ holders' = holders \ lost
    /\ loop' = [loop EXCEPT ![p] = NoTask]
    /\ UNCHANGED <<db, redis, request, upto, exc>>

-----------------------------------------------------------------------------
(* Time.  A checkpoint lives for 24 h.  The active key lives for 1800 s, and *)
(* the deadline of a graph is 300 s: no run outlives its key then, unless a  *)
(* client that stops reading holds its stream up, for the deadline is not    *)
(* looked at while an event is being sent.                                   *)

\* The key set without EX.
ActiveWithoutTtl(k) ==
    /\ UNCHANGED vars
    /\ FALSE

ExpireActive(k) ==
    /\ active[k] # NoSession
    /\ TtlOutlastsRuns => \A t \in Live : sess[t] # active[k]
    /\ active' = [active EXCEPT ![k] = NoSession]
    /\ UNCHANGED <<db, debates, ckpt, pc, request, upto, exc, reply, loop, holders, faults>>

ExpireCheckpoint(s) ==
    /\ ckpt[s]
    /\ \A t \in Live : sess[t] # s
    /\ ckpt' = [ckpt EXCEPT ![s] = FALSE]
    /\ UNCHANGED <<db, active, debates, pc, request, upto, exc, reply, loop, holders, faults>>

-----------------------------------------------------------------------------
\* The database refuses what the summary node sends: that error is certain.
Refused(t) ==
    /\ (pc[t] = "save" /\ ~ CanInsert(t)) \/ (pc[t] = "summarize" /\ row[sess[t]] \notin Stored)
    /\ GraphError(t)

\* What a task does when nothing goes wrong around it.
Progress(t) ==
    \/ ClaimSession(t) \/ CheckUsage(t) \/ AcquireGuard(t) \/ CountDebate(t)
    \/ LoadState(t) \/ Chunk(t) \/ StartSummary(t)
    \/ SaveStatement(t) \/ SaveSummary(t) \/ CompleteSession(t) \/ Refused(t)
    \/ ClearCheckpoint(t) \/ DeliverSummary(t) \/ EndGet(t) \/ EndDel(t)
    \/ FailRow(t) \/ FailStream(t) \/ Respond(t)

Next ==
    \/ \E t \in Tasks, s \in Sessions : CreateDebate(t, s) \/ OpenStream(t, s)
    \/ \E s \in Sessions : PrepareSession(s) \/ DeleteDebate(s) \/ ExpireCheckpoint(s)
    \/ \E t \in Tasks : \/ Progress(t) \/ GraphError(t)
                        \/ Cancel(t) \/ CloseGenerator(t) \/ DropGenerator(t)
    \/ \E p \in Procs : Crash(p)
    \/ \E k \in Keys : ExpireActive(k)

Spec == Init /\ [][Next]_vars

\* The event loop runs every task that can go on, each wait of a task is
\* bounded (asyncpg and the model calls answer or raise, the graph has its
\* deadline), and Redis expires what has a TTL.
FairSpec ==
    /\ Spec
    /\ \A t \in Tasks : WF_vars(Progress(t))
    /\ \A k \in Keys : WF_vars(ExpireActive(k))

-----------------------------------------------------------------------------
(* Properties.                                                             *)

Excs == {"none", "rejected", "guard", "error", "unsaved", "cancel", "closed",
         "closed_unsaved", "unstarted"}
Replies == {"none", "success", "replay", "conflict", "failure", "rejected",
            "failed", "cancelled", "error", "lost"}

\* The variables have their types.
TypeOK ==
    /\ row \in [Sessions -> Statuses]
    /\ stmts \in [Sessions -> SUBSET Orders]
    /\ summary \in [Sessions -> BOOLEAN]
    /\ active \in [Keys -> Sessions \union {NoSession}]
    /\ debates \in [Users -> Nat]
    /\ ckpt \in [Sessions -> BOOLEAN]
    /\ pc \in [Tasks -> Pcs]
    /\ kind \in [Tasks -> {"none", "create", "stream"}]
    /\ sess \in [Tasks -> Sessions \union {NoSession}]
    /\ \A t \in Tasks : sess[t] = NoSession => pc[t] = "idle"
    /\ upto \in [Tasks -> 0 .. NumStatements]
    /\ exc \in [Tasks -> Excs]
    /\ reply \in [Tasks -> Replies]
    /\ loop \in [Procs -> Tasks \union {NoTask}]
    /\ holders \in SUBSET Tasks
    /\ faults \in 0 .. MaxFaults

\* One debate at a time per user and symbol: of the tasks that acquired the
\* active key and have not released it, no two are for the same key, and the
\* key in Redis names the session of the one there is.
GuardExclusive ==
    /\ \A t, u \in holders : K(t) = K(u) => t = u
    /\ \A t \in holders : active[K(t)] = sess[t]

\* end_session only ever deletes its own session's key: between its GET and
\* its DEL the key can expire, but it cannot become another session's.
DelOnlyOwnKey ==
    \A t \in Tasks : pc[t] \in {"del1", "del2"} => active[K(t)] \in {sess[t], NoSession}

\* As long as nothing fails, a key that is set belongs to a request in flight:
\* errors, refusals, deadlines and clients that leave all give the key back.
NoOrphanLock ==
    faults = 0 => \A k \in Keys :
        active[k] # NoSession => \E t \in holders \intersect Live : K(t) = k

\* A session the rows call completed is whole: each of its statements and its
\* summary are stored.
CompletedIsWhole ==
    \A s \in Sessions : row[s] = "completed" => stmts[s] = Orders /\ summary[s]

\* A client that is told of success finds the session completed, unless it was
\* deleted meanwhile.
SuccessMeansCompleted ==
    \A t \in Tasks : reply[t] \in {"success", "replay"} => row[sess[t]] \in {"completed", "deleted"}

\* A session is RUNNING without a request that runs it for one of five reasons
\* only: the process died, the guard's counters could not be read, the row
\* could not be failed, the stream was dropped before its generator began, or
\* the MCP client cancelled its create.
StrandedRowExplained ==
    \A s \in Sessions :
        row[s] = "running" /\ (\A t \in Live : sess[t] # s) =>
            \E t \in Tasks :
                /\ sess[t] = s
                /\ \/ reply[t] = "lost"
                   \/ exc[t] \in {"guard", "unsaved", "closed_unsaved", "unstarted"}
                   \/ kind[t] = "create" /\ reply[t] = "cancelled"

\* Reading the daily counter and incrementing it are two commands: each process
\* beyond the first lets through one debate too many at most.
DailyLimit ==
    \A u \in Users : debates[u] <= MaxDebates + Cardinality(Procs) - 1

\* A run always starts from the initial state: no checkpoint is there to load
\* when a request gets to load_checkpoint.
CheckpointNeverLoaded == \A t \in Tasks : pc[t] = "load" => ~ ckpt[sess[t]]

\* A completed or failed session stays so until it is deleted: no late failure
\* handler, second stream or late summary overturns it, and nobody runs it again.
TerminalIsFinal ==
    [][\A s \in Sessions : row[s] \in {"completed", "failed"}
            => row'[s] \in {row[s], "deleted"}]_vars

\* The active key is the lock of module KeyLock: a request enters only when
\* the key is free and nobody is inside, and the key of a request that is inside
\* is freed by that request alone.
Lock == INSTANCE KeyLock WITH
    taken <- {k \in Keys : active[k] # NoSession},
    inside <- [k \in Keys |-> {t \in holders : K(t) = k}]
LockRefinement == Lock!Spec

\* Every request ends, whatever fails around it.
RequestsEnd == \A t \in Tasks : pc[t] # "idle" ~> pc[t] = "done"

\* The key of a user and symbol always becomes free again, if need be by its TTL.
KeyComesFree == \A k \in Keys : active[k] # NoSession ~> active[k] = NoSession

(* What the code of the runtime says, and does not do.                      *)

\* The 503 answer of create_debate says "status": "failed": the row is failed.
FailedReplyMeansFailedRow ==
    \A t \in Tasks : reply[t] = "failed" => row[sess[t]] \in {"failed", "deleted"}

=============================================================================
