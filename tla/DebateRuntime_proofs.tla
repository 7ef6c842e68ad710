------------------------ MODULE DebateRuntime_proofs ------------------------
(***************************************************************************)
(* Proofs about DebateRuntime, for any number of sessions, requests, users, *)
(* symbols, statements and faults, and any assignment of requests to        *)
(* processes of which one serves HTTP.                                      *)
(***************************************************************************)
EXTENDS DebateRuntime, FiniteSetTheorems, TLAPS

-----------------------------------------------------------------------------
(* The inductive invariant.                                                *)

\* Where a task may be before it has saved anything.
EarlyPcs == {"idle", "claim", "usage", "graph", "debating"} \union GuardPcs

\* Where a task's session is still to be completed.
RunPcs == {"usage", "graph", "debating", "save", "summarize", "complete"} \union GuardPcs

\* Where a task may be that has the active key.
HoldPcs == {"incr", "load", "graph", "debating", "save", "summarize", "complete",
            "clear", "failrow"} \union EndPcs

\* A task saves its statements one by one, from the first to the last.
Saving ==
    \A t \in Tasks :
        /\ pc[t] \in EarlyPcs => upto[t] = 0
        /\ pc[t] = "save" => upto[t] < NumStatements

\* Between reading PENDING and writing RUNNING a stream has the event loop of
\* the HTTP process to itself, and nothing else runs a pending session.
Claiming ==
    /\ \A t \in Tasks :
           pc[t] = "claim" => /\ ProcOf[t] \in HttpProcs
                              /\ loop[ProcOf[t]] = t
                              /\ row[sess[t]] \in {"pending", "deleted"}
    /\ \A t \in Live : row[sess[t]] = "pending" => pc[t] = "claim"
    /\ \A t \in Tasks, s \in Sessions : row[s] = "absent" => sess[t] # s

\* Two requests never run one session.
OneRunner == \A t, r \in Live : sess[t] = sess[r] => t = r

\* The row of a run that is not over is RUNNING, unless it was deleted.
RunningRow == \A t \in Tasks : pc[t] \in RunPcs => row[sess[t]] \in {"running", "deleted"}

\* Who has the key is alive, and the key says so.
Holding ==
    \A t \in holders :
        /\ pc[t] \in HoldPcs \/ (pc[t] = "failstream" /\ exc[t] = "closed")
        /\ active[K(t)] = sess[t]

\* From its GET to its DEL a task's key stays its session's.
Deleting == \A t \in Tasks : pc[t] \in {"del1", "del2"} => active[K(t)] = sess[t]

\* Where a task may be before its last statement is saved.
FirstPcs == {"claim", "usage", "graph", "debating", "save"} \union GuardPcs

\* What a run has saved is there in full, unless the session was deleted; a
\* session not run yet has nothing.
Whole ==
    /\ \A s \in Sessions : row[s] \in {"absent", "pending"} => stmts[s] = {}
    /\ \A t \in Tasks : row[sess[t]] # "deleted" =>
           /\ pc[t] \in FirstPcs => stmts[sess[t]] = 1 .. upto[t]
           /\ pc[t] \in {"summarize", "complete"} => stmts[sess[t]] = Orders
           /\ pc[t] = "complete" => summary[sess[t]]
    /\ CompletedIsWhole

Control == TypeOK /\ Saving /\ Claiming /\ OneRunner /\ RunningRow
Guarded == Holding /\ Deleting
IInv == Control /\ Guarded

USE ConstantsAssumption, OneHttpProcess
USE DEF db, redis, request, Goto, Keep, Await, Scheduled, Finish, Fault, Unless, Live,
        GuardPcs, GraphPcs, EndPcs, Stored

LEMMA InitIInv == Init => IInv
  BY DEF Init, IInv, Control, Guarded, TypeOK, Saving, Claiming, OneRunner, RunningRow,
         Holding, Deleting, Statuses, Pcs, Excs, Replies, EarlyPcs, RunPcs, GuardPcs, GraphPcs, EndPcs

LEMMA NextControl == Control /\ [Next]_vars => Control'
  <1> SUFFICES ASSUME Control, [Next]_vars PROVE Control'
    OBVIOUS
  <1>1. ASSUME NEW t \in Tasks, NEW s \in Sessions, CreateDebate(t, s) PROVE Control'
    BY <1>1 DEF CreateDebate, Accept, Control, TypeOK, Statuses, Pcs, Excs, Replies, Orders,
          Saving, Claiming, OneRunner, RunningRow, EarlyPcs, RunPcs
  <1>2. ASSUME NEW t \in Tasks, NEW s \in Sessions, OpenStream(t, s) PROVE Control'
    <2> USE <1>2 DEF OpenStream, Accept
    <2>1. TypeOK'
      <3>1. reply' \in [Tasks -> Replies] /\ pc' \in [Tasks -> Pcs]
        BY DEF Control, TypeOK, Pcs, Replies
      <3>2. loop' \in [Procs -> Tasks \union {NoTask}]
        BY DEF Control, TypeOK
      <3>3. kind' \in [Tasks -> {"none", "create", "stream"}] /\ sess' \in [Tasks -> Sessions \union {NoSession}]
        BY DEF Control, TypeOK
      <3> QED
        BY <3>1, <3>2, <3>3 DEF Control, TypeOK
    <2>2. Saving' /\ Claiming' /\ OneRunner' /\ RunningRow'
      BY DEF Control, TypeOK, Saving, Claiming, OneRunner, RunningRow, EarlyPcs, RunPcs
    <2> QED
      BY <2>1, <2>2 DEF Control
  <1>3. ASSUME NEW s \in Sessions, PrepareSession(s) PROVE Control'
    BY <1>3 DEF PrepareSession, Control, TypeOK, Statuses, Pcs, Excs, Replies, Orders,
          Saving, Claiming, OneRunner, RunningRow, EarlyPcs, RunPcs
  <1>4. ASSUME NEW s \in Sessions, DeleteDebate(s) PROVE Control'
    BY <1>4 DEF DeleteDebate, Control, TypeOK, Statuses, Pcs, Excs, Replies, Orders,
          Saving, Claiming, OneRunner, RunningRow, EarlyPcs, RunPcs
  <1>5. ASSUME NEW s \in Sessions, ExpireCheckpoint(s) PROVE Control'
    BY <1>5 DEF ExpireCheckpoint, Control, TypeOK, Statuses, Pcs, Excs, Replies, Orders,
          Saving, Claiming, OneRunner, RunningRow, EarlyPcs, RunPcs
  <1>6. ASSUME NEW t \in Tasks, ClaimSession(t) PROVE Control'
    <2> USE <1>6 DEF ClaimSession
    <2>1. TypeOK'
      <3>1. row' \in [Sessions -> Statuses] /\ reply' \in [Tasks -> Replies]
        BY DEF Control, TypeOK, Statuses, Replies
      <3>2. pc' \in [Tasks -> Pcs] /\ loop' \in [Procs -> Tasks \union {NoTask}]
        BY DEF Control, TypeOK, Pcs
      <3> QED
        BY <3>1, <3>2 DEF Control, TypeOK
    <2>2. Saving' /\ Claiming' /\ OneRunner' /\ RunningRow'
      BY DEF Control, TypeOK, Saving, Claiming, OneRunner, RunningRow, EarlyPcs, RunPcs
    <2> QED
      BY <2>1, <2>2 DEF Control
  <1>7. ASSUME NEW t \in Tasks, CheckUsage(t) PROVE Control'
    <2> USE <1>7 DEF CheckUsage, Reject, UsageError
    <2>1. TypeOK'
      <3>1. row' \in [Sessions -> Statuses] /\ reply' \in [Tasks -> Replies]
            /\ exc' \in [Tasks -> Excs]
        BY DEF Control, TypeOK, Statuses, Replies, Excs
      <3>2. pc' \in [Tasks -> Pcs] /\ loop' \in [Procs -> Tasks \union {NoTask}]
        BY DEF Control, TypeOK, Pcs
      <3>3. faults' \in 0 .. MaxFaults
        BY DEF Control, TypeOK
      <3> QED
        BY <3>1, <3>2, <3>3 DEF Control, TypeOK
    <2>2. Saving' /\ Claiming' /\ OneRunner' /\ RunningRow'
      BY DEF Control, TypeOK, Saving, Claiming, OneRunner, RunningRow, EarlyPcs, RunPcs
    <2> QED
      BY <2>1, <2>2 DEF Control
  <1>8. ASSUME NEW t \in Tasks, AcquireGuard(t) PROVE Control'
    <2> USE <1>8 DEF AcquireGuard, KeySettable, Reject
    <2>1. TypeOK'
      <3>1. row' \in [Sessions -> Statuses] /\ reply' \in [Tasks -> Replies]
            /\ exc' \in [Tasks -> Excs]
        BY DEF Control, TypeOK, Statuses, Replies, Excs
      <3>2. pc' \in [Tasks -> Pcs] /\ loop' \in [Procs -> Tasks \union {NoTask}]
        BY DEF Control, TypeOK, Pcs
      <3>3. active' \in [Keys -> Sessions \union {NoSession}] /\ holders' \in SUBSET Tasks
        BY DEF Control, TypeOK, K
      <3>4. faults' \in 0 .. MaxFaults
        BY DEF Control, TypeOK
      <3> QED
        BY <3>1, <3>2, <3>3, <3>4 DEF Control, TypeOK
    <2>2. Saving' /\ Claiming' /\ OneRunner' /\ RunningRow'
      BY DEF Control, TypeOK, Saving, Claiming, OneRunner, RunningRow, EarlyPcs, RunPcs
    <2> QED
      BY <2>1, <2>2 DEF Control
  <1>9. ASSUME NEW t \in Tasks, CountDebate(t) PROVE Control'
    BY <1>9 DEF CountDebate, Control, TypeOK, Statuses, Pcs, Excs, Replies, Orders,
          Saving, Claiming, OneRunner, RunningRow, EarlyPcs, RunPcs
  <1>10. ASSUME NEW t \in Tasks, LoadState(t) PROVE Control'
    BY <1>10 DEF LoadState, Control, TypeOK, Statuses, Pcs, Excs, Replies, Orders,
          Saving, Claiming, OneRunner, RunningRow, EarlyPcs, RunPcs
  <1>11. ASSUME NEW t \in Tasks, Chunk(t) PROVE Control'
    <2> USE <1>11 DEF Chunk
    <2>1. TypeOK'
      <3>1. ckpt' \in [Sessions -> BOOLEAN]
        BY DEF Control, TypeOK
      <3>2. pc' \in [Tasks -> Pcs] /\ loop' \in [Procs -> Tasks \union {NoTask}]
        BY DEF Control, TypeOK, Pcs
      <3>3. faults' \in 0 .. MaxFaults
        BY DEF Control, TypeOK
      <3> QED
        BY <3>1, <3>2, <3>3 DEF Control, TypeOK
    <2>2. Saving' /\ Claiming' /\ OneRunner' /\ RunningRow'
      BY DEF Control, TypeOK, Saving, Claiming, OneRunner, RunningRow, EarlyPcs, RunPcs
    <2> QED
      BY <2>1, <2>2 DEF Control
  <1>12. ASSUME NEW t \in Tasks, StartSummary(t) PROVE Control'
    BY <1>12 DEF StartSummary, Control, TypeOK, Statuses, Pcs, Excs, Replies, Orders,
          Saving, Claiming, OneRunner, RunningRow, EarlyPcs, RunPcs
  <1>13. ASSUME NEW t \in Tasks, SaveStatement(t) PROVE Control'
    BY <1>13
       DEF SaveStatement, CanInsert, Control, TypeOK, Statuses, Pcs, Excs, Replies, Orders,
          Saving, Claiming, OneRunner, RunningRow, EarlyPcs, RunPcs
  <1>14. ASSUME NEW t \in Tasks, SaveSummary(t) PROVE Control'
    BY <1>14 DEF SaveSummary, Control, TypeOK, Statuses, Pcs, Excs, Replies, Orders,
          Saving, Claiming, OneRunner, RunningRow, EarlyPcs, RunPcs
  <1>15. ASSUME NEW t \in Tasks, CompleteSession(t) PROVE Control'
    BY <1>15 DEF CompleteSession, Control, TypeOK, Statuses, Pcs, Excs, Replies, Orders,
          Saving, Claiming, OneRunner, RunningRow, EarlyPcs, RunPcs
  <1>16. ASSUME NEW t \in Tasks, GraphError(t) PROVE Control'
    BY <1>16 DEF GraphError, Control, TypeOK, Statuses, Pcs, Excs, Replies, Orders,
          Saving, Claiming, OneRunner, RunningRow, EarlyPcs, RunPcs
  <1>17. ASSUME NEW t \in Tasks, ClearCheckpoint(t) PROVE Control'
    <2> USE <1>17 DEF ClearCheckpoint
    <2>1. TypeOK'
      <3>1. ckpt' \in [Sessions -> BOOLEAN]
        BY DEF Control, TypeOK
      <3>2. pc' \in [Tasks -> Pcs] /\ loop' \in [Procs -> Tasks \union {NoTask}]
        BY DEF Control, TypeOK, Pcs
      <3>3. faults' \in 0 .. MaxFaults
        BY DEF Control, TypeOK
      <3> QED
        BY <3>1, <3>2, <3>3 DEF Control, TypeOK
    <2>2. Saving' /\ Claiming' /\ OneRunner' /\ RunningRow'
      BY DEF Control, TypeOK, Saving, Claiming, OneRunner, RunningRow, EarlyPcs, RunPcs
    <2> QED
      BY <2>1, <2>2 DEF Control
  <1>18. ASSUME NEW t \in Tasks, DeliverSummary(t) PROVE Control'
    <2> USE <1>18 DEF DeliverSummary
    <2>1. TypeOK'
      <3>1. ckpt' \in [Sessions -> BOOLEAN]
        BY DEF Control, TypeOK
      <3>2. pc' \in [Tasks -> Pcs] /\ loop' \in [Procs -> Tasks \union {NoTask}]
        BY DEF Control, TypeOK, Pcs
      <3>3. faults' \in 0 .. MaxFaults
        BY DEF Control, TypeOK
      <3> QED
        BY <3>1, <3>2, <3>3 DEF Control, TypeOK
    <2>2. Saving' /\ Claiming' /\ OneRunner' /\ RunningRow'
      BY DEF Control, TypeOK, Saving, Claiming, OneRunner, RunningRow, EarlyPcs, RunPcs
    <2> QED
      BY <2>1, <2>2 DEF Control
  <1>19. ASSUME NEW t \in Tasks, EndGet(t) PROVE Control'
    <2> USE <1>19 DEF EndGet, KeyIsOurs, AfterEnd
    <2>1. TypeOK'
      <3>1. pc' \in [Tasks -> Pcs] /\ loop' \in [Procs -> Tasks \union {NoTask}]
        BY DEF Control, TypeOK, Pcs
      <3>2. faults' \in 0 .. MaxFaults /\ holders' \in SUBSET Tasks
        BY DEF Control, TypeOK
      <3> QED
        BY <3>1, <3>2 DEF Control, TypeOK
    <2>2. Saving' /\ Claiming' /\ OneRunner' /\ RunningRow'
      BY DEF Control, TypeOK, Saving, Claiming, OneRunner, RunningRow, EarlyPcs, RunPcs
    <2> QED
      BY <2>1, <2>2 DEF Control
  <1>20. ASSUME NEW t \in Tasks, EndDel(t) PROVE Control'
    BY <1>20 DEF EndDel, AfterEnd, Control, TypeOK, Statuses, Pcs, Excs, Replies, Orders,
          Saving, Claiming, OneRunner, RunningRow, EarlyPcs, RunPcs
  <1>21. ASSUME NEW t \in Tasks, FailRow(t) PROVE Control'
    <2> USE <1>21 DEF FailRow, FailIfRunning
    <2>1. TypeOK'
      BY DEF Control, TypeOK, Statuses, Pcs, Excs
    <2>2. Saving' /\ Claiming' /\ OneRunner' /\ RunningRow'
      BY DEF Control, TypeOK, Saving, Claiming, OneRunner, RunningRow, EarlyPcs, RunPcs
    <2> QED
      BY <2>1, <2>2 DEF Control
  <1>22. ASSUME NEW t \in Tasks, FailStream(t) PROVE Control'
    <2> USE <1>22 DEF FailStream, FailIfRunning
    <2>1. TypeOK'
      <3>1. pc' \in [Tasks -> Pcs] /\ reply' \in [Tasks -> Replies]
        BY DEF Control, TypeOK, Pcs, Replies
      <3>2. row' \in [Sessions -> Statuses] /\ exc' \in [Tasks -> Excs]
        BY DEF Control, TypeOK, Statuses, Excs
      <3>3. faults' \in 0 .. MaxFaults
        BY DEF Control, TypeOK
      <3> QED
        BY <3>1, <3>2, <3>3 DEF Control, TypeOK
    <2>2. Saving' /\ Claiming' /\ OneRunner' /\ RunningRow'
      BY DEF Control, TypeOK, Saving, Claiming, OneRunner, RunningRow, EarlyPcs, RunPcs
    <2> QED
      BY <2>1, <2>2 DEF Control
  <1>23. ASSUME NEW t \in Tasks, Respond(t) PROVE Control'
    BY <1>23 DEF Respond, Control, TypeOK, Statuses, Pcs, Excs, Replies, Orders,
          Saving, Claiming, OneRunner, RunningRow, EarlyPcs, RunPcs
  <1>24. ASSUME NEW t \in Tasks, Cancel(t) PROVE Control'
    BY <1>24 DEF Cancel, Cancelled, Control, TypeOK, Statuses, Pcs, Excs, Replies, Orders,
          Saving, Claiming, OneRunner, RunningRow, EarlyPcs, RunPcs
  <1>25. ASSUME NEW t \in Tasks, CloseGenerator(t) PROVE Control'
    BY <1>25
       DEF CloseGenerator, Cancelled, Control, TypeOK, Statuses, Pcs, Excs, Replies, Orders,
          Saving, Claiming, OneRunner, RunningRow, EarlyPcs, RunPcs
  <1>26. ASSUME NEW t \in Tasks, DropGenerator(t) PROVE Control'
    BY <1>26 DEF DropGenerator, Control, TypeOK, Statuses, Pcs, Excs, Replies, Orders,
          Saving, Claiming, OneRunner, RunningRow, EarlyPcs, RunPcs
  <1>27. ASSUME NEW p \in Procs, Crash(p) PROVE Control'
    BY <1>27 DEF Crash, Control, TypeOK, Statuses, Pcs, Excs, Replies, Orders,
          Saving, Claiming, OneRunner, RunningRow, EarlyPcs, RunPcs
  <1>28. ASSUME NEW k \in Keys, ExpireActive(k) PROVE Control'
    BY <1>28 DEF ExpireActive, Control, TypeOK, Statuses, Pcs, Excs, Replies, Orders,
          Saving, Claiming, OneRunner, RunningRow, EarlyPcs, RunPcs
  <1>29. CASE UNCHANGED vars
    BY <1>29 DEF vars, Control, TypeOK, Saving, Claiming, OneRunner, RunningRow
  <1> QED
    BY <1>1, <1>2, <1>3, <1>4, <1>5, <1>6, <1>7, <1>8, <1>9, <1>10, <1>11, <1>12, <1>13, <1>14, <1>15, <1>16, <1>17, <1>18, <1>19, <1>20, <1>21, <1>22, <1>23, <1>24, <1>25, <1>26, <1>27, <1>28, <1>29
       DEF Next, Progress, Refused

LEMMA NextGuarded == TtlOutlastsRuns /\ Control /\ Guarded /\ [Next]_vars => Guarded'
  <1> SUFFICES ASSUME TtlOutlastsRuns, Control, Guarded, [Next]_vars PROVE Guarded'
    OBVIOUS
  <1> USE DEF Control, TypeOK, OneRunner, Guarded, Holding, Deleting, HoldPcs, K
  <1>1. ASSUME NEW t \in Tasks, NEW s \in Sessions, CreateDebate(t, s) PROVE Guarded'
    BY <1>1 DEF CreateDebate, Accept
  <1>2. ASSUME NEW t \in Tasks, NEW s \in Sessions, OpenStream(t, s) PROVE Guarded'
    BY <1>2 DEF OpenStream, Accept
  <1>3. ASSUME NEW s \in Sessions, PrepareSession(s) PROVE Guarded'
    BY <1>3 DEF PrepareSession
  <1>4. ASSUME NEW s \in Sessions, DeleteDebate(s) PROVE Guarded'
    BY <1>4 DEF DeleteDebate
  <1>5. ASSUME NEW s \in Sessions, ExpireCheckpoint(s) PROVE Guarded'
    BY <1>5 DEF ExpireCheckpoint
  <1>6. ASSUME NEW t \in Tasks, ClaimSession(t) PROVE Guarded'
    BY <1>6 DEF ClaimSession
  <1>7. ASSUME NEW t \in Tasks, CheckUsage(t) PROVE Guarded'
    BY <1>7 DEF CheckUsage, Reject, UsageError
  <1>8. ASSUME NEW t \in Tasks, AcquireGuard(t) PROVE Guarded'
    BY <1>8 DEF AcquireGuard, KeySettable, Reject
  <1>9. ASSUME NEW t \in Tasks, CountDebate(t) PROVE Guarded'
    BY <1>9 DEF CountDebate
  <1>10. ASSUME NEW t \in Tasks, LoadState(t) PROVE Guarded'
    BY <1>10 DEF LoadState
  <1>11. ASSUME NEW t \in Tasks, Chunk(t) PROVE Guarded'
    BY <1>11 DEF Chunk
  <1>12. ASSUME NEW t \in Tasks, StartSummary(t) PROVE Guarded'
    BY <1>12 DEF StartSummary
  <1>13. ASSUME NEW t \in Tasks, SaveStatement(t) PROVE Guarded'
    BY <1>13 DEF SaveStatement, CanInsert
  <1>14. ASSUME NEW t \in Tasks, SaveSummary(t) PROVE Guarded'
    BY <1>14 DEF SaveSummary
  <1>15. ASSUME NEW t \in Tasks, CompleteSession(t) PROVE Guarded'
    BY <1>15 DEF CompleteSession
  <1>16. ASSUME NEW t \in Tasks, GraphError(t) PROVE Guarded'
    BY <1>16 DEF GraphError
  <1>17. ASSUME NEW t \in Tasks, ClearCheckpoint(t) PROVE Guarded'
    BY <1>17 DEF ClearCheckpoint
  <1>18. ASSUME NEW t \in Tasks, DeliverSummary(t) PROVE Guarded'
    BY <1>18 DEF DeliverSummary
  <1>19. ASSUME NEW t \in Tasks, EndGet(t) PROVE Guarded'
    BY <1>19 DEF EndGet, KeyIsOurs, AfterEnd
  <1>20. ASSUME NEW t \in Tasks, EndDel(t) PROVE Guarded'
    BY <1>20 DEF EndDel, AfterEnd
  <1>21. ASSUME NEW t \in Tasks, FailRow(t) PROVE Guarded'
    BY <1>21 DEF FailRow, FailIfRunning
  <1>22. ASSUME NEW t \in Tasks, FailStream(t) PROVE Guarded'
    BY <1>22 DEF FailStream, FailIfRunning
  <1>23. ASSUME NEW t \in Tasks, Respond(t) PROVE Guarded'
    BY <1>23 DEF Respond
  <1>24. ASSUME NEW t \in Tasks, Cancel(t) PROVE Guarded'
    BY <1>24 DEF Cancel, Cancelled
  <1>25. ASSUME NEW t \in Tasks, CloseGenerator(t) PROVE Guarded'
    BY <1>25 DEF CloseGenerator, Cancelled
  <1>26. ASSUME NEW t \in Tasks, DropGenerator(t) PROVE Guarded'
    BY <1>26 DEF DropGenerator
  <1>27. ASSUME NEW p \in Procs, Crash(p) PROVE Guarded'
    BY <1>27 DEF Crash
  <1>28. ASSUME NEW k \in Keys, ExpireActive(k) PROVE Guarded'
    BY <1>28 DEF ExpireActive
  <1>29. CASE UNCHANGED vars
    BY <1>29 DEF vars
  <1> QED
    BY <1>1, <1>2, <1>3, <1>4, <1>5, <1>6, <1>7, <1>8, <1>9, <1>10, <1>11, <1>12, <1>13, <1>14, <1>15, <1>16, <1>17, <1>18, <1>19, <1>20, <1>21, <1>22, <1>23, <1>24, <1>25, <1>26, <1>27, <1>28, <1>29
       DEF Next, Progress, Refused

\* A step that stores nothing keeps Whole, if a run it begins has nothing stored
\* and the other runs stay where they are.
LEMMA WholeFrame ==
    ASSUME Whole, UNCHANGED <<stmts, summary, upto>>,
           \A s \in Sessions : row'[s] \in {"absent", "pending"} => stmts[s] = {},
           \A s \in Sessions : row'[s] = "completed" => row[s] = "completed",
           \A r \in Tasks :
               \/ pc'[r] \notin FirstPcs \union {"summarize", "complete"}
               \/ row'[sess'[r]] = "deleted"
               \/ pc'[r] = pc[r] /\ sess'[r] = sess[r] /\ row[sess[r]] # "deleted"
               \/ pc'[r] \in FirstPcs /\ upto[r] = 0 /\ stmts[sess'[r]] = {}
    PROVE  Whole'
  <1>1. 1 .. 0 = {}
    OBVIOUS
  <1>2. ASSUME NEW r \in Tasks, row'[sess'[r]] # "deleted"
        PROVE  /\ pc'[r] \in FirstPcs => stmts[sess'[r]] = 1 .. upto[r]
               /\ pc'[r] \in {"summarize", "complete"} => stmts[sess'[r]] = Orders
               /\ pc'[r] = "complete" => summary[sess'[r]]
    BY <1>1, <1>2 DEF Whole, FirstPcs
  <1>3. CompletedIsWhole'
    BY DEF Whole, CompletedIsWhole, Orders
  <1> QED
    BY <1>2, <1>3 DEF Whole, Orders

LEMMA CreateDebateWhole ==
    ASSUME Control, Whole, NEW t \in Tasks, NEW s \in Sessions, CreateDebate(t, s)
    PROVE  Whole'
  <1>1. /\ row[s] = "absent" /\ row' = [row EXCEPT ![s] = "running"]
        /\ pc' = [pc EXCEPT ![t] = "usage"] /\ sess' = [sess EXCEPT ![t] = s]
        /\ UNCHANGED <<stmts, summary, upto>>
        /\ upto[t] = 0
    BY DEF CreateDebate, Accept, Control, Saving, EarlyPcs
  <1>2. \A r \in Tasks : sess[r] # s
    BY <1>1 DEF Control, Claiming
  <1>3. row \in [Sessions -> Statuses] /\ pc \in [Tasks -> Pcs] /\ sess \in [Tasks -> Sessions \union {NoSession}]
        /\ \A r \in Tasks : sess[r] = NoSession => pc[r] = "idle"
    BY DEF Control, TypeOK
  <1>4. stmts[s] = {}
    BY <1>1 DEF Whole
  <1>5. ASSUME NEW r \in Tasks, r # t, pc'[r] \in FirstPcs \union {"summarize", "complete"}
        PROVE  pc'[r] = pc[r] /\ sess'[r] = sess[r] /\ row'[sess'[r]] = row[sess[r]]
    BY <1>1, <1>2, <1>3, <1>5 DEF FirstPcs
  <1>6. pc'[t] \in FirstPcs /\ sess'[t] = s
    BY <1>1, <1>3 DEF FirstPcs
  <1>7. \A r \in Sessions : row'[r] = (IF r = s THEN "running" ELSE row[r])
    BY <1>1, <1>3
  <1> QED
    BY <1>1, <1>4, <1>5, <1>6, <1>7, WholeFrame DEF Whole

LEMMA OpenStreamWhole ==
    ASSUME Control, Whole, NEW t \in Tasks, NEW s \in Sessions, OpenStream(t, s)
    PROVE  Whole'
  <1>1. /\ sess' = [sess EXCEPT ![t] = s]
        /\ \/ row[s] = "pending" /\ pc' = [pc EXCEPT ![t] = "claim"]
           \/ pc' = [pc EXCEPT ![t] = "done"]
        /\ UNCHANGED <<row, stmts, summary, upto>>
        /\ upto[t] = 0
    BY DEF OpenStream, Accept, Control, Saving, EarlyPcs
  <1>2. pc \in [Tasks -> Pcs] /\ sess \in [Tasks -> Sessions \union {NoSession}]
    BY DEF Control, TypeOK
  <1>3. row[s] = "pending" => stmts[s] = {}
    BY DEF Whole
  <1>4. \A r \in Tasks : r # t => pc'[r] = pc[r] /\ sess'[r] = sess[r]
    BY <1>1, <1>2
  <1>5. pc'[t] = "done" \/ (pc'[t] = "claim" /\ row[s] = "pending" /\ sess'[t] = s)
    BY <1>1, <1>2
  <1> QED
    BY <1>1, <1>3, <1>4, <1>5, WholeFrame DEF Whole, FirstPcs

LEMMA ClaimSessionWhole ==
    ASSUME Control, Whole, NEW t \in Tasks, ClaimSession(t)
    PROVE  Whole'
  <1>1. /\ UNCHANGED <<sess, stmts, summary, upto>>
        /\ \/ /\ row[sess[t]] \in Stored
              /\ row' = [row EXCEPT ![sess[t]] = "running"]
              /\ pc' = [pc EXCEPT ![t] = "usage"]
           \/ UNCHANGED row /\ pc' = [pc EXCEPT ![t] = "done"]
        /\ upto[t] = 0
        /\ pc[t] = "claim" /\ row[sess[t]] \in {"pending", "deleted"}
    BY DEF ClaimSession, Control, Saving, EarlyPcs, Claiming
  <1>2. row \in [Sessions -> Statuses] /\ pc \in [Tasks -> Pcs] /\ sess[t] \in Sessions
    BY <1>1 DEF Control, TypeOK
  <1>3. row[sess[t]] = "pending" => stmts[sess[t]] = {}
    BY <1>2 DEF Whole
  <1>4. \A r \in Tasks : r # t => pc'[r] = pc[r]
    BY <1>1, <1>2
  <1>5. \A r \in Tasks : row[sess[r]] = "deleted" /\ pc[r] # "idle" => row'[sess[r]] = "deleted"
    BY <1>1, <1>2 DEF Control, TypeOK
  <1>6. pc'[t] = "done" \/ (pc'[t] = "usage" /\ row[sess[t]] = "pending")
    BY <1>1, <1>2
  <1>7. \A r \in Sessions : row'[r] = row[r] \/ row'[r] = "running"
    BY <1>1, <1>2
  <1> QED
    BY <1>1, <1>3, <1>4, <1>5, <1>6, <1>7, WholeFrame DEF Whole, FirstPcs

LEMMA FailStreamWhole ==
    ASSUME Control, Whole, NEW t \in Tasks, FailStream(t)
    PROVE  Whole'
  <1>1. /\ UNCHANGED <<sess, stmts, summary, upto>>
        /\ row' = FailIfRunning(sess[t]) \/ UNCHANGED row
        /\ pc' = [pc EXCEPT ![t] = "get2"] \/ pc' = [pc EXCEPT ![t] = "done"]
        /\ pc[t] = "failstream"
    BY DEF FailStream
  <1>2. row \in [Sessions -> Statuses] /\ pc \in [Tasks -> Pcs]
    BY DEF Control, TypeOK
  <1>3. \A r \in Tasks : r # t => pc'[r] = pc[r]
    BY <1>1, <1>2
  <1>4. pc'[t] \in {"get2", "done"}
    BY <1>1, <1>2
  <1>5. \A s \in Sessions : row'[s] = row[s] \/ (row'[s] = "failed" /\ row[s] = "running")
    BY <1>1, <1>2 DEF FailIfRunning
  <1>6. \A r \in Tasks : row[sess[r]] = "deleted" /\ pc[r] # "idle" => row'[sess[r]] = "deleted"
    BY <1>5 DEF Control, TypeOK
  <1> QED
    BY <1>1, <1>3, <1>4, <1>5, <1>6, WholeFrame DEF Whole, FirstPcs

\* The next statement is stored right after those stored before.
LEMMA SaveStatementWhole ==
    ASSUME Control, Whole, NEW t \in Tasks, SaveStatement(t)
    PROVE  Whole'
  <1>1. /\ UNCHANGED <<row, summary, sess>> /\ pc[t] = "save" /\ row[sess[t]] \in Stored
        /\ stmts' = [stmts EXCEPT ![sess[t]] = @ \union {upto[t] + 1}]
        /\ upto' = [upto EXCEPT ![t] = @ + 1]
        /\ pc' = [pc EXCEPT ![t] = IF upto[t] + 1 = NumStatements THEN "summarize" ELSE "save"]
    BY DEF SaveStatement, CanInsert
  <1>2. /\ pc \in [Tasks -> Pcs] /\ upto \in [Tasks -> 0 .. NumStatements]
        /\ stmts \in [Sessions -> SUBSET Orders] /\ sess[t] \in Sessions
        /\ \A r \in Tasks : sess[r] = NoSession => pc[r] = "idle"
        /\ sess \in [Tasks -> Sessions \union {NoSession}]
    BY <1>1 DEF Control, TypeOK
  <1>3. stmts[sess[t]] = 1 .. upto[t] /\ row[sess[t]] = "running"
    BY <1>1 DEF Whole, FirstPcs, Control, RunningRow, RunPcs
  <1>4. stmts'[sess[t]] = 1 .. (upto[t] + 1)
    <2>1. (1 .. upto[t]) \union {upto[t] + 1} = 1 .. (upto[t] + 1)
      BY <1>2
    <2> QED
      BY <1>1, <1>2, <1>3, <2>1
  <1>5. ASSUME NEW r \in Tasks, r # t, pc[r] \in FirstPcs \union {"summarize", "complete"}
        PROVE  sess[r] \in Sessions /\ sess[r] # sess[t]
    BY <1>1, <1>2, <1>5 DEF FirstPcs, Control, OneRunner
  <1>6. ASSUME NEW r \in Tasks, row[sess[r]] # "deleted"
        PROVE  /\ pc'[r] \in FirstPcs => stmts'[sess[r]] = 1 .. upto'[r]
               /\ pc'[r] \in {"summarize", "complete"} => stmts'[sess[r]] = Orders
               /\ pc'[r] = "complete" => summary[sess[r]]
    <2>1. CASE r = t
      BY <1>1, <1>2, <1>4, <2>1 DEF Orders, FirstPcs
    <2>2. CASE r # t
      <3>1. pc'[r] = pc[r] /\ upto'[r] = upto[r]
        BY <1>1, <1>2, <2>2
      <3>2. pc[r] \in FirstPcs \union {"summarize", "complete"} => stmts'[sess[r]] = stmts[sess[r]]
        BY <1>1, <1>2, <1>5, <2>2
      <3> QED
        BY <1>6, <3>1, <3>2 DEF Whole
    <2> QED
      BY <2>1, <2>2
  <1>7. \A s \in Sessions : row[s] # "running" => stmts'[s] = stmts[s]
    BY <1>1, <1>2, <1>3
  <1>8. \A s \in Sessions : row'[s] \in {"absent", "pending"} => stmts'[s] = {}
    BY <1>1, <1>7 DEF Whole
  <1>9. CompletedIsWhole'
    <2>1. ASSUME NEW s \in Sessions, row'[s] = "completed"
          PROVE  stmts'[s] = Orders /\ summary'[s]
      BY <1>1, <1>7, <2>1 DEF Whole, CompletedIsWhole
    <2> QED
      BY <2>1 DEF CompletedIsWhole, Orders
  <1>10. \A r \in Tasks : row'[sess'[r]] # "deleted" =>
           /\ pc'[r] \in FirstPcs => stmts'[sess'[r]] = 1 .. upto'[r]
           /\ pc'[r] \in {"summarize", "complete"} => stmts'[sess'[r]] = Orders
           /\ pc'[r] = "complete" => summary'[sess'[r]]
    BY <1>1, <1>6
  <1> QED
    BY <1>8, <1>9, <1>10 DEF Whole, Orders, FirstPcs, GuardPcs
LEMMA NextWhole == Control /\ Whole /\ [Next]_vars => Whole'
  <1> SUFFICES ASSUME Control, Whole, [Next]_vars PROVE Whole'
    OBVIOUS
  <1> USE DEF Control, TypeOK, Saving, Claiming, OneRunner, RunningRow, Whole, CompletedIsWhole, FirstPcs, EarlyPcs, RunPcs, Orders
  <1>1. ASSUME NEW t \in Tasks, NEW s \in Sessions, CreateDebate(t, s) PROVE Whole'
    BY <1>1, CreateDebateWhole
  <1>2. ASSUME NEW t \in Tasks, NEW s \in Sessions, OpenStream(t, s) PROVE Whole'
    BY <1>2, OpenStreamWhole
  <1>3. ASSUME NEW s \in Sessions, PrepareSession(s) PROVE Whole'
    BY <1>3 DEF PrepareSession
  <1>4. ASSUME NEW s \in Sessions, DeleteDebate(s) PROVE Whole'
    BY <1>4 DEF DeleteDebate
  <1>5. ASSUME NEW s \in Sessions, ExpireCheckpoint(s) PROVE Whole'
    BY <1>5 DEF ExpireCheckpoint
  <1>6. ASSUME NEW t \in Tasks, ClaimSession(t) PROVE Whole'
    BY <1>6, ClaimSessionWhole
  <1>7. ASSUME NEW t \in Tasks, CheckUsage(t) PROVE Whole'
    BY <1>7 DEF CheckUsage, Reject, UsageError
  <1>8. ASSUME NEW t \in Tasks, AcquireGuard(t) PROVE Whole'
    BY <1>8 DEF AcquireGuard, KeySettable, Reject
  <1>9. ASSUME NEW t \in Tasks, CountDebate(t) PROVE Whole'
    BY <1>9 DEF CountDebate
  <1>10. ASSUME NEW t \in Tasks, LoadState(t) PROVE Whole'
    BY <1>10 DEF LoadState
  <1>11. ASSUME NEW t \in Tasks, Chunk(t) PROVE Whole'
    BY <1>11 DEF Chunk
  <1>12. ASSUME NEW t \in Tasks, StartSummary(t) PROVE Whole'
    BY <1>12 DEF StartSummary
  <1>13. ASSUME NEW t \in Tasks, SaveStatement(t) PROVE Whole'
    BY <1>13, SaveStatementWhole
  <1>14. ASSUME NEW t \in Tasks, SaveSummary(t) PROVE Whole'
    BY <1>14 DEF SaveSummary
  <1>15. ASSUME NEW t \in Tasks, CompleteSession(t) PROVE Whole'
    BY <1>15 DEF CompleteSession
  <1>16. ASSUME NEW t \in Tasks, GraphError(t) PROVE Whole'
    BY <1>16 DEF GraphError
  <1>17. ASSUME NEW t \in Tasks, ClearCheckpoint(t) PROVE Whole'
    BY <1>17 DEF ClearCheckpoint
  <1>18. ASSUME NEW t \in Tasks, DeliverSummary(t) PROVE Whole'
    BY <1>18 DEF DeliverSummary
  <1>19. ASSUME NEW t \in Tasks, EndGet(t) PROVE Whole'
    BY <1>19 DEF EndGet, KeyIsOurs, AfterEnd
  <1>20. ASSUME NEW t \in Tasks, EndDel(t) PROVE Whole'
    BY <1>20 DEF EndDel, AfterEnd
  <1>21. ASSUME NEW t \in Tasks, FailRow(t) PROVE Whole'
    BY <1>21 DEF FailRow, FailIfRunning
  <1>22. ASSUME NEW t \in Tasks, FailStream(t) PROVE Whole'
    BY <1>22, FailStreamWhole
  <1>23. ASSUME NEW t \in Tasks, Respond(t) PROVE Whole'
    BY <1>23 DEF Respond
  <1>24. ASSUME NEW t \in Tasks, Cancel(t) PROVE Whole'
    BY <1>24 DEF Cancel, Cancelled
  <1>25. ASSUME NEW t \in Tasks, CloseGenerator(t) PROVE Whole'
    BY <1>25 DEF CloseGenerator, Cancelled
  <1>26. ASSUME NEW t \in Tasks, DropGenerator(t) PROVE Whole'
    BY <1>26 DEF DropGenerator
  <1>27. ASSUME NEW p \in Procs, Crash(p) PROVE Whole'
    BY <1>27 DEF Crash
  <1>28. ASSUME NEW k \in Keys, ExpireActive(k) PROVE Whole'
    BY <1>28 DEF ExpireActive
  <1>29. CASE UNCHANGED vars
    BY <1>29 DEF vars
  <1> QED
    BY <1>1, <1>2, <1>3, <1>4, <1>5, <1>6, <1>7, <1>8, <1>9, <1>10, <1>11, <1>12, <1>13, <1>14, <1>15, <1>16, <1>17, <1>18, <1>19, <1>20, <1>21, <1>22, <1>23, <1>24, <1>25, <1>26, <1>27, <1>28, <1>29
       DEF Next, Progress, Refused

-----------------------------------------------------------------------------
(* What becomes of a run: its row, its exception and its answer.           *)

\* Where a task may be that has met no exception.
CalmPcs == {"idle", "claim", "usage", "get1", "del1"} \union GuardPcs \union GraphPcs

\* A session that is completed, or was deleted; and one that is over.
Ended(s) == row[s] \in {"completed", "deleted"}
Over(s) == row[s] \in {"completed", "failed", "deleted"}

\* The exception a task is unwinding says how it came where it is, and what it has made
\* of its row on the way.
Unwinding ==
    \A t \in Tasks :
        /\ pc[t] # "idle" => kind[t] \in {"create", "stream"}
        /\ pc[t] \in CalmPcs => exc[t] = "none"
        /\ pc[t] = "failrow" => exc[t] = "error"
        /\ pc[t] \in {"clear", "get1", "del1", "deliver"} => Ended(sess[t])
        /\ pc[t] \in {"get2", "del2", "respond"} =>
               /\ exc[t] = "none" => Ended(sess[t])
               /\ exc[t] \in {"error", "closed"} => Over(sess[t])
               /\ exc[t] # "rejected"
        /\ pc[t] = "respond" /\ exc[t] \notin {"none", "closed", "closed_unsaved"} =>
               kind[t] = "create"

\* Only a task that is done has answered.
Answered ==
    /\ \A t \in Tasks : pc[t] # "done" => reply[t] = "none"
    /\ SuccessMeansCompleted

Fate == Unwinding /\ Answered

\* What makes a row without a run excusable.
Excused(t) ==
    \/ reply[t] = "lost"
    \/ exc[t] \in {"guard", "unsaved", "closed_unsaved", "unstarted"}
    \/ kind[t] = "create" /\ reply[t] = "cancelled"

\* Nothing takes a session back that is over: only its deletion still changes it.
LEMMA OverStays ==
    ASSUME Control, [Next]_vars, NEW s \in Sessions
    PROVE  /\ Ended(s) => Ended(s)'
           /\ Over(s) => Over(s)'
  <1> USE DEF Control, TypeOK, Ended, Over
  <1>1. ASSUME NEW t \in Tasks, NEW r \in Sessions, CreateDebate(t, r) \/ OpenStream(t, r)
        PROVE  Over(s) => row'[s] = row[s]
    BY <1>1 DEF CreateDebate, OpenStream
  <1>2. ASSUME NEW r \in Sessions, PrepareSession(r) \/ DeleteDebate(r) \/ ExpireCheckpoint(r)
        PROVE  Over(s) => row'[s] \in {row[s], "deleted"}
    BY <1>2 DEF PrepareSession, DeleteDebate, ExpireCheckpoint
  <1>3. ASSUME NEW t \in Tasks, ClaimSession(t) PROVE Over(s) => row'[s] = row[s]
    BY <1>3 DEF ClaimSession, Claiming
  <1>4. ASSUME NEW t \in Tasks, CheckUsage(t) \/ AcquireGuard(t)
        PROVE  Over(s) => row'[s] \in {row[s], "deleted"}
    BY <1>4 DEF CheckUsage, AcquireGuard, Reject, UsageError
  <1>5. ASSUME NEW t \in Tasks, CompleteSession(t) PROVE Over(s) => row'[s] = row[s]
    BY <1>5 DEF CompleteSession, RunningRow, RunPcs
  <1>6. ASSUME NEW t \in Tasks, FailRow(t) \/ FailStream(t) PROVE Over(s) => row'[s] = row[s]
    BY <1>6 DEF FailRow, FailStream, FailIfRunning
  <1>7. ASSUME NEW t \in Tasks,
               \/ CountDebate(t) \/ LoadState(t) \/ Chunk(t) \/ StartSummary(t)
               \/ SaveStatement(t) \/ SaveSummary(t) \/ ClearCheckpoint(t)
               \/ DeliverSummary(t) \/ EndGet(t) \/ EndDel(t) \/ Respond(t)
               \/ GraphError(t) \/ Cancel(t) \/ CloseGenerator(t) \/ DropGenerator(t)
        PROVE  UNCHANGED row
    BY <1>7 DEF CountDebate, LoadState, Chunk, StartSummary, SaveStatement, SaveSummary,
                ClearCheckpoint, DeliverSummary, EndGet, EndDel, Respond, GraphError,
                Cancel, CloseGenerator, DropGenerator
  <1>8. ASSUME NEW p \in Procs, Crash(p) PROVE UNCHANGED row
    BY <1>8 DEF Crash
  <1>9. ASSUME NEW k \in Keys, ExpireActive(k) PROVE UNCHANGED row
    BY <1>9 DEF ExpireActive
  <1>10. CASE UNCHANGED vars
    BY <1>10 DEF vars
  <1> QED
    BY <1>1, <1>2, <1>3, <1>4, <1>5, <1>6, <1>7, <1>8, <1>9, <1>10 DEF Next, Progress, Refused

LEMMA NextFate == Control /\ Fate /\ [Next]_vars => Fate'
  <1> SUFFICES ASSUME Control, Fate, [Next]_vars PROVE Fate'
    OBVIOUS
  <1>a. \A s \in Sessions : (Ended(s) => Ended(s)') /\ (Over(s) => Over(s)')
    BY OverStays
  <1>b. \A t \in Tasks : pc[t] # "idle" => sess[t] \in Sessions
    BY DEF Control, TypeOK
  <1>c. \A t \in Live : pc[t] # "claim" => row[sess[t]] \in {"running"} \/ Over(sess[t])
    BY <1>b DEF Control, TypeOK, Claiming, Statuses, Over
  <1> USE <1>a, <1>b DEF Control, TypeOK, Fate, Unwinding, Answered, SuccessMeansCompleted, CalmPcs
  <1>1. ASSUME NEW t \in Tasks, NEW s \in Sessions, CreateDebate(t, s) PROVE Fate'
    BY <1>1 DEF CreateDebate, Accept
  <1>2. ASSUME NEW t \in Tasks, NEW s \in Sessions, OpenStream(t, s) PROVE Fate'
    BY <1>2 DEF OpenStream, Accept
  <1>3. ASSUME NEW s \in Sessions, PrepareSession(s) PROVE Fate'
    BY <1>3 DEF PrepareSession
  <1>4. ASSUME NEW s \in Sessions, DeleteDebate(s) PROVE Fate'
    BY <1>4 DEF DeleteDebate
  <1>5. ASSUME NEW s \in Sessions, ExpireCheckpoint(s) PROVE Fate'
    BY <1>5 DEF ExpireCheckpoint
  <1>6. ASSUME NEW t \in Tasks, ClaimSession(t) PROVE Fate'
    BY <1>6 DEF ClaimSession, Ended
  <1>7. ASSUME NEW t \in Tasks, CheckUsage(t) PROVE Fate'
    BY <1>7 DEF CheckUsage, Reject, UsageError
  <1>8. ASSUME NEW t \in Tasks, AcquireGuard(t) PROVE Fate'
    BY <1>8 DEF AcquireGuard, KeySettable, Reject
  <1>9. ASSUME NEW t \in Tasks, CountDebate(t) PROVE Fate'
    BY <1>9 DEF CountDebate
  <1>10. ASSUME NEW t \in Tasks, LoadState(t) PROVE Fate'
    BY <1>10 DEF LoadState
  <1>11. ASSUME NEW t \in Tasks, Chunk(t) PROVE Fate'
    BY <1>11 DEF Chunk
  <1>12. ASSUME NEW t \in Tasks, StartSummary(t) PROVE Fate'
    BY <1>12 DEF StartSummary
  <1>13. ASSUME NEW t \in Tasks, SaveStatement(t) PROVE Fate'
    BY <1>13 DEF SaveStatement, CanInsert
  <1>14. ASSUME NEW t \in Tasks, SaveSummary(t) PROVE Fate'
    BY <1>14 DEF SaveSummary
  <1>15. ASSUME NEW t \in Tasks, CompleteSession(t) PROVE Fate'
    BY <1>15 DEF CompleteSession, RunningRow, RunPcs, Ended, Statuses
  <1>16. ASSUME NEW t \in Tasks, GraphError(t) PROVE Fate'
    BY <1>16 DEF GraphError
  <1>17. ASSUME NEW t \in Tasks, ClearCheckpoint(t) PROVE Fate'
    BY <1>17 DEF ClearCheckpoint
  <1>18. ASSUME NEW t \in Tasks, DeliverSummary(t) PROVE Fate'
    BY <1>18 DEF DeliverSummary
  <1>19. ASSUME NEW t \in Tasks, EndGet(t) PROVE Fate'
    BY <1>19 DEF EndGet, KeyIsOurs, AfterEnd
  <1>20. ASSUME NEW t \in Tasks, EndDel(t) PROVE Fate'
    BY <1>20 DEF EndDel, AfterEnd
  <1>21. ASSUME NEW t \in Tasks, FailRow(t) PROVE Fate'
    BY <1>21, <1>c DEF FailRow, FailIfRunning, Over, Ended
  <1>22. ASSUME NEW t \in Tasks, FailStream(t) PROVE Fate'
    BY <1>22, <1>c DEF FailStream, FailIfRunning, Over, Ended
  <1>23. ASSUME NEW t \in Tasks, Respond(t) PROVE Fate'
    BY <1>23 DEF Respond, Ended
  <1>24. ASSUME NEW t \in Tasks, Cancel(t) PROVE Fate'
    BY <1>24 DEF Cancel, Cancelled
  <1>25. ASSUME NEW t \in Tasks, CloseGenerator(t) PROVE Fate'
    BY <1>25 DEF CloseGenerator, Cancelled
  <1>26. ASSUME NEW t \in Tasks, DropGenerator(t) PROVE Fate'
    BY <1>26 DEF DropGenerator
  <1>27. ASSUME NEW p \in Procs, Crash(p) PROVE Fate'
    BY <1>27 DEF Crash
  <1>28. ASSUME NEW k \in Keys, ExpireActive(k) PROVE Fate'
    BY <1>28 DEF ExpireActive
  <1>29. CASE UNCHANGED vars
    BY <1>29 DEF vars
  <1> QED
    BY <1>1, <1>2, <1>3, <1>4, <1>5, <1>6, <1>7, <1>8, <1>9, <1>10, <1>11, <1>12, <1>13, <1>14, <1>15, <1>16, <1>17, <1>18, <1>19, <1>20, <1>21, <1>22, <1>23, <1>24, <1>25, <1>26, <1>27, <1>28, <1>29
       DEF Next, Progress, Refused

\* A step of one task leaves no row behind if it leaves its own task running, or its row
\* over, or an excuse, or begins nothing.
LEMMA StillExplained ==
    ASSUME Control, Fate, StrandedRowExplained, NEW t \in Tasks, pc[t] # "done",
           \A r \in Tasks \ {t} : /\ pc'[r] = pc[r] /\ kind'[r] = kind[r] /\ sess'[r] = sess[r]
                                  /\ exc'[r] = exc[r] /\ reply'[r] = reply[r],
           \A s \in Sessions : row'[s] = "running" => row[s] = "running" \/ sess'[t] = s,
           sess'[t] = sess[t] \/ pc[t] = "idle",
           \/ pc'[t] \notin {"idle", "done"}
           \/ row'[sess'[t]] # "running"
           \/ Excused(t)'
           \/ pc[t] = "idle" /\ row' = row
    PROVE  StrandedRowExplained'
  <1> SUFFICES ASSUME NEW s \in Sessions, row'[s] = "running",
                      \A r \in Tasks : sess'[r] = s => pc'[r] \in {"idle", "done"}
               PROVE  \E r \in Tasks : sess'[r] = s /\ Excused(r)'
    BY DEF StrandedRowExplained, Excused
  <1>1. \A r \in Tasks : Excused(r) => pc[r] # "idle"
    BY DEF Excused, Fate, Unwinding, Answered, CalmPcs
  <1>2. ASSUME row[s] = "running", \A r \in Live : sess[r] # s, sess'[t] # s \/ pc[t] = "idle"
        PROVE  \E r \in Tasks : sess'[r] = s /\ Excused(r)'
    <2>1. PICK r \in Tasks : sess[r] = s /\ Excused(r)
      BY <1>2 DEF StrandedRowExplained, Excused
    <2>2. r # t
      BY <1>1, <1>2, <2>1
    <2>3. sess'[r] = s /\ Excused(r)'
      BY <2>1, <2>2 DEF Excused
    <2> QED
      BY <2>3
  <1>3. CASE sess'[t] = s
    <2>1. Excused(t)' \/ (pc[t] = "idle" /\ row' = row)
      BY <1>3
    <2>2. CASE pc[t] = "idle" /\ row' = row
      <3>1. \A r \in Live : sess[r] # s
        BY <2>2
      <3> QED
        BY <1>2, <2>2, <3>1
    <2> QED
      BY <1>3, <2>1, <2>2
  <1>4. CASE sess'[t] # s
    <2>1. \A r \in Live : sess[r] # s
      BY <1>4
    <2> QED
      BY <1>2, <1>4, <2>1
  <1> QED
    BY <1>3, <1>4

LEMMA NextStranded == Control /\ Fate /\ StrandedRowExplained /\ [Next]_vars => StrandedRowExplained'
  <1> SUFFICES ASSUME Control, Fate, StrandedRowExplained, [Next]_vars PROVE StrandedRowExplained'
    OBVIOUS
  <1>a. \A t \in Tasks : pc[t] # "idle" => sess[t] \in Sessions
    BY DEF Control, TypeOK
  <1>b. ASSUME UNCHANGED <<pc, request, exc, reply>>,
               \A s \in Sessions : row'[s] = "running" => row[s] = "running"
        PROVE  StrandedRowExplained'
    BY <1>b DEF StrandedRowExplained
  <1>c. ASSUME NEW t \in Tasks, pc[t] # "done",
               \A r \in Tasks \ {t} : pc'[r] = pc[r] /\ exc'[r] = exc[r] /\ reply'[r] = reply[r],
               UNCHANGED <<kind, sess>>,
               \A s \in Sessions : row'[s] = "running" => row[s] = "running" \/ sess'[t] = s,
               \/ pc'[t] \notin {"idle", "done"} \/ row'[sess[t]] # "running" \/ Excused(t)'
        PROVE  StrandedRowExplained'
    BY <1>c, StillExplained
  <1> USE DEF Control, TypeOK
  <1>1. ASSUME NEW t \in Tasks, NEW s \in Sessions, CreateDebate(t, s) PROVE StrandedRowExplained'
    BY <1>1, <1>a, StillExplained DEF CreateDebate, Accept
  <1>2. ASSUME NEW t \in Tasks, NEW s \in Sessions, OpenStream(t, s) PROVE StrandedRowExplained'
    BY <1>2, <1>a, StillExplained DEF OpenStream, Accept
  <1>3. ASSUME NEW s \in Sessions, PrepareSession(s) PROVE StrandedRowExplained'
    BY <1>3, <1>a, <1>b DEF PrepareSession
  <1>4. ASSUME NEW s \in Sessions, DeleteDebate(s) PROVE StrandedRowExplained'
    BY <1>4, <1>a, <1>b DEF DeleteDebate
  <1>5. ASSUME NEW s \in Sessions, ExpireCheckpoint(s) PROVE StrandedRowExplained'
    BY <1>5, <1>a, <1>b DEF ExpireCheckpoint
  <1>6. ASSUME NEW t \in Tasks, ClaimSession(t) PROVE StrandedRowExplained'
    BY <1>6, <1>a, <1>c DEF ClaimSession, Claiming
  <1>7. ASSUME NEW t \in Tasks, CheckUsage(t) PROVE StrandedRowExplained'
    BY <1>7, <1>a, <1>c DEF CheckUsage, Reject, UsageError, Excused
  <1>8. ASSUME NEW t \in Tasks, AcquireGuard(t) PROVE StrandedRowExplained'
    BY <1>8, <1>a, <1>c DEF AcquireGuard, KeySettable, Reject, Excused
  <1>9. ASSUME NEW t \in Tasks, CountDebate(t) PROVE StrandedRowExplained'
    BY <1>9, <1>a, <1>c DEF CountDebate
  <1>10. ASSUME NEW t \in Tasks, LoadState(t) PROVE StrandedRowExplained'
    BY <1>10, <1>a, <1>c DEF LoadState
  <1>11. ASSUME NEW t \in Tasks, Chunk(t) PROVE StrandedRowExplained'
    BY <1>11, <1>a, <1>c DEF Chunk
  <1>12. ASSUME NEW t \in Tasks, StartSummary(t) PROVE StrandedRowExplained'
    BY <1>12, <1>a, <1>c DEF StartSummary
  <1>13. ASSUME NEW t \in Tasks, SaveStatement(t) PROVE StrandedRowExplained'
    BY <1>13, <1>a, <1>c DEF SaveStatement, CanInsert
  <1>14. ASSUME NEW t \in Tasks, SaveSummary(t) PROVE StrandedRowExplained'
    BY <1>14, <1>a, <1>c DEF SaveSummary
  <1>15. ASSUME NEW t \in Tasks, CompleteSession(t) PROVE StrandedRowExplained'
    BY <1>15, <1>a, <1>c DEF CompleteSession
  <1>16. ASSUME NEW t \in Tasks, GraphError(t) PROVE StrandedRowExplained'
    BY <1>16, <1>a, <1>c DEF GraphError
  <1>17. ASSUME NEW t \in Tasks, ClearCheckpoint(t) PROVE StrandedRowExplained'
    BY <1>17, <1>a, <1>c DEF ClearCheckpoint
  <1>18. ASSUME NEW t \in Tasks, DeliverSummary(t) PROVE StrandedRowExplained'
    BY <1>18, <1>a, <1>c DEF DeliverSummary
  <1>19. ASSUME NEW t \in Tasks, EndGet(t) PROVE StrandedRowExplained'
    BY <1>19, <1>a, <1>c DEF EndGet, KeyIsOurs, AfterEnd
  <1>20. ASSUME NEW t \in Tasks, EndDel(t) PROVE StrandedRowExplained'
    BY <1>20, <1>a, <1>c DEF EndDel, AfterEnd
  <1>21. ASSUME NEW t \in Tasks, FailRow(t) PROVE StrandedRowExplained'
    BY <1>21, <1>a, <1>c DEF FailRow, FailIfRunning
  <1>22. ASSUME NEW t \in Tasks, FailStream(t) PROVE StrandedRowExplained'
    BY <1>22, <1>a, <1>c DEF FailStream, FailIfRunning, Excused
  <1>23. ASSUME NEW t \in Tasks, Respond(t) PROVE StrandedRowExplained'
    <2>1. exc[t] \in Excs
      OBVIOUS
    <2>2. CASE exc[t] \in {"none", "error", "closed"}
      <3>1. row[sess[t]] # "running"
        BY <1>23, <2>2 DEF Respond, Fate, Unwinding, Ended, Over
      <3> QED
        BY <1>23, <1>a, <1>c, <3>1 DEF Respond
    <2>3. CASE exc[t] = "cancel"
      <3>1. kind[t] = "create" /\ reply'[t] = "cancelled" /\ kind' = kind
        BY <1>23, <2>3 DEF Respond, Fate, Unwinding
      <3>2. Excused(t)'
        BY <3>1 DEF Excused
      <3> QED
        BY <1>23, <1>c, <3>2 DEF Respond
    <2>4. CASE exc[t] \in {"guard", "unsaved", "closed_unsaved", "unstarted"}
      <3>1. Excused(t)'
        BY <1>23, <2>4 DEF Respond, Excused
      <3> QED
        BY <1>23, <1>c, <3>1 DEF Respond
    <2>5. exc[t] # "rejected"
      BY <1>23 DEF Respond, Fate, Unwinding
    <2> QED
      BY <2>1, <2>2, <2>3, <2>4, <2>5 DEF Excs
  <1>24. ASSUME NEW t \in Tasks, Cancel(t) PROVE StrandedRowExplained'
    BY <1>24, <1>a, <1>c DEF Cancel, Cancelled
  <1>25. ASSUME NEW t \in Tasks, CloseGenerator(t) PROVE StrandedRowExplained'
    BY <1>25, <1>a, <1>c DEF CloseGenerator, Cancelled
  <1>26. ASSUME NEW t \in Tasks, DropGenerator(t) PROVE StrandedRowExplained'
    BY <1>26, <1>a, <1>c DEF DropGenerator, Excused
  <1>27. ASSUME NEW p \in Procs, Crash(p) PROVE StrandedRowExplained'
    BY <1>27, <1>a, <1>c DEF Crash, StrandedRowExplained
  <1>28. ASSUME NEW k \in Keys, ExpireActive(k) PROVE StrandedRowExplained'
    BY <1>28, <1>a, <1>b DEF ExpireActive
  <1>29. CASE UNCHANGED vars
    BY <1>29, <1>a, <1>b DEF vars
  <1> QED
    BY <1>1, <1>2, <1>3, <1>4, <1>5, <1>6, <1>7, <1>8, <1>9, <1>10, <1>11, <1>12, <1>13, <1>14, <1>15, <1>16, <1>17, <1>18, <1>19, <1>20, <1>21, <1>22, <1>23, <1>24, <1>25, <1>26, <1>27, <1>28, <1>29
       DEF Next, Progress, Refused

\* The key of a user and symbol is that of a task that has it, as long as nothing failed.
Kept ==
    /\ \A t \in holders :
           pc[t] \in HoldPcs \/ (pc[t] = "failstream" /\ exc[t] = "closed")
    /\ faults = 0 => \A k \in Keys :
           active[k] # NoSession => \E t \in holders : K(t) = k /\ active[k] = sess[t]

LEMMA NextKept == Control /\ Kept /\ [Next]_vars => Kept'
  <1> SUFFICES ASSUME Control, Kept, [Next]_vars PROVE Kept'
    OBVIOUS
  <1> USE DEF Control, TypeOK, Kept, HoldPcs, K
  <1>1. ASSUME NEW t \in Tasks, NEW s \in Sessions, CreateDebate(t, s) PROVE Kept'
    BY <1>1 DEF CreateDebate, Accept
  <1>2. ASSUME NEW t \in Tasks, NEW s \in Sessions, OpenStream(t, s) PROVE Kept'
    BY <1>2 DEF OpenStream, Accept
  <1>3. ASSUME NEW s \in Sessions, PrepareSession(s) PROVE Kept'
    BY <1>3 DEF PrepareSession
  <1>4. ASSUME NEW s \in Sessions, DeleteDebate(s) PROVE Kept'
    BY <1>4 DEF DeleteDebate
  <1>5. ASSUME NEW s \in Sessions, ExpireCheckpoint(s) PROVE Kept'
    BY <1>5 DEF ExpireCheckpoint
  <1>6. ASSUME NEW t \in Tasks, ClaimSession(t) PROVE Kept'
    BY <1>6 DEF ClaimSession
  <1>7. ASSUME NEW t \in Tasks, CheckUsage(t) PROVE Kept'
    BY <1>7 DEF CheckUsage, Reject, UsageError
  <1>8. ASSUME NEW t \in Tasks, AcquireGuard(t) PROVE Kept'
    BY <1>8 DEF AcquireGuard, KeySettable, Reject
  <1>9. ASSUME NEW t \in Tasks, CountDebate(t) PROVE Kept'
    BY <1>9 DEF CountDebate
  <1>10. ASSUME NEW t \in Tasks, LoadState(t) PROVE Kept'
    BY <1>10 DEF LoadState
  <1>11. ASSUME NEW t \in Tasks, Chunk(t) PROVE Kept'
    BY <1>11 DEF Chunk
  <1>12. ASSUME NEW t \in Tasks, StartSummary(t) PROVE Kept'
    BY <1>12 DEF StartSummary
  <1>13. ASSUME NEW t \in Tasks, SaveStatement(t) PROVE Kept'
    BY <1>13 DEF SaveStatement, CanInsert
  <1>14. ASSUME NEW t \in Tasks, SaveSummary(t) PROVE Kept'
    BY <1>14 DEF SaveSummary
  <1>15. ASSUME NEW t \in Tasks, CompleteSession(t) PROVE Kept'
    BY <1>15 DEF CompleteSession
  <1>16. ASSUME NEW t \in Tasks, GraphError(t) PROVE Kept'
    BY <1>16 DEF GraphError
  <1>17. ASSUME NEW t \in Tasks, ClearCheckpoint(t) PROVE Kept'
    BY <1>17 DEF ClearCheckpoint
  <1>18. ASSUME NEW t \in Tasks, DeliverSummary(t) PROVE Kept'
    BY <1>18 DEF DeliverSummary
  <1>19. ASSUME NEW t \in Tasks, EndGet(t) PROVE Kept'
    BY <1>19 DEF EndGet, KeyIsOurs, AfterEnd
  <1>20. ASSUME NEW t \in Tasks, EndDel(t) PROVE Kept'
    BY <1>20 DEF EndDel, AfterEnd
  <1>21. ASSUME NEW t \in Tasks, FailRow(t) PROVE Kept'
    BY <1>21 DEF FailRow, FailIfRunning
  <1>22. ASSUME NEW t \in Tasks, FailStream(t) PROVE Kept'
    BY <1>22 DEF FailStream, FailIfRunning
  <1>23. ASSUME NEW t \in Tasks, Respond(t) PROVE Kept'
    BY <1>23 DEF Respond
  <1>24. ASSUME NEW t \in Tasks, Cancel(t) PROVE Kept'
    BY <1>24 DEF Cancel, Cancelled
  <1>25. ASSUME NEW t \in Tasks, CloseGenerator(t) PROVE Kept'
    BY <1>25 DEF CloseGenerator, Cancelled
  <1>26. ASSUME NEW t \in Tasks, DropGenerator(t) PROVE Kept'
    BY <1>26 DEF DropGenerator
  <1>27. ASSUME NEW p \in Procs, Crash(p) PROVE Kept'
    BY <1>27 DEF Crash
  <1>28. ASSUME NEW k \in Keys, ExpireActive(k) PROVE Kept'
    BY <1>28 DEF ExpireActive
  <1>29. CASE UNCHANGED vars
    BY <1>29 DEF vars
  <1> QED
    BY <1>1, <1>2, <1>3, <1>4, <1>5, <1>6, <1>7, <1>8, <1>9, <1>10, <1>11, <1>12, <1>13, <1>14, <1>15, <1>16, <1>17, <1>18, <1>19, <1>20, <1>21, <1>22, <1>23, <1>24, <1>25, <1>26, <1>27, <1>28, <1>29
       DEF Next, Progress, Refused

\* Where a run has not yet looked for a checkpoint.
UnloadedPcs == {"claim", "usage"} \union GuardPcs

\* Who has left a checkpoint had got beyond load_checkpoint, and runs once.
Fresh ==
    \A s \in Sessions : ckpt[s] =>
        /\ row[s] \notin {"absent", "pending"}
        /\ \A t \in Tasks : sess[t] = s => pc[t] \notin UnloadedPcs

LEMMA NextFresh == Control /\ Fresh /\ [Next]_vars => Fresh'
  <1> SUFFICES ASSUME Control, Fresh, [Next]_vars PROVE Fresh'
    OBVIOUS
  <1> USE DEF Control, TypeOK, Fresh, UnloadedPcs
  <1>1. ASSUME NEW t \in Tasks, NEW s \in Sessions, CreateDebate(t, s) PROVE Fresh'
    BY <1>1 DEF CreateDebate, Accept, Claiming, OneRunner
  <1>2. ASSUME NEW t \in Tasks, NEW s \in Sessions, OpenStream(t, s) PROVE Fresh'
    BY <1>2 DEF OpenStream, Accept, Claiming, OneRunner
  <1>3. ASSUME NEW s \in Sessions, PrepareSession(s) PROVE Fresh'
    BY <1>3 DEF PrepareSession
  <1>4. ASSUME NEW s \in Sessions, DeleteDebate(s) PROVE Fresh'
    BY <1>4 DEF DeleteDebate
  <1>5. ASSUME NEW s \in Sessions, ExpireCheckpoint(s) PROVE Fresh'
    BY <1>5 DEF ExpireCheckpoint
  <1>6. ASSUME NEW t \in Tasks, ClaimSession(t) PROVE Fresh'
    BY <1>6 DEF ClaimSession, Claiming, OneRunner
  <1>7. ASSUME NEW t \in Tasks, CheckUsage(t) PROVE Fresh'
    BY <1>7 DEF CheckUsage, Reject, UsageError, Claiming, OneRunner
  <1>8. ASSUME NEW t \in Tasks, AcquireGuard(t) PROVE Fresh'
    BY <1>8 DEF AcquireGuard, KeySettable, Reject, Claiming, OneRunner
  <1>9. ASSUME NEW t \in Tasks, CountDebate(t) PROVE Fresh'
    BY <1>9 DEF CountDebate
  <1>10. ASSUME NEW t \in Tasks, LoadState(t) PROVE Fresh'
    BY <1>10 DEF LoadState, Claiming, OneRunner
  <1>11. ASSUME NEW t \in Tasks, Chunk(t) PROVE Fresh'
    BY <1>11 DEF Chunk, Claiming, OneRunner
  <1>12. ASSUME NEW t \in Tasks, StartSummary(t) PROVE Fresh'
    BY <1>12 DEF StartSummary
  <1>13. ASSUME NEW t \in Tasks, SaveStatement(t) PROVE Fresh'
    BY <1>13 DEF SaveStatement, CanInsert
  <1>14. ASSUME NEW t \in Tasks, SaveSummary(t) PROVE Fresh'
    BY <1>14 DEF SaveSummary
  <1>15. ASSUME NEW t \in Tasks, CompleteSession(t) PROVE Fresh'
    BY <1>15 DEF CompleteSession
  <1>16. ASSUME NEW t \in Tasks, GraphError(t) PROVE Fresh'
    BY <1>16 DEF GraphError
  <1>17. ASSUME NEW t \in Tasks, ClearCheckpoint(t) PROVE Fresh'
    BY <1>17 DEF ClearCheckpoint
  <1>18. ASSUME NEW t \in Tasks, DeliverSummary(t) PROVE Fresh'
    <2>1. row[sess[t]] \notin {"absent", "pending"} /\ sess[t] \in Sessions
      BY <1>18 DEF DeliverSummary, Claiming
    <2>2. \A r \in Tasks : sess[r] = sess[t] => pc[r] \notin UnloadedPcs
      BY <1>18 DEF DeliverSummary, OneRunner
    <2> QED
      BY <1>18, <2>1, <2>2 DEF DeliverSummary
  <1>19. ASSUME NEW t \in Tasks, EndGet(t) PROVE Fresh'
    BY <1>19 DEF EndGet, KeyIsOurs, AfterEnd
  <1>20. ASSUME NEW t \in Tasks, EndDel(t) PROVE Fresh'
    BY <1>20 DEF EndDel, AfterEnd
  <1>21. ASSUME NEW t \in Tasks, FailRow(t) PROVE Fresh'
    BY <1>21 DEF FailRow, FailIfRunning
  <1>22. ASSUME NEW t \in Tasks, FailStream(t) PROVE Fresh'
    BY <1>22 DEF FailStream, FailIfRunning
  <1>23. ASSUME NEW t \in Tasks, Respond(t) PROVE Fresh'
    BY <1>23 DEF Respond
  <1>24. ASSUME NEW t \in Tasks, Cancel(t) PROVE Fresh'
    BY <1>24 DEF Cancel, Cancelled
  <1>25. ASSUME NEW t \in Tasks, CloseGenerator(t) PROVE Fresh'
    BY <1>25 DEF CloseGenerator, Cancelled
  <1>26. ASSUME NEW t \in Tasks, DropGenerator(t) PROVE Fresh'
    BY <1>26 DEF DropGenerator
  <1>27. ASSUME NEW p \in Procs, Crash(p) PROVE Fresh'
    BY <1>27 DEF Crash
  <1>28. ASSUME NEW k \in Keys, ExpireActive(k) PROVE Fresh'
    BY <1>28 DEF ExpireActive
  <1>29. CASE UNCHANGED vars
    BY <1>29 DEF vars
  <1> QED
    BY <1>1, <1>2, <1>3, <1>4, <1>5, <1>6, <1>7, <1>8, <1>9, <1>10, <1>11, <1>12, <1>13, <1>14, <1>15, <1>16, <1>17, <1>18, <1>19, <1>20, <1>21, <1>22, <1>23, <1>24, <1>25, <1>26, <1>27, <1>28, <1>29
       DEF Next, Progress, Refused

\* From reading the counter to its INCR a task does not leave its event loop.
CountPcs == {"acquire", "incr"}
Looping ==
    /\ \A t \in Tasks : pc[t] \in CountPcs => loop[ProcOf[t]] = t
    /\ \A p \in Procs : loop[p] \in Tasks => ProcOf[loop[p]] = p

\* The processes with a debate of u that is let through and not yet counted.
Passed(u) == {p \in Procs : loop[p] \in Tasks /\ pc[loop[p]] \in CountPcs /\ UserOf[K(loop[p])] = u}

Counted == \A u \in Users : debates[u] + Cardinality(Passed(u)) <= MaxDebates + Cardinality(Procs) - 1

\* Counted is kept if it is kept for one user and nothing is let through for the others.
LEMMA CountedBut ==
    ASSUME Control, Counted, NEW v,
           debates'[v] + Cardinality(Passed(v)') <= MaxDebates + Cardinality(Procs) - 1,
           \A u \in Users \ {v} : debates'[u] = debates[u] /\ Passed(u)' \subseteq Passed(u)
    PROVE  Counted'
  <1> SUFFICES ASSUME NEW u \in Users, u # v
               PROVE  debates'[u] + Cardinality(Passed(u)') <= MaxDebates + Cardinality(Procs) - 1
    BY DEF Counted
  <1>1. IsFiniteSet(Passed(u))
    BY FS_Subset, FiniteProcs DEF Passed
  <1>2. Cardinality(Passed(u)') <= Cardinality(Passed(u)) /\ Cardinality(Passed(u)') \in Nat
        /\ Cardinality(Passed(u)) \in Nat
    BY <1>1, FS_Subset, FS_CardinalityType
  <1>3. Cardinality(Procs) \in Nat
    BY FS_CardinalityType, FiniteProcs
  <1>4. debates[u] + Cardinality(Passed(u)) <= MaxDebates + Cardinality(Procs) - 1
    BY DEF Counted
  <1>5. debates[u] \in Nat /\ debates'[u] = debates[u]
    BY DEF Control, TypeOK
  <1> QED
    BY <1>2, <1>3, <1>4, <1>5

LEMMA CountedFrame ==
    ASSUME Control, Counted, UNCHANGED debates,
           \A u \in Users : Passed(u)' \subseteq Passed(u)
    PROVE  Counted'
  <1>1. CASE Users = {}
    BY <1>1 DEF Counted
  <1>2. CASE Users # {}
    <2>1. PICK v \in Users : TRUE
      BY <1>2
    <2>2. IsFiniteSet(Passed(v))
      BY FS_Subset, FiniteProcs DEF Passed
    <2>3. Cardinality(Passed(v)') <= Cardinality(Passed(v)) /\ Cardinality(Passed(v)') \in Nat
          /\ Cardinality(Passed(v)) \in Nat /\ Cardinality(Procs) \in Nat
      BY <2>2, FS_Subset, FS_CardinalityType, FiniteProcs
    <2>4. debates[v] + Cardinality(Passed(v)) <= MaxDebates + Cardinality(Procs) - 1
          /\ debates[v] \in Nat /\ debates'[v] = debates[v]
      BY <2>1 DEF Counted, Control, TypeOK
    <2> QED
      BY <2>3, <2>4, CountedBut
  <1> QED
    BY <1>1, <1>2

LEMMA NextLooping == Control /\ Looping /\ [Next]_vars => Looping'
  <1> SUFFICES ASSUME Control, Looping, [Next]_vars PROVE Looping'
    OBVIOUS
  <1> USE DEF Control, TypeOK, Looping, CountPcs
  <1>1. ASSUME NEW t \in Tasks, NEW s \in Sessions, CreateDebate(t, s) PROVE Looping'
    BY <1>1 DEF CreateDebate, Accept
  <1>2. ASSUME NEW t \in Tasks, NEW s \in Sessions, OpenStream(t, s) PROVE Looping'
    BY <1>2 DEF OpenStream, Accept
  <1>3. ASSUME NEW s \in Sessions, PrepareSession(s) PROVE Looping'
    BY <1>3 DEF PrepareSession
  <1>4. ASSUME NEW s \in Sessions, DeleteDebate(s) PROVE Looping'
    BY <1>4 DEF DeleteDebate
  <1>5. ASSUME NEW s \in Sessions, ExpireCheckpoint(s) PROVE Looping'
    BY <1>5 DEF ExpireCheckpoint
  <1>6. ASSUME NEW t \in Tasks, ClaimSession(t) PROVE Looping'
    BY <1>6 DEF ClaimSession
  <1>7. ASSUME NEW t \in Tasks, CheckUsage(t) PROVE Looping'
    BY <1>7 DEF CheckUsage, Reject, UsageError
  <1>8. ASSUME NEW t \in Tasks, AcquireGuard(t) PROVE Looping'
    BY <1>8 DEF AcquireGuard, KeySettable, Reject
  <1>9. ASSUME NEW t \in Tasks, CountDebate(t) PROVE Looping'
    BY <1>9 DEF CountDebate
  <1>10. ASSUME NEW t \in Tasks, LoadState(t) PROVE Looping'
    BY <1>10 DEF LoadState
  <1>11. ASSUME NEW t \in Tasks, Chunk(t) PROVE Looping'
    BY <1>11 DEF Chunk
  <1>12. ASSUME NEW t \in Tasks, StartSummary(t) PROVE Looping'
    BY <1>12 DEF StartSummary
  <1>13. ASSUME NEW t \in Tasks, SaveStatement(t) PROVE Looping'
    BY <1>13 DEF SaveStatement, CanInsert
  <1>14. ASSUME NEW t \in Tasks, SaveSummary(t) PROVE Looping'
    BY <1>14 DEF SaveSummary
  <1>15. ASSUME NEW t \in Tasks, CompleteSession(t) PROVE Looping'
    BY <1>15 DEF CompleteSession
  <1>16. ASSUME NEW t \in Tasks, GraphError(t) PROVE Looping'
    BY <1>16 DEF GraphError
  <1>17. ASSUME NEW t \in Tasks, ClearCheckpoint(t) PROVE Looping'
    BY <1>17 DEF ClearCheckpoint
  <1>18. ASSUME NEW t \in Tasks, DeliverSummary(t) PROVE Looping'
    BY <1>18 DEF DeliverSummary
  <1>19. ASSUME NEW t \in Tasks, EndGet(t) PROVE Looping'
    BY <1>19 DEF EndGet, KeyIsOurs, AfterEnd
  <1>20. ASSUME NEW t \in Tasks, EndDel(t) PROVE Looping'
    BY <1>20 DEF EndDel, AfterEnd
  <1>21. ASSUME NEW t \in Tasks, FailRow(t) PROVE Looping'
    BY <1>21 DEF FailRow, FailIfRunning
  <1>22. ASSUME NEW t \in Tasks, FailStream(t) PROVE Looping'
    BY <1>22 DEF FailStream, FailIfRunning
  <1>23. ASSUME NEW t \in Tasks, Respond(t) PROVE Looping'
    BY <1>23 DEF Respond
  <1>24. ASSUME NEW t \in Tasks, Cancel(t) PROVE Looping'
    BY <1>24 DEF Cancel, Cancelled
  <1>25. ASSUME NEW t \in Tasks, CloseGenerator(t) PROVE Looping'
    BY <1>25 DEF CloseGenerator, Cancelled
  <1>26. ASSUME NEW t \in Tasks, DropGenerator(t) PROVE Looping'
    BY <1>26 DEF DropGenerator
  <1>27. ASSUME NEW p \in Procs, Crash(p) PROVE Looping'
    BY <1>27 DEF Crash
  <1>28. ASSUME NEW k \in Keys, ExpireActive(k) PROVE Looping'
    BY <1>28 DEF ExpireActive
  <1>29. CASE UNCHANGED vars
    BY <1>29 DEF vars
  <1> QED
    BY <1>1, <1>2, <1>3, <1>4, <1>5, <1>6, <1>7, <1>8, <1>9, <1>10, <1>11, <1>12, <1>13, <1>14, <1>15, <1>16, <1>17, <1>18, <1>19, <1>20, <1>21, <1>22, <1>23, <1>24, <1>25, <1>26, <1>27, <1>28, <1>29
       DEF Next, Progress, Refused

LEMMA NextCounted == Control /\ Looping /\ Counted /\ [Next]_vars => Counted'
  <1> SUFFICES ASSUME Control, Looping, Counted, [Next]_vars PROVE Counted'
    OBVIOUS
  <1> USE DEF Control, TypeOK, Looping, CountPcs, K
  <1>a. ASSUME UNCHANGED debates, \A u \in Users : Passed(u)' \subseteq Passed(u) PROVE Counted'
    BY <1>a, CountedFrame
  <1>1. ASSUME NEW t \in Tasks, NEW s \in Sessions, CreateDebate(t, s) PROVE Counted'
    BY <1>1, <1>a DEF CreateDebate, Accept, Passed
  <1>2. ASSUME NEW t \in Tasks, NEW s \in Sessions, OpenStream(t, s) PROVE Counted'
    BY <1>2, <1>a DEF OpenStream, Accept, Passed
  <1>3. ASSUME NEW s \in Sessions, PrepareSession(s) PROVE Counted'
    BY <1>3, <1>a DEF PrepareSession, Passed
  <1>4. ASSUME NEW s \in Sessions, DeleteDebate(s) PROVE Counted'
    BY <1>4, <1>a DEF DeleteDebate, Passed
  <1>5. ASSUME NEW s \in Sessions, ExpireCheckpoint(s) PROVE Counted'
    BY <1>5, <1>a DEF ExpireCheckpoint, Passed
  <1>6. ASSUME NEW t \in Tasks, ClaimSession(t) PROVE Counted'
    BY <1>6, <1>a DEF ClaimSession, Passed
  <1>7. ASSUME NEW t \in Tasks, CheckUsage(t) PROVE Counted'
    <2> PICK v \in Users : v = UserOf[K(t)]
      BY <1>7 DEF CheckUsage
    <2>1. UNCHANGED debates /\ \A u \in Users \ {v} : Passed(u)' \subseteq Passed(u)
      BY <1>7 DEF CheckUsage, Reject, UsageError, Passed
    <2>2. CASE BelowDailyLimit(v)
      <3>1. debates[v] < MaxDebates /\ v \in Users /\ debates[v] \in Nat
        BY <1>7, <2>2 DEF BelowDailyLimit, CheckUsage
      <3>2. Cardinality(Passed(v)') <= Cardinality(Procs) /\ Cardinality(Passed(v)') \in Nat
            /\ Cardinality(Procs) \in Nat
        BY FS_Subset, FS_CardinalityType, FiniteProcs DEF Passed
      <3>3. debates'[v] + Cardinality(Passed(v)') <= MaxDebates + Cardinality(Procs) - 1
        BY <2>1, <3>1, <3>2
      <3> QED
        BY <2>1, <3>3, CountedBut
    <2>3. CASE ~ BelowDailyLimit(v)
      <3>1. Passed(v)' \subseteq Passed(v)
        BY <1>7, <2>3 DEF CheckUsage, Reject, UsageError, Passed
      <3> QED
        BY <1>a, <2>1, <3>1
    <2> QED
      BY <2>2, <2>3
  <1>8. ASSUME NEW t \in Tasks, AcquireGuard(t) PROVE Counted'
    BY <1>8, <1>a DEF AcquireGuard, KeySettable, Reject, Passed
  <1>9. ASSUME NEW t \in Tasks, CountDebate(t) PROVE Counted'
    <2> PICK v \in Users : v = UserOf[K(t)]
      BY <1>9 DEF CountDebate
    <2> DEFINE p == ProcOf[t]
    <2>1. /\ v \in Users /\ p \in Procs /\ p \in Passed(v)
          /\ \A u \in Users : Passed(u)' \subseteq Passed(u)
          /\ p \notin Passed(v)'
      BY <1>9 DEF CountDebate, Passed
    <2>2. CASE UNCHANGED debates
      BY <1>a, <2>1, <2>2
    <2>3. CASE debates' = [debates EXCEPT ![v] = @ + 1]
      <3>1. IsFiniteSet(Passed(v)) /\ Passed(v)' \subseteq Passed(v) \ {p}
        BY <2>1, FS_Subset, FiniteProcs DEF Passed
      <3>2. /\ Cardinality(Passed(v) \ {p}) = Cardinality(Passed(v)) - 1
            /\ IsFiniteSet(Passed(v) \ {p}) /\ Cardinality(Passed(v)) \in Nat
        BY <2>1, <3>1, FS_RemoveElement, FS_CardinalityType
      <3>3. Cardinality(Passed(v)') <= Cardinality(Passed(v)) - 1 /\ Cardinality(Passed(v)') \in Nat
        BY <3>1, <3>2, FS_Subset, FS_CardinalityType
      <3>4. /\ debates[v] + Cardinality(Passed(v)) <= MaxDebates + Cardinality(Procs) - 1
            /\ Cardinality(Procs) \in Nat /\ debates'[v] = debates[v] + 1 /\ debates[v] \in Nat
        BY <2>1, <2>3, FS_CardinalityType, FiniteProcs DEF Counted
      <3>5. debates'[v] + Cardinality(Passed(v)') <= MaxDebates + Cardinality(Procs) - 1
        BY <3>2, <3>3, <3>4
      <3>6. \A u \in Users \ {v} : debates'[u] = debates[u] /\ Passed(u)' \subseteq Passed(u)
        BY <2>1, <2>3
      <3> QED
        BY <3>5, <3>6, CountedBut
    <2> QED
      BY <1>9, <2>2, <2>3 DEF CountDebate
  <1>10. ASSUME NEW t \in Tasks, LoadState(t) PROVE Counted'
    BY <1>10, <1>a DEF LoadState, Passed
  <1>11. ASSUME NEW t \in Tasks, Chunk(t) PROVE Counted'
    BY <1>11, <1>a DEF Chunk, Passed
  <1>12. ASSUME NEW t \in Tasks, StartSummary(t) PROVE Counted'
    BY <1>12, <1>a DEF StartSummary, Passed
  <1>13. ASSUME NEW t \in Tasks, SaveStatement(t) PROVE Counted'
    BY <1>13, <1>a DEF SaveStatement, CanInsert, Passed
  <1>14. ASSUME NEW t \in Tasks, SaveSummary(t) PROVE Counted'
    BY <1>14, <1>a DEF SaveSummary, Passed
  <1>15. ASSUME NEW t \in Tasks, CompleteSession(t) PROVE Counted'
    BY <1>15, <1>a DEF CompleteSession, Passed
  <1>16. ASSUME NEW t \in Tasks, GraphError(t) PROVE Counted'
    BY <1>16, <1>a DEF GraphError, Passed
  <1>17. ASSUME NEW t \in Tasks, ClearCheckpoint(t) PROVE Counted'
    BY <1>17, <1>a DEF ClearCheckpoint, Passed
  <1>18. ASSUME NEW t \in Tasks, DeliverSummary(t) PROVE Counted'
    BY <1>18, <1>a DEF DeliverSummary, Passed
  <1>19. ASSUME NEW t \in Tasks, EndGet(t) PROVE Counted'
    BY <1>19, <1>a DEF EndGet, KeyIsOurs, AfterEnd, Passed
  <1>20. ASSUME NEW t \in Tasks, EndDel(t) PROVE Counted'
    BY <1>20, <1>a DEF EndDel, AfterEnd, Passed
  <1>21. ASSUME NEW t \in Tasks, FailRow(t) PROVE Counted'
    BY <1>21, <1>a DEF FailRow, FailIfRunning, Passed
  <1>22. ASSUME NEW t \in Tasks, FailStream(t) PROVE Counted'
    BY <1>22, <1>a DEF FailStream, FailIfRunning, Passed
  <1>23. ASSUME NEW t \in Tasks, Respond(t) PROVE Counted'
    BY <1>23, <1>a DEF Respond, Passed
  <1>24. ASSUME NEW t \in Tasks, Cancel(t) PROVE Counted'
    BY <1>24, <1>a DEF Cancel, Cancelled, Passed
  <1>25. ASSUME NEW t \in Tasks, CloseGenerator(t) PROVE Counted'
    BY <1>25, <1>a DEF CloseGenerator, Cancelled, Passed
  <1>26. ASSUME NEW t \in Tasks, DropGenerator(t) PROVE Counted'
    BY <1>26, <1>a DEF DropGenerator, Passed
  <1>27. ASSUME NEW p \in Procs, Crash(p) PROVE Counted'
    BY <1>27, <1>a DEF Crash, Passed
  <1>28. ASSUME NEW k \in Keys, ExpireActive(k) PROVE Counted'
    BY <1>28, <1>a DEF ExpireActive, Passed
  <1>29. CASE UNCHANGED vars
    BY <1>29, <1>a DEF vars, Passed
  <1> QED
    BY <1>1, <1>2, <1>3, <1>4, <1>5, <1>6, <1>7, <1>8, <1>9, <1>10, <1>11, <1>12, <1>13, <1>14, <1>15, <1>16, <1>17, <1>18, <1>19, <1>20, <1>21, <1>22, <1>23, <1>24, <1>25, <1>26, <1>27, <1>28, <1>29
       DEF Next, Progress, Refused

-----------------------------------------------------------------------------
(* Theorems.                                                               *)

LEMMA ControlInvariant == Spec => []Control
  <1>1. Init => Control
    BY InitIInv DEF IInv
  <1> QED
    BY <1>1, NextControl, PTL DEF Spec

LEMMA GuardedInvariant == ASSUME TtlOutlastsRuns PROVE Spec => []IInv
  <1>1. IInv /\ [Next]_vars => IInv'
    BY NextControl, NextGuarded DEF IInv
  <1> QED
    BY <1>1, InitIInv, PTL DEF Spec

LEMMA WholeInvariant == Spec => []Whole
  <1>1. Init => Whole
    BY DEF Init, Whole, FirstPcs, CompletedIsWhole
  <1>2. Control /\ Whole /\ [Next]_vars => Whole'
    BY NextWhole
  <1> QED
    BY <1>1, <1>2, ControlInvariant, PTL DEF Spec

\* The variables have their types: in particular no run saves a statement past
\* the last.
THEOREM TypeCorrect == Spec => []TypeOK
  <1>1. Control => TypeOK
    BY DEF Control
  <1> QED
    BY <1>1, ControlInvariant, PTL

\* A session the rows call completed has all its statements and its summary.
THEOREM CompletedSessionsAreWhole == Spec => []CompletedIsWhole
  <1>1. Whole => CompletedIsWhole
    BY DEF Whole
  <1> QED
    BY <1>1, WholeInvariant, PTL

\* One debate at a time per user and symbol, when no run outlasts its key.
THEOREM GuardExclusion == ASSUME TtlOutlastsRuns PROVE Spec => []GuardExclusive
  <1>1. IInv => GuardExclusive
    <2> SUFFICES ASSUME IInv,
                        NEW t \in holders, NEW r \in holders, K(t) = K(r)
                 PROVE  t = r /\ active[K(t)] = sess[t]
      BY DEF IInv, Guarded, Holding, GuardExclusive
    <2>1. active[K(t)] = sess[t] /\ active[K(r)] = sess[r]
      BY DEF IInv, Guarded, Holding
    <2>2. t \in Live /\ r \in Live
      BY DEF IInv, Guarded, Holding, HoldPcs, Control, TypeOK
    <2> QED
      BY <2>1, <2>2 DEF IInv, Control, OneRunner
  <1> QED
    BY <1>1, GuardedInvariant, PTL

\* end_session only ever deletes its own session's key, when no run outlasts it.
THEOREM DelOwnKey == ASSUME TtlOutlastsRuns PROVE Spec => []DelOnlyOwnKey
  <1>1. IInv => DelOnlyOwnKey
    BY DEF IInv, Guarded, Deleting, DelOnlyOwnKey
  <1> QED
    BY <1>1, GuardedInvariant, PTL

\* A completed or failed session stays so until it is deleted.
THEOREM Finality == Spec => TerminalIsFinal
  <1> DEFINE Stays == \A s \in Sessions : row[s] \in {"completed", "failed"}
                          => row'[s] \in {row[s], "deleted"}
  <1>1. Control /\ [Next]_vars => [Stays]_vars
    <2> SUFFICES ASSUME Control, Next PROVE Stays
      OBVIOUS
    <2> USE DEF Control, TypeOK
    <2>1. ASSUME NEW t \in Tasks, NEW s \in Sessions, CreateDebate(t, s) \/ OpenStream(t, s)
          PROVE  Stays
      BY <2>1 DEF CreateDebate, OpenStream
    <2>2. ASSUME NEW s \in Sessions, PrepareSession(s) \/ DeleteDebate(s) \/ ExpireCheckpoint(s)
          PROVE  Stays
      BY <2>2 DEF PrepareSession, DeleteDebate, ExpireCheckpoint
    <2>3. ASSUME NEW t \in Tasks, ClaimSession(t) PROVE Stays
      BY <2>3 DEF ClaimSession, Claiming
    <2>4. ASSUME NEW t \in Tasks, CheckUsage(t) \/ AcquireGuard(t) PROVE Stays
      BY <2>4 DEF CheckUsage, AcquireGuard, Reject, UsageError
    <2>5. ASSUME NEW t \in Tasks, CompleteSession(t) PROVE Stays
      BY <2>5 DEF CompleteSession, RunningRow, RunPcs
    <2>6. ASSUME NEW t \in Tasks, FailRow(t) \/ FailStream(t) PROVE Stays
      BY <2>6 DEF FailRow, FailStream, FailIfRunning
    <2>7. ASSUME UNCHANGED row PROVE Stays
      BY <2>7
    <2>8. ASSUME NEW t \in Tasks,
                 \/ CountDebate(t) \/ LoadState(t) \/ Chunk(t) \/ StartSummary(t)
                 \/ SaveStatement(t) \/ SaveSummary(t) \/ ClearCheckpoint(t)
                 \/ DeliverSummary(t) \/ EndGet(t) \/ EndDel(t) \/ Respond(t)
                 \/ GraphError(t) \/ Cancel(t) \/ CloseGenerator(t) \/ DropGenerator(t)
          PROVE  UNCHANGED row
      BY <2>8 DEF CountDebate, LoadState, Chunk, StartSummary, SaveStatement, SaveSummary,
                  ClearCheckpoint, DeliverSummary, EndGet, EndDel, Respond, GraphError,
                  Cancel, CloseGenerator, DropGenerator
    <2>9. ASSUME NEW p \in Procs, Crash(p) PROVE UNCHANGED row
      BY <2>9 DEF Crash
    <2>10. ASSUME NEW k \in Keys, ExpireActive(k) PROVE UNCHANGED row
      BY <2>10 DEF ExpireActive
    <2> QED
      BY <2>1, <2>2, <2>3, <2>4, <2>5, <2>6, <2>7, <2>8, <2>9, <2>10 DEF Next, Progress, Refused
  <1> QED
    BY <1>1, ControlInvariant, PTL DEF Spec, TerminalIsFinal

LEMMA FateInvariant == Spec => []Fate
  <1>1. Init => Fate
    BY DEF Init, Fate, Unwinding, Answered, SuccessMeansCompleted
  <1> QED
    BY <1>1, NextFate, ControlInvariant, PTL DEF Spec

\* A client that is told of success finds its session completed, unless it was deleted
\* meanwhile, whatever other requests, processes and faults do.
THEOREM SuccessIsCompletion == Spec => []SuccessMeansCompleted
  <1>1. Fate => SuccessMeansCompleted
    BY DEF Fate, Answered
  <1> QED
    BY <1>1, FateInvariant, PTL

\* A RUNNING row that no request runs has one of the five explanations: update_session_status
\* and fail_session_if_running leave none behind on any other way out of a run.
THEOREM StrandedRowsExplained == Spec => []StrandedRowExplained
  <1>1. Init => StrandedRowExplained
    BY DEF Init, StrandedRowExplained
  <1> QED
    BY <1>1, NextStranded, FateInvariant, ControlInvariant, PTL DEF Spec

\* As long as nothing fails, a key that is set belongs to a request in flight, whether or
\* not a run outlives its key: try_start_session and end_session lose none.
THEOREM KeysHaveHolders == Spec => []NoOrphanLock
  <1>1. Init => Kept
    BY DEF Init, Kept
  <1>2. Control /\ Kept => NoOrphanLock
    <2> SUFFICES ASSUME Control, Kept, faults = 0, NEW k \in Keys, active[k] # NoSession
                 PROVE  \E t \in holders \intersect Live : K(t) = k
      BY DEF NoOrphanLock
    <2>1. PICK t \in holders : K(t) = k
      BY DEF Kept
    <2>2. t \in Live
      BY <2>1 DEF Kept, HoldPcs, Control, TypeOK
    <2> QED
      BY <2>1, <2>2
  <1> QED
    BY <1>1, <1>2, NextKept, ControlInvariant, PTL DEF Spec

\* No request meets a checkpoint to load: a session whose run has left one is never run
\* again, whoever claims it and whatever its row says.
THEOREM NoResume == Spec => []CheckpointNeverLoaded
  <1>1. Init => Fresh
    BY DEF Init, Fresh
  <1>2. Control /\ Fresh => CheckpointNeverLoaded
    BY DEF Control, TypeOK, Fresh, UnloadedPcs, CheckpointNeverLoaded
  <1> QED
    BY <1>1, <1>2, NextFresh, ControlInvariant, PTL DEF Spec

\* The daily limit is passed by less than the number of processes, for any number of
\* requests: within a process nothing comes between the GET and the INCR.
THEOREM LimitPassedByProcesses == Spec => []DailyLimit
  <1>1. Init => Looping /\ Counted
    <2> SUFFICES ASSUME Init PROVE Looping /\ Counted
      OBVIOUS
    <2>1. Looping
      BY DEF Init, Looping, CountPcs
    <2>2. \A u : Passed(u) = {}
      BY DEF Init, Passed, CountPcs
    <2>3. Cardinality(Procs) \in Nat /\ Cardinality(Procs) > 0 /\ Cardinality({}) = 0
      BY FS_CardinalityType, FS_EmptySet, FiniteProcs
    <2>4. \A u \in Users : debates[u] = 0 /\ Cardinality(Passed(u)) = 0
      BY <2>2, <2>3 DEF Init
    <2> QED
      BY <2>1, <2>3, <2>4 DEF Counted
  <1>2. Control /\ Counted => DailyLimit
    <2> SUFFICES ASSUME Control, Counted, NEW u \in Users
                 PROVE  debates[u] <= MaxDebates + Cardinality(Procs) - 1
      BY DEF DailyLimit
    <2>1. Cardinality(Passed(u)) \in Nat /\ Cardinality(Procs) \in Nat
      BY FS_Subset, FS_CardinalityType, FiniteProcs DEF Passed
    <2> QED
      BY <2>1 DEF Counted, Control, TypeOK
  <1> QED
    BY <1>1, <1>2, NextLooping, NextCounted, ControlInvariant, PTL DEF Spec

-----------------------------------------------------------------------------
(* DebateRuntime implements KeyLock.                                       *)

Taken == {k \in Keys : active[k] # NoSession}
Inside(k) == {t \in holders : K(t) = k}

\* A key somebody is inside of has nobody else inside.
LEMMA Alone ==
    ASSUME IInv, NEW t \in holders
    PROVE  /\ Inside(K(t)) = {t} /\ K(t) \in Taken
           /\ t \in Tasks /\ K(t) \in Keys
  <1>1. \A r \in holders : r \in Live /\ active[K(r)] = sess[r]
    BY DEF IInv, Guarded, Holding, HoldPcs, Control, TypeOK
  <1>2. t \in Tasks /\ sess[t] \in Sessions /\ K(t) \in Keys
    BY <1>1 DEF IInv, Control, TypeOK, K
  <1>3. \A r \in holders : K(r) = K(t) => r = t
    BY <1>1 DEF IInv, Control, OneRunner
  <1> QED
    BY <1>1, <1>2, <1>3 DEF Inside, Taken

\* Steps that move neither a key nor the set of those inside stutter.
LEMMA LockStutter ==
    ASSUME IInv, UNCHANGED <<active, holders>>, \A t \in holders : sess'[t] = sess[t]
    PROVE  UNCHANGED Lock!vars
  BY DEF Lock!vars, K

\* A step that only takes tasks out is an Abandon.
LEMMA LockAbandon ==
    ASSUME IInv, NEW gone \in SUBSET Tasks, holders' = holders \ gone, UNCHANGED <<active, sess>>
    PROVE  Lock!Next
  <1>1. Lock!Abandon(gone)
    BY DEF Lock!Abandon, K
  <1> QED
    BY <1>1 DEF Lock!Next

LEMMA LockMove ==
    ASSUME NEW k \in Keys, NEW t \in Tasks, Lock!Acquire(k, t) \/ Lock!Release(k, t) \/ Lock!Free(k)
    PROVE  Lock!Next
  BY DEF Lock!Next

LEMMA LockStep == TtlOutlastsRuns /\ IInv /\ [Next]_vars => [Lock!Next]_(Lock!vars)
  <1> SUFFICES ASSUME TtlOutlastsRuns, IInv, [Next]_vars PROVE Lock!Next \/ UNCHANGED Lock!vars
    OBVIOUS
  <1>0. \A t \in holders : t \in Tasks /\ pc[t] # "idle"
    BY DEF IInv, Guarded, Holding, HoldPcs, Control, TypeOK
  <1>1. ASSUME NEW t \in Tasks, NEW s \in Sessions, CreateDebate(t, s) \/ OpenStream(t, s)
        PROVE  UNCHANGED Lock!vars
    <2>1. UNCHANGED <<active, holders>> /\ pc[t] = "idle" /\ sess' = [sess EXCEPT ![t] = s]
      BY <1>1 DEF CreateDebate, OpenStream, Accept
    <2>2. \A r \in holders : sess'[r] = sess[r]
      BY <1>0, <2>1 DEF IInv, Control, TypeOK
    <2> QED
      BY <2>1, <2>2, LockStutter
  <1>2. ASSUME NEW s \in Sessions, PrepareSession(s) \/ DeleteDebate(s) \/ ExpireCheckpoint(s)
        PROVE  UNCHANGED Lock!vars
    BY <1>2, LockStutter DEF PrepareSession, DeleteDebate, ExpireCheckpoint
  <1>3. ASSUME NEW t \in Tasks,
               \/ ClaimSession(t) \/ CheckUsage(t) \/ CountDebate(t) \/ LoadState(t)
               \/ Chunk(t) \/ StartSummary(t) \/ SaveStatement(t) \/ SaveSummary(t)
               \/ CompleteSession(t) \/ ClearCheckpoint(t) \/ DeliverSummary(t)
               \/ FailRow(t) \/ FailStream(t) \/ Respond(t)
               \/ GraphError(t) \/ Cancel(t) \/ CloseGenerator(t) \/ DropGenerator(t)
        PROVE  UNCHANGED Lock!vars
    <2>1. UNCHANGED <<active, holders, sess>>
      BY <1>3 DEF ClaimSession, CheckUsage, CountDebate, LoadState, Chunk, StartSummary,
                  SaveStatement, SaveSummary, CompleteSession, ClearCheckpoint, DeliverSummary,
                  FailRow, FailStream, Respond, GraphError, Cancel, CloseGenerator, DropGenerator
    <2> QED
      BY <2>1, LockStutter
  <1>4. ASSUME NEW t \in Tasks, AcquireGuard(t) PROVE Lock!Next \/ UNCHANGED Lock!vars
    <2>1. t \in Tasks /\ K(t) \in Keys /\ sess[t] \in Sessions /\ UNCHANGED sess
      BY <1>4 DEF AcquireGuard, IInv, Control, TypeOK, K
    <2>2. CASE UNCHANGED <<active, holders>>
      BY <2>1, <2>2, LockStutter
    <2>3. CASE ~ UNCHANGED <<active, holders>>
      <3>1. /\ active[K(t)] = NoSession
            /\ active' = [active EXCEPT ![K(t)] = sess[t]]
            /\ holders' = holders \union {t}
        BY <1>4, <2>3 DEF AcquireGuard, KeySettable
      <3>2. K(t) \notin Taken /\ Inside(K(t)) = {}
        BY <3>1, Alone DEF Taken, Inside
      <3>3. Taken' = Taken \union {K(t)}
        BY <2>1, <3>1 DEF Taken, IInv, Control, TypeOK
      <3>4. [k \in Keys |-> Inside(k)]' = [[k \in Keys |-> Inside(k)] EXCEPT ![K(t)] = {t}]
        BY <2>1, <3>1, <3>2 DEF Inside, K
      <3>5. PICK k \in Keys : k = K(t)
        BY <2>1
      <3>6. Lock!Acquire(k, t)
        BY <3>2, <3>3, <3>4, <3>5 DEF Lock!Acquire, Taken, Inside
      <3> QED
        BY <3>6, LockMove
    <2> QED
      BY <2>2, <2>3
  <1>5. ASSUME NEW t \in Tasks, EndGet(t) PROVE Lock!Next \/ UNCHANGED Lock!vars
    <2>1. /\ UNCHANGED <<active, sess>>
          /\ holders' = holders \/ holders' = holders \ {t}
      BY <1>5 DEF EndGet
    <2> QED
      BY <2>1, LockStutter, LockAbandon
  <1>6. ASSUME NEW t \in Tasks, EndDel(t) PROVE Lock!Next \/ UNCHANGED Lock!vars
    <2>1. K(t) \in Keys /\ active[K(t)] = sess[t] /\ sess[t] \in Sessions
      BY <1>6 DEF EndDel, IInv, Control, TypeOK, K, Guarded, Deleting
    <2>2. UNCHANGED sess /\ holders' = holders \ {t}
      BY <1>6 DEF EndDel
    <2>3. CASE UNCHANGED active
      <3>1. {t} \in SUBSET Tasks /\ UNCHANGED <<active, sess>>
        BY <2>2, <2>3
      <3> QED
        BY <2>2, <3>1, LockAbandon
    <2>4. CASE active' = [active EXCEPT ![K(t)] = NoSession]
      <3>1. K(t) \in Taken /\ Taken' = Taken \ {K(t)}
        BY <2>1, <2>4 DEF Taken, IInv, Control, TypeOK
      <3>2. \A r \in holders : K(r) = K(t) => r = t
        <4>1. \A r \in holders : r \in Live /\ active[K(r)] = sess[r]
          BY DEF IInv, Guarded, Holding, HoldPcs, Control, TypeOK
        <4> QED
          BY <1>6, <2>1, <4>1 DEF EndDel, IInv, Control, OneRunner
      <3>3. CASE t \in holders
        <4>1. Inside(K(t)) = {t}
          BY <3>3, Alone
        <4>2. [k \in Keys |-> Inside(k)]' = [[k \in Keys |-> Inside(k)] EXCEPT ![K(t)] = {}]
          BY <2>1, <2>2, <3>2 DEF Inside, K
        <4>3. PICK k \in Keys : k = K(t)
          BY <2>1
        <4>4. Lock!Release(k, t)
          BY <3>1, <4>1, <4>2, <4>3 DEF Lock!Release, Taken, Inside
        <4> QED
          BY <4>4, LockMove
      <3>4. CASE t \notin holders
        <4>1. Inside(K(t)) = {}
          BY <3>2, <3>4 DEF Inside
        <4>2. UNCHANGED [k \in Keys |-> Inside(k)]
          BY <2>2, <3>4 DEF Inside, K
        <4>3. PICK k \in Keys : k = K(t)
          BY <2>1
        <4>4. Lock!Free(k)
          BY <3>1, <4>1, <4>2, <4>3 DEF Lock!Free, Taken, Inside
        <4> QED
          BY <4>4, LockMove
      <3> QED
        BY <3>3, <3>4
    <2> QED
      BY <1>6, <2>3, <2>4 DEF EndDel
  <1>7. ASSUME NEW p \in Procs, Crash(p) PROVE Lock!Next
    <2>1. UNCHANGED <<active, sess>> /\ holders' = holders \ {t \in Live : ProcOf[t] = p}
      BY <1>7 DEF Crash
    <2> QED
      BY <2>1, LockAbandon
  <1>8. ASSUME NEW k \in Keys, ExpireActive(k) PROVE Lock!Next
    <2>1. /\ active[k] # NoSession /\ active' = [active EXCEPT ![k] = NoSession]
          /\ UNCHANGED <<holders, sess>>
          /\ \A t \in Live : sess[t] # active[k]
      BY <1>8 DEF ExpireActive
    <2>2. Inside(k) = {}
      <3>1. \A r \in holders : r \in Live /\ active[K(r)] = sess[r]
        BY DEF IInv, Guarded, Holding, HoldPcs, Control, TypeOK
      <3> QED
        BY <2>1, <3>1 DEF Inside
    <2>3. k \in Taken /\ Taken' = Taken \ {k}
      BY <2>1 DEF Taken, IInv, Control, TypeOK
    <2>4. UNCHANGED [j \in Keys |-> Inside(j)]
      BY <2>1 DEF Inside, K
    <2>5. Lock!Free(k)
      BY <2>2, <2>3, <2>4 DEF Lock!Free, Taken, Inside
    <2> QED
      BY <2>5 DEF Lock!Next
  <1>9. CASE UNCHANGED vars
    BY <1>9, LockStutter DEF vars
  <1> QED
    BY <1>1, <1>2, <1>3, <1>4, <1>5, <1>6, <1>7, <1>8, <1>9 DEF Next, Progress, Refused

\* Every behaviour of the runtime is one of the lock, when no run outlasts its
\* key: nobody enters a key that is taken, and nobody frees another's.
THEOREM ImplementsLock == ASSUME TtlOutlastsRuns PROVE Spec => LockRefinement
  <1>1. Init => Lock!Init
    BY DEF Init, Lock!Init
  <1>2. IInv /\ [Next]_vars => [Lock!Next]_(Lock!vars)
    BY LockStep
  <1> QED
    BY <1>1, <1>2, GuardedInvariant, PTL DEF Spec, Lock!Spec, LockRefinement

=============================================================================
