------------------------ MODULE AnalysisQueue_proofs ------------------------
(***************************************************************************)
(* Proofs about the analysis queue, for any number of documents, workers,  *)
(* syncs and faults.                                                       *)
(*                                                                         *)
(* The invariant IInv adds to the committed tables what a transaction may  *)
(* hold before it commits: the locks of two processes never overlap        *)
(* (Locks), a worker has settled what it need not do any more and nothing  *)
(* else (Batch), and a sync that has a baseline to store has the job for   *)
(* it too (Pass).                                                          *)
(***************************************************************************)
EXTENDS AnalysisQueue, TLAPS

JobRecs == [status : Statuses, attempts : 0 .. MaxAttempts]
JobWrites == [status : Statuses \union {"unset"}, attempts : 0 .. MaxAttempts]

\* Which process may be where.
Places ==
    /\ \A w \in Workers :
        /\ pc[w] \in {"idle", "work", "upsert"}
        /\ broken[w] => pc[w] = "work"
        /\ pc[w] = "upsert" => cur[w] \in todo[w]
    /\ \A i \in Indexers :
        /\ pc[i] \in {"idle", "index", "baseline", "enqueue"}
        /\ broken[i] => pc[i] = "index"
        /\ pc[i] \in {"baseline", "enqueue"} => cur[i] \in Docs
    /\ \A x \in Procs : pc[x] = "idle" =>
        /\ \A d \in Docs : jobW[x][d] = Unset /\ anW[x][d] = "unset"

\* No row of analysis_jobs is locked twice.
Locks ==
    \A x, y \in Procs : x # y => \A d \in Docs : ~ (HasJob(x, d) /\ HasJob(y, d))

\* A count of attempts that fits the status.
Counted(j) ==
    /\ j.status = "failed" => j.attempts = MaxAttempts
    /\ j.status = "pending" => j.attempts < MaxAttempts

\* What a worker has written: the jobs of its batch.
Batch ==
    \A w \in Workers : \A d \in Docs :
        /\ pc[w] # "idle" /\ d \in todo[w] => jobW[w][d].status # "unset"
        /\ jobW[w][d].status = "running" => d \in todo[w]
        /\ jobW[w][d].status # "absent"
        /\ Counted(jobW[w][d])
        /\ anW[w][d] \in {"unset", "enriched"}
        /\ anW[w][d] = "enriched" => jobW[w][d].status # "unset"
        /\ jobW[w][d].status = "done" => anW[w][d] = "enriched"

\* What a sync has written: baselines, and the jobs for them.
Pass ==
    \A i \in Indexers : \A d \in Docs :
        /\ jobW[i][d] \in {Unset, NewJob}
        /\ anW[i][d] \in {"unset", "baseline"}
        /\ anW[i][d] = "baseline" /\ d \in NeedsQwen /\ ~ broken[i] =>
               jobW[i][d] = NewJob \/ (pc[i] = "enqueue" /\ cur[i] = d)

Tables == NoJobStranded /\ BaselineIsQueued /\ AttemptsSpent

IInv == TypeOK /\ Places /\ Locks /\ Batch /\ Pass /\ Tables

USE QueueAssumption DEF tables, writes, syncs, Procs, Goto

-----------------------------------------------------------------------------
LEMMA InitIInv == Init => IInv
  <1> SUFFICES ASSUME Init PROVE IInv
    OBVIOUS
  <1>1. TypeOK
    BY DEF Init, TypeOK, NoJob, Unset, Statuses
  <1>2. Places /\ Locks
    BY DEF Init, Places, Locks, HasJob, Unset
  <1>3. Batch /\ Pass
    BY DEF Init, Batch, Pass, Counted, Unset, NewJob
  <1>4. Tables
    BY DEF Init, Tables, NoJobStranded, BaselineIsQueued, AttemptsSpent, NoJob
  <1> QED
    BY <1>1, <1>2, <1>3, <1>4 DEF IInv

LEMMA NextIInv == IInv /\ [Next]_vars => IInv'
  <1> SUFFICES ASSUME IInv, [Next]_vars PROVE IInv'
    OBVIOUS
  <1> USE DEF IInv
  <1>1. ASSUME NEW w \in Workers, Claim(w) PROVE IInv'
    <2> USE <1>1 DEF Claim, ClaimedBy, Available, Pending
    <2>1. TypeOK'
      <3>1. PICK S \in Batches : jobW' = ClaimedBy(w, S) /\ todo' = [todo EXCEPT ![w] = S]
        OBVIOUS
      <3>2. S \subseteq Available
        BY <3>1 DEF Batches
      <3>3. \A d \in Available : job[d].attempts \in Nat /\ job[d].attempts < MaxAttempts
        BY DEF TypeOK, Tables, AttemptsSpent
      <3>4. jobW' \in [Procs -> [Docs -> JobWrites]]
        <4>1. \A d \in S : [status |-> "running", attempts |-> job[d].attempts + 1] \in JobWrites
          BY <3>2, <3>3 DEF JobWrites, Statuses
        <4>2. Unset \in JobWrites
          BY DEF JobWrites, Unset
        <4>3. jobW \in [Procs -> [Docs -> JobWrites]]
          BY DEF TypeOK, JobWrites
        <4> HIDE DEF JobWrites, Unset, Available
        <4>4. jobW' = [jobW EXCEPT ![w] = [d \in Docs |->
                IF d \in S THEN [status |-> "running", attempts |-> job[d].attempts + 1] ELSE Unset]]
          BY <3>1
        <4> QED
          BY <4>1, <4>2, <4>3, <4>4
      <3>5. todo' \in [Procs -> SUBSET Docs]
        BY <3>1, <3>2 DEF TypeOK
      <3> QED
        BY <3>4, <3>5 DEF TypeOK, JobWrites
    <2>2. Places'
      BY DEF TypeOK, Places, Unset
    <2>3. Locks'
      <3>1. PICK S \in Batches : jobW' = ClaimedBy(w, S)
        OBVIOUS
      <3>2. \A d \in S : d \in Docs /\ \A x \in Procs : ~ HasJob(x, d)
        BY <3>1 DEF Batches
      <3>3. \A d \in Docs : HasJob(w, d)' => d \in S
        BY <3>1 DEF TypeOK, HasJob, Unset
      <3>4. \A x \in Procs : x # w => \A d \in Docs : HasJob(x, d)' <=> HasJob(x, d)
        BY <3>1 DEF TypeOK, HasJob
      <3> QED
        BY <3>2, <3>3, <3>4 DEF Locks
    <2>4. Batch'
      BY DEF TypeOK, Places, Batch, Counted, Unset, Tables, AttemptsSpent
    <2>5. Pass'
      BY DEF TypeOK, Places, Pass, Unset, NewJob
    <2>6. Tables'
      BY DEF TypeOK, Tables, NoJobStranded, BaselineIsQueued, AttemptsSpent,
             Places, Batch, Counted, Pass, NewJob, Unset
    <2> QED
      BY <2>1, <2>2, <2>3, <2>4, <2>5, <2>6
  <1>2. ASSUME NEW w \in Workers, StartUpsert(w) PROVE IInv'
    <2>a. PICK d \in todo[w] : cur' = [cur EXCEPT ![w] = d]
      BY <1>2 DEF StartUpsert
    <2>b. /\ pc[w] = "work" /\ ~ broken[w]
          /\ pc' = [pc EXCEPT ![w] = "upsert"]
          /\ UNCHANGED <<job, analysis, stored, jobW, anW, todo, broken, fresh, outcome, runs, faults>>
      BY <1>2 DEF StartUpsert
    <2>1. TypeOK'
      <3>1. d \in Docs
        BY <2>a DEF TypeOK
      <3>2. cur' \in [Procs -> Docs \union {NoDoc}]
        BY <2>a, <3>1 DEF TypeOK
      <3> QED
        BY <2>b, <3>2 DEF TypeOK
    <2>2. Places'
      BY <2>a, <2>b DEF TypeOK, Places, Unset
    <2>3. Locks'
      BY <2>b DEF Locks, HasJob
    <2>4. Batch'
      <3>1. \A v \in Workers : pc'[v] # "idle" => pc[v] # "idle"
        BY <2>b DEF TypeOK
      <3>2. jobW' = jobW /\ anW' = anW /\ todo' = todo
        BY <2>b
      <3> QED
        BY <3>1, <3>2 DEF Batch, Counted
    <2>5. Pass'
      <3>1. \A i \in Indexers : pc'[i] = pc[i] /\ cur'[i] = cur[i]
        BY <2>a, <2>b DEF TypeOK
      <3>2. jobW' = jobW /\ anW' = anW /\ broken' = broken
        BY <2>b
      <3> QED
        BY <3>1, <3>2 DEF Pass
    <2>6. Tables'
      BY <2>b DEF Tables, NoJobStranded, BaselineIsQueued, AttemptsSpent
    <2> QED
      BY <2>1, <2>2, <2>3, <2>4, <2>5, <2>6
  <1>3. ASSUME NEW w \in Workers, SaveEnriched(w) PROVE IInv'
    <2> USE <1>3 DEF SaveEnriched, BlockedBy
    <2>1. TypeOK'
      <3>1. cur[w] \in Docs
        BY DEF TypeOK, Places
      <3>2. jobW' \in [Procs -> [Docs -> JobWrites]]
        <4>1. jobW' = [jobW EXCEPT ![w][cur[w]].status = "done"]
          OBVIOUS
        <4>2. jobW \in [Procs -> [Docs -> JobWrites]]
          BY DEF TypeOK, JobWrites
        <4>3. [jobW[w][cur[w]] EXCEPT !.status = "done"] \in JobWrites
          BY <3>1, <4>2 DEF JobWrites, Statuses
        <4> QED
          BY <3>1, <4>1, <4>2, <4>3
      <3>3. anW' \in [Procs -> [Docs -> {"unset", "baseline", "enriched"}]]
        BY <3>1 DEF TypeOK
      <3> QED
        BY <3>2, <3>3 DEF TypeOK, JobWrites
    <2>2. Places'
      BY DEF TypeOK, Places, Unset
    <2>3. Locks'
      BY DEF TypeOK, Places, Locks, HasJob, Unset, Batch
    <2>4. Batch'
      BY DEF TypeOK, Places, Batch, Counted, Unset, Tables, AttemptsSpent
    <2>5. Pass'
      BY DEF TypeOK, Places, Pass, Unset, NewJob
    <2>6. Tables'
      BY DEF TypeOK, Tables, NoJobStranded, BaselineIsQueued, AttemptsSpent,
             Places, Batch, Counted, Pass, NewJob, Unset
    <2> QED
      BY <2>1, <2>2, <2>3, <2>4, <2>5, <2>6
  <1>4. ASSUME NEW w \in Workers, MarkFailed(w) PROVE IInv'
    <2> USE <1>4 DEF MarkFailed, StatusAfterFailure
    <2>1. TypeOK'
      <3>1. jobW' \in [Procs -> [Docs -> JobWrites]]
        <4>1. PICK d \in todo[w] :
                jobW' = [jobW EXCEPT ![w][d].status = StatusAfterFailure(jobW[w][d].attempts)]
          OBVIOUS
        <4>2. jobW \in [Procs -> [Docs -> JobWrites]] /\ d \in Docs
          BY DEF TypeOK, JobWrites
        <4>3. [jobW[w][d] EXCEPT !.status = StatusAfterFailure(jobW[w][d].attempts)] \in JobWrites
          BY <4>2 DEF JobWrites, Statuses
        <4> HIDE DEF StatusAfterFailure
        <4> QED
          BY <4>1, <4>2, <4>3
      <3>2. todo' \in [Procs -> SUBSET Docs]
        BY DEF TypeOK
      <3> QED
        BY <3>1, <3>2 DEF TypeOK, JobWrites
    <2>2. Places'
      BY DEF TypeOK, Places, Unset
    <2>3. Locks'
      BY DEF TypeOK, Places, Locks, HasJob, Unset, Batch
    <2>4. Batch'
      BY DEF TypeOK, Places, Batch, Counted, Unset, Tables, AttemptsSpent
    <2>5. Pass'
      BY DEF TypeOK, Places, Pass, Unset, NewJob
    <2>6. Tables'
      BY DEF TypeOK, Tables, NoJobStranded, BaselineIsQueued, AttemptsSpent,
             Places, Batch, Counted, Pass, NewJob, Unset
    <2> QED
      BY <2>1, <2>2, <2>3, <2>4, <2>5, <2>6
  <1>5. ASSUME NEW w \in Workers, BreakBatch(w) PROVE IInv'
    <2> USE <1>5 DEF BreakBatch, Fault
    <2>1. TypeOK'
      BY DEF TypeOK, Statuses, Unset, Places, Batch, Counted, AttemptsSpent, Tables
    <2>2. Places'
      BY DEF TypeOK, Places, Unset
    <2>3. Locks'
      BY DEF TypeOK, Places, Locks, HasJob, Unset, Batch
    <2>4. Batch'
      BY DEF TypeOK, Places, Batch, Counted, Unset, Tables, AttemptsSpent
    <2>5. Pass'
      BY DEF TypeOK, Places, Pass, Unset, NewJob
    <2>6. Tables'
      BY DEF TypeOK, Tables, NoJobStranded, BaselineIsQueued, AttemptsSpent,
             Places, Batch, Counted, Pass, NewJob, Unset
    <2> QED
      BY <2>1, <2>2, <2>3, <2>4, <2>5, <2>6
  <1>6. ASSUME NEW w \in Workers, CommitBatch(w) PROVE IInv'
    <2> USE <1>6 DEF CommitBatch, Commit, EndBatch, NothingWritten
    <2>1. TypeOK'
      BY DEF TypeOK, Statuses, Unset, Places, Batch, Counted, AttemptsSpent, Tables
    <2>2. Places'
      BY DEF TypeOK, Places, Unset
    <2>3. Locks'
      BY DEF TypeOK, Places, Locks, HasJob, Unset, Batch
    <2>4. Batch'
      BY DEF TypeOK, Places, Batch, Counted, Unset, Tables, AttemptsSpent
    <2>5. Pass'
      BY DEF TypeOK, Places, Pass, Unset, NewJob
    <2>6. Tables'
      <3>1. \A d \in Docs : jobW[w][d].status \notin {"running", "absent"} /\ Counted(jobW[w][d])
        BY DEF Batch
      <3>2. NoJobStranded'
        BY <3>1 DEF Tables, NoJobStranded
      <3>3. AttemptsSpent'
        BY <3>1 DEF Tables, AttemptsSpent, Counted
      <3>4. BaselineIsQueued'
        <4>1. ASSUME NEW d \in NeedsQwen, analysis'[d] = "baseline"
              PROVE  job'[d].status \in {"pending", "failed"}
          <5>1. d \in Docs /\ anW[w][d] = "unset" /\ analysis[d] = "baseline"
            BY <4>1 DEF Batch
          <5>2. jobW[w][d].status \in {"unset", "pending", "failed"}
            BY <3>1, <5>1 DEF TypeOK, Batch, Statuses
          <5> QED
            BY <5>1, <5>2 DEF Tables, BaselineIsQueued
        <4> QED
          BY <4>1 DEF BaselineIsQueued
      <3> QED
        BY <3>2, <3>3, <3>4 DEF Tables
    <2> QED
      BY <2>1, <2>2, <2>3, <2>4, <2>5, <2>6
  <1>7. ASSUME NEW w \in Workers, RollBackBatch(w) PROVE IInv'
    <2> USE <1>7 DEF RollBackBatch, EndBatch, NothingWritten
    <2>1. TypeOK'
      BY DEF TypeOK, Statuses, Unset, Places, Batch, Counted, AttemptsSpent, Tables
    <2>2. Places'
      BY DEF TypeOK, Places, Unset
    <2>3. Locks'
      BY DEF TypeOK, Places, Locks, HasJob, Unset, Batch
    <2>4. Batch'
      BY DEF TypeOK, Places, Batch, Counted, Unset, Tables, AttemptsSpent
    <2>5. Pass'
      BY DEF TypeOK, Places, Pass, Unset, NewJob
    <2>6. Tables'
      BY DEF TypeOK, Tables, NoJobStranded, BaselineIsQueued, AttemptsSpent,
             Places, Batch, Counted, Pass, NewJob, Unset
    <2> QED
      BY <2>1, <2>2, <2>3, <2>4, <2>5, <2>6
  <1>8. ASSUME NEW i \in Indexers, BeginSync(i) PROVE IInv'
    <2> USE <1>8 DEF BeginSync
    <2>1. TypeOK'
      BY DEF TypeOK, Statuses, Unset, Places, Batch, Counted, AttemptsSpent, Tables
    <2>2. Places'
      BY DEF TypeOK, Places, Unset
    <2>3. Locks'
      BY DEF TypeOK, Places, Locks, HasJob, Unset, Batch
    <2>4. Batch'
      BY DEF TypeOK, Places, Batch, Counted, Unset, Tables, AttemptsSpent
    <2>5. Pass'
      BY DEF TypeOK, Places, Pass, Unset, NewJob
    <2>6. Tables'
      BY DEF TypeOK, Tables, NoJobStranded, BaselineIsQueued, AttemptsSpent,
             Places, Batch, Counted, Pass, NewJob, Unset
    <2> QED
      BY <2>1, <2>2, <2>3, <2>4, <2>5, <2>6
  <1>9. ASSUME NEW i \in Indexers, NextDoc(i) PROVE IInv'
    <2>a. PICK d \in todo[i] :
            /\ cur' = [cur EXCEPT ![i] = d]
            /\ todo' = [todo EXCEPT ![i] = @ \ {d}]
      BY <1>9 DEF NextDoc
    <2>b. /\ pc[i] = "index" /\ ~ broken[i]
          /\ pc' = [pc EXCEPT ![i] = "baseline"]
          /\ UNCHANGED <<job, analysis, stored, jobW, anW, broken, fresh, outcome, runs, faults>>
      BY <1>9 DEF NextDoc
    <2>1. TypeOK'
      <3>1. d \in Docs
        BY <2>a DEF TypeOK
      <3>2. cur' \in [Procs -> Docs \union {NoDoc}] /\ todo' \in [Procs -> SUBSET Docs]
        BY <2>a, <3>1 DEF TypeOK
      <3> QED
        BY <2>b, <3>2 DEF TypeOK
    <2>2. Places'
      BY <2>a, <2>b DEF TypeOK, Places, Unset
    <2>3. Locks'
      BY <2>b DEF Locks, HasJob
    <2>4. Batch'
      <3>1. \A v \in Workers : pc'[v] = pc[v] /\ todo'[v] = todo[v]
        BY <2>a, <2>b DEF TypeOK
      <3>2. jobW' = jobW /\ anW' = anW
        BY <2>b
      <3> QED
        BY <3>1, <3>2 DEF Batch, Counted
    <2>5. Pass'
      <3>1. \A j \in Indexers : pc[j] = "enqueue" => pc'[j] = pc[j] /\ cur'[j] = cur[j]
        BY <2>a, <2>b DEF TypeOK
      <3>2. jobW' = jobW /\ anW' = anW /\ broken' = broken
        BY <2>b
      <3> QED
        BY <3>1, <3>2 DEF Pass
    <2>6. Tables'
      BY <2>b DEF Tables, NoJobStranded, BaselineIsQueued, AttemptsSpent
    <2> QED
      BY <2>1, <2>2, <2>3, <2>4, <2>5, <2>6
  <1>10. ASSUME NEW i \in Indexers, SkipDoc(i) PROVE IInv'
    <2> USE <1>10 DEF SkipDoc
    <2>1. TypeOK'
      BY DEF TypeOK, Statuses, Unset, Places, Batch, Counted, AttemptsSpent, Tables
    <2>2. Places'
      BY DEF TypeOK, Places, Unset
    <2>3. Locks'
      BY DEF TypeOK, Places, Locks, HasJob, Unset, Batch
    <2>4. Batch'
      BY DEF TypeOK, Places, Batch, Counted, Unset, Tables, AttemptsSpent
    <2>5. Pass'
      BY DEF TypeOK, Places, Pass, Unset, NewJob
    <2>6. Tables'
      BY DEF TypeOK, Tables, NoJobStranded, BaselineIsQueued, AttemptsSpent,
             Places, Batch, Counted, Pass, NewJob, Unset
    <2> QED
      BY <2>1, <2>2, <2>3, <2>4, <2>5, <2>6
  <1>11. ASSUME NEW i \in Indexers, SaveBaseline(i) PROVE IInv'
    <2> USE <1>11 DEF SaveBaseline, BlockedBy
    <2>1. TypeOK'
      BY DEF TypeOK, Statuses, Unset, Places, Batch, Counted, AttemptsSpent, Tables
    <2>2. Places'
      BY DEF TypeOK, Places, Unset
    <2>3. Locks'
      BY DEF TypeOK, Places, Locks, HasJob, Unset, Batch
    <2>4. Batch'
      BY DEF TypeOK, Places, Batch, Counted, Unset, Tables, AttemptsSpent
    <2>5. Pass'
      BY DEF TypeOK, Places, Pass, Unset, NewJob
    <2>6. Tables'
      BY DEF TypeOK, Tables, NoJobStranded, BaselineIsQueued, AttemptsSpent,
             Places, Batch, Counted, Pass, NewJob, Unset
    <2> QED
      BY <2>1, <2>2, <2>3, <2>4, <2>5, <2>6
  <1>12. ASSUME NEW i \in Indexers, Enqueue(i) PROVE IInv'
    <2> USE <1>12 DEF Enqueue, BlockedBy, NewJob
    <2>1. TypeOK'
      BY DEF TypeOK, Statuses, Unset, Places, Batch, Counted, AttemptsSpent, Tables
    <2>2. Places'
      BY DEF TypeOK, Places, Unset
    <2>3. Locks'
      BY DEF TypeOK, Places, Locks, HasJob, Unset, Batch
    <2>4. Batch'
      BY DEF TypeOK, Places, Batch, Counted, Unset, Tables, AttemptsSpent
    <2>5. Pass'
      BY DEF TypeOK, Places, Pass, Unset, NewJob
    <2>6. Tables'
      BY DEF TypeOK, Tables, NoJobStranded, BaselineIsQueued, AttemptsSpent,
             Places, Batch, Counted, Pass, NewJob, Unset
    <2> QED
      BY <2>1, <2>2, <2>3, <2>4, <2>5, <2>6
  <1>13. ASSUME NEW i \in Indexers, BreakSync(i) PROVE IInv'
    <2> USE <1>13 DEF BreakSync, Fault
    <2>1. TypeOK'
      BY DEF TypeOK, Statuses, Unset, Places, Batch, Counted, AttemptsSpent, Tables
    <2>2. Places'
      BY DEF TypeOK, Places, Unset
    <2>3. Locks'
      BY DEF TypeOK, Places, Locks, HasJob, Unset, Batch
    <2>4. Batch'
      BY DEF TypeOK, Places, Batch, Counted, Unset, Tables, AttemptsSpent
    <2>5. Pass'
      BY DEF TypeOK, Places, Pass, Unset, NewJob
    <2>6. Tables'
      BY DEF TypeOK, Tables, NoJobStranded, BaselineIsQueued, AttemptsSpent,
             Places, Batch, Counted, Pass, NewJob, Unset
    <2> QED
      BY <2>1, <2>2, <2>3, <2>4, <2>5, <2>6
  <1>14. ASSUME NEW i \in Indexers, CommitSync(i) PROVE IInv'
    <2>a. \/ broken[i] /\ UNCHANGED <<job, analysis, stored>>
          \/ /\ ~ broken[i]
             /\ job' = [d \in Docs |-> IF jobW[i][d].status = "unset" THEN job[d] ELSE jobW[i][d]]
             /\ analysis' = [d \in Docs |-> IF anW[i][d] = "unset" THEN analysis[d] ELSE anW[i][d]]
             /\ stored' = stored \union fresh[i]
      BY <1>14 DEF CommitSync, Commit
    <2>b. \A d \in Docs : jobW[i][d] \in {Unset, NewJob} /\ anW[i][d] \in {"unset", "baseline"}
      BY DEF Pass
    <2> USE <1>14 DEF CommitSync, Commit, EndSync, NothingWritten
    <2>1. TypeOK'
      <3>1. NewJob \in JobRecs /\ job \in [Docs -> JobRecs]
        BY DEF TypeOK, NewJob, JobRecs, Statuses
      <3>2. job' \in [Docs -> JobRecs]
        <4>1. \A d \in Docs : jobW[i][d].status # "unset" => jobW[i][d] \in JobRecs
          BY <2>b, <3>1 DEF Unset
        <4> HIDE <1>14 DEF CommitSync
        <4> QED
          BY <2>a, <3>1, <4>1
      <3>3. analysis' \in [Docs -> {"none", "baseline", "enriched"}]
        <4>1. analysis \in [Docs -> {"none", "baseline", "enriched"}]
          BY DEF TypeOK
        <4> HIDE <1>14 DEF CommitSync
        <4> QED
          BY <2>a, <2>b, <4>1
      <3>4. stored' \in SUBSET Docs
        BY <2>a DEF TypeOK
      <3>5. jobW' \in [Procs -> [Docs -> JobWrites]] /\ anW' \in [Procs -> [Docs -> {"unset", "baseline", "enriched"}]]
        BY DEF TypeOK, JobWrites, Unset
      <3> QED
        BY <3>2, <3>3, <3>4, <3>5 DEF TypeOK, JobRecs, JobWrites
    <2>2. Places'
      BY DEF TypeOK, Places, Unset
    <2>3. Locks'
      BY DEF TypeOK, Places, Locks, HasJob, Unset, Batch
    <2>4. Batch'
      BY DEF TypeOK, Places, Batch, Counted, Unset, Tables, AttemptsSpent
    <2>5. Pass'
      BY DEF TypeOK, Places, Pass, Unset, NewJob
    <2>6. Tables'
      <3>1. CASE broken[i]
        BY <3>1 DEF Tables, NoJobStranded, BaselineIsQueued, AttemptsSpent
      <3>2. CASE ~ broken[i]
        <4>1. \A d \in Docs : job'[d] = job[d] \/ job'[d] = NewJob
          <5> HIDE <1>14 DEF CommitSync
          <5> QED
            BY <2>a, <2>b, <3>2 DEF Unset
        <4>2. NoJobStranded' /\ AttemptsSpent'
          BY <4>1 DEF Tables, NoJobStranded, AttemptsSpent, NewJob
        <4>3. ASSUME NEW d \in NeedsQwen, analysis'[d] = "baseline"
              PROVE  job'[d].status \in {"pending", "failed"}
          <5>1. CASE anW[i][d] = "unset"
            BY <3>2, <4>1, <4>3, <5>1 DEF Tables, BaselineIsQueued, NewJob
          <5>2. CASE anW[i][d] = "baseline"
            BY <3>2, <5>2 DEF Pass, NewJob, Unset
          <5> QED
            BY <5>1, <5>2 DEF Pass
        <4> QED
          BY <4>2, <4>3 DEF Tables, BaselineIsQueued
      <3> QED
        BY <3>1, <3>2
    <2> QED
      BY <2>1, <2>2, <2>3, <2>4, <2>5, <2>6
  <1>15. ASSUME NEW x \in Procs, Crash(x) PROVE IInv'
    <2> USE <1>15 DEF Crash, EndBatch, NothingWritten, Fault
    <2>1. TypeOK'
      BY DEF TypeOK, Statuses, Unset, Places, Batch, Counted, AttemptsSpent, Tables
    <2>2. Places'
      BY DEF TypeOK, Places, Unset
    <2>3. Locks'
      BY DEF TypeOK, Places, Locks, HasJob, Unset, Batch
    <2>4. Batch'
      BY DEF TypeOK, Places, Batch, Counted, Unset, Tables, AttemptsSpent
    <2>5. Pass'
      BY DEF TypeOK, Places, Pass, Unset, NewJob
    <2>6. Tables'
      BY DEF TypeOK, Tables, NoJobStranded, BaselineIsQueued, AttemptsSpent,
             Places, Batch, Counted, Pass, NewJob, Unset
    <2> QED
      BY <2>1, <2>2, <2>3, <2>4, <2>5, <2>6
  <1>16. CASE UNCHANGED vars
    BY <1>16 DEF vars, TypeOK, Places, Locks, HasJob, Batch, Pass, Tables,
          NoJobStranded, BaselineIsQueued, AttemptsSpent
  <1> QED
    BY <1>1, <1>2, <1>3, <1>4, <1>5, <1>6, <1>7, <1>8, <1>9, <1>10, <1>11, <1>12, <1>13, <1>14, <1>15, <1>16
       DEF Next, Work, Sync

LEMMA Invariant == Spec => []IInv
  <1> QED
    BY InitIInv, NextIInv, PTL DEF Spec

-----------------------------------------------------------------------------
\* The variables keep their types (TypeOK).
THEOREM TypeCorrect == Spec => []TypeOK
  <1>1. IInv => TypeOK
    BY DEF IInv
  <1> QED
    BY <1>1, Invariant, PTL

\* A worker that dies leaves no committed job RUNNING (NoJobStranded): claim
\* and outcome are in one transaction.
THEOREM NothingStranded == Spec => []NoJobStranded
  <1>1. IInv => NoJobStranded
    BY DEF IInv, Tables
  <1> QED
    BY <1>1, Invariant, PTL

\* However many workers there are, they share no job and never wait for each
\* other (WorkersDoNotContend): SKIP LOCKED keeps their batches apart, and a
\* worker writes the analyses of its own batch only.
THEOREM NoContention == Spec => []WorkersDoNotContend
  <1>1. IInv => WorkersDoNotContend
    <2> SUFFICES ASSUME IInv, NEW v \in Workers, NEW w \in Workers, v # w
                 PROVE  /\ \A d \in Docs : ~ (HasJob(v, d) /\ HasJob(w, d))
                        /\ v \notin BlockedBy(w)
      BY DEF WorkersDoNotContend
    <2>1. \A d \in Docs : ~ (HasJob(v, d) /\ HasJob(w, d))
      BY DEF IInv, Locks
    <2>2. ASSUME v \in BlockedBy(w) PROVE FALSE
      <3>1. pc[w] = "upsert" /\ HasAnalysis(v, cur[w])
        BY <2>2 DEF BlockedBy, IInv, Places
      <3>2. cur[w] \in Docs /\ HasJob(w, cur[w])
        <4>1. cur[w] \in todo[w] /\ pc[w] # "idle" /\ broken[w] = FALSE
          BY <3>1 DEF IInv, TypeOK, Places
        <4>2. cur[w] \in Docs
          BY <4>1 DEF IInv, TypeOK
        <4> QED
          BY <4>1, <4>2 DEF IInv, Batch, HasJob
      <3>3. HasJob(v, cur[w])
        BY <3>1, <3>2 DEF HasAnalysis, HasJob, IInv, Batch
      <3> QED
        BY <2>1, <3>2, <3>3
    <2> QED
      BY <2>1, <2>2
  <1> QED
    BY <1>1, Invariant, PTL

\* A baseline that a model should look at always has its job (BaselineIsQueued):
\* a sync commits the two together, and a worker settles a job together with
\* the analysis that replaces the baseline.
THEOREM BaselinesQueued == Spec => []BaselineIsQueued
  <1>1. IInv => BaselineIsQueued
    BY DEF IInv, Tables
  <1> QED
    BY <1>1, Invariant, PTL

\* Jobs get exactly their MaxAttempts attempts (AttemptsSpent).
THEOREM AttemptsCounted == Spec => []AttemptsSpent
  <1>1. IInv => AttemptsSpent
    BY DEF IInv, Tables
  <1> QED
    BY <1>1, Invariant, PTL

=============================================================================
