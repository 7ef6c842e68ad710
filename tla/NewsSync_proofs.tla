--------------------------- MODULE NewsSync_proofs ---------------------------
(***************************************************************************)
(* Proofs about NewsSync, for any number of syncs, sweeps, cleanups, results *)
(* and faults.                                                              *)
(***************************************************************************)
EXTENDS NewsSync, TLAPS

\* Where a sync may be that has not set the lock, or has let it go.
FreePcs == {"idle", "list", "index", "commit", "done"}

\* Where a sync may be that has set it.
HoldPcs == {"skip", "cooldown", "search", "recent", "insert", "embed", "trim",
            "drop", "unembed", "stamp", "get", "del"}

CleanPcs == {"idle", "trim", "drop", "dropexpired", "unembed", "unembedexpired",
             "commit", "done"}

\* A sync between Acquire and ReleaseDel counts as a holder, and every holder
\* finds its own token in the key.
Held ==
    /\ pc \in [Tasks -> Pcs]
    /\ lock \in Syncs \union {NoTask}
    /\ holders \subseteq Syncs
    /\ \A t \in Syncs : pc[t] \in FreePcs \/ (pc[t] \in HoldPcs /\ t \in holders)
    /\ \A t \in Cleaners : pc[t] \in CleanPcs
    /\ \A t \in holders : lock = t

\* One task moves; it neither sets the key nor lets it go.
LEMMA Moved ==
    ASSUME Held, NEW t \in Tasks, NEW to, Goto(t, to), UNCHANGED <<lock, holders>>,
           t \in Syncs => to \in FreePcs \/ (to \in HoldPcs /\ t \in holders),
           t \in Cleaners => to \in CleanPcs
    PROVE  Held'
  <1>1. to \in Pcs
    BY DEF Tasks, FreePcs, HoldPcs, CleanPcs, Pcs
  <1>2. pc' \in [Tasks -> Pcs] /\ pc'[t] = to /\ \A r \in Tasks \ {t} : pc'[r] = pc[r]
    BY <1>1 DEF Held, Goto
  <1>3. lock' = lock /\ holders' = holders
    OBVIOUS
  <1>4. \A r \in Syncs : pc'[r] \in FreePcs \/ (pc'[r] \in HoldPcs /\ r \in holders')
    BY <1>2, <1>3 DEF Held, Tasks
  <1>5. \A r \in Cleaners : pc'[r] \in CleanPcs
    BY <1>2 DEF Held, Tasks
  <1> QED
    BY <1>2, <1>3, <1>4, <1>5 DEF Held

\* A sync lets go of the lock and moves on without it.
LEMMA LetGo ==
    ASSUME Held, NEW t \in Syncs, NEW to \in FreePcs, Goto(t, to),
           holders' = holders \ {t},
           lock' = lock \/ (lock' = NoTask /\ t \in holders)
    PROVE  Held'
  <1>1. to \in Pcs /\ t \in Tasks
    BY DEF FreePcs, Pcs, Tasks
  <1>2. pc' \in [Tasks -> Pcs] /\ pc'[t] = to /\ \A r \in Tasks \ {t} : pc'[r] = pc[r]
    BY <1>1 DEF Held, Goto
  <1>3. \A r \in Syncs : pc'[r] \in FreePcs \/ (pc'[r] \in HoldPcs /\ r \in holders')
    BY <1>2 DEF Held, Tasks
  <1>4. \A r \in Cleaners : pc'[r] \in CleanPcs
    BY <1>2, NewsAssumption DEF Held, Tasks
  <1>5. \A r \in holders' : lock' = r
    BY DEF Held
  <1> QED
    BY <1>2, <1>3, <1>4, <1>5 DEF Held

LEMMA HeldAcquire == ASSUME Held, NEW t \in Tasks, Acquire(t) PROVE Held'
  <1>1. t \in Syncs /\ t \notin Cleaners
    BY NewsAssumption DEF Acquire
  <1>2. CASE UNCHANGED <<lock, holders>> /\ Goto(t, AfterSync(t))
    <2>1. AfterSync(t) \in FreePcs
      BY DEF AfterSync, FreePcs
    <2> QED
      BY <1>1, <1>2, <2>1, Moved
  <1>3. CASE /\ lock = NoTask /\ lock' = t /\ holders' = holders \union {t}
             /\ \E to \in HoldPcs : Goto(t, to)
    <2>1. holders = {}
      BY <1>3, NewsAssumption DEF Held, Tasks
    <2>2. PICK to \in HoldPcs : Goto(t, to)
      BY <1>3
    <2>3. to \in Pcs
      BY DEF HoldPcs, Pcs
    <2>4. pc' \in [Tasks -> Pcs] /\ pc'[t] = to /\ \A r \in Tasks \ {t} : pc'[r] = pc[r]
      BY <2>2, <2>3 DEF Held, Goto
    <2>5. \A r \in Syncs : pc'[r] \in FreePcs \/ (pc'[r] \in HoldPcs /\ r \in holders')
      BY <1>3, <2>4 DEF Held, Tasks
    <2>6. \A r \in Cleaners : pc'[r] \in CleanPcs
      BY <1>1, <2>4 DEF Held, Tasks
    <2>7. lock' \in Syncs /\ holders' \subseteq Syncs /\ \A r \in holders' : lock' = r
      BY <1>1, <1>3, <2>1
    <2> QED
      BY <2>4, <2>5, <2>6, <2>7 DEF Held
  <1> QED
    BY <1>2, <1>3 DEF Acquire, HoldPcs

\* AfterRelease goes where the sync needs no lock.
LEMMA ReleaseGoesFree ==
    ASSUME NEW t, AfterRelease(t)
    PROVE  \E to \in FreePcs : Goto(t, to)
  BY DEF AfterRelease, AfterSync, Finish, FreePcs

LEMMA HeldRelease ==
    ASSUME Held, NEW t \in Tasks, Skip(t) \/ ReleaseGet(t) \/ ReleaseDel(t)
    PROVE  Held'
  <1>1. t \in Syncs /\ t \in holders
    BY DEF Skip, ReleaseGet, ReleaseDel, Held, Tasks, FreePcs, CleanPcs
  <1>2. t \notin Cleaners
    BY <1>1, NewsAssumption
  <1>3. CASE UNCHANGED <<lock, holders>> /\ Goto(t, "del")
    BY <1>1, <1>2, <1>3, Moved DEF HoldPcs
  <1>4. CASE /\ holders' = holders \ {t} /\ (lock' = lock \/ lock' = NoTask)
             /\ \E to \in FreePcs : Goto(t, to)
    BY <1>1, <1>4, LetGo
  <1>5. CASE Skip(t)
    BY <1>4, <1>5 DEF Skip, AfterSync, FreePcs
  <1>6. CASE ReleaseGet(t)
    BY <1>3, <1>4, <1>6, ReleaseGoesFree DEF ReleaseGet
  <1>7. CASE ReleaseDel(t)
    BY <1>4, <1>7, ReleaseGoesFree DEF ReleaseDel
  <1> QED
    BY <1>5, <1>6, <1>7

\* The steps of a sync or a cleanup that leave the lock alone.
Inner(t) ==
    \/ SelectExpired(t) \/ CheckCooldown(t) \/ Search(t) \/ ReadRecent(t)
    \/ SkipSimilar(t) \/ Insert(t) \/ Embed(t) \/ StatementFails(t)
    \/ Trim(t) \/ Drop(t) \/ Unembed(t) \/ Stamp(t)
    \/ ListRows(t) \/ Index(t) \/ Commit(t)

LEMMA InnerKeepsLock == ASSUME NEW t, Inner(t) PROVE UNCHANGED <<lock, holders>>
  BY DEF Inner, SelectExpired, CheckCooldown, Search, ReadRecent, SkipSimilar,
         Insert, Embed, StatementFails, Trim, Drop, Unembed, Stamp, ListRows,
         Index, Commit, redis

LEMMA HeldInner == ASSUME Held, NEW t \in Tasks, Inner(t) PROVE Held'
  <1>1. UNCHANGED <<lock, holders>>
    BY InnerKeepsLock
  <1>2. ~ (t \in Syncs /\ t \in Cleaners) /\ t \in Syncs \union Cleaners
    BY NewsAssumption DEF Tasks
  <1>3. /\ t \in Syncs => pc[t] \in FreePcs \/ (pc[t] \in HoldPcs /\ t \in holders)
        /\ t \in Cleaners => pc[t] \in CleanPcs
    BY DEF Held
  <1>4. \/ UNCHANGED pc
        \/ \E to : /\ Goto(t, to)
                   /\ t \in Syncs => to \in FreePcs \/ (to \in HoldPcs /\ t \in holders)
                   /\ t \in Cleaners => to \in CleanPcs
    <2>1. CASE SelectExpired(t)
      BY <1>2, <2>1 DEF SelectExpired, CleanPcs
    <2>2. CASE CheckCooldown(t) \/ Search(t) \/ ReadRecent(t) \/ Insert(t) \/ Embed(t) \/ Stamp(t)
      BY <1>2, <1>3, <2>2
         DEF CheckCooldown, Search, ReadRecent, Insert, Embed, Stamp, FreePcs, HoldPcs, CleanPcs
    <2>3. CASE SkipSimilar(t)
      BY <2>3 DEF SkipSimilar
    <2>4. CASE StatementFails(t)
      BY <1>2, <1>3, <2>4 DEF StatementFails, Finish, FreePcs, HoldPcs, CleanPcs
    <2>5. CASE Trim(t)
      BY <1>2, <1>3, <2>5 DEF Trim, FreePcs, HoldPcs, CleanPcs
    <2>6. CASE Drop(t)
      BY <1>2, <1>3, <2>6 DEF Drop, FreePcs, HoldPcs, CleanPcs
    <2>7. CASE Unembed(t)
      BY <1>2, <1>3, <2>7 DEF Unembed, FreePcs, HoldPcs, CleanPcs
    <2>8. CASE ListRows(t) \/ Index(t)
      BY <1>2, <1>3, <2>8 DEF ListRows, Index, FreePcs, HoldPcs, CleanPcs
    <2>9. CASE Commit(t)
      BY <1>2, <1>3, <2>9 DEF Commit, Finish, FreePcs, CleanPcs
    <2> QED
      BY <2>1, <2>2, <2>3, <2>4, <2>5, <2>6, <2>7, <2>8, <2>9 DEF Inner
  <1>5. CASE UNCHANGED pc
    BY <1>1, <1>5 DEF Held
  <1> QED
    BY <1>1, <1>4, <1>5, Moved

LEMMA HeldCrash == ASSUME Held, NEW P \in Processes, Crash(P) PROVE Held'
  <1> DEFINE lost == P \intersect Live
  <1>1. /\ pc' = [t \in Tasks |-> IF t \in lost THEN "done" ELSE pc[t]]
        /\ holders' = holders \ lost /\ lock' = lock
    BY DEF Crash
  <1>2. pc' \in [Tasks -> Pcs]
    BY <1>1 DEF Held, Pcs
  <1>3. \A t \in Syncs : pc'[t] \in FreePcs \/ (pc'[t] \in HoldPcs /\ t \in holders')
    BY <1>1 DEF Held, Tasks, FreePcs
  <1>4. \A t \in Cleaners : pc'[t] \in CleanPcs
    BY <1>1 DEF Held, Tasks, CleanPcs
  <1> QED
    BY <1>1, <1>2, <1>3, <1>4 DEF Held

\* The invariant, when no sync outlasts the TTL of its lock.
THEOREM HeldInvariant == ASSUME TtlOutlastsSyncs PROVE Spec => []Held
  <1>1. Init => Held
    BY DEF Init, Held, Pcs, FreePcs, CleanPcs, Tasks
  <1>2. Held /\ [Next]_vars => Held'
    <2> SUFFICES ASSUME Held, [Next]_vars PROVE Held'
      OBVIOUS
    <2>1. ASSUME NEW t \in Tasks, Acquire(t) PROVE Held'
      BY <2>1, HeldAcquire
    <2>2. ASSUME NEW t \in Tasks, Skip(t) \/ ReleaseGet(t) \/ ReleaseDel(t) PROVE Held'
      BY <2>2, HeldRelease
    <2>3. ASSUME NEW t \in Tasks, Inner(t) PROVE Held'
      BY <2>3, HeldInner
    <2>4. ASSUME NEW P \in Processes, Crash(P) PROVE Held'
      BY <2>4, HeldCrash
    <2>5. CASE ExpireLock
      BY <2>5 DEF ExpireLock, Held
    <2>6. CASE EndCooldown \/ UNCHANGED vars
      BY <2>6 DEF EndCooldown, vars, redis, Held
    <2> QED
      BY <2>1, <2>2, <2>3, <2>4, <2>5, <2>6 DEF Next, Progress, Inner
  <1> QED
    BY <1>1, <1>2, PTL DEF Spec

-----------------------------------------------------------------------------
(* The steps of the lock.                                                   *)

LEMMA StepOfLock == TtlOutlastsSyncs /\ Held /\ [Next]_vars => [Lock!Next]_(Lock!vars)
  <1> SUFFICES ASSUME TtlOutlastsSyncs, Held, [Next]_vars
               PROVE  Lock!Next \/ UNCHANGED Lock!vars
    OBVIOUS
  <1>1. CASE UNCHANGED <<lock, holders>>
    BY <1>1 DEF Lock!vars
  <1>2. ASSUME NEW gone \in SUBSET Syncs, holders' = holders \ gone, lock' = lock
        PROVE  Lock!Next
    <2>1. Lock!Abandon(gone)
      BY <1>2 DEF Lock!Abandon
    <2> QED
      BY <2>1 DEF Lock!Next
  <1>3. ASSUME NEW t \in Tasks, Acquire(t) PROVE Lock!Next \/ UNCHANGED Lock!vars
    <2>1. CASE UNCHANGED <<lock, holders>>
      BY <1>1, <2>1
    <2>2. CASE lock = NoTask /\ lock' = t /\ holders' = holders \union {t} /\ t \in Syncs
      <3>1. holders = {} /\ t # NoTask
        BY <2>2, NewsAssumption DEF Held, Tasks
      <3>2. Lock!Acquire("news", t)
        BY <2>2, <3>1 DEF Lock!Acquire
      <3> QED
        BY <2>2, <3>2 DEF Lock!Next
    <2> QED
      BY <1>3, <2>1, <2>2 DEF Acquire
  <1>4. ASSUME NEW t \in Tasks, Skip(t) \/ ReleaseGet(t) PROVE Lock!Next \/ UNCHANGED Lock!vars
    <2>1. t \in Syncs
      BY <1>4 DEF Held, Tasks, Skip, ReleaseGet, CleanPcs
    <2> QED
      BY <1>1, <1>2, <1>4, <2>1 DEF Skip, ReleaseGet
  <1>5. ASSUME NEW t \in Tasks, ReleaseDel(t) PROVE Lock!Next
    <2>1. t \in Syncs /\ t \in holders /\ lock = t
      BY <1>5 DEF Held, Tasks, ReleaseDel, CleanPcs, FreePcs
    <2>2. CASE lock' = lock
      BY <1>2, <1>5, <2>1, <2>2 DEF ReleaseDel
    <2>3. CASE lock' = NoTask
      <3>1. holders = {t} /\ lock # NoTask /\ holders' = {}
        BY <1>5, <2>1, NewsAssumption DEF Held, Tasks, ReleaseDel
      <3>2. Lock!Release("news", t)
        BY <2>3, <3>1 DEF Lock!Release
      <3> QED
        BY <2>1, <3>2 DEF Lock!Next
    <2> QED
      BY <1>5, <2>2, <2>3 DEF ReleaseDel
  <1>6. ASSUME NEW t \in Tasks, Inner(t) PROVE Lock!Next \/ UNCHANGED Lock!vars
    BY <1>1, <1>6, InnerKeepsLock
  <1>7. ASSUME NEW P \in Processes, Crash(P) PROVE Lock!Next
    <2>1. holders' = holders \ (P \intersect Live \intersect Syncs) /\ lock' = lock
      BY <1>7 DEF Crash, Held
    <2> QED
      BY <1>2, <2>1
  <1>8. CASE ExpireLock
    <2>1. Lock!Free("news")
      BY <1>8 DEF ExpireLock, Lock!Free
    <2> QED
      BY <2>1 DEF Lock!Next
  <1>9. CASE EndCooldown \/ UNCHANGED vars
    BY <1>1, <1>9 DEF EndCooldown, vars, redis
  <1> QED
    BY <1>3, <1>4, <1>5, <1>6, <1>7, <1>8, <1>9 DEF Next, Progress, Inner

\* The lock of the news sync implements KeyLock, when no sync outlasts its TTL:
\* one sync at a time, and none deletes the key of another.
THEOREM ImplementsLock == ASSUME TtlOutlastsSyncs PROVE Spec => LockRefinement
  <1>1. Init => Lock!Init
    BY DEF Init, Lock!Init
  <1>2. Held /\ [Next]_vars => [Lock!Next]_(Lock!vars)
    BY StepOfLock
  <1> QED
    BY <1>1, <1>2, HeldInvariant, PTL DEF Spec, Lock!Spec, LockRefinement

-----------------------------------------------------------------------------
(* The cooldown.                                                            *)

\* Where a sync may be after it has set the cooldown.
StampedPcs == {"get", "del", "list", "index", "commit", "done"}

FailingPcs == {"get", "del", "done"}

\* A sync that has set the cooldown is on its way to its commit, or past it.
StoredOrWill(t) ==
    /\ pc[t] \in StampedPcs
    /\ ~ failing[t]
    /\ pc[t] = "done" => outcome[t] = "committed"

Stamped ==
    /\ pc \in [Tasks -> Pcs]
    /\ failing \in [Tasks -> BOOLEAN]
    /\ outcome \in [Tasks -> {"none", "committed", "failed"}]
    /\ cool \in Tasks \union {NoTask}
    /\ faults \in Nat
    /\ \A t \in Tasks : failing[t] => pc[t] \in FailingPcs
    /\ faults = 0 /\ cool # NoTask => StoredOrWill(cool)

\* What a step of one task has to satisfy to preserve Stamped.
Keeps(t) ==
    /\ \E to \in Pcs : Goto(t, to)
    /\ \E b \in BOOLEAN : failing' = [failing EXCEPT ![t] = b]
    /\ \E o \in {"none", "committed", "failed"} : outcome' = [outcome EXCEPT ![t] = o]
    /\ faults' = faults \/ faults' = faults + 1
    /\ failing'[t] => pc'[t] \in FailingPcs
    /\ \/ cool' = cool
       \/ cool' = t /\ pc'[t] = "get" /\ ~ failing'[t]
    /\ faults' = faults /\ StoredOrWill(t) => StoredOrWill(t)'

LEMMA StampedKept == ASSUME Stamped, NEW t \in Tasks, Keeps(t) PROVE Stamped'
  <1>1. /\ pc' \in [Tasks -> Pcs] /\ failing' \in [Tasks -> BOOLEAN]
        /\ outcome' \in [Tasks -> {"none", "committed", "failed"}]
    BY DEF Stamped, Keeps, Goto
  <1>2. \A r \in Tasks \ {t} : pc'[r] = pc[r] /\ failing'[r] = failing[r] /\ outcome'[r] = outcome[r]
    BY DEF Stamped, Keeps, Goto
  <1>3. cool' \in Tasks \union {NoTask} /\ faults' \in Nat
    BY DEF Stamped, Keeps
  <1>4. \A r \in Tasks : failing'[r] => pc'[r] \in FailingPcs
    BY <1>2 DEF Stamped, Keeps
  <1>5. ASSUME faults' = 0, cool' # NoTask PROVE StoredOrWill(cool)'
    <2>1. faults' = faults /\ faults = 0
      BY <1>5 DEF Stamped, Keeps
    <2>2. CASE cool' = cool /\ cool # t
      BY <1>2, <1>5, <2>1, <2>2 DEF Stamped, StoredOrWill
    <2>3. CASE cool' = cool /\ cool = t
      BY <1>5, <2>1, <2>3 DEF Stamped, Keeps, StoredOrWill
    <2>4. CASE cool' = t /\ pc'[t] = "get" /\ ~ failing'[t]
      BY <2>4 DEF StoredOrWill, StampedPcs
    <2> QED
      BY <2>2, <2>3, <2>4 DEF Keeps
  <1> QED
    BY <1>1, <1>3, <1>4, <1>5 DEF Stamped

\* Steps of a task that is neither failing nor past the cooldown.
LEMMA StampedEarly ==
    ASSUME Stamped, NEW t \in Tasks, pc[t] \notin StampedPcs,
           NEW to \in Pcs, Goto(t, to),
           \/ UNCHANGED failing
           \/ failing' = [failing EXCEPT ![t] = TRUE] /\ to = "get",
           \/ UNCHANGED outcome
           \/ outcome' = [outcome EXCEPT ![t] = "failed"],
           cool' = cool \/ (cool' = t /\ to = "get" /\ UNCHANGED failing),
           faults' = faults \/ faults' = faults + 1
    PROVE  Stamped'
  <1>1. ~ failing[t] /\ ~ StoredOrWill(t) /\ failing[t] \in BOOLEAN
    BY DEF Stamped, FailingPcs, StampedPcs, StoredOrWill
  <1>2. pc'[t] = to
    BY DEF Stamped, Goto
  <1>3. \E b \in BOOLEAN : failing' = [failing EXCEPT ![t] = b] /\ (b => to = "get")
    <2>1. failing = [failing EXCEPT ![t] = failing[t]]
      BY DEF Stamped
    <2> QED
      BY <1>1, <2>1
  <1>4. \E o \in {"none", "committed", "failed"} : outcome' = [outcome EXCEPT ![t] = o]
    <2>1. outcome = [outcome EXCEPT ![t] = outcome[t]] /\ outcome[t] \in {"none", "committed", "failed"}
      BY DEF Stamped
    <2> QED
      BY <2>1
  <1>5. failing'[t] => pc'[t] \in FailingPcs
    BY <1>1, <1>2, <1>3 DEF Stamped, FailingPcs
  <1>6. cool' = cool \/ (cool' = t /\ pc'[t] = "get" /\ ~ failing'[t])
    BY <1>1, <1>2
  <1>7. Keeps(t)
    BY <1>1, <1>3, <1>4, <1>5, <1>6 DEF Keeps
  <1> QED
    BY <1>7, StampedKept

\* The steps before the release of the lock.
LEMMA StampedBefore ==
    ASSUME Stamped, NEW t \in Tasks,
           \/ Acquire(t) \/ SelectExpired(t) \/ Skip(t) \/ CheckCooldown(t) \/ Search(t)
           \/ ReadRecent(t) \/ SkipSimilar(t) \/ Insert(t) \/ Embed(t) \/ StatementFails(t)
           \/ Trim(t) \/ Drop(t) \/ Unembed(t) \/ Stamp(t)
    PROVE  Stamped'
  <1>1. pc = [pc EXCEPT ![t] = pc[t]] /\ pc[t] \in Pcs
    BY DEF Stamped
  <1>2. CASE Acquire(t)
    <2>1. \E to \in Pcs : Goto(t, to)
      BY <1>2 DEF Acquire, AfterSync, Pcs
    <2> QED
      BY <1>2, <2>1, StampedEarly DEF Acquire, Fault, StampedPcs
  <1>3. CASE SelectExpired(t)
    <2>1. \E to \in Pcs : Goto(t, to)
      BY <1>3 DEF SelectExpired, Pcs
    <2> QED
      BY <1>3, <2>1, StampedEarly DEF SelectExpired, StampedPcs, redis
  <1>4. CASE Skip(t)
    <2>1. \E to \in Pcs : Goto(t, to)
      BY <1>4 DEF Skip, AfterSync, Pcs
    <2> QED
      BY <1>4, <2>1, StampedEarly DEF Skip, StampedPcs, redis
  <1>5. CASE CheckCooldown(t)
    <2>1. \E to \in Pcs : Goto(t, to)
      BY <1>5 DEF CheckCooldown, Pcs
    <2> QED
      BY <1>5, <2>1, StampedEarly DEF CheckCooldown, Fault, StampedPcs, redis
  <1>6. CASE Search(t)
    <2>1. "recent" \in Pcs /\ "get" \in Pcs
      BY DEF Pcs
    <2> QED
      BY <1>6, <2>1, StampedEarly DEF Search, StampedPcs, redis
  <1>7. CASE ReadRecent(t)
    <2>1. "insert" \in Pcs
      BY DEF Pcs
    <2> QED
      BY <1>7, <2>1, StampedEarly DEF ReadRecent, StampedPcs, redis
  <1>8. CASE SkipSimilar(t)
    <2>1. Goto(t, pc[t])
      BY <1>1, <1>8 DEF SkipSimilar, Goto
    <2> QED
      BY <1>1, <1>8, <2>1, StampedEarly DEF SkipSimilar, StampedPcs, redis
  <1>9. CASE Insert(t)
    <2>1. "embed" \in Pcs
      BY DEF Pcs
    <2> QED
      BY <1>9, <2>1, StampedEarly DEF Insert, StampedPcs, redis
  <1>10. CASE Embed(t)
    <2>1. "insert" \in Pcs
      BY DEF Pcs
    <2> QED
      BY <1>10, <2>1, StampedEarly DEF Embed, Fault, StampedPcs, redis
  <1>11. CASE StatementFails(t)
    <2>1. "get" \in Pcs /\ "done" \in Pcs
      BY DEF Pcs
    <2>2. pc[t] \notin StampedPcs /\ UNCHANGED cool /\ (faults' = faults \/ faults' = faults + 1)
      BY <1>11 DEF StatementFails, Fault, StampedPcs, redis
    <2>3. CASE failing' = [failing EXCEPT ![t] = TRUE] /\ Goto(t, "get") /\ UNCHANGED outcome
      BY <2>1, <2>2, <2>3, StampedEarly
    <2>4. CASE Finish(t, "failed") /\ UNCHANGED failing
      BY <2>1, <2>2, <2>4, StampedEarly DEF Finish
    <2> QED
      BY <1>11, <2>3, <2>4 DEF StatementFails
  <1>12. CASE Trim(t)
    <2>1. \E to \in Pcs : Goto(t, to)
      BY <1>12 DEF Trim, Pcs
    <2> QED
      BY <1>12, <2>1, StampedEarly DEF Trim, StampedPcs, redis
  <1>13. CASE Drop(t)
    <2>1. \E to \in Pcs : Goto(t, to)
      BY <1>1, <1>13 DEF Drop, Goto, Pcs
    <2> QED
      BY <1>13, <2>1, StampedEarly DEF Drop, StampedPcs, redis
  <1>14. CASE Unembed(t)
    <2>1. \E to \in Pcs : Goto(t, to)
      BY <1>14 DEF Unembed, Pcs
    <2> QED
      BY <1>14, <2>1, StampedEarly DEF Unembed, Fault, StampedPcs, redis
  <1>15. CASE Stamp(t)
    <2>1. "get" \in Pcs
      BY DEF Pcs
    <2> QED
      BY <1>15, <2>1, StampedEarly DEF Stamp, Fault, StampedPcs
  <1> QED
    BY <1>2, <1>3, <1>4, <1>5, <1>6, <1>7, <1>8, <1>9, <1>10, <1>11, <1>12, <1>13, <1>14, <1>15

\* The release of the lock, the indexing and the commit.
LEMMA StampedAfter ==
    ASSUME Stamped, NEW t \in Tasks,
           ReleaseGet(t) \/ ReleaseDel(t) \/ ListRows(t) \/ Index(t) \/ Commit(t)
    PROVE  Stamped'
  <1>1. /\ failing = [failing EXCEPT ![t] = failing[t]] /\ failing[t] \in BOOLEAN
        /\ outcome = [outcome EXCEPT ![t] = outcome[t]] /\ outcome[t] \in {"none", "committed", "failed"}
    BY DEF Stamped
  <1>2. faults' = faults \/ faults' = faults + 1
    BY DEF ReleaseGet, ReleaseDel, ListRows, Index, Commit, Fault
  <1>3. UNCHANGED cool /\ UNCHANGED failing
    BY DEF ReleaseGet, ReleaseDel, ListRows, Index, Commit, redis
  <1>4. faults \in Nat /\ failing[t] => pc[t] \in FailingPcs
    BY DEF Stamped
  <1>5. ASSUME NEW to \in Pcs, Goto(t, to), UNCHANGED outcome,
               to \in {"del", "list", "index", "commit"},
               failing[t] => to = "del"
        PROVE  Stamped'
    <2>1. pc'[t] = to
      BY <1>5 DEF Stamped, Goto
    <2>2. failing'[t] => pc'[t] \in FailingPcs
      BY <1>3, <1>5, <2>1 DEF FailingPcs
    <2>3. StoredOrWill(t) => StoredOrWill(t)'
      BY <1>3, <1>5, <2>1 DEF StoredOrWill, StampedPcs
    <2>4. Keeps(t)
      BY <1>1, <1>2, <1>3, <1>5, <2>2, <2>3 DEF Keeps
    <2> QED
      BY <2>4, StampedKept
  <1>6. ASSUME NEW o \in {"committed", "failed"}, Finish(t, o),
               faults' = faults => o = "committed" \/ failing[t]
        PROVE  Stamped'
    <2>1. Goto(t, "done") /\ pc'[t] = "done" /\ outcome'[t] = o /\ "done" \in Pcs
      BY <1>6 DEF Stamped, Finish, Goto, Pcs
    <2>2. failing'[t] => pc'[t] \in FailingPcs
      BY <2>1 DEF FailingPcs
    <2>3. faults' = faults /\ StoredOrWill(t) => StoredOrWill(t)'
      BY <1>3, <1>6, <2>1 DEF StoredOrWill, StampedPcs
    <2>4. Keeps(t)
      BY <1>1, <1>2, <1>3, <1>6, <2>1, <2>2, <2>3 DEF Keeps, Finish
    <2> QED
      BY <2>4, StampedKept
  <1>7. ASSUME AfterRelease(t), UNCHANGED <<failing>> PROVE Stamped'
    <2>1. "list" \in Pcs /\ "commit" \in Pcs
      BY DEF Pcs
    <2>2. CASE failing[t]
      BY <1>6, <1>7, <2>2 DEF AfterRelease
    <2>3. CASE ~ failing[t]
      BY <1>5, <1>7, <2>1, <2>3 DEF AfterRelease, AfterSync
    <2> QED
      BY <2>2, <2>3
  <1>8. "del" \in Pcs /\ "commit" \in Pcs /\ "index" \in Pcs
    BY DEF Pcs
  <1>9. CASE ReleaseGet(t)
    BY <1>3, <1>5, <1>7, <1>8, <1>9 DEF ReleaseGet
  <1>10. CASE ReleaseDel(t)
    BY <1>3, <1>7, <1>10 DEF ReleaseDel
  <1>11. CASE ListRows(t)
    BY <1>4, <1>5, <1>8, <1>11 DEF ListRows, FailingPcs, Stamped
  <1>12. CASE Index(t)
    BY <1>4, <1>5, <1>8, <1>12 DEF Index, FailingPcs, Stamped
  <1>13. CASE Commit(t)
    BY <1>4, <1>6, <1>13 DEF Commit, Fault, Stamped
  <1> QED
    BY <1>9, <1>10, <1>11, <1>12, <1>13

LEMMA StampedCrash == ASSUME Stamped, NEW P \in Processes, Crash(P) PROVE Stamped'
  <1> DEFINE lost == P \intersect Live
  <1>1. /\ pc' = [t \in Tasks |-> IF t \in lost THEN "done" ELSE pc[t]]
        /\ outcome' = [t \in Tasks |-> IF t \in lost THEN "failed" ELSE outcome[t]]
        /\ failing' = failing /\ cool' = cool /\ faults' = faults + 1
    BY DEF Crash, Fault
  <1>2. pc' \in [Tasks -> Pcs] /\ outcome' \in [Tasks -> {"none", "committed", "failed"}]
    BY <1>1 DEF Stamped, Pcs
  <1>3. \A t \in Tasks : failing'[t] => pc'[t] \in FailingPcs
    BY <1>1 DEF Stamped, FailingPcs
  <1>4. faults' \in Nat /\ faults' # 0
    BY <1>1 DEF Stamped
  <1> QED
    BY <1>1, <1>2, <1>3, <1>4 DEF Stamped

\* As long as nothing fails, a sync that has set the cooldown commits, for any
\* number of syncs and whatever becomes of their locks.
THEOREM CooldownStored == Spec => []CooldownMeansStored
  <1>1. Init => Stamped
    BY NewsAssumption DEF Init, Stamped, Pcs
  <1>2. Stamped /\ [Next]_vars => Stamped'
    <2> SUFFICES ASSUME Stamped, [Next]_vars PROVE Stamped'
      OBVIOUS
    <2>1. ASSUME NEW P \in Processes, Crash(P) PROVE Stamped'
      BY <2>1, StampedCrash
    <2>2. CASE ExpireLock
      BY <2>2 DEF ExpireLock, Stamped, StoredOrWill
    <2>3. CASE EndCooldown
      BY <2>3 DEF EndCooldown, Stamped
    <2>4. CASE UNCHANGED vars
      BY <2>4 DEF vars, redis, Stamped, StoredOrWill
    <2> QED
      BY <2>1, <2>2, <2>3, <2>4, StampedBefore, StampedAfter DEF Next, Progress
  <1>3. Stamped => CooldownMeansStored
    BY DEF Stamped, CooldownMeansStored, StoredOrWill
  <1> QED
    BY <1>1, <1>2, <1>3, PTL DEF Spec

-----------------------------------------------------------------------------
(* The vectors.                                                             *)

\* A row whose sync is over, or that was there at first.
Settled(r) == r.by = NoTask \/ (r.by \in Tasks /\ pc[r.by] = "done")

\* Where a task has written nothing yet, or nothing any more.
EmptyPcs == {"idle", "skip", "cooldown", "search", "recent", "done"}

\* What a task inserts is its own; what is stored, or deleted, is settled; what it wants
\* to delete is settled or its own.
Own ==
    /\ DOMAIN pc = Tasks /\ DOMAIN ins = Tasks /\ DOMAIN del = Tasks
    /\ DOMAIN drop = Tasks /\ DOMAIN docs = Tasks /\ DOMAIN failing = Tasks
    /\ \A r \in rows : Settled(r)
    /\ \A t \in Tasks : pc[t] \in {"list", "index"} => t \in Watchers
    /\ \A t \in Tasks :
           /\ \A r \in ins[t] : r.by = t
           /\ pc[t] \in EmptyPcs \/ failing[t] => ins[t] = {} /\ del[t] = {}
           /\ failing[t] => pc[t] \in FailingPcs
           /\ \A r \in del[t] : Settled(r)
           /\ \A r \in drop[t] : r.by = t \/ Settled(r)

LEMMA NextOwn == Own /\ [Next]_vars => Own'
  <1> SUFFICES ASSUME Own, [Next]_vars PROVE Own'
    OBVIOUS
  <1> USE NewsAssumption DEF Own, Settled, EmptyPcs, FailingPcs, Row, Goto, txn, plan, redis
  <1>1. ASSUME NEW t \in Tasks, Acquire(t) PROVE Own'
    BY <1>1 DEF Acquire, AfterSync
  <1>2. ASSUME NEW t \in Tasks, SelectExpired(t) PROVE Own'
    BY <1>2 DEF SelectExpired
  <1>3. ASSUME NEW t \in Tasks, Skip(t) PROVE Own'
    BY <1>3 DEF Skip, AfterSync
  <1>4. ASSUME NEW t \in Tasks, CheckCooldown(t) PROVE Own'
    BY <1>4 DEF CheckCooldown
  <1>5. ASSUME NEW t \in Tasks, Search(t) PROVE Own'
    BY <1>5 DEF Search
  <1>6. ASSUME NEW t \in Tasks, ReadRecent(t) PROVE Own'
    BY <1>6 DEF ReadRecent
  <1>7. ASSUME NEW t \in Tasks, SkipSimilar(t) PROVE Own'
    BY <1>7 DEF SkipSimilar
  <1>8. ASSUME NEW t \in Tasks, Insert(t) PROVE Own'
    BY <1>8 DEF Insert
  <1>9. ASSUME NEW t \in Tasks, Embed(t) PROVE Own'
    BY <1>9 DEF Embed
  <1>10. ASSUME NEW t \in Tasks, StatementFails(t) PROVE Own'
    BY <1>10 DEF StatementFails, RolledBack, Finish
  <1>11. ASSUME NEW t \in Tasks, Trim(t) PROVE Own'
    BY <1>11 DEF Trim, Visible, Overflow
  <1>12. ASSUME NEW t \in Tasks, Drop(t) PROVE Own'
    BY <1>12 DEF Drop, NextDrop, ToDrop, Visible
  <1>13. ASSUME NEW t \in Tasks, Unembed(t) PROVE Own'
    BY <1>13 DEF Unembed
  <1>14. ASSUME NEW t \in Tasks, Stamp(t) PROVE Own'
    BY <1>14 DEF Stamp
  <1>15. ASSUME NEW t \in Tasks, ReleaseGet(t) PROVE Own'
    BY <1>15 DEF ReleaseGet, AfterRelease, AfterSync, Finish
  <1>16. ASSUME NEW t \in Tasks, ReleaseDel(t) PROVE Own'
    BY <1>16 DEF ReleaseDel, AfterRelease, AfterSync, Finish
  <1>17. ASSUME NEW t \in Tasks, ListRows(t) PROVE Own'
    BY <1>17 DEF ListRows
  <1>18. ASSUME NEW t \in Tasks, Index(t) PROVE Own'
    BY <1>18 DEF Index
  <1>19. ASSUME NEW t \in Tasks, Commit(t) PROVE Own'
    BY <1>19 DEF Commit, RolledBack, Finish
  <1>20. ASSUME NEW P \in Processes, Crash(P) PROVE Own'
    BY <1>20 DEF Crash, RolledBack, Live
  <1>21. CASE ExpireLock \/ EndCooldown \/ UNCHANGED vars
    BY <1>21 DEF ExpireLock, EndCooldown, vars
  <1> QED
    BY <1>1, <1>2, <1>3, <1>4, <1>5, <1>6, <1>7, <1>8, <1>9, <1>10, <1>11, <1>12, <1>13, <1>14, <1>15, <1>16, <1>17, <1>18, <1>19, <1>20, <1>21
       DEF Next, Progress

\* Where a task has no row to delete any more: its DELETEs are done.
PastDrop == {"unembed", "unembedexpired"}

\* Before a task takes the vectors of rows away, it has deleted those rows.
Dropped ==
    \A t \in Tasks : pc[t] \in PastDrop =>
        drop[t] \intersect rows \subseteq del[t] /\ drop[t] \intersect ins[t] = {}

LEMMA NextDropped == Own /\ Dropped /\ [Next]_vars => Dropped'
  <1> SUFFICES ASSUME Own, Dropped, [Next]_vars PROVE Dropped'
    OBVIOUS
  <1> USE NewsAssumption DEF Own, Settled, EmptyPcs, FailingPcs, Row, Goto, txn, plan, redis, Dropped, PastDrop
  <1>1. ASSUME NEW t \in Tasks, Acquire(t) PROVE Dropped'
    BY <1>1 DEF Acquire, AfterSync
  <1>2. ASSUME NEW t \in Tasks, SelectExpired(t) PROVE Dropped'
    BY <1>2 DEF SelectExpired
  <1>3. ASSUME NEW t \in Tasks, Skip(t) PROVE Dropped'
    BY <1>3 DEF Skip, AfterSync
  <1>4. ASSUME NEW t \in Tasks, CheckCooldown(t) PROVE Dropped'
    BY <1>4 DEF CheckCooldown
  <1>5. ASSUME NEW t \in Tasks, Search(t) PROVE Dropped'
    BY <1>5 DEF Search
  <1>6. ASSUME NEW t \in Tasks, ReadRecent(t) PROVE Dropped'
    BY <1>6 DEF ReadRecent
  <1>7. ASSUME NEW t \in Tasks, SkipSimilar(t) PROVE Dropped'
    BY <1>7 DEF SkipSimilar
  <1>8. ASSUME NEW t \in Tasks, Insert(t) PROVE Dropped'
    BY <1>8 DEF Insert
  <1>9. ASSUME NEW t \in Tasks, Embed(t) PROVE Dropped'
    BY <1>9 DEF Embed
  <1>10. ASSUME NEW t \in Tasks, StatementFails(t) PROVE Dropped'
    BY <1>10 DEF StatementFails, RolledBack, Finish
  <1>11. ASSUME NEW t \in Tasks, Trim(t) PROVE Dropped'
    BY <1>11 DEF Trim, Visible, Overflow
  <1>12. ASSUME NEW t \in Tasks, Drop(t) PROVE Dropped'
    BY <1>12 DEF Drop, NextDrop, ToDrop, Visible
  <1>13. ASSUME NEW t \in Tasks, Unembed(t) PROVE Dropped'
    BY <1>13 DEF Unembed
  <1>14. ASSUME NEW t \in Tasks, Stamp(t) PROVE Dropped'
    BY <1>14 DEF Stamp
  <1>15. ASSUME NEW t \in Tasks, ReleaseGet(t) PROVE Dropped'
    BY <1>15 DEF ReleaseGet, AfterRelease, AfterSync, Finish
  <1>16. ASSUME NEW t \in Tasks, ReleaseDel(t) PROVE Dropped'
    BY <1>16 DEF ReleaseDel, AfterRelease, AfterSync, Finish
  <1>17. ASSUME NEW t \in Tasks, ListRows(t) PROVE Dropped'
    BY <1>17 DEF ListRows
  <1>18. ASSUME NEW t \in Tasks, Index(t) PROVE Dropped'
    BY <1>18 DEF Index
  <1>19. ASSUME NEW t \in Tasks, Commit(t) PROVE Dropped'
    BY <1>19 DEF Commit, RolledBack, Finish
  <1>20. ASSUME NEW P \in Processes, Crash(P) PROVE Dropped'
    BY <1>20 DEF Crash, RolledBack, Live
  <1>21. CASE ExpireLock \/ EndCooldown \/ UNCHANGED vars
    BY <1>21 DEF ExpireLock, EndCooldown, vars
  <1> QED
    BY <1>1, <1>2, <1>3, <1>4, <1>5, <1>6, <1>7, <1>8, <1>9, <1>10, <1>11, <1>12, <1>13, <1>14, <1>15, <1>16, <1>17, <1>18, <1>19, <1>20, <1>21
       DEF Next, Progress

\* Where the vectors of the rows that a task has deleted are gone: a sync only commits
\* from there, but a cleanup has still to trim.
Bare(t) ==
    IF t \in Cleaners THEN pc[t] \in {"trim", "drop", "unembed", "commit"}
                      ELSE pc[t] \in {"stamp", "get", "del", "list", "index", "commit"}

NoCleanupFailed == \A c \in Cleaners : outcome[c] # "failed"

\* A row without its vector is being deleted by a task that will commit; a row that a
\* sync inserts has its vector as soon as it is past Embed.
Found ==
    /\ faults \in Nat /\ DOMAIN outcome = Tasks /\ DOMAIN cand = Tasks
    /\ \A t \in Tasks : pc[t] # "done" => outcome[t] = "none"
    /\ \A t \in Tasks : pc[t] = "embed" => Row(Head(cand[t]), t) \in ins[t]
    /\ \A c \in Cleaners : ins[c] = {} /\ pc[c] \in CleanPcs
    /\ \A t \in Syncs : pc[t] \notin {"dropexpired", "unembedexpired"}
    /\ faults = 0 => \A t \in Tasks : \A r \in ins[t] :
           r \in vectors \/ (pc[t] = "embed" /\ r = Row(Head(cand[t]), t))
    /\ faults = 0 /\ NoCleanupFailed => \A r \in rows :
           r \in vectors \/ \E t \in Tasks : r \in del[t] /\ Bare(t)

LEMMA NextFound == Own /\ Dropped /\ Found /\ [Next]_vars => Found'
  <1> SUFFICES ASSUME Own, Dropped, Found, [Next]_vars PROVE Found'
    OBVIOUS
  <1> USE NewsAssumption DEF Own, Settled, EmptyPcs, FailingPcs, Goto, txn, plan, redis, Dropped, PastDrop, Found, Bare, NoCleanupFailed, Fault, CleanPcs, Tasks
  <1>1. ASSUME NEW t \in Tasks, Acquire(t) PROVE Found'
    BY <1>1 DEF Acquire, AfterSync
  <1>2. ASSUME NEW t \in Tasks, SelectExpired(t) PROVE Found'
    BY <1>2 DEF SelectExpired
  <1>3. ASSUME NEW t \in Tasks, Skip(t) PROVE Found'
    BY <1>3 DEF Skip, AfterSync
  <1>4. ASSUME NEW t \in Tasks, CheckCooldown(t) PROVE Found'
    BY <1>4 DEF CheckCooldown
  <1>5. ASSUME NEW t \in Tasks, Search(t) PROVE Found'
    BY <1>5 DEF Search
  <1>6. ASSUME NEW t \in Tasks, ReadRecent(t) PROVE Found'
    BY <1>6 DEF ReadRecent
  <1>7. ASSUME NEW t \in Tasks, SkipSimilar(t) PROVE Found'
    BY <1>7 DEF SkipSimilar
  <1>8. ASSUME NEW t \in Tasks, Insert(t) PROVE Found'
    BY <1>8 DEF Insert
  <1>9. ASSUME NEW t \in Tasks, Embed(t) PROVE Found'
    BY <1>9 DEF Embed
  <1>10. ASSUME NEW t \in Tasks, StatementFails(t) PROVE Found'
    <2>1. UNCHANGED <<rows, vectors, cand>> /\ faults' \in {faults, faults + 1}
      BY <1>10 DEF StatementFails
    <2>2. /\ DOMAIN outcome' = Tasks /\ (\A u \in Tasks : pc'[u] # "done" => outcome'[u] = "none")
          /\ (\A u \in Tasks : pc'[u] = "embed" => Row(Head(cand'[u]), u) \in ins'[u])
          /\ \A c \in Cleaners : ins'[c] = {} /\ pc'[c] \in CleanPcs
          /\ \A u \in Syncs : pc'[u] \notin {"dropexpired", "unembedexpired"}
      BY <1>10 DEF StatementFails, RolledBack, Finish
    <2>3. /\ \A u \in Tasks \ {t} : ins'[u] = ins[u] /\ del'[u] = del[u] /\ pc'[u] = pc[u]
          /\ ins'[t] = {} /\ del'[t] = {}
      BY <1>10 DEF StatementFails, RolledBack, Finish
    <2>4. faults' = 0 => \A u \in Tasks : \A r \in ins'[u] :
              r \in vectors' \/ (pc'[u] = "embed" /\ r = Row(Head(cand'[u]), u))
      BY <2>1, <2>3
    <2>5. ASSUME faults' = 0, NoCleanupFailed', NEW r \in rows'
          PROVE  r \in vectors' \/ \E u \in Tasks : r \in del'[u] /\ Bare(u)'
      <3>1. t \in Syncs /\ UNCHANGED outcome
        BY <1>10, <2>5 DEF StatementFails, Finish
      <3>2. ~ Bare(t)
        BY <1>10, <2>1, <2>5, <3>1 DEF StatementFails
      <3>3. r \in vectors \/ \E u \in Tasks : r \in del[u] /\ Bare(u)
        BY <2>1, <2>5, <3>1
      <3> QED
        BY <2>1, <2>3, <3>2, <3>3
    <2> QED
      BY <2>1, <2>2, <2>4, <2>5
  <1>11. ASSUME NEW t \in Tasks, Trim(t) PROVE Found'
    BY <1>11 DEF Trim, Visible, Overflow
  <1>12. ASSUME NEW t \in Tasks, Drop(t) PROVE Found'
    BY <1>12 DEF Drop, NextDrop, ToDrop, Visible
  <1>13. ASSUME NEW t \in Tasks, Unembed(t) PROVE Found'
    BY <1>13 DEF Unembed
  <1>14. ASSUME NEW t \in Tasks, Stamp(t) PROVE Found'
    BY <1>14 DEF Stamp
  <1>15. ASSUME NEW t \in Tasks, ReleaseGet(t) PROVE Found'
    BY <1>15 DEF ReleaseGet, AfterRelease, AfterSync, Finish
  <1>16. ASSUME NEW t \in Tasks, ReleaseDel(t) PROVE Found'
    BY <1>16 DEF ReleaseDel, AfterRelease, AfterSync, Finish
  <1>17. ASSUME NEW t \in Tasks, ListRows(t) PROVE Found'
    BY <1>17 DEF ListRows
  <1>18. ASSUME NEW t \in Tasks, Index(t) PROVE Found'
    BY <1>18 DEF Index
  <1>19. ASSUME NEW t \in Tasks, Commit(t) PROVE Found'
    <2>1. UNCHANGED <<vectors, cand>> /\ faults' \in {faults, faults + 1}
      BY <1>19 DEF Commit
    <2>2. /\ DOMAIN outcome' = Tasks /\ (\A u \in Tasks : pc'[u] # "done" => outcome'[u] = "none")
          /\ (\A u \in Tasks : pc'[u] = "embed" => Row(Head(cand'[u]), u) \in ins'[u])
          /\ \A c \in Cleaners : ins'[c] = {} /\ pc'[c] \in CleanPcs
          /\ \A u \in Syncs : pc'[u] \notin {"dropexpired", "unembedexpired"}
      BY <1>19 DEF Commit, RolledBack, Finish
    <2>3. /\ \A u \in Tasks \ {t} : ins'[u] = ins[u] /\ del'[u] = del[u] /\ pc'[u] = pc[u]
          /\ ins'[t] = {} /\ del'[t] = {} /\ pc[t] = "commit"
      BY <1>19 DEF Commit, RolledBack, Finish
    <2>4. faults' = 0 => \A u \in Tasks : \A r \in ins'[u] :
              r \in vectors' \/ (pc'[u] = "embed" /\ r = Row(Head(cand'[u]), u))
      BY <2>1, <2>3
    <2>5. ASSUME faults' = 0, NoCleanupFailed', NEW r \in rows'
          PROVE  r \in vectors' \/ \E u \in Tasks : r \in del'[u] /\ Bare(u)'
      <3>1. faults = 0 /\ rows' = (rows \ del[t]) \union ins[t]
        BY <1>19, <2>1, <2>5 DEF Commit
      <3>2. NoCleanupFailed
        BY <1>19, <2>5 DEF Commit, Finish
      <3>3. CASE r \in ins[t]
        BY <2>1, <2>3, <3>1, <3>3
      <3>4. CASE r \in rows \ del[t]
        BY <2>1, <2>3, <3>1, <3>2, <3>4
      <3> QED
        BY <2>5, <3>1, <3>3, <3>4
    <2> QED
      BY <2>1, <2>2, <2>4, <2>5
  <1>20. ASSUME NEW P \in Processes, Crash(P) PROVE Found'
    BY <1>20 DEF Crash, RolledBack, Live
  <1>21. CASE ExpireLock \/ EndCooldown \/ UNCHANGED vars
    BY <1>21 DEF ExpireLock, EndCooldown, vars
  <1> QED
    BY <1>1, <1>2, <1>3, <1>4, <1>5, <1>6, <1>7, <1>8, <1>9, <1>10, <1>11, <1>12, <1>13, <1>14, <1>15, <1>16, <1>17, <1>18, <1>19, <1>20, <1>21
       DEF Next, Progress

\* Where a task is deleting rows and their vectors.
DropPcs == {"drop", "dropexpired", "unembed", "unembedexpired"}

\* A vector that some watcher writes, or has written, again.
Listed(v) == \E w \in Watchers : v \in docs[w]

\* A vector without a row is a failed sync's, or listed by a watcher, or its row is not
\* committed yet, or not any more before it was.
Excused(v) ==
    \/ v.by \in Tasks /\ (failing[v.by] \/ outcome[v.by] = "failed")
    \/ Listed(v)
    \/ \E t \in Tasks : v \in ins[t]
    \/ v.by \in Tasks /\ pc[v.by] \in DropPcs /\ v \in drop[v.by]

\* Where a watcher has not listed its rows yet.
Unlisted(t) == pc[t] \notin {"index", "commit", "done"}

\* Nobody leaves a vector behind without an excuse: a row that is deleted has lost its
\* vector, unless its task is about to take it away.
Left ==
    /\ \A t \in Tasks : failing[t] /\ pc[t] = "done" => outcome[t] = "failed"
    /\ \A t \in Tasks : Unlisted(t) => docs[t] = {}
    /\ faults = 0 => \A v \in vectors \ rows : Excused(v)
    /\ faults = 0 => \A t \in Tasks : \A v \in del[t] \intersect vectors :
           Listed(v) \/ (pc[t] \in DropPcs /\ v \in drop[t])

\* The lists of the watchers only grow.
LEMMA ListedStays ==
    ASSUME Own, Left, [Next]_vars, NEW v
    PROVE  Listed(v) => Listed(v)'
  <1>1. \A w \in Tasks : docs[w] \subseteq docs'[w]
    <2>1. ASSUME NEW t \in Tasks, ListRows(t) PROVE \A w \in Tasks : docs[w] \subseteq docs'[w]
      BY <2>1 DEF ListRows, Own, Left, Unlisted
    <2>2. ASSUME ~ \E t \in Tasks : ListRows(t) PROVE docs' = docs
      BY <2>2
         DEF Next, Progress, Acquire, SelectExpired, Skip, CheckCooldown, Search, ReadRecent,
            SkipSimilar, Insert, Embed, StatementFails, Trim, Drop, Unembed, Stamp, ReleaseGet,
            ReleaseDel, Index, Commit, Crash, ExpireLock, EndCooldown, vars, plan
    <2> QED
      BY <2>1, <2>2
  <1> QED
    BY <1>1 DEF Listed, Tasks, Syncs

LEMMA NextLeft == Own /\ Dropped /\ Found /\ Left /\ [Next]_vars => Left'
  <1> SUFFICES ASSUME Own, Dropped, Found, Left, [Next]_vars PROVE Left'
    OBVIOUS
  <1>a. \A v : Listed(v) => Listed(v)'
    BY ListedStays
  <1> USE NewsAssumption, <1>a DEF Own, Settled, EmptyPcs, FailingPcs, Goto, txn, plan, redis, Dropped, PastDrop, Found, Fault, CleanPcs, DropPcs, Excused, Unlisted, Left, Row
  <1>1. ASSUME NEW t \in Tasks, Acquire(t) PROVE Left'
    BY <1>1 DEF Acquire, AfterSync
  <1>2. ASSUME NEW t \in Tasks, SelectExpired(t) PROVE Left'
    BY <1>2 DEF SelectExpired
  <1>3. ASSUME NEW t \in Tasks, Skip(t) PROVE Left'
    BY <1>3 DEF Skip, AfterSync
  <1>4. ASSUME NEW t \in Tasks, CheckCooldown(t) PROVE Left'
    BY <1>4 DEF CheckCooldown
  <1>5. ASSUME NEW t \in Tasks, Search(t) PROVE Left'
    BY <1>5 DEF Search
  <1>6. ASSUME NEW t \in Tasks, ReadRecent(t) PROVE Left'
    BY <1>6 DEF ReadRecent
  <1>7. ASSUME NEW t \in Tasks, SkipSimilar(t) PROVE Left'
    BY <1>7 DEF SkipSimilar
  <1>8. ASSUME NEW t \in Tasks, Insert(t) PROVE Left'
    BY <1>8 DEF Insert
  <1>9. ASSUME NEW t \in Tasks, Embed(t) PROVE Left'
    BY <1>9 DEF Embed
  <1>10. ASSUME NEW t \in Tasks, StatementFails(t) PROVE Left'
    BY <1>10 DEF StatementFails, RolledBack, Finish
  <1>11. ASSUME NEW t \in Tasks, Trim(t) PROVE Left'
    BY <1>11 DEF Trim, Visible, Overflow
  <1>12. ASSUME NEW t \in Tasks, Drop(t) PROVE Left'
    BY <1>12 DEF Drop, NextDrop, ToDrop, Visible
  <1>13. ASSUME NEW t \in Tasks, Unembed(t) PROVE Left'
    BY <1>13 DEF Unembed
  <1>14. ASSUME NEW t \in Tasks, Stamp(t) PROVE Left'
    BY <1>14 DEF Stamp
  <1>15. ASSUME NEW t \in Tasks, ReleaseGet(t) PROVE Left'
    BY <1>15 DEF ReleaseGet, AfterRelease, AfterSync, Finish
  <1>16. ASSUME NEW t \in Tasks, ReleaseDel(t) PROVE Left'
    BY <1>16 DEF ReleaseDel, AfterRelease, AfterSync, Finish
  <1>17. ASSUME NEW t \in Tasks, ListRows(t) PROVE Left'
    BY <1>17 DEF ListRows
  <1>18. ASSUME NEW t \in Tasks, Index(t) PROVE Left'
    BY <1>18 DEF Index, Listed
  <1>19. ASSUME NEW t \in Tasks, Commit(t) PROVE Left'
    BY <1>19 DEF Commit, RolledBack, Finish
  <1>20. ASSUME NEW P \in Processes, Crash(P) PROVE Left'
    BY <1>20 DEF Crash, RolledBack, Live
  <1>21. CASE ExpireLock \/ EndCooldown \/ UNCHANGED vars
    BY <1>21 DEF ExpireLock, EndCooldown, vars
  <1> QED
    BY <1>1, <1>2, <1>3, <1>4, <1>5, <1>6, <1>7, <1>8, <1>9, <1>10, <1>11, <1>12, <1>13, <1>14, <1>15, <1>16, <1>17, <1>18, <1>19, <1>20, <1>21
       DEF Next, Progress

LEMMA VectorsInvariant == Spec => [](Own /\ Dropped /\ Found /\ Left)
  <1>1. Init => Own /\ Dropped /\ Found /\ Left
    BY NewsAssumption DEF Init, Own, Settled, Row, EmptyPcs, FailingPcs, Dropped, PastDrop,
          Found, Bare, CleanPcs, Tasks, Left, Unlisted, DropPcs
  <1> QED
    BY <1>1, NextOwn, NextDropped, NextFound, NextLeft, PTL DEF Spec

\* A stored row that nobody is deleting has its vector, as long as nothing fails, for any
\* number of syncs, sweeps and cleanups: the vectors that _delete_chroma_documents takes
\* away before the commit are those of rows that no statement can bring back.
THEOREM VectorsFollowRows == Spec => []RowsHaveVectors
  <1>1. Found => RowsHaveVectors
    BY DEF Found, NoCleanupFailed, RowsHaveVectors
  <1> QED
    BY <1>1, VectorsInvariant, PTL

\* When all is quiet and nothing has failed, a vector without a row has one of the two
\* explanations.
THEOREM OrphansExplained == Spec => []OrphanVectorExplained
  <1>1. Own /\ Left => OrphanVectorExplained
    <2> SUFFICES ASSUME Own, Left, faults = 0, Live = {}, NEW v \in vectors \ rows
                 PROVE  \/ v.by # NoTask /\ outcome[v.by] = "failed"
                        \/ \E w \in Watchers : v \in docs[w]
      BY DEF OrphanVectorExplained
    <2>1. \A t \in Tasks : pc[t] \in {"idle", "done"}
      BY DEF Live
    <2>2. Excused(v)
      BY DEF Left
    <2>3. v.by \in Tasks => v.by # NoTask /\ (failing[v.by] => outcome[v.by] = "failed")
      BY <2>1, NewsAssumption DEF Own, FailingPcs, Left
    <2> QED
      BY <2>1, <2>2, <2>3 DEF Excused, Listed, Own, EmptyPcs, DropPcs
  <1> QED
    BY <1>1, VectorsInvariant, PTL

=============================================================================
