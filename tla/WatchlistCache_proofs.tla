------------------------- MODULE WatchlistCache_proofs -------------------------
(***************************************************************************)
(* For any number of users, chains, sweeps and purges: the caches of a      *)
(* symbol that somebody watches are wiped only by a purge that looked       *)
(* before the symbol was added again.  Rows go when a transaction commits   *)
(* that has deleted them; no sync deletes any, and a purge that is past its *)
(* look found nobody watching, so that whoever watches came later.          *)
(*                                                                          *)
(* And the caches follow the watchlist once everything has run.  The        *)
(* inductive invariant says who is about to do what: of a symbol that is    *)
(* watched each table is filled, or a sync is on its way to fill it, be it  *)
(* the one that holds the lock another has found taken; of one that nobody  *)
(* watches each table is empty, or a purge is on its way to empty it.  That *)
(* they get there rests on the order of their locks: without both of them   *)
(* at work no circle of waiting transactions can form.                      *)
(***************************************************************************)
EXTENDS WatchlistCache, TLAPS

Hows == {"none", "insert", "update", "delete"}
PastPlaces == {"delete", "commit", "unvector"}
PurgePlaces == {"idle", "check"} \cup PastPlaces
SyncPlaces == {"idle", "begin", "upsert", "commitPrices", "indicators", "value", "ratio",
               "trim", "skip", "release", "list", "vectors", "commit", "unlock", "rollback"}

\* A task is where its kind of task can be.
PlacesOK ==
    /\ pc \in [Tasks -> SyncPlaces \cup PurgePlaces]
    /\ \A t \in Syncs : pc[t] \in SyncPlaces
    /\ \A p \in Purges : pc[p] \in PurgePlaces

\* A sync deletes no rows.
WorkOK ==
    /\ work \in [Tasks -> [Tables -> Hows]]
    /\ \A t \in Syncs, k \in Tables : work[t][k] # "delete"

RowsOK == db \in [Tables -> BOOLEAN] /\ broken \subseteq Tasks
StoresOK == vec \in [{"news", "filing"} -> BOOLEAN] /\ lock \in [Locked -> Tasks \cup {NoTask}]

Core == PlacesOK /\ WorkOK /\ RowsOK /\ StoresOK /\ watching \subseteq Users

\* A purge that is past its look found nobody watching.
PastExplained == \A p \in Purges : Past(p) => watching = {} \/ late

\* What a step may do: a purge comes past its look only while nobody watches ...
EntersUnwatched == \A p \in Purges : ~Past(p) /\ Past(p)' => watching' = {}

\* ... and rows go only by the commit of a purge that is past it.
WipesPast == \A k \in Tables : db[k] /\ ~db'[k] => \E p \in Purges : Past(p)

CoreStep == Core' /\ EntersUnwatched /\ WipesPast

-----------------------------------------------------------------------------
(* The parts of a step                                                      *)

\* A task moves to a place of its kind, and not past a look unless nobody watches.
LEMMA Moved ==
    ASSUME PlacesOK, NEW t \in Tasks, NEW place, Move(t, place),
           t \in Syncs => place \in SyncPlaces,
           t \in Purges => place \in PurgePlaces,
           t \in Purges => place \notin PastPlaces \/ pc[t] \in PastPlaces \/ watching' = {}
    PROVE  PlacesOK' /\ EntersUnwatched
<1>1. place \in SyncPlaces \cup PurgePlaces
  BY DEF Tasks
<1>2. /\ pc' \in [Tasks -> SyncPlaces \cup PurgePlaces]
      /\ pc'[t] = place
      /\ \A u \in Tasks : u # t => pc'[u] = pc[u]
  BY <1>1 DEF Move, PlacesOK
<1>3. PlacesOK'
  BY <1>2 DEF PlacesOK, Tasks
<1>4. EntersUnwatched
  BY <1>2 DEF EntersUnwatched, Past, PastPlaces, Tasks
<1> QED
  BY <1>3, <1>4

\* An open transaction writes a table; a sync does not delete.
LEMMA Wrote ==
    ASSUME WorkOK, NEW t \in Tasks, NEW k, NEW how, Write(t, k, how),
           k \in Tables => how \in Hows,
           k \in Tables /\ t \in Syncs => how # "delete"
    PROVE  WorkOK'
<1>1. work' = [work EXCEPT ![t] = [work[t] EXCEPT ![k] = how]]
  BY DEF Write
<1>2. [work[t] EXCEPT ![k] = how] \in [Tables -> Hows]
  BY DEF WorkOK
<1>3. work' \in [Tasks -> [Tables -> Hows]]
  BY <1>1, <1>2 DEF WorkOK
<1>4. \A u \in Syncs, j \in Tables : work'[u][j] # "delete"
  <2> SUFFICES ASSUME NEW u \in Syncs, NEW j \in Tables PROVE work'[u][j] # "delete"
    OBVIOUS
  <2>1. CASE u # t
    BY <1>1, <2>1 DEF WorkOK, Tasks
  <2>2. CASE u = t /\ j # k
    BY <1>1, <2>2 DEF WorkOK, Tasks
  <2>3. CASE u = t /\ j = k
    BY <1>1, <2>3 DEF WorkOK, Tasks
  <2> QED
    BY <2>1, <2>2, <2>3
<1> QED
  BY <1>3, <1>4 DEF WorkOK

\* What a statement of a sync writes is an insert or an update.
LEMMA UpsertedHow ==
    ASSUME WorkOK, NEW t \in Tasks, NEW k
    PROVE  /\ k \in Tables => Upserted(t, k) \in Hows
           /\ k \in Tables /\ t \in Syncs => Upserted(t, k) # "delete"
  BY DEF WorkOK, Upserted, Hows

\* A transaction ends; what goes is what it has deleted.
LEMMA Ended ==
    ASSUME WorkOK, RowsOK, NEW t \in Tasks, NEW after, EndTransaction(t, after),
           after \in {db, Committed(t)}
    PROVE  /\ WorkOK' /\ RowsOK'
           /\ \A k \in Tables : db[k] /\ ~db'[k] => work[t][k] = "delete"
<1>1. Untouched \in [Tables -> Hows] /\ \A k \in Tables : Untouched[k] = "none"
  BY DEF Untouched, Hows
<1>2. WorkOK'
  <2>1. work' = [work EXCEPT ![t] = Untouched]
    BY DEF EndTransaction
  <2>2. work' \in [Tasks -> [Tables -> Hows]]
    BY <1>1, <2>1 DEF WorkOK
  <2>3. \A u \in Syncs : work'[u] = work[u] \/ work'[u] = Untouched
    BY <2>1 DEF WorkOK, Tasks
  <2> QED
    BY <1>1, <2>2, <2>3 DEF WorkOK
<1>3. CASE after = db
  BY <1>2, <1>3 DEF RowsOK, EndTransaction
<1>4. CASE after = Committed(t)
  <2>1. CASE t \in broken
    BY <1>2, <1>4, <2>1 DEF RowsOK, EndTransaction, Committed
  <2>2. CASE t \notin broken
    <3>1. db' = [k \in Tables |-> CASE work[t][k] \in {"insert", "update"} -> TRUE
                                    [] work[t][k] = "delete" -> FALSE
                                    [] OTHER -> db[k]]
      BY <1>4, <2>2 DEF EndTransaction, Committed
    <3>2. db' \in [Tables -> BOOLEAN] /\ broken' \subseteq Tasks
      BY <3>1 DEF RowsOK, EndTransaction
    <3>3. \A k \in Tables : db[k] /\ ~db'[k] => work[t][k] = "delete"
      BY <3>1
    <3> QED
      BY <1>2, <3>2, <3>3 DEF RowsOK
  <2> QED
    BY <2>1, <2>2
<1> QED
  BY <1>3, <1>4

\* A step without a commit wipes nothing.
LEMMA NoWipe == db' = db => WipesPast
  BY DEF WipesPast

\* What a step leaves alone keeps its type.
LEMMA Kept ==
    /\ WorkOK /\ work' = work => WorkOK'
    /\ RowsOK /\ db' = db /\ broken' = broken => RowsOK'
    /\ StoresOK /\ vec' = vec /\ lock' = lock => StoresOK'
  BY DEF WorkOK, RowsOK, StoresOK

-----------------------------------------------------------------------------
(* Requests                                                                 *)

LEMMA AddStep ==
    ASSUME Core, NEW u \in Users, NEW t \in Chains, Add(u, t) PROVE CoreStep
<1>1. /\ Move(t, "begin") /\ watching' = watching \cup {u}
      /\ UNCHANGED <<db, work, broken, vec, lock>>
  BY DEF Add, rows
<1>2. t \in Tasks /\ t \in Syncs /\ t \notin Purges
  BY WatchAssumption DEF Syncs, Tasks
<1>3. PlacesOK' /\ EntersUnwatched
  BY <1>1, <1>2, Moved DEF Core, SyncPlaces, PurgePlaces, PastPlaces
<1> QED
  BY <1>1, <1>3, Kept, NoWipe DEF Core, CoreStep

LEMMA AddByToolStep ==
    ASSUME Core, NEW u \in Users, NEW t \in Chains, AddByTool(u, t) PROVE CoreStep
<1>1. /\ Move(t, "begin") /\ watching' = watching \cup {u}
      /\ UNCHANGED <<db, work, broken, vec, lock>>
  BY DEF AddByTool, rows
<1>2. t \in Tasks /\ t \in Syncs /\ t \notin Purges
  BY WatchAssumption DEF Syncs, Tasks
<1>3. PlacesOK' /\ EntersUnwatched
  BY <1>1, <1>2, Moved DEF Core, SyncPlaces, PurgePlaces, PastPlaces
<1> QED
  BY <1>1, <1>3, Kept, NoWipe DEF Core, CoreStep

LEMMA RefreshStep ==
    ASSUME Core, NEW u \in Users, NEW t \in Chains, Refresh(u, t) PROVE CoreStep
<1>1. /\ Move(t, "begin") /\ UNCHANGED <<watching, db, work, broken, vec, lock>>
  BY DEF Refresh, rows
<1>2. t \in Tasks /\ t \in Syncs /\ t \notin Purges
  BY WatchAssumption DEF Syncs, Tasks
<1>3. PlacesOK' /\ EntersUnwatched
  BY <1>1, <1>2, Moved DEF Core, SyncPlaces, PurgePlaces, PastPlaces
<1> QED
  BY <1>1, <1>3, Kept, NoWipe DEF Core, CoreStep

LEMMA DeleteStep ==
    ASSUME Core, NEW u \in Users, NEW p \in Purges, Delete(u, p) PROVE CoreStep
<1>1. /\ Move(p, "check") /\ watching' = watching \ {u}
      /\ UNCHANGED <<db, work, broken, vec, lock>>
  BY DEF Delete, rows
<1>2. p \in Tasks /\ p \notin Syncs
  BY WatchAssumption DEF Tasks
<1>3. PlacesOK' /\ EntersUnwatched
  BY <1>1, <1>2, Moved DEF Core, SyncPlaces, PurgePlaces, PastPlaces
<1> QED
  BY <1>1, <1>3, Kept, NoWipe DEF Core, CoreStep

LEMMA BeginSweepStep ==
    ASSUME Core, NEW t \in Sweeps, BeginSweep(t) PROVE CoreStep
<1>1. /\ Move(t, "begin") /\ UNCHANGED <<watching, db, work, broken, vec, lock>>
  BY DEF BeginSweep, rows
<1>2. t \in Tasks /\ t \in Syncs /\ t \notin Purges
  BY WatchAssumption DEF Syncs, Tasks
<1>3. PlacesOK' /\ EntersUnwatched
  BY <1>1, <1>2, Moved DEF Core, SyncPlaces, PurgePlaces, PastPlaces
<1> QED
  BY <1>1, <1>3, Kept, NoWipe DEF Core, CoreStep

-----------------------------------------------------------------------------
(* Syncs                                                                    *)

\* A task in a place that is no place of a purge is a sync.
LEMMA IsSync ==
    ASSUME PlacesOK, NEW t \in Tasks, pc[t] \notin PurgePlaces
    PROVE  t \in Syncs /\ t \notin Purges
  BY DEF PlacesOK, Tasks

\* A sync moves to a place of syncs.
LEMMA SyncMoved ==
    ASSUME PlacesOK, NEW t \in Tasks, pc[t] \notin PurgePlaces,
           NEW place \in SyncPlaces, Goto(t, place)
    PROVE  PlacesOK' /\ EntersUnwatched /\ watching' = watching
<1>1. t \notin Purges /\ Move(t, place) /\ watching' = watching
  BY IsSync DEF Goto
<1> QED
  BY <1>1, Moved

LEMMA AcquireStep ==
    ASSUME Core, NEW t \in Tasks, Acquire(t) PROVE CoreStep
<1>1. pc[t] \notin PurgePlaces /\ UNCHANGED <<db, work, broken, vec>>
  BY DEF Acquire, rows, PurgePlaces, PastPlaces
<1>2. PICK place \in SyncPlaces : Goto(t, place)
  BY DEF Acquire, SyncPlaces
<1>3. PlacesOK' /\ EntersUnwatched /\ watching' = watching
  BY <1>1, <1>2, SyncMoved DEF Core
<1>4. lock' = lock \/ lock' = [lock EXCEPT ![Kind(t)] = t]
  BY DEF Acquire
<1>5. StoresOK'
  BY <1>1, <1>4 DEF Core, StoresOK
<1> QED
  BY <1>1, <1>3, <1>5, Kept, NoWipe DEF Core, CoreStep

LEMMA BeginUnlockedStep ==
    ASSUME Core, NEW t \in Tasks, BeginUnlocked(t) PROVE CoreStep
<1>1. pc[t] \notin PurgePlaces /\ UNCHANGED <<db, work, broken, vec, lock>>
  BY DEF BeginUnlocked, rows, PurgePlaces, PastPlaces
<1>2. PICK place \in SyncPlaces : Goto(t, place)
  BY DEF BeginUnlocked, SyncPlaces
<1>3. PlacesOK' /\ EntersUnwatched /\ watching' = watching
  BY <1>1, <1>2, SyncMoved DEF Core
<1> QED
  BY <1>1, <1>3, Kept, NoWipe DEF Core, CoreStep

LEMMA UpsertStep ==
    ASSUME Core, NEW t \in Tasks, Upsert(t) PROVE CoreStep
<1>1. /\ pc[t] \notin PurgePlaces /\ UNCHANGED <<db, broken, lock>>
      /\ Write(t, TableOf[Kind(t)], Upserted(t, TableOf[Kind(t)]))
      /\ vec' = vec \/ vec' = [vec EXCEPT !["news"] = TRUE]
  BY DEF Upsert, PurgePlaces, PastPlaces
<1>2. PICK place \in SyncPlaces : Goto(t, place)
  BY DEF Upsert, SyncPlaces
<1>3. PlacesOK' /\ EntersUnwatched /\ watching' = watching
  BY <1>1, <1>2, SyncMoved DEF Core
<1>4. t \in Syncs
  BY <1>1, IsSync DEF Core
<1>5. WorkOK'
  BY <1>1, <1>4, UpsertedHow, Wrote DEF Core
<1>6. StoresOK'
  BY <1>1 DEF Core, StoresOK
<1> QED
  BY <1>1, <1>3, <1>5, <1>6, Kept, NoWipe DEF Core, CoreStep

\* The transaction of a sync ends: it wipes nothing.
LEMMA SyncEnded ==
    ASSUME Core, NEW t \in Syncs, NEW after \in {db, Committed(t)}, EndTransaction(t, after)
    PROVE  WorkOK' /\ RowsOK' /\ WipesPast
<1>1. t \in Tasks
  BY DEF Tasks
<1>2. /\ WorkOK' /\ RowsOK'
      /\ \A k \in Tables : db[k] /\ ~db'[k] => work[t][k] = "delete"
  BY <1>1, Ended DEF Core
<1> QED
  BY <1>2 DEF Core, WorkOK, WipesPast

LEMMA CommitPricesStep ==
    ASSUME Core, NEW t \in Tasks, CommitPrices(t) PROVE CoreStep
<1>1. /\ pc[t] \notin PurgePlaces /\ UNCHANGED <<vec, lock>>
      /\ EndTransaction(t, Committed(t)) /\ Goto(t, "indicators")
  BY DEF CommitPrices, PurgePlaces, PastPlaces
<1>2. PlacesOK' /\ EntersUnwatched /\ watching' = watching
  BY <1>1, SyncMoved DEF Core, SyncPlaces
<1>3. WorkOK' /\ RowsOK' /\ WipesPast
  BY <1>1, IsSync, SyncEnded DEF Core
<1> QED
  BY <1>1, <1>2, <1>3, Kept DEF Core, CoreStep

LEMMA IndicatorsStep ==
    ASSUME Core, NEW t \in Tasks, Indicators(t) PROVE CoreStep
<1>1. /\ pc[t] \notin PurgePlaces /\ UNCHANGED <<db, broken, vec, lock>>
      /\ Goto(t, "value")
      /\ work' = work \/ Write(t, "technical", Upserted(t, "technical"))
  BY DEF Indicators, PurgePlaces, PastPlaces
<1>2. PlacesOK' /\ EntersUnwatched /\ watching' = watching
  BY <1>1, SyncMoved DEF Core, SyncPlaces
<1>3. WorkOK'
  <2>1. CASE work' = work
    BY <2>1, Kept DEF Core
  <2>2. CASE Write(t, "technical", Upserted(t, "technical"))
    BY <1>1, <2>2, IsSync, UpsertedHow, Wrote DEF Core
  <2> QED
    BY <1>1, <2>1, <2>2
<1> QED
  BY <1>1, <1>2, <1>3, Kept, NoWipe DEF Core, CoreStep

LEMMA ValueStep ==
    ASSUME Core, NEW t \in Tasks, Value(t) PROVE CoreStep
<1>1. pc[t] \notin PurgePlaces /\ UNCHANGED <<db, work, broken, vec, lock>>
  BY DEF Value, rows, PurgePlaces, PastPlaces
<1>2. PICK place \in SyncPlaces : Goto(t, place)
  BY DEF Value, AfterValue, SyncPlaces
<1>3. PlacesOK' /\ EntersUnwatched /\ watching' = watching
  BY <1>1, <1>2, SyncMoved DEF Core
<1> QED
  BY <1>1, <1>3, Kept, NoWipe DEF Core, CoreStep

LEMMA FlushRatioStep ==
    ASSUME Core, NEW t \in Tasks, FlushRatio(t) PROVE CoreStep
<1>1. /\ pc[t] \notin PurgePlaces /\ UNCHANGED <<db, vec, lock>>
      /\ \/ Write(t, "financial", Upserted(t, "financial")) /\ broken' = broken
         \/ broken' = broken \cup {t} /\ work' = work
  BY DEF FlushRatio, PurgePlaces, PastPlaces
<1>2. PICK place \in SyncPlaces : Goto(t, place)
  BY DEF FlushRatio, AfterValue, SyncPlaces
<1>3. PlacesOK' /\ EntersUnwatched /\ watching' = watching
  BY <1>1, <1>2, SyncMoved DEF Core
<1>4. WorkOK'
  <2>1. CASE work' = work
    BY <2>1, Kept DEF Core
  <2>2. CASE Write(t, "financial", Upserted(t, "financial"))
    BY <1>1, <2>2, IsSync, UpsertedHow, Wrote DEF Core
  <2> QED
    BY <1>1, <2>1, <2>2
<1>5. RowsOK'
  BY <1>1 DEF Core, RowsOK
<1> QED
  BY <1>1, <1>3, <1>4, <1>5, Kept, NoWipe DEF Core, CoreStep

LEMMA TrimAndCommitStep ==
    ASSUME Core, NEW t \in Tasks, TrimAndCommit(t) PROVE CoreStep
<1>1. pc[t] \notin PurgePlaces /\ UNCHANGED <<vec, lock>>
  BY DEF TrimAndCommit, PurgePlaces, PastPlaces
<1>2. PICK place \in SyncPlaces : Goto(t, place)
  BY DEF TrimAndCommit, SyncPlaces
<1>3. PlacesOK' /\ EntersUnwatched /\ watching' = watching
  BY <1>1, <1>2, SyncMoved DEF Core
<1>4. WorkOK' /\ RowsOK' /\ WipesPast
  <2>1. CASE UNCHANGED <<db, work, broken>>
    BY <2>1, Kept, NoWipe DEF Core
  <2>2. CASE EndTransaction(t, Committed(t))
    BY <1>1, <2>2, IsSync, SyncEnded DEF Core
  <2> QED
    BY <2>1, <2>2 DEF TrimAndCommit, rows
<1> QED
  BY <1>1, <1>3, <1>4, Kept DEF Core, CoreStep

LEMMA ReleaseStep ==
    ASSUME Core, NEW t \in Tasks, Release(t) PROVE CoreStep
<1>1. /\ pc[t] \notin PurgePlaces /\ UNCHANGED <<db, work, broken, vec>>
      /\ lock' = [lock EXCEPT ![Kind(t)] = NoTask]
  BY DEF Release, rows, PurgePlaces, PastPlaces
<1>2. PICK place \in SyncPlaces : Goto(t, place)
  BY DEF Release, AfterRelease, SyncPlaces
<1>3. PlacesOK' /\ EntersUnwatched /\ watching' = watching
  BY <1>1, <1>2, SyncMoved DEF Core
<1>4. StoresOK'
  BY <1>1 DEF Core, StoresOK
<1> QED
  BY <1>1, <1>3, <1>4, Kept, NoWipe DEF Core, CoreStep

LEMMA ListRowsStep ==
    ASSUME Core, NEW t \in Tasks, ListRows(t) PROVE CoreStep
<1>1. pc[t] \notin PurgePlaces /\ UNCHANGED <<db, work, broken, vec, lock>>
  BY DEF ListRows, rows, PurgePlaces, PastPlaces
<1>2. PICK place \in SyncPlaces : Goto(t, place)
  BY DEF ListRows, SyncPlaces
<1>3. PlacesOK' /\ EntersUnwatched /\ watching' = watching
  BY <1>1, <1>2, SyncMoved DEF Core
<1> QED
  BY <1>1, <1>3, Kept, NoWipe DEF Core, CoreStep

LEMMA WriteVectorsStep ==
    ASSUME Core, NEW t \in Tasks, WriteVectors(t) PROVE CoreStep
<1>1. /\ pc[t] \notin PurgePlaces /\ UNCHANGED <<db, work, broken, lock>>
      /\ vec' = [vec EXCEPT ![TableOf[Kind(t)]] = TRUE] /\ Goto(t, "commit")
  BY DEF WriteVectors, rows, PurgePlaces, PastPlaces
<1>2. PlacesOK' /\ EntersUnwatched /\ watching' = watching
  BY <1>1, SyncMoved DEF Core, SyncPlaces
<1>3. StoresOK'
  BY <1>1 DEF Core, StoresOK
<1> QED
  BY <1>1, <1>2, <1>3, Kept, NoWipe DEF Core, CoreStep

LEMMA EndSyncStep ==
    ASSUME Core, NEW t \in Tasks, EndSync(t) PROVE CoreStep
<1>1. /\ t \in Syncs /\ UNCHANGED <<vec, lock>> /\ watching' = watching
      /\ \E place \in {"idle", "begin"} : Move(t, place)
  BY DEF EndSync, NextSync
<1>2. t \notin Purges
  BY <1>1, WatchAssumption
<1>3. PICK after \in {db, Committed(t)} : EndTransaction(t, after)
  BY DEF EndSync
<1>4. WorkOK' /\ RowsOK' /\ WipesPast
  BY <1>1, <1>3, SyncEnded
<1>5. PlacesOK' /\ EntersUnwatched
  BY <1>1, <1>2, Moved DEF Core, SyncPlaces
<1> QED
  BY <1>1, <1>4, <1>5, Kept DEF Core, CoreStep

-----------------------------------------------------------------------------
(* Purges                                                                   *)

\* A task in a place of purges alone is a purge.
LEMMA IsPurge ==
    ASSUME PlacesOK, NEW t \in Tasks, pc[t] \notin SyncPlaces
    PROVE  t \in Purges /\ t \notin Syncs
  BY DEF PlacesOK, Tasks

LEMMA CheckWatchedStep ==
    ASSUME Core, NEW p \in Tasks, CheckWatched(p) PROVE CoreStep
<1>1. /\ pc[p] \notin SyncPlaces /\ UNCHANGED <<watching, db, work, broken, vec, lock>>
      /\ \/ Move(p, "idle")
         \/ Move(p, "delete") /\ watching = {}
  BY DEF CheckWatched, rows, SyncPlaces
<1>2. p \in Purges /\ p \notin Syncs
  BY <1>1, IsPurge DEF Core
<1>3. PlacesOK' /\ EntersUnwatched
  <2>1. CASE Move(p, "idle")
    BY <1>2, <2>1, Moved DEF Core, PurgePlaces, PastPlaces
  <2>2. CASE Move(p, "delete") /\ watching = {}
    BY <1>1, <1>2, <2>2, Moved DEF Core, PurgePlaces, PastPlaces
  <2> QED
    BY <1>1, <2>1, <2>2
<1> QED
  BY <1>1, <1>3, Kept, NoWipe DEF Core, CoreStep

\* A purge that is past its look goes on.
LEMMA PurgeMoved ==
    ASSUME PlacesOK, NEW p \in Purges, pc[p] \in PastPlaces,
           NEW place \in PurgePlaces, Move(p, place)
    PROVE  PlacesOK' /\ EntersUnwatched
<1>1. p \in Tasks /\ p \notin Syncs
  BY WatchAssumption DEF Tasks
<1> QED
  BY <1>1, Moved

LEMMA DeleteRowsStep ==
    ASSUME Core, NEW p \in Tasks, DeleteRows(p) PROVE CoreStep
<1>1. /\ pc[p] \notin SyncPlaces /\ pc[p] \in PastPlaces
      /\ UNCHANGED <<watching, db, broken, vec, lock>>
      /\ \E place \in PurgePlaces : Move(p, place)
      /\ work' = work \/ Write(p, Kind(p), "delete")
  BY DEF DeleteRows, NextTable, SyncPlaces, PurgePlaces, PastPlaces
<1>2. p \in Purges /\ p \notin Syncs
  BY <1>1, IsPurge DEF Core
<1>3. PlacesOK' /\ EntersUnwatched
  BY <1>1, <1>2, PurgeMoved DEF Core
<1>4. WorkOK'
  <2>1. CASE work' = work
    BY <2>1, Kept DEF Core
  <2>2. CASE Write(p, Kind(p), "delete")
    BY <1>2, <2>2, Wrote DEF Core, Hows
  <2> QED
    BY <1>1, <2>1, <2>2
<1> QED
  BY <1>1, <1>3, <1>4, Kept, NoWipe DEF Core, CoreStep

LEMMA CommitPurgeStep ==
    ASSUME Core, NEW p \in Tasks, CommitPurge(p) PROVE CoreStep
<1>1. /\ p \in Purges /\ pc[p] = "commit" /\ UNCHANGED <<watching, vec, lock>>
      /\ EndTransaction(p, Committed(p)) /\ Move(p, "unvector")
  BY DEF CommitPurge, ToStores, Goto
<1>2. PlacesOK' /\ EntersUnwatched
  BY <1>1, PurgeMoved DEF Core, PurgePlaces, PastPlaces
<1>3. WorkOK' /\ RowsOK'
  BY <1>1, Ended DEF Core
<1>4. WipesPast
  BY <1>1 DEF WipesPast, Past
<1> QED
  BY <1>1, <1>2, <1>3, <1>4, Kept DEF Core, CoreStep

LEMMA DropVectorsStep ==
    ASSUME Core, NEW p \in Tasks, DropVectors(p) PROVE CoreStep
<1>1. /\ pc[p] \notin SyncPlaces /\ pc[p] \in PastPlaces
      /\ UNCHANGED <<watching, db, work, broken, lock>>
      /\ Move(p, "idle") /\ vec' = [k \in DOMAIN vec |-> FALSE]
  BY DEF DropVectors, Goto, rows, SyncPlaces, PastPlaces
<1>2. PlacesOK' /\ EntersUnwatched
  BY <1>1, IsPurge, PurgeMoved DEF Core, PurgePlaces
<1>3. StoresOK'
  BY <1>1 DEF Core, StoresOK
<1> QED
  BY <1>1, <1>2, <1>3, Kept, NoWipe DEF Core, CoreStep

-----------------------------------------------------------------------------
(* Faults                                                                   *)

LEMMA StatementFailsStep ==
    ASSUME Core, NEW t \in Tasks, StatementFails(t) PROVE CoreStep
<1>1. /\ UNCHANGED <<watching, db, work, vec, lock>>
      /\ broken' \in {broken, broken \cup {t}}
  BY DEF StatementFails, Goto, NextTable
<1>2. RowsOK'
  BY <1>1 DEF Core, RowsOK
<1>3. PlacesOK' /\ EntersUnwatched
  <2>1. CASE pc[t] \in {"value", "ratio", "list", "vectors", "upsert", "commitPrices",
                        "indicators", "trim"}
    <3>1. PICK place \in SyncPlaces : Goto(t, place)
      BY <2>1 DEF StatementFails, AfterValue, SyncPlaces
    <3>2. pc[t] \notin PurgePlaces
      BY <2>1 DEF PurgePlaces, PastPlaces
    <3> QED
      BY <3>1, <3>2, SyncMoved DEF Core
  <2>2. CASE pc[t] = "delete"
    <3>1. /\ pc[t] \notin SyncPlaces /\ pc[t] \in PastPlaces
          /\ \E place \in PurgePlaces : Move(t, place)
      BY <2>2 DEF StatementFails, NextTable, SyncPlaces, PurgePlaces, PastPlaces
    <3> QED
      BY <3>1, IsPurge, PurgeMoved DEF Core
  <2> QED
    BY <2>1, <2>2 DEF StatementFails
<1> QED
  BY <1>1, <1>2, <1>3, Kept, NoWipe DEF Core, CoreStep

LEMMA CommitFailsStep ==
    ASSUME Core, NEW t \in Tasks, CommitFails(t) PROVE CoreStep
<1>1. /\ pc[t] = "commit" /\ UNCHANGED <<watching, vec, lock>>
      /\ EndTransaction(t, db)
      /\ IF t \in Purges THEN Move(t, "unvector") ELSE \E place \in {"idle", "begin"} :
                                                             Move(t, place)
  BY DEF CommitFails, ToStores, NextSync, Goto
<1>2. WorkOK' /\ RowsOK'
  BY <1>1, Ended DEF Core
<1>3. PlacesOK' /\ EntersUnwatched
  <2>1. CASE t \in Purges
    BY <1>1, <2>1, PurgeMoved DEF Core, PurgePlaces, PastPlaces
  <2>2. CASE t \notin Purges
    BY <1>1, <2>2, Moved DEF Core, SyncPlaces
  <2> QED
    BY <2>1, <2>2
<1>4. db' = db
  BY <1>1 DEF EndTransaction
<1> QED
  BY <1>1, <1>2, <1>3, <1>4, Kept, NoWipe DEF Core, CoreStep

LEMMA StoreFailsStep ==
    ASSUME Core, NEW t \in Tasks, StoreFails(t) PROVE CoreStep
<1>1. UNCHANGED <<watching, db, work, broken, lock>>
  BY DEF StoreFails, Goto, rows
<1>2. CASE pc[t] \in {"skip", "release", "unlock"}
  <2>1. PICK place \in SyncPlaces : Goto(t, place)
    BY <1>2 DEF StoreFails, AfterRelease, SyncPlaces
  <2>2. pc[t] \notin PurgePlaces /\ vec' = vec
    BY <1>2 DEF StoreFails, PurgePlaces, PastPlaces
  <2>3. PlacesOK' /\ EntersUnwatched
    BY <2>1, <2>2, SyncMoved DEF Core
  <2> QED
    BY <1>1, <2>2, <2>3, Kept, NoWipe DEF Core, CoreStep
<1>3. CASE pc[t] = "unvector"
  <2>1. /\ pc[t] \notin SyncPlaces /\ pc[t] \in PastPlaces /\ Move(t, "idle")
        /\ \E k \in DOMAIN vec : vec' = [c \in DOMAIN vec |-> c = k /\ vec[c]]
    BY <1>3 DEF StoreFails, Goto, SyncPlaces, PastPlaces
  <2>2. PlacesOK' /\ EntersUnwatched
    BY <2>1, IsPurge, PurgeMoved DEF Core, PurgePlaces
  <2>3. StoresOK'
    BY <1>1, <2>1 DEF Core, StoresOK
  <2> QED
    BY <1>1, <2>2, <2>3, Kept, NoWipe DEF Core, CoreStep
<1> QED
  BY <1>2, <1>3 DEF StoreFails

LEMMA CrashStep ==
    ASSUME Core, NEW dead \in SUBSET Tasks, Crash(dead) PROVE CoreStep
<1>1. /\ pc' = [t \in Tasks |-> IF t \in dead THEN "idle" ELSE pc[t]]
      /\ work' = [t \in Tasks |-> IF t \in dead THEN Untouched ELSE work[t]]
      /\ broken' = broken \ dead /\ UNCHANGED <<watching, db, vec, lock>>
  BY DEF Crash
<1>2. PlacesOK' /\ EntersUnwatched
  BY <1>1 DEF Core, PlacesOK, EntersUnwatched, Past, SyncPlaces, PurgePlaces, PastPlaces,
              Tasks
<1>3. WorkOK' /\ RowsOK'
  BY <1>1 DEF Core, WorkOK, RowsOK, Untouched, Hows, Tasks
<1> QED
  BY <1>1, <1>2, <1>3, Kept, NoWipe DEF Core, CoreStep

LEMMA ExpireLockStep ==
    ASSUME Core, NEW k \in Locked, ExpireLock(k) PROVE CoreStep
<1>1. /\ pc' = pc /\ UNCHANGED <<watching, db, work, broken, vec>>
      /\ lock' = [lock EXCEPT ![k] = NoTask]
  BY DEF ExpireLock, rows
<1>2. PlacesOK' /\ EntersUnwatched
  BY <1>1 DEF Core, PlacesOK, EntersUnwatched, Past
<1>3. StoresOK'
  BY <1>1 DEF Core, StoresOK
<1> QED
  BY <1>1, <1>2, <1>3, Kept, NoWipe DEF Core, CoreStep

-----------------------------------------------------------------------------
(* The invariant                                                            *)

\* A step of a task on its own.
LEMMA TaskStepCore ==
    ASSUME Core, NEW t \in Tasks, TaskStep(t) PROVE CoreStep
<1>1. CASE SyncStep(t)
  BY <1>1, AcquireStep, BeginUnlockedStep, UpsertStep, CommitPricesStep, IndicatorsStep,
     ValueStep, FlushRatioStep, TrimAndCommitStep, ReleaseStep, ListRowsStep,
     WriteVectorsStep, EndSyncStep DEF SyncStep
<1>2. CASE PurgeStep(t)
  BY <1>2, CheckWatchedStep, DeleteRowsStep, CommitPurgeStep, DropVectorsStep DEF PurgeStep
<1>3. CASE BreakDeadlock(t)
  BY <1>3, StatementFailsStep DEF BreakDeadlock
<1> QED
  BY <1>1, <1>2, <1>3 DEF TaskStep

LEMMA StepCore ==
    ASSUME Core, Step PROVE CoreStep
<1>1. CASE Request
  BY <1>1, AddStep, AddByToolStep, RefreshStep, DeleteStep, BeginSweepStep DEF Request
<1>2. CASE \E t \in Tasks : TaskStep(t)
  BY <1>2, TaskStepCore
<1>3. CASE \E k \in Locked : ExpireLock(k)
  BY <1>3, ExpireLockStep
<1>4. CASE Fault
  BY <1>4, StatementFailsStep, CommitFailsStep, StoreFailsStep, CrashStep DEF Fault
<1> QED
  BY <1>1, <1>2, <1>3, <1>4 DEF Step

\* Counters and histories.
BooksOK == faults \in 0..MaxFaults /\ late \in BOOLEAN /\ mixed \in BOOLEAN

IInv == Core /\ BooksOK /\ PastExplained

LEMMA InitIInv == Init => IInv
<1> SUFFICES ASSUME Init PROVE IInv
  OBVIOUS
<1>1. PlacesOK /\ PastExplained
  BY DEF Init, PlacesOK, PastExplained, Past, SyncPlaces, PurgePlaces, PastPlaces, Tasks
<1>2. WorkOK
  BY DEF Init, WorkOK, Untouched, Hows, Tasks
<1>3. RowsOK /\ StoresOK
  BY DEF Init, RowsOK, StoresOK
<1>4. BooksOK
  <2>1. faults = 0 /\ late = FALSE /\ mixed = FALSE
    BY DEF Init
  <2>2. 0 \in 0..MaxFaults
    BY WatchAssumption
  <2> QED
    BY <2>1, <2>2 DEF BooksOK
<1> QED
  BY <1>1, <1>2, <1>3, <1>4 DEF Init, IInv, Core

LEMMA NextIInv == IInv /\ [Next]_vars => IInv'
<1> SUFFICES ASSUME IInv, [Next]_vars PROVE IInv'
  OBVIOUS
<1>1. CASE Next
  <2>1. Core' /\ EntersUnwatched
    BY <1>1, StepCore DEF IInv, Next, CoreStep
  <2>2. faults' \in 0..MaxFaults
    <3>1. faults' = faults \/ (faults < MaxFaults /\ faults' = faults + 1)
      BY <1>1 DEF Next, Step, TaskStep
    <3> QED
      BY <3>1, WatchAssumption DEF IInv, BooksOK
  <2>3. late' = (\E p \in Purges : Past(p)' /\ (late \/ (watching = {} /\ watching' # {})))
    BY <1>1 DEF Next, History
  <2>4. mixed' \in BOOLEAN /\ late' \in BOOLEAN
    BY <1>1 DEF Next, History
  <2>5. PastExplained'
    <3> SUFFICES ASSUME NEW p \in Purges, Past(p)' PROVE watching' = {} \/ late'
      BY DEF PastExplained
    <3>1. CASE Past(p)
      <4>1. watching = {} \/ late
        BY <3>1 DEF IInv, PastExplained
      <4> QED
        BY <2>3, <4>1
    <3>2. CASE ~Past(p)
      BY <2>1, <3>2 DEF EntersUnwatched
    <3> QED
      BY <3>1, <3>2
  <2> QED
    BY <2>1, <2>2, <2>4, <2>5 DEF IInv, BooksOK
<1>2. CASE UNCHANGED vars
  <2>1. /\ pc' = pc /\ watching' = watching /\ late' = late /\ mixed' = mixed
        /\ faults' = faults /\ UNCHANGED <<db, work, broken, vec, lock>>
    BY <1>2 DEF vars
  <2>2. Core'
    BY <2>1, Kept DEF IInv, Core, PlacesOK
  <2>3. BooksOK' /\ PastExplained'
    BY <2>1 DEF IInv, BooksOK, PastExplained, Past
  <2> QED
    BY <2>2, <2>3 DEF IInv
<1> QED
  BY <1>1, <1>2

\* The invariant holds in every state of every behaviour.
THEOREM IInvHolds == Spec => []IInv
<1> QED
  BY InitIInv, NextIInv, PTL DEF Spec

-----------------------------------------------------------------------------
(* The properties                                                           *)

\* Every variable has its type.
THEOREM CachesTypeCorrect == Spec => []TypeOK
<1>1. IInv => TypeOK
  <2> SUFFICES ASSUME IInv PROVE TypeOK
    OBVIOUS
  <2>1. work \in [Tasks -> [Tables -> {"none", "insert", "update", "delete"}]]
    BY DEF IInv, Core, WorkOK, Hows
  <2>2. SyncPlaces \cup PurgePlaces = {"idle", "begin", "upsert", "commitPrices",
                         "indicators", "value", "ratio", "trim",
                         "skip", "release", "list", "vectors", "commit", "unlock",
                         "rollback", "check", "delete", "unvector"}
    BY DEF SyncPlaces, PurgePlaces, PastPlaces
  <2>3. pc \in [Tasks -> {"idle", "begin", "upsert", "commitPrices",
                         "indicators", "value", "ratio", "trim",
                         "skip", "release", "list", "vectors", "commit", "unlock",
                         "rollback", "check", "delete", "unvector"}]
    BY <2>2 DEF IInv, Core, PlacesOK
  <2> QED
    BY <2>1, <2>3 DEF IInv, Core, BooksOK, RowsOK, StoresOK, TypeOK
<1> QED
  BY <1>1, IInvHolds, PTL

\* The rows of a symbol that is watched are never wiped by a purge that looked after it was
\* added: purge_symbol_cache asks still_watched before it deletes, and no sync deletes.
THEOREM WipesAreStale == Spec => WipeIsStaleCheck
<1>1. IInv /\ [Next]_vars =>
        [(\E k \in Tables : db[k] /\ ~db'[k]) => watching = {} \/ late]_vars
  <2> SUFFICES ASSUME IInv, Next, NEW k \in Tables, db[k], ~db'[k]
               PROVE  watching = {} \/ late
    <3>1. (\E k \in Tables : db[k] /\ ~db'[k]) => db' # db
      OBVIOUS
    <3> QED
      BY <3>1 DEF vars
  <2>1. WipesPast
    BY StepCore DEF IInv, Next, CoreStep
  <2>2. PICK p \in Purges : Past(p)
    BY <2>1 DEF WipesPast
  <2> QED
    BY <2>2 DEF IInv, PastExplained
<1> QED
  BY <1>1, IInvHolds, PTL DEF Spec, WipeIsStaleCheck

-----------------------------------------------------------------------------
(* The shape of the tasks                                                   *)

\* The kinds of syncs.
Kinds == {"news", "financials", "prices", "filings", "valuation"}
\* The places at which a sync holds the lock of its kind.
HoldPlaces == {"upsert", "commitPrices", "indicators", "value", "ratio",
               "trim", "skip", "release", "unlock"}

\* What is left to do are kinds of syncs, or tables to purge.
TodoOK ==
    /\ todo \in [Tasks -> Seq(Kinds \cup Tables)]
    /\ \A t \in Syncs : \A i \in 1..Len(todo[t]) : todo[t][i] \in Kinds
    /\ \A p \in Purges : \A i \in 1..Len(todo[p]) : todo[p][i] \in Tables

\* A sync is at a place that the kind of its data leads to.
PlaceFitsKind(t) ==
    /\ pc[t] # "idle" => todo[t] # <<>> /\ Kind(t) \in Kinds
    /\ pc[t] = "upsert" => Kind(t) # "valuation"
    /\ pc[t] \in {"commitPrices", "indicators", "trim"} => Kind(t) = "prices"
    /\ pc[t] \in {"value", "ratio"} => Kind(t) \in {"financials", "prices", "valuation"}
    /\ pc[t] \in {"skip", "release", "unlock"} => Kind(t) \in Locked
    /\ pc[t] = "skip" => t \in Sweeps
    /\ pc[t] = "list" => Kind(t) = "news"
    /\ pc[t] = "vectors" => Kind(t) \in {"news", "filings"}

\* A sync that has not written yet holds no rows.
SyncFresh(t) ==
    /\ pc[t] \in {"idle", "begin", "upsert", "indicators"} =>
           \A k \in Tables : work[t][k] = "none"
    /\ pc[t] \in {"idle", "begin"} => t \notin broken

\* The order of the tables in which a purge empties them.
Rank == [price |-> 1, financial |-> 2, technical |-> 3, news |-> 4, filing |-> 5]

\* A purge has done the tables before those that it has still to do.
PurgeFits(p) ==
    /\ pc[p] = "delete" =>
           /\ todo[p] # <<>>
           /\ \A i, j \in 1..Len(todo[p]) : i < j => Rank[todo[p][i]] < Rank[todo[p][j]]
           /\ \A k \in Tables : \A i \in 1..Len(todo[p]) :
                  work[p][k] # "none" => Rank[k] < Rank[todo[p][i]]
    /\ \A k \in Tables : work[p][k] \in {"none", "delete"}
    /\ pc[p] \in {"idle", "check", "unvector"} =>
           (\A k \in Tables : work[p][k] = "none") /\ p \notin broken

\* What a step of t leaves alone.
Others(t) == \A u \in Tasks \ {t} :
    /\ pc'[u] = pc[u] /\ todo'[u] = todo[u] /\ work'[u] = work[u]
    /\ u \in broken' <=> u \in broken

\* What an add and a refresh have in common: a chain is queued for a symbol with a watcher.
BeginsChain(t) ==
    /\ t \in Chains /\ pc[t] = "idle" /\ Move(t, "begin")
    /\ todo' = [todo EXCEPT ![t] = ChainOrder]
    /\ watching' # {} /\ UNCHANGED <<db, work, broken, vec, lock>>

\* Rows have one writer.
OneHolder == \A t, u \in Tasks, k \in Tables : Holder(t, k) /\ Holder(u, k) => t = u

\* A lock is held by the sync that works on its kind.
LocksHeld == \A k \in Locked : lock[k] # NoTask =>
    lock[k] \in Syncs /\ pc[lock[k]] \in HoldPlaces /\ Kind(lock[k]) = k

\* Lists that are done, and the rest of those that are not.
LEMMA EmptyLen == ASSUME NEW S, NEW s \in Seq(S) PROVE s = <<>> <=> Len(s) = 0
  OBVIOUS

LEMMA Tails ==
    ASSUME NEW S, NEW s \in Seq(S), s # <<>>
    PROVE  /\ Tail(s) \in Seq(S) /\ Len(s) \in Nat \ {0} /\ Len(Tail(s)) = Len(s) - 1
           /\ Head(s) = s[1] /\ Head(s) \in S
           /\ \A i \in 1..Len(Tail(s)) : Tail(s)[i] = s[i + 1]
           /\ Tail(s) = <<>> <=> Len(s) = 1
<1>1. Len(s) \in Nat \ {0}
  OBVIOUS
<1>2. Tail(s) \in Seq(S) /\ Len(Tail(s)) = Len(s) - 1
  OBVIOUS
<1>3. Head(s) = s[1] /\ Head(s) \in S
  OBVIOUS
<1>4. \A i \in 1..Len(Tail(s)) : Tail(s)[i] = s[i + 1]
  OBVIOUS
<1>5. Tail(s) = <<>> <=> Len(Tail(s)) = 0
  BY <1>2, EmptyLen
<1>6. Len(Tail(s)) = 0 <=> Len(s) = 1
  BY <1>1, <1>2
<1> QED
  BY <1>1, <1>2, <1>3, <1>4, <1>5, <1>6

\* Where a sync goes, by its kind.
LEMMA AfterValueIs ==
    ASSUME NEW t
    PROVE  /\ Kind(t) = "financials" => AfterValue(t) = "release"
           /\ Kind(t) = "prices" => AfterValue(t) = "trim"
           /\ Kind(t) \notin {"financials", "prices"} => AfterValue(t) = "commit"
  BY DEF AfterValue
\* Where a sync goes once it has released its lock.
LEMMA AfterReleaseIs ==
    ASSUME NEW t
    PROVE  /\ pc[t] = "unlock" => AfterRelease(t) = "rollback"
           /\ pc[t] # "unlock" /\ Kind(t) = "news" => AfterRelease(t) = "list"
           /\ pc[t] # "unlock" /\ Kind(t) # "news" => AfterRelease(t) = "commit"
  BY DEF AfterRelease
\* Where a sync goes once it has written the rows it has fetched.
LEMMA UpsertGoes ==
    ASSUME NEW t, Upsert(t)
    PROVE  /\ Kind(t) = "news" => Goto(t, "release")
           /\ Kind(t) = "financials" => Goto(t, "value")
           /\ Kind(t) = "prices" => Goto(t, "commitPrices")
           /\ Kind(t) \notin {"news", "financials", "prices"} => Goto(t, "vectors")
  BY DEF Upsert

\* A step of a sync other than its end.
SyncGoes(t) ==
    \/ Acquire(t) \/ BeginUnlocked(t) \/ Upsert(t) \/ CommitPrices(t)
    \/ Indicators(t) \/ Value(t) \/ FlushRatio(t) \/ TrimAndCommit(t)
    \/ Release(t) \/ ListRows(t) \/ WriteVectors(t)

\* The place still fits the kind.
LEMMA SyncGoesFits ==
    ASSUME PlacesOK, TodoOK, NEW t \in Syncs, PlaceFitsKind(t), SyncGoes(t)
    PROVE  PlaceFitsKind(t)' /\ todo' = todo
<1> t \in Tasks
  BY DEF Tasks
<1> DOMAIN pc = Tasks
  BY DEF PlacesOK
<1> USE DEF Goto, Move
<1>1. CASE Acquire(t)
  BY <1>1 DEF Acquire, PlaceFitsKind, Kind, Kinds, Locked
<1>2. CASE BeginUnlocked(t)
  BY <1>2 DEF BeginUnlocked, PlaceFitsKind, Kind, Kinds, Locked
<1>3. CASE Upsert(t)
  BY <1>3, UpsertGoes DEF Upsert, PlaceFitsKind, Kind, Kinds, Locked
<1>4. CASE CommitPrices(t)
  BY <1>4 DEF CommitPrices, PlaceFitsKind, Kind, Kinds, Locked
<1>5. CASE Indicators(t)
  BY <1>5 DEF Indicators, PlaceFitsKind, Kind, Kinds, Locked
<1>6. CASE Value(t)
  BY <1>6, AfterValueIs DEF Value, PlaceFitsKind, Kind, Kinds, Locked
<1>7. CASE FlushRatio(t)
  BY <1>7, AfterValueIs DEF FlushRatio, PlaceFitsKind, Kind, Kinds, Locked
<1>8. CASE TrimAndCommit(t)
  BY <1>8 DEF TrimAndCommit, PlaceFitsKind, Kind, Kinds, Locked
<1>9. CASE Release(t)
  BY <1>9, AfterReleaseIs DEF Release, PlaceFitsKind, Kind, Kinds, Locked
<1>10. CASE ListRows(t)
  BY <1>10 DEF ListRows, PlaceFitsKind, Kind, Kinds, Locked
<1>11. CASE WriteVectors(t)
  BY <1>11 DEF WriteVectors, PlaceFitsKind, Kind, Kinds, Locked
<1> QED
  BY <1>1, <1>2, <1>3, <1>4, <1>5, <1>6, <1>7, <1>8, <1>9, <1>10, <1>11 DEF SyncGoes

\* What the two orders hold.
LEMMA Orders ==
    /\ ChainOrder \in Seq(Kinds) /\ Len(ChainOrder) = 5 /\ ChainOrder # <<>>
    /\ PurgeOrder \in Seq(Tables) /\ Len(PurgeOrder) = 5 /\ PurgeOrder # <<>>
    /\ \A i \in 1..5 : Rank[PurgeOrder[i]] = i
    /\ \A k \in Kinds : \E i \in 1..5 : ChainOrder[i] = k
    /\ \A k \in Tables : \E i \in 1..5 : PurgeOrder[i] = k
<1>1. ChainOrder \in Seq(Kinds) /\ Len(ChainOrder) = 5 /\ ChainOrder # <<>>
  BY DEF ChainOrder, Kinds
<1>2. PurgeOrder \in Seq(Tables) /\ Len(PurgeOrder) = 5 /\ PurgeOrder # <<>>
  BY DEF PurgeOrder, Tables
<1>3. \A i \in 1..5 : Rank[PurgeOrder[i]] = i
  BY DEF PurgeOrder, Rank
<1>4. \A k \in Kinds : \E i \in 1..5 : ChainOrder[i] = k
  <2>1. ChainOrder[1] = "news" /\ ChainOrder[2] = "financials" /\ ChainOrder[3] = "prices"
        /\ ChainOrder[4] = "filings" /\ ChainOrder[5] = "valuation"
    BY DEF ChainOrder
  <2>2. 1 \in 1..5 /\ 2 \in 1..5 /\ 3 \in 1..5 /\ 4 \in 1..5 /\ 5 \in 1..5
    OBVIOUS
  <2> QED
    BY <2>1, <2>2, Zenon DEF Kinds
<1>5. \A k \in Tables : \E i \in 1..5 : PurgeOrder[i] = k
  <2>1. PurgeOrder[1] = "price" /\ PurgeOrder[2] = "financial" /\ PurgeOrder[3] = "technical"
        /\ PurgeOrder[4] = "news" /\ PurgeOrder[5] = "filing"
    BY DEF PurgeOrder
  <2>2. 1 \in 1..5 /\ 2 \in 1..5 /\ 3 \in 1..5 /\ 4 \in 1..5 /\ 5 \in 1..5
    OBVIOUS
  <2> QED
    BY <2>1, <2>2, Zenon DEF Tables
<1> QED
  BY <1>1, <1>2, <1>3, <1>4, <1>5

\* A transaction that has done nothing.
LEMMA UntouchedNone == \A k \in Tables : Untouched[k] = "none"
  BY DEF Untouched

\* A sync holds rows only once it has written.
LEMMA SyncGoesFresh ==
    ASSUME PlacesOK, WorkOK, NEW t \in Syncs, PlaceFitsKind(t), SyncFresh(t), SyncGoes(t)
    PROVE  SyncFresh(t)'
<1> t \in Tasks
  BY DEF Tasks
<1> DOMAIN pc = Tasks /\ DOMAIN work = Tasks
  BY DEF PlacesOK, WorkOK
<1> USE UntouchedNone DEF Goto, Move
<1>1. CASE Acquire(t)
  BY <1>1 DEF Acquire, SyncFresh, PlaceFitsKind, Kinds, Locked, rows, EndTransaction, Write
<1>2. CASE BeginUnlocked(t)
  BY <1>2
     DEF BeginUnlocked, SyncFresh, PlaceFitsKind, Kinds, Locked, rows, EndTransaction, Write
<1>3. CASE Upsert(t)
  BY <1>3, UpsertGoes
     DEF Upsert, SyncFresh, PlaceFitsKind, Kinds, Locked, rows, EndTransaction, Write
<1>4. CASE CommitPrices(t)
  BY <1>4 DEF CommitPrices, SyncFresh, PlaceFitsKind, Kinds, Locked, rows, EndTransaction, Write
<1>5. CASE Indicators(t)
  BY <1>5 DEF Indicators, SyncFresh, PlaceFitsKind, Kinds, Locked, rows, EndTransaction, Write
<1>6. CASE Value(t)
  BY <1>6, AfterValueIs
     DEF Value, SyncFresh, PlaceFitsKind, Kinds, Locked, rows, EndTransaction, Write
<1>7. CASE FlushRatio(t)
  BY <1>7, AfterValueIs
     DEF FlushRatio, SyncFresh, PlaceFitsKind, Kinds, Locked, rows, EndTransaction, Write
<1>8. CASE TrimAndCommit(t)
  BY <1>8
     DEF TrimAndCommit, SyncFresh, PlaceFitsKind, Kinds, Locked, rows, EndTransaction, Write
<1>9. CASE Release(t)
  BY <1>9, AfterReleaseIs
     DEF Release, SyncFresh, PlaceFitsKind, Kinds, Locked, rows, EndTransaction, Write
<1>10. CASE ListRows(t)
  BY <1>10 DEF ListRows, SyncFresh, PlaceFitsKind, Kinds, Locked, rows, EndTransaction, Write
<1>11. CASE WriteVectors(t)
  BY <1>11
     DEF WriteVectors, SyncFresh, PlaceFitsKind, Kinds, Locked, rows, EndTransaction, Write
<1> QED
  BY <1>1, <1>2, <1>3, <1>4, <1>5, <1>6, <1>7, <1>8, <1>9, <1>10, <1>11 DEF SyncGoes

\* A sync moves alone.
LEMMA SyncGoesOthers ==
    ASSUME PlacesOK, WorkOK, NEW t \in Syncs, SyncGoes(t)
    PROVE  Others(t)
<1> t \in Tasks
  BY DEF Tasks
<1> DOMAIN pc = Tasks /\ DOMAIN work = Tasks
  BY DEF PlacesOK, WorkOK
<1> USE DEF Goto, Move
<1>1. CASE Acquire(t)
  BY <1>1 DEF Acquire, Others, rows, EndTransaction, Write
<1>2. CASE BeginUnlocked(t)
  BY <1>2 DEF BeginUnlocked, Others, rows, EndTransaction, Write
<1>3. CASE Upsert(t)
  BY <1>3, UpsertGoes DEF Upsert, Others, rows, EndTransaction, Write
<1>4. CASE CommitPrices(t)
  BY <1>4 DEF CommitPrices, Others, rows, EndTransaction, Write
<1>5. CASE Indicators(t)
  BY <1>5 DEF Indicators, Others, rows, EndTransaction, Write
<1>6. CASE Value(t)
  BY <1>6, AfterValueIs DEF Value, Others, rows, EndTransaction, Write
<1>7. CASE FlushRatio(t)
  BY <1>7, AfterValueIs DEF FlushRatio, Others, rows, EndTransaction, Write
<1>8. CASE TrimAndCommit(t)
  BY <1>8 DEF TrimAndCommit, Others, rows, EndTransaction, Write
<1>9. CASE Release(t)
  BY <1>9, AfterReleaseIs DEF Release, Others, rows, EndTransaction, Write
<1>10. CASE ListRows(t)
  BY <1>10 DEF ListRows, Others, rows, EndTransaction, Write
<1>11. CASE WriteVectors(t)
  BY <1>11 DEF WriteVectors, Others, rows, EndTransaction, Write
<1> QED
  BY <1>1, <1>2, <1>3, <1>4, <1>5, <1>6, <1>7, <1>8, <1>9, <1>10, <1>11 DEF SyncGoes

\* A transaction writes only what nobody else has written.
HoldsFree(t) ==
    \A k \in Tables : work'[t][k] # "none" => work[t][k] # "none" \/ ~HeldByOther(t, k)

\* A sync writes rows that nobody else has written.
LEMMA SyncGoesFree ==
    ASSUME PlacesOK, WorkOK, NEW t \in Syncs, SyncGoes(t)
    PROVE  HoldsFree(t)
<1> t \in Tasks
  BY DEF Tasks
<1> DOMAIN work = Tasks /\ DOMAIN work[t] = Tables
  BY DEF WorkOK
<1> USE UntouchedNone DEF HoldsFree
<1>1. CASE Acquire(t)
  BY <1>1 DEF Acquire, rows, EndTransaction, Write
<1>2. CASE BeginUnlocked(t)
  BY <1>2 DEF BeginUnlocked, rows, EndTransaction, Write
<1>3. CASE Upsert(t)
  BY <1>3 DEF Upsert, rows, EndTransaction, Write
<1>4. CASE CommitPrices(t)
  BY <1>4 DEF CommitPrices, rows, EndTransaction, Write
<1>5. CASE Indicators(t)
  BY <1>5 DEF Indicators, rows, EndTransaction, Write
<1>6. CASE Value(t)
  BY <1>6 DEF Value, rows, EndTransaction, Write
<1>7. CASE FlushRatio(t)
  BY <1>7 DEF FlushRatio, rows, EndTransaction, Write
<1>8. CASE TrimAndCommit(t)
  BY <1>8 DEF TrimAndCommit, rows, EndTransaction, Write
<1>9. CASE Release(t)
  BY <1>9 DEF Release, rows, EndTransaction, Write
<1>10. CASE ListRows(t)
  BY <1>10 DEF ListRows, rows, EndTransaction, Write
<1>11. CASE WriteVectors(t)
  BY <1>11 DEF WriteVectors, rows, EndTransaction, Write
<1> QED
  BY <1>1, <1>2, <1>3, <1>4, <1>5, <1>6, <1>7, <1>8, <1>9, <1>10, <1>11 DEF SyncGoes

\* A sync keeps its lock up to the release of it.
LEMMA SyncGoesLocks ==
    ASSUME PlacesOK, StoresOK, LocksHeld, NEW t \in Syncs, PlaceFitsKind(t), SyncGoes(t)
    PROVE  LocksHeld'
<1> t \in Tasks /\ t # NoTask
  BY WatchAssumption DEF Tasks
<1> DOMAIN pc = Tasks /\ DOMAIN lock = Locked
  BY DEF PlacesOK, StoresOK
<1> Syncs \subseteq Tasks
  BY DEF Tasks
<1> USE DEF Goto, Move
<1>1. CASE Acquire(t)
  BY <1>1 DEF Acquire, LocksHeld, HoldPlaces, PlaceFitsKind, Kind, Kinds, Locked
<1>2. CASE BeginUnlocked(t)
  BY <1>2 DEF BeginUnlocked, LocksHeld, HoldPlaces, PlaceFitsKind, Kind, Kinds, Locked
<1>3. CASE Upsert(t)
  BY <1>3, UpsertGoes DEF Upsert, LocksHeld, HoldPlaces, PlaceFitsKind, Kind, Kinds, Locked
<1>4. CASE CommitPrices(t)
  BY <1>4 DEF CommitPrices, LocksHeld, HoldPlaces, PlaceFitsKind, Kind, Kinds, Locked
<1>5. CASE Indicators(t)
  BY <1>5 DEF Indicators, LocksHeld, HoldPlaces, PlaceFitsKind, Kind, Kinds, Locked
<1>6. CASE Value(t)
  BY <1>6, AfterValueIs DEF Value, LocksHeld, HoldPlaces, PlaceFitsKind, Kind, Kinds, Locked
<1>7. CASE FlushRatio(t)
  BY <1>7, AfterValueIs
     DEF FlushRatio, LocksHeld, HoldPlaces, PlaceFitsKind, Kind, Kinds, Locked
<1>8. CASE TrimAndCommit(t)
  BY <1>8 DEF TrimAndCommit, LocksHeld, HoldPlaces, PlaceFitsKind, Kind, Kinds, Locked
<1>9. CASE Release(t)
  BY <1>9, AfterReleaseIs DEF Release, LocksHeld, HoldPlaces, PlaceFitsKind, Kind, Kinds, Locked
<1>10. CASE ListRows(t)
  BY <1>10 DEF ListRows, LocksHeld, HoldPlaces, PlaceFitsKind, Kind, Kinds, Locked
<1>11. CASE WriteVectors(t)
  BY <1>11 DEF WriteVectors, LocksHeld, HoldPlaces, PlaceFitsKind, Kind, Kinds, Locked
<1> QED
  BY <1>1, <1>2, <1>3, <1>4, <1>5, <1>6, <1>7, <1>8, <1>9, <1>10, <1>11 DEF SyncGoes

\* The shape of all tasks, as long as no fault happens.
Shape == /\ TodoOK /\ OneHolder /\ LocksHeld
         /\ \A t \in Syncs : PlaceFitsKind(t) /\ SyncFresh(t)
         /\ \A p \in Purges : PurgeFits(p)

\* What one task has changed.
LEMMA ShapeKept ==
    ASSUME Shape, NEW t \in Tasks, Others(t), TodoOK', LocksHeld', HoldsFree(t),
           t \in Syncs => PlaceFitsKind(t)' /\ SyncFresh(t)',
           t \in Purges => PurgeFits(t)'
    PROVE  Shape'
<1>1. \A u \in Syncs : PlaceFitsKind(u)' /\ SyncFresh(u)'
  BY DEF Shape, PlaceFitsKind, SyncFresh, Others, Kind, Tasks
<1>2. \A p \in Purges : PurgeFits(p)'
  BY DEF Shape, PurgeFits, Others, Tasks
<1>3. OneHolder'
  BY DEF Shape, OneHolder, HoldsFree, Others, Holder, HeldByOther
<1> QED
  BY <1>1, <1>2, <1>3 DEF Shape

\* A step of a sync keeps the shape of all tasks.
LEMMA SyncGoesShape ==
    ASSUME Core, Shape, NEW t \in Syncs, SyncGoes(t)
    PROVE  Shape'
<1>1. t \in Tasks /\ t \notin Purges /\ PlaceFitsKind(t) /\ SyncFresh(t)
  BY WatchAssumption DEF Shape, Tasks
<1>2. PlaceFitsKind(t)' /\ todo' = todo
  BY <1>1, SyncGoesFits DEF Core, Shape
<1>3. SyncFresh(t)' /\ Others(t) /\ HoldsFree(t) /\ LocksHeld'
  BY <1>1, SyncGoesFresh, SyncGoesOthers, SyncGoesFree, SyncGoesLocks DEF Core, Shape
<1>4. TodoOK'
  BY <1>2 DEF Shape, TodoOK
<1> QED
  BY <1>1, <1>2, <1>3, <1>4, ShapeKept

\* A task goes on with the rest of its list.
LEMMA NextTodo ==
    ASSUME TodoOK, NEW t \in Tasks, todo[t] # <<>>, todo' = [todo EXCEPT ![t] = Tail(@)]
    PROVE  /\ TodoOK' /\ Len(todo[t]) \in Nat \ {0}
           /\ todo'[t] = Tail(todo[t]) /\ Len(todo'[t]) = Len(todo[t]) - 1
           /\ \A u \in Tasks : u # t => todo'[u] = todo[u]
           /\ \A i \in 1..Len(todo'[t]) : todo'[t][i] = todo[t][i + 1]
           /\ Kind(t) = todo[t][1]
           /\ todo'[t] = <<>> <=> Len(todo[t]) = 1
<1>1. todo[t] \in Seq(Kinds \cup Tables) /\ todo \in [Tasks -> Seq(Kinds \cup Tables)]
  BY DEF TodoOK
<1> HIDE DEF Kinds, Tables
<1> DEFINE s == todo[t]
<1>2. /\ Tail(s) \in Seq(Kinds \cup Tables) /\ Len(s) \in Nat \ {0}
      /\ Len(Tail(s)) = Len(s) - 1 /\ Head(s) = s[1]
      /\ \A i \in 1..Len(Tail(s)) : Tail(s)[i] = s[i + 1]
      /\ Tail(s) = <<>> <=> Len(s) = 1
  BY <1>1, Tails
<1>3. todo'[t] = Tail(s) /\ \A u \in Tasks : u # t => todo'[u] = todo[u]
  BY <1>1
<1>4. todo' \in [Tasks -> Seq(Kinds \cup Tables)]
  BY <1>1, <1>2
<1>5. \A u \in Syncs : \A i \in 1..Len(todo'[u]) : todo'[u][i] \in Kinds
  <2> TAKE u \in Syncs
  <2> TAKE i \in 1..Len(todo'[u])
  <2>1. CASE u = t
    <3>1. todo'[u] = Tail(s) /\ i \in 1..Len(Tail(s)) /\ Len(Tail(s)) = Len(s) - 1
      BY <1>2, <1>3, <2>1
    <3>2. todo'[u][i] = s[i + 1]
      BY <1>2, <3>1
    <3>3. i + 1 \in 1..Len(s)
      BY <1>2, <3>1
    <3> QED
      BY <2>1, <3>2, <3>3 DEF TodoOK
  <2>2. CASE u # t
    BY <1>3, <2>2 DEF TodoOK, Tasks
  <2> QED
    BY <2>1, <2>2
<1>6. \A u \in Purges : \A i \in 1..Len(todo'[u]) : todo'[u][i] \in Tables
  <2> TAKE u \in Purges
  <2> TAKE i \in 1..Len(todo'[u])
  <2>1. CASE u = t
    <3>1. todo'[u] = Tail(s) /\ i \in 1..Len(Tail(s)) /\ Len(Tail(s)) = Len(s) - 1
      BY <1>2, <1>3, <2>1
    <3>2. todo'[u][i] = s[i + 1]
      BY <1>2, <3>1
    <3>3. i + 1 \in 1..Len(s)
      BY <1>2, <3>1
    <3> QED
      BY <2>1, <3>2, <3>3 DEF TodoOK
  <2>2. CASE u # t
    BY <1>3, <2>2 DEF TodoOK, Tasks
  <2> QED
    BY <2>1, <2>2
<1> QED
  BY <1>2, <1>3, <1>4, <1>5, <1>6 DEF TodoOK, Kind

\* So does its end, which ends the transaction,
LEMMA EndSyncShape ==
    ASSUME Core, Shape, NEW t \in Syncs, EndSync(t)
    PROVE  Shape'
<1>1. /\ t \in Tasks /\ t \notin Purges /\ PlaceFitsKind(t) /\ SyncFresh(t)
      /\ TodoOK /\ pc[t] \in {"commit", "rollback"}
      /\ todo' = [todo EXCEPT ![t] = Tail(@)] /\ lock' = lock
      /\ pc' = [pc EXCEPT ![t] = IF Tail(todo[t]) = <<>> THEN "idle" ELSE "begin"]
      /\ work' = [work EXCEPT ![t] = Untouched] /\ broken' = broken \ {t}
  BY WatchAssumption DEF Shape, Tasks, EndSync, NextSync, Move, EndTransaction
<1>2. todo[t] # <<>>
  BY <1>1 DEF PlaceFitsKind
<1>3. /\ TodoOK' /\ Len(todo[t]) \in Nat \ {0}
      /\ todo'[t] = Tail(todo[t]) /\ Len(todo'[t]) = Len(todo[t]) - 1
      /\ \A u \in Tasks : u # t => todo'[u] = todo[u]
  BY <1>1, <1>2, NextTodo
<1> DOMAIN pc = Tasks /\ DOMAIN work = Tasks
  BY DEF Core, PlacesOK, WorkOK
<1>4. Others(t)
  BY <1>1, <1>3 DEF Others
<1>5. pc'[t] = IF Tail(todo[t]) = <<>> THEN "idle" ELSE "begin"
  BY <1>1
<1>6. PlaceFitsKind(t)'
  <2>1. CASE Tail(todo[t]) = <<>>
    BY <1>5, <2>1 DEF PlaceFitsKind
  <2>2. CASE Tail(todo[t]) # <<>>
    <3>1. todo'[t] \in Seq(Kinds \cup Tables) /\ todo'[t] # <<>>
      BY <1>1, <1>3, <2>2 DEF TodoOK
    <3>2. Kind(t)' = todo'[t][1] /\ 1 \in 1..Len(todo'[t])
      BY <3>1, Tails DEF Kind
    <3>3. Kind(t)' \in Kinds
      BY <1>3, <3>2 DEF TodoOK
    <3> QED
      BY <1>5, <2>2, <3>1, <3>3 DEF PlaceFitsKind
  <2> QED
    BY <2>1, <2>2
<1>7. SyncFresh(t)' /\ HoldsFree(t)
  BY <1>1, UntouchedNone DEF SyncFresh, HoldsFree
<1>8. LocksHeld'
  <2> SUFFICES ASSUME NEW k \in Locked, lock[k] # NoTask
               PROVE  lock[k] \in Syncs /\ pc'[lock[k]] \in HoldPlaces /\ Kind(lock[k])' = k
    BY <1>1 DEF LocksHeld
  <2>1. lock[k] \in Syncs /\ pc[lock[k]] \in HoldPlaces /\ Kind(lock[k]) = k
    BY DEF Shape, LocksHeld
  <2>2. lock[k] # t /\ lock[k] \in Tasks
    BY <1>1, <2>1 DEF HoldPlaces, Tasks
  <2> QED
    BY <1>1, <1>4, <2>1, <2>2 DEF Others, Kind
<1> QED
  BY <1>1, <1>3, <1>4, <1>6, <1>7, <1>8, ShapeKept

\* A step of a purge, or of a sync at its places, leaves the locks of the syncs.
LEMMA PurgeLocks ==
    ASSUME Core, Shape, NEW p \in Purges, Others(p), lock' = lock
    PROVE  LocksHeld'
<1> SUFFICES ASSUME NEW k \in Locked, lock[k] # NoTask
             PROVE  lock[k] \in Syncs /\ pc'[lock[k]] \in HoldPlaces /\ Kind(lock[k])' = k
  BY DEF LocksHeld
<1>1. lock[k] \in Syncs /\ pc[lock[k]] \in HoldPlaces /\ Kind(lock[k]) = k
  BY DEF Shape, LocksHeld
<1>2. lock[k] # p /\ lock[k] \in Tasks
  BY <1>1, WatchAssumption DEF Tasks
<1> QED
  BY <1>1, <1>2 DEF Others, Kind

\* the look of a purge, which fills its list,
LEMMA CheckWatchedShape ==
    ASSUME Core, Shape, NEW p \in Purges, CheckWatched(p)
    PROVE  Shape'
<1>1. /\ p \in Tasks /\ p \notin Syncs /\ PurgeFits(p) /\ TodoOK
      /\ pc[p] = "check" /\ work' = work /\ broken' = broken /\ lock' = lock
      /\ \/ pc' = [pc EXCEPT ![p] = "idle"] /\ todo' = todo
         \/ pc' = [pc EXCEPT ![p] = "delete"] /\ todo' = [todo EXCEPT ![p] = PurgeOrder]
  BY WatchAssumption DEF Shape, Tasks, CheckWatched, Move, rows
<1> DOMAIN pc = Tasks /\ DOMAIN work = Tasks
  BY DEF Core, PlacesOK, WorkOK
<1>2. todo \in [Tasks -> Seq(Kinds \cup Tables)]
  BY <1>1 DEF TodoOK
<1>3. PurgeOrder \in Seq(Kinds \cup Tables)
  BY Orders DEF Kinds, Tables, PurgeOrder
<1>4. Others(p)
  BY <1>1, <1>2 DEF Others
<1>5. todo' \in [Tasks -> Seq(Kinds \cup Tables)]
  BY <1>1, <1>2, <1>3
<1>6. \A i \in 1..Len(PurgeOrder) : PurgeOrder[i] \in Tables
  BY Orders DEF Tables, PurgeOrder
<1>7. TodoOK'
  BY <1>1, <1>2, <1>4, <1>5, <1>6 DEF TodoOK, Others, Tasks
<1>8. PurgeFits(p)' /\ HoldsFree(p)
  <2>1. CASE pc' = [pc EXCEPT ![p] = "idle"]
    BY <1>1, <2>1 DEF PurgeFits, HoldsFree
  <2>2. CASE pc' = [pc EXCEPT ![p] = "delete"] /\ todo' = [todo EXCEPT ![p] = PurgeOrder]
    <3>1. todo'[p] = PurgeOrder /\ pc'[p] = "delete"
      BY <1>1, <1>2, <2>2
    <3>2. \A i, j \in 1..5 : i < j => Rank[PurgeOrder[i]] < Rank[PurgeOrder[j]]
      BY Orders
    <3>3. \A k \in Tables : work'[p][k] = "none"
      BY <1>1 DEF PurgeFits
    <3> QED
      BY <1>1, <3>1, <3>2, <3>3, Orders DEF PurgeFits, HoldsFree
  <2> QED
    BY <1>1, <2>1, <2>2
<1>9. LocksHeld'
  BY <1>1, <1>4, PurgeLocks
<1> QED
  BY <1>1, <1>4, <1>7, <1>8, <1>9, ShapeKept

\* The ranks are numbers.
LEMMA TablesFive == \A k \in Tables : Rank[k] \in 1..5
  BY DEF Tables, Rank

\* The purge has the next table before it, or none.
LEMMA NextTableShape ==
    ASSUME Core, Shape, NEW p \in Purges, pc[p] = "delete", NextTable(p), lock' = lock,
           \A u \in Tasks \ {p} : work'[u] = work[u] /\ (u \in broken' <=> u \in broken),
           \A k \in Tables : \/ work'[p][k] = work[p][k]
                             \/ k = Kind(p) /\ work'[p][k] = "delete",
           HoldsFree(p)
    PROVE  Shape'
<1>1. /\ p \in Tasks /\ p \notin Syncs /\ PurgeFits(p) /\ TodoOK /\ todo[p] # <<>>
      /\ pc' = [pc EXCEPT ![p] = IF Tail(todo[p]) = <<>> THEN "commit" ELSE "delete"]
      /\ todo' = [todo EXCEPT ![p] = Tail(@)]
  BY WatchAssumption DEF Shape, Tasks, NextTable, Move, PurgeFits
<1>2. /\ TodoOK' /\ Len(todo[p]) \in Nat \ {0}
      /\ todo'[p] = Tail(todo[p]) /\ Len(todo'[p]) = Len(todo[p]) - 1
      /\ \A u \in Tasks : u # p => todo'[u] = todo[u]
      /\ \A i \in 1..Len(todo'[p]) : todo'[p][i] = todo[p][i + 1]
      /\ Kind(p) = todo[p][1]
  BY <1>1, NextTodo
<1> DOMAIN pc = Tasks
  BY DEF Core, PlacesOK
<1>3. Others(p)
  BY <1>1, <1>2 DEF Others
<1>4. \A i \in 1..Len(todo'[p]) :
          i + 1 \in 1..Len(todo[p]) /\ 1 < i + 1 /\ 1 \in 1..Len(todo[p])
  BY <1>2
<1>5. \A i, j \in 1..Len(todo[p]) : i < j => Rank[todo[p][i]] < Rank[todo[p][j]]
  BY <1>1 DEF PurgeFits
<1>6. \A i, j \in 1..Len(todo'[p]) : i < j => Rank[todo'[p][i]] < Rank[todo'[p][j]]
  <2> TAKE i, j \in 1..Len(todo'[p])
  <2> HAVE i < j
  <2>1. i + 1 \in 1..Len(todo[p]) /\ j + 1 \in 1..Len(todo[p]) /\ i + 1 < j + 1
    BY <1>4
  <2>2. Rank[todo[p][i + 1]] < Rank[todo[p][j + 1]]
    BY <1>5, <2>1
  <2> QED
    BY <1>2, <2>2
<1>7. \A i \in 1..Len(todo'[p]) : Rank[Kind(p)] < Rank[todo'[p][i]]
  BY <1>2, <1>4, <1>5
<1>8. \A k \in Tables : \A i \in 1..Len(todo'[p]) :
          work'[p][k] # "none" => Rank[k] < Rank[todo'[p][i]]
  <2> TAKE k \in Tables
  <2> TAKE i \in 1..Len(todo'[p])
  <2> HAVE work'[p][k] # "none"
  <2>1. CASE k = Kind(p)
    BY <1>7, <2>1
  <2>2. CASE k # Kind(p)
    <3>1. work[p][k] # "none"
      BY <2>2
    <3> QED
      BY <1>1, <1>2, <1>4, <3>1 DEF PurgeFits
  <2> QED
    BY <2>1, <2>2
<1>9. PurgeFits(p)'
  <2>1. pc'[p] \in {"commit", "delete"} /\ (pc'[p] = "delete" => todo'[p] # <<>>)
    BY <1>1, <1>2
  <2>2. \A k \in Tables : work'[p][k] \in {"none", "delete"}
    BY <1>1 DEF PurgeFits
  <2> QED
    BY <1>6, <1>8, <2>1, <2>2 DEF PurgeFits
<1>10. LocksHeld'
  BY <1>3, PurgeLocks
<1> QED
  BY <1>1, <1>2, <1>3, <1>9, <1>10, ShapeKept

\* A DELETE keeps the shape,
LEMMA DeleteRowsShape ==
    ASSUME Core, Shape, NEW p \in Purges, DeleteRows(p)
    PROVE  Shape'
<1>1. p \in Tasks
  BY DEF Tasks
<1> DOMAIN work = Tasks /\ DOMAIN work[p] = Tables
  BY <1>1 DEF Core, WorkOK
<1>2. \A u \in Tasks \ {p} : work'[u] = work[u] /\ (u \in broken' <=> u \in broken)
  BY DEF DeleteRows, Write
<1>3. \A k \in Tables : work'[p][k] = work[p][k] \/ (k = Kind(p) /\ work'[p][k] = "delete")
  BY <1>1 DEF DeleteRows, Write
<1>4. HoldsFree(p)
  BY <1>1 DEF DeleteRows, Write, HoldsFree
<1> QED
  BY <1>2, <1>3, <1>4, NextTableShape DEF DeleteRows

\* A purge that is done with the tables: it holds no rows.
LEMMA PurgeEndShape ==
    ASSUME Core, Shape, NEW p \in Purges, todo' = todo, lock' = lock,
           NEW place \in {"idle", "check", "unvector"}, Move(p, place),
           \A u \in Tasks \ {p} : work'[u] = work[u] /\ (u \in broken' <=> u \in broken),
           \A k \in Tables : work'[p][k] = "none",
           p \notin broken'
    PROVE  Shape'
<1>1. p \in Tasks /\ p \notin Syncs
  BY WatchAssumption DEF Tasks
<1> DOMAIN pc = Tasks
  BY DEF Core, PlacesOK
<1>2. Others(p) /\ HoldsFree(p)
  BY <1>1 DEF Others, HoldsFree, Move
<1>3. PurgeFits(p)'
  BY <1>1 DEF Move, PurgeFits
<1>4. TodoOK'
  BY DEF Shape, TodoOK
<1> QED
  BY <1>1, <1>2, <1>3, <1>4, PurgeLocks, ShapeKept

\* and so do the end of the transaction of a purge,
LEMMA CommitPurgeShape ==
    ASSUME Core, Shape, NEW p \in Purges, CommitPurge(p)
    PROVE  Shape'
<1>1. p \in Tasks
  BY DEF Tasks
<1> DOMAIN work = Tasks
  BY DEF Core, WorkOK
<1>2. \A u \in Tasks \ {p} : work'[u] = work[u] /\ (u \in broken' <=> u \in broken)
  BY DEF CommitPurge, EndTransaction
<1>3. (\A k \in Tables : work'[p][k] = "none") /\ p \notin broken'
  BY <1>1, UntouchedNone DEF CommitPurge, EndTransaction
<1>4. todo' = todo /\ lock' = lock /\ Move(p, "unvector")
  BY DEF CommitPurge, ToStores, Goto
<1> QED
  BY <1>2, <1>3, <1>4, PurgeEndShape

\* the end of the purge
LEMMA DropVectorsShape ==
    ASSUME Core, Shape, NEW p \in Purges, DropVectors(p)
    PROVE  Shape'
<1>1. todo' = todo /\ lock' = lock /\ Move(p, "idle") /\ work' = work /\ broken' = broken
  BY DEF DropVectors, Goto, rows
<1>2. (\A k \in Tables : work[p][k] = "none") /\ p \notin broken
  BY DEF DropVectors, Shape, PurgeFits
<1> QED
  BY <1>1, <1>2, PurgeEndShape

\* and the request that queues one.
LEMMA DeleteShape ==
    ASSUME Core, Shape, NEW u \in Users, NEW p \in Purges, Delete(u, p)
    PROVE  Shape'
<1>1. todo' = todo /\ lock' = lock /\ Move(p, "check") /\ work' = work /\ broken' = broken
  BY DEF Delete, rows
<1>2. (\A k \in Tables : work[p][k] = "none") /\ p \notin broken
  BY DEF Delete, Shape, PurgeFits
<1> QED
  BY <1>1, <1>2, PurgeEndShape

\* A sync begins.
LEMMA BeginsShape ==
    ASSUME Core, Shape, NEW t \in Syncs, pc[t] = "idle", Move(t, "begin"),
           NEW list \in Seq(Kinds), list # <<>>, todo' = [todo EXCEPT ![t] = list],
           UNCHANGED <<work, broken, lock>>
    PROVE  Shape'
<1>1. t \in Tasks /\ t \notin Purges /\ TodoOK /\ SyncFresh(t)
  BY WatchAssumption DEF Shape, Tasks
<1>2. Len(list) \in Nat \ {0} /\ Head(list) = list[1]
      /\ \A i \in 1..Len(list) : list[i] \in Kinds
  <2> HIDE DEF Kinds
  <2>1. Len(list) \in Nat \ {0} /\ Head(list) = list[1]
    BY Tails
  <2>2. \A i \in 1..Len(list) : list[i] \in Kinds
    OBVIOUS
  <2> QED
    BY <2>1, <2>2
<1> DOMAIN pc = Tasks /\ todo \in [Tasks -> Seq(Kinds \cup Tables)]
  BY <1>1 DEF Core, PlacesOK, TodoOK
<1>3. list \in Seq(Kinds \cup Tables)
  BY DEF Kinds, Tables
<1>4. todo'[t] = list /\ todo' \in [Tasks -> Seq(Kinds \cup Tables)]
      /\ \A u \in Tasks : u # t => todo'[u] = todo[u]
  BY <1>1, <1>3
<1>5. TodoOK'
  BY <1>1, <1>2, <1>4 DEF TodoOK, Tasks
<1>6. pc'[t] = "begin" /\ \A u \in Tasks : u # t => pc'[u] = pc[u]
  BY <1>1 DEF Move
<1>7. Others(t) /\ HoldsFree(t)
  BY <1>4, <1>6 DEF Others, HoldsFree
<1>8. Kind(t)' \in Kinds /\ todo'[t] # <<>>
  BY <1>2, <1>4 DEF Kind
<1>9. PlaceFitsKind(t)' /\ SyncFresh(t)'
  BY <1>1, <1>6, <1>8 DEF PlaceFitsKind, SyncFresh
<1>10. LocksHeld'
  <2> SUFFICES ASSUME NEW k \in Locked, lock[k] # NoTask
               PROVE  lock[k] \in Syncs /\ pc'[lock[k]] \in HoldPlaces /\ Kind(lock[k])' = k
    BY DEF LocksHeld
  <2>1. lock[k] \in Syncs /\ pc[lock[k]] \in HoldPlaces /\ Kind(lock[k]) = k
    BY DEF Shape, LocksHeld
  <2>2. lock[k] # t /\ lock[k] \in Tasks
    BY <1>1, <2>1 DEF HoldPlaces, Tasks
  <2> QED
    BY <1>7, <2>1, <2>2 DEF Others, Kind
<1> QED
  BY <1>1, <1>5, <1>7, <1>9, <1>10, ShapeKept

\* A chain begins in shape,
LEMMA BeginsChainShape ==
    ASSUME Core, Shape, NEW t \in Chains, BeginsChain(t) PROVE Shape'
  BY Orders, BeginsShape DEF BeginsChain, Syncs

\* and so does a sweep.
LEMMA BeginSweepShape ==
    ASSUME Core, Shape, NEW t \in Sweeps, BeginSweep(t) PROVE Shape'
<1>1. PICK kind \in {"prices", "financials"} : todo' = [todo EXCEPT ![t] = <<kind>>]
  BY DEF BeginSweep
<1>2. <<kind>> \in Seq(Kinds) /\ <<kind>> # <<>>
  BY DEF Kinds
<1>3. t \in Syncs /\ pc[t] = "idle" /\ Move(t, "begin") /\ UNCHANGED <<work, broken, lock>>
  BY DEF BeginSweep, Syncs, rows
<1> QED
  BY <1>1, <1>2, <1>3, BeginsShape

\* PostgreSQL fails a statement of a cycle.
LEMMA StatementFailsShape ==
    ASSUME Core, Shape, NEW t \in Tasks, StatementFails(t) PROVE Shape'
<1> DOMAIN pc = Tasks /\ Syncs \subseteq Tasks /\ Purges \subseteq Tasks
  BY DEF Core, PlacesOK, Tasks
<1>1. UNCHANGED <<work, lock>> /\ (broken' = broken \/ broken' = broken \cup {t})
  BY DEF StatementFails
<1>2. CASE pc[t] = "delete"
  <2>1. t \in Purges /\ NextTable(t)
    BY <1>2, IsPurge DEF StatementFails, Core, SyncPlaces
  <2>2. HoldsFree(t)
    BY <1>1 DEF HoldsFree
  <2> QED
    BY <1>1, <1>2, <2>1, <2>2, NextTableShape
<1>3. CASE pc[t] # "delete"
  <2>1. pc[t] \notin PurgePlaces
    BY <1>3 DEF StatementFails, PurgePlaces, PastPlaces
  <2>2. t \in Syncs /\ t \notin Purges
    BY <2>1, IsSync DEF Core
  <2>3. PlaceFitsKind(t) /\ SyncFresh(t) /\ TodoOK /\ LocksHeld
    BY <2>2 DEF Shape
  <2>4. todo' = todo /\ PlaceFitsKind(t)' /\ pc[t] \notin {"idle", "begin"}
        /\ \A u \in Tasks : u # t => pc'[u] = pc[u]
    BY <1>3, <2>3, AfterValueIs
       DEF StatementFails, PlaceFitsKind, Goto, Move, Kind, Kinds, Locked
  <2>5. pc'[t] \notin {"idle", "begin", "upsert", "indicators"}
    BY <1>3, <2>3, AfterValueIs DEF StatementFails, PlaceFitsKind, Goto, Move
  <2>6. SyncFresh(t)'
    BY <2>5 DEF SyncFresh
  <2>7. Others(t) /\ HoldsFree(t)
    BY <1>1, <2>4 DEF Others, HoldsFree
  <2>8. LocksHeld'
    BY <1>1, <1>3, <2>3, <2>4, AfterValueIs
       DEF LocksHeld, HoldPlaces, StatementFails, PlaceFitsKind, Goto, Move, Kind, Kinds, Locked
  <2>9. TodoOK'
    BY <2>3, <2>4 DEF TodoOK
  <2> QED
    BY <2>2, <2>4, <2>6, <2>7, <2>8, <2>9, ShapeKept
<1> QED
  BY <1>2, <1>3

-----------------------------------------------------------------------------
(* Settling                                                                 *)

\* The kind of sync that fills a table.
KindOf == [price |-> "prices", technical |-> "prices", financial |-> "financials",
           news |-> "news", filing |-> "filings"]
Collections == {"news", "filing"}

\* Rows that the transaction of t has written.
Written(t, k) == work[t][k] \in {"insert", "update"}
\* A chain will come to a kind.
Later(t, kind) == \E i \in 1..Len(todo[t]) : todo[t][i] = kind /\ (i = 1 => pc[t] = "begin")
\* A sync is on its way to write the rows of a table.
WillWrite(t, k) ==
    \/ pc[t] = "upsert" /\ Kind(t) = KindOf[k]
    \/ k = "technical" /\ pc[t] \in {"commitPrices", "indicators"}
\* A task that will fill a table, or a collection of vectors.
Fills(t, k) ==
    \/ t \in Chains /\ Running(t) /\ Later(t, KindOf[k])
    \/ WillWrite(t, k) \/ Written(t, k)
FillsVec(t, k) ==
    \/ t \in Chains /\ Running(t) /\ Later(t, KindOf[k])
    \/ pc[t] \in {"upsert", "vectors"} /\ Kind(t) = KindOf[k]
\* A purge that will empty a table.
Empties(p, k) ==
    \/ pc[p] = "delete" /\ \E i \in 1..Len(todo[p]) : todo[p][i] = k
    \/ pc[p] \in {"delete", "commit"} /\ work[p][k] = "delete"

\* No purge past its look meets a sync, and no chain a sweep that its cooldown stops.
Apart ==
    /\ \A s \in Syncs, p \in Purges : ~(Running(s) /\ Past(p))
    /\ \A c \in Chains, s \in Sweeps : ~(Running(c) /\ pc[s] = "skip")
\* No transaction is aborted.
Sound == broken = {} /\ \A t \in Tasks : pc[t] \notin {"unlock", "rollback"}
\* What a sync has done by the time it has come to a place.
Progress(t) ==
    /\ pc[t] = "commitPrices" => Written(t, "price")
    /\ pc[t] = "indicators" => db["price"]
    /\ pc[t] = "ratio" => Visible(t, "financial")
    /\ pc[t] \in {"value", "ratio", "trim"} /\ Kind(t) = "prices" =>
           db["price"] /\ Written(t, "technical")
    /\ pc[t] = "release" /\ Kind(t) = "prices" => db["price"] /\ db["technical"]
    /\ pc[t] \in {"value", "ratio", "release"} /\ Kind(t) = "financials" =>
           Written(t, "financial")
    /\ pc[t] = "release" /\ Kind(t) = "news" => Written(t, "news") /\ vec["news"]
\* While a purge is past its look nobody watches.
PastUnwatched == \A p \in Purges : Past(p) => watching = {}
\* What is watched is cached, or somebody is about to cache it;
Filling == watching # {} =>
    /\ \A k \in Tables : db[k] \/ \E t \in Syncs : Fills(t, k)
    /\ \A k \in Collections : vec[k] \/ \E t \in Syncs : FillsVec(t, k)
\* what nobody watches is gone, or a purge is about to remove it.
Emptying == watching = {} =>
    \/ \E p \in Purges : pc[p] = "check"
    \/ /\ \A t \in Syncs : ~Running(t)
       /\ \A k \in Tables : db[k] => \E p \in Purges : Empties(p, k)
       /\ \A k \in Collections : vec[k] => \E p \in Purges : Past(p)

\* What holds as long as no purge past its look has met a sync.
Settles ==
    /\ Apart /\ Sound /\ PastUnwatched /\ Filling /\ Emptying
    /\ \A t \in Syncs : Progress(t)

\* Nobody waits in a circle: ...
LEMMA WantsOf ==
    ASSUME NEW t
    PROVE  /\ pc[t] = "upsert" => Wants(t) = {TableOf[Kind(t)]}
           /\ pc[t] = "indicators" => Wants(t) = {"technical"}
           /\ pc[t] = "ratio" => Wants(t) = {"financial"}
           /\ pc[t] = "delete" => Wants(t) \subseteq {Kind(t)}
           /\ pc[t] \notin {"upsert", "indicators", "ratio", "delete"} => Wants(t) = {}
  BY DEF Wants

\* Tasks wait for tables.
LEMMA WantsTables ==
    ASSUME Core, Shape, NEW t \in Tasks PROVE Wants(t) \subseteq Tables
<1>1. CASE pc[t] = "delete"
  <2>1. t \in Purges
    BY <1>1, IsPurge DEF Core, SyncPlaces
  <2>2. todo[t] # <<>> /\ todo[t] \in Seq(Kinds \cup Tables)
    BY <1>1, <2>1 DEF Shape, PurgeFits, TodoOK
  <2>3. Kind(t) = todo[t][1] /\ 1 \in 1..Len(todo[t])
    BY <2>2, Tails DEF Kind
  <2>4. Kind(t) \in Tables
    BY <2>1, <2>3 DEF Shape, TodoOK
  <2> QED
    BY <1>1, <2>4, WantsOf
<1>2. CASE pc[t] = "upsert"
  <2>1. t \in Syncs
    BY <1>2, IsSync DEF Core, PurgePlaces, PastPlaces
  <2>2. Kind(t) \in Kinds
    BY <1>2, <2>1 DEF Shape, PlaceFitsKind
  <2>3. TableOf[Kind(t)] \in Tables
    BY <2>2 DEF TableOf, Kinds, Tables
  <2> QED
    BY <1>2, <2>3, WantsOf
<1>3. CASE pc[t] \notin {"delete", "upsert"}
  BY <1>3, WantsOf DEF Tables
<1> QED
  BY <1>1, <1>2, <1>3

\* A purge that waits for another is at an earlier table.
LEMMA PurgeWaits ==
    ASSUME Core, Shape, NEW p \in Purges, NEW q \in Purges, WaitsFor(p, q), Wants(q) # {}
    PROVE  Rank[Kind(p)] < Rank[Kind(q)]
<1>1. p \in Tasks /\ q \in Tasks
  BY DEF Tasks
<1>2. pc[p] \in PurgePlaces /\ pc[q] \in PurgePlaces
  BY DEF Core, PlacesOK
<1>3. PICK k \in Wants(p) : Holder(q, k)
  BY DEF WaitsFor
<1>4. pc[p] = "delete" /\ pc[q] = "delete" /\ k = Kind(p)
  BY <1>2, <1>3, WantsOf DEF PurgePlaces, PastPlaces
<1>5. k \in Tables
  BY <1>1, <1>3, WantsTables
<1>6. todo[q] # <<>> /\ todo[q] \in Seq(Kinds \cup Tables)
  BY <1>1, <1>4 DEF Shape, PurgeFits, TodoOK
<1>7. Kind(q) = todo[q][1] /\ 1 \in 1..Len(todo[q])
  BY <1>6, Tails DEF Kind
<1> QED
  BY <1>3, <1>4, <1>5, <1>7 DEF Shape, PurgeFits, Holder

\* A sync that holds rows and waits is about to write a ratio.
LEMMA SyncWaits ==
    ASSUME Core, Shape, NEW t \in Syncs, NEW k \in Tables, Holder(t, k), Wants(t) # {}
    PROVE  Wants(t) = {"financial"}
<1>1. t \in Tasks /\ pc[t] \in SyncPlaces
  BY DEF Tasks, Core, PlacesOK
<1>2. pc[t] \in {"upsert", "indicators", "ratio"}
  BY <1>1, WantsOf DEF SyncPlaces
<1>3. pc[t] = "ratio"
  BY <1>2 DEF Shape, SyncFresh, Holder
<1> QED
  BY <1>3, WantsOf

\* Who waits for a task has a task of its own kind before it.
LEMMA WaitsApart ==
    ASSUME Core, Shape, Apart, NEW t \in Tasks, NEW u \in Tasks, WaitsFor(t, u)
    PROVE  (t \in Syncs /\ u \in Syncs) \/ (t \in Purges /\ u \in Purges)
<1>1. PICK k \in Wants(t) : Holder(u, k)
  BY DEF WaitsFor
<1>2. k \in Tables
  BY <1>1, WantsTables
<1>3. pc[t] \in {"upsert", "indicators", "ratio", "delete"}
  BY <1>1, WantsOf
<1>4. u \in Syncs => Running(u)
  BY <1>1, <1>2 DEF Shape, SyncFresh, Holder, Running
<1>5. u \in Purges => Past(u)
  BY <1>1, <1>2 DEF Shape, PurgeFits, Holder, Past, Core, PlacesOK, PurgePlaces, PastPlaces
<1>6. t \in Syncs => Running(t)
  BY <1>3 DEF Running
<1>7. t \in Purges => Past(t)
  BY <1>3 DEF Past, Core, PlacesOK, PurgePlaces, PastPlaces
<1> QED
  BY <1>4, <1>5, <1>6, <1>7 DEF Apart, Tasks

\* ... a circle of purges would go back in their order, and one of syncs would need
\* two writers of the financials.
LEMMA NoDeadlock ==
    ASSUME Core, Shape, Apart, NEW t \in Tasks
    PROVE  ~Deadlocked(t)
<1> SUFFICES ASSUME NEW u \in Tasks, NEW v \in Tasks, WaitsFor(t, u), WaitsFor(u, v),
                    v = t \/ WaitsFor(v, t)
             PROVE  FALSE
  BY DEF Deadlocked
<1>1. Wants(t) # {} /\ Wants(u) # {} /\ Wants(v) # {} /\ u # t /\ v # u
  BY DEF WaitsFor
<1>2. CASE t \in Purges
  <2>1. u \in Purges /\ v \in Purges
    BY <1>2, WaitsApart, WatchAssumption
  <2>2. Rank[Kind(t)] < Rank[Kind(u)] /\ Rank[Kind(u)] < Rank[Kind(v)]
    BY <1>1, <1>2, <2>1, PurgeWaits
  <2>3. v # t => Rank[Kind(v)] < Rank[Kind(t)]
    BY <1>1, <1>2, <2>1, PurgeWaits
  <2>4. Kind(t) \in Tables /\ Kind(u) \in Tables /\ Kind(v) \in Tables
    <3>1. pc[t] = "delete" /\ pc[u] = "delete" /\ pc[v] = "delete"
      BY <1>1, <1>2, <2>1, WantsOf DEF Core, PlacesOK, PurgePlaces, PastPlaces
    <3> QED
      BY <1>1, <3>1, WantsOf, WantsTables
  <2> QED
    BY <2>2, <2>3, <2>4, TablesFive
<1>3. CASE t \in Syncs
  <2>1. u \in Syncs /\ v \in Syncs
    BY <1>3, WaitsApart, WatchAssumption
  <2>2. \A x, y \in Syncs : WaitsFor(x, y) /\ Wants(y) # {} => Wants(y) = {"financial"}
    <3> TAKE x, y \in Syncs
    <3> HAVE WaitsFor(x, y) /\ Wants(y) # {}
    <3>1. PICK k \in Wants(x) : Holder(y, k)
      BY DEF WaitsFor
    <3>2. k \in Tables
      BY <3>1, WantsTables DEF Tasks
    <3> QED
      BY <3>1, <3>2, SyncWaits
  <2>3. Wants(u) = {"financial"} /\ Wants(v) = {"financial"}
    BY <1>1, <1>3, <2>1, <2>2
  <2>4. Wants(t) = {"financial"}
    BY <1>1, <1>3, <2>1, <2>2
  <2>5. Holder(u, "financial") /\ Holder(v, "financial") /\ "financial" \in Tables
    BY <2>3, <2>4 DEF WaitsFor, Tables
  <2> QED
    BY <1>1, <2>5 DEF Shape, OneHolder
<1> QED
  BY <1>2, <1>3 DEF Tasks

-----------------------------------------------------------------------------
(* Syncs settle                                                             *)

\* What a commit makes of a table.
LEMMA CommittedIs ==
    ASSUME NEW t, t \notin broken, NEW k \in Tables
    PROVE  /\ Written(t, k) => Committed(t)[k] = TRUE
           /\ work[t][k] = "delete" => Committed(t)[k] = FALSE
           /\ ~Written(t, k) /\ work[t][k] # "delete" => Committed(t)[k] = db[k]
  BY DEF Committed, Written

\* The rows that a transaction has written are there once it has ended.
LEMMA CommitKeeps ==
    ASSUME Core, NEW t \in Syncs, t \notin broken, EndTransaction(t, Committed(t))
    PROVE  /\ \A k \in Tables : (db[k] => db'[k]) /\ (Written(t, k) => db'[k])
           /\ broken' \subseteq broken
<1>1. \A k \in Tables : work[t][k] # "delete"
  BY DEF Core, WorkOK
<1>2. db' = Committed(t) /\ broken' = broken \ {t}
  BY DEF EndTransaction
<1> QED
  BY <1>1, <1>2, CommittedIs

\* What a sync may do to the tables while no purge is at work.
Keeps(t) ==
    /\ \A k \in Tables : (db[k] => db'[k]) /\ (Written(t, k) => Written(t, k)' \/ db'[k])
    /\ \A k \in Collections : vec[k] => vec'[k]
    /\ broken' = {} /\ pc'[t] \notin {"unlock", "rollback"}

\* A sync writes rows.
LEMMA UpsertedWritten ==
    ASSUME Core, NEW t \in Syncs, NEW k \in Tables
    PROVE  Upserted(t, k) \in {"insert", "update"}
  BY DEF Core, WorkOK, Upserted, Hows, Tasks

\* The table of each kind.
LEMMA TableOfKind ==
    /\ TableOf["news"] = "news" /\ TableOf["financials"] = "financial"
    /\ TableOf["prices"] = "price" /\ TableOf["filings"] = "filing"
    /\ "technical" \in Tables /\ "financial" \in Tables
    /\ \A k \in Kinds : TableOf[k] \in Tables
  BY DEF TableOf, Tables, Kinds

\* Writing takes back nothing that was written.
LEMMA WriteKeeps ==
    ASSUME Core, NEW t \in Syncs, NEW k \in Tables, Write(t, k, Upserted(t, k))
    PROVE  Written(t, k)' /\ \A j \in Tables : Written(t, j) => Written(t, j)'
<1>1. Upserted(t, k) \in {"insert", "update"}
  BY UpsertedWritten
<1>2. work'[t][k] = Upserted(t, k) /\ \A j \in Tables : j # k => work'[t][j] = work[t][j]
  BY DEF Write, Core, WorkOK, Tasks
<1> QED
  BY <1>1, <1>2 DEF Written

\* A sync takes nothing away.
LEMMA SyncGoesKeeps ==
    ASSUME Core, Shape, Sound, NEW t \in Syncs, Progress(t), SyncGoes(t)
    PROVE  Keeps(t)
<1> t \in Tasks
  BY DEF Tasks
<1> DOMAIN pc = Tasks /\ DOMAIN vec = Collections
  BY DEF Core, PlacesOK, StoresOK, Collections
<1> pc[t] \notin {"unlock", "rollback"} /\ broken = {} /\ PlaceFitsKind(t)
  BY DEF Sound, Shape
<1> USE CommitKeeps, TableOfKind, WriteKeeps DEF Goto, Move, Keeps, Collections
<1>1. CASE Acquire(t)
  BY <1>1 DEF Acquire, rows, PlaceFitsKind, Progress, Written
<1>2. CASE BeginUnlocked(t)
  BY <1>2 DEF BeginUnlocked, rows, PlaceFitsKind, Progress, Written
<1>3. CASE Upsert(t)
  BY <1>3, UpsertGoes DEF Upsert, rows, PlaceFitsKind, Progress, Written
<1>4. CASE CommitPrices(t)
  BY <1>4 DEF CommitPrices, rows, PlaceFitsKind, Progress, Written
<1>5. CASE Indicators(t)
  BY <1>5 DEF Indicators, rows, PlaceFitsKind, Progress, Written
<1>6. CASE Value(t)
  BY <1>6, AfterValueIs DEF Value, rows, PlaceFitsKind, Progress, Written
<1>7. CASE FlushRatio(t)
  BY <1>7, AfterValueIs DEF FlushRatio, rows, PlaceFitsKind, Progress, Written
<1>8. CASE TrimAndCommit(t)
  BY <1>8 DEF TrimAndCommit, rows, PlaceFitsKind, Progress, Written
<1>9. CASE Release(t)
  BY <1>9, AfterReleaseIs DEF Release, rows, PlaceFitsKind, Progress, Written
<1>10. CASE ListRows(t)
  BY <1>10 DEF ListRows, rows, PlaceFitsKind, Progress, Written
<1>11. CASE WriteVectors(t)
  BY <1>11 DEF WriteVectors, rows, PlaceFitsKind, Progress, Written
<1> QED
  BY <1>1, <1>2, <1>3, <1>4, <1>5, <1>6, <1>7, <1>8, <1>9, <1>10, <1>11 DEF SyncGoes

\* At each place a sync has done what it was to do before.
LEMMA SyncGoesProgress ==
    ASSUME Core, Shape, Sound, NEW t \in Syncs, Progress(t), SyncGoes(t)
    PROVE  Progress(t)'
<1> t \in Tasks
  BY DEF Tasks
<1> DOMAIN pc = Tasks /\ DOMAIN vec = Collections
  BY DEF Core, PlacesOK, StoresOK, Collections
<1> pc[t] \notin {"unlock", "rollback"} /\ broken = {} /\ PlaceFitsKind(t)
  BY DEF Sound, Shape
<1> todo' = todo /\ Kind(t)' = Kind(t)
  BY SyncGoesFits DEF Kind, Core, Shape
<1> \A k \in Tables : work[t][k] # "delete"
  BY DEF Core, WorkOK
<1> "price" \in Tables /\ "technical" \in Tables /\ "financial" \in Tables /\ "news" \in Tables
  BY DEF Tables
<1> USE CommitKeeps, TableOfKind, WriteKeeps DEF Goto, Move, Collections
<1>1. CASE Acquire(t)
  BY <1>1 DEF Acquire, rows, PlaceFitsKind, Progress, Visible
<1>2. CASE BeginUnlocked(t)
  BY <1>2 DEF BeginUnlocked, Locked, Kinds, rows, PlaceFitsKind, Progress, Visible
<1>3. CASE Upsert(t)
  BY <1>3, UpsertGoes DEF Upsert, rows, PlaceFitsKind, Progress, Visible
<1>4. CASE CommitPrices(t)
  BY <1>4 DEF CommitPrices, rows, PlaceFitsKind, Progress, Visible
<1>5. CASE Indicators(t)
  BY <1>5 DEF Indicators, rows, PlaceFitsKind, Progress, Visible
<1>6. CASE Value(t)
  BY <1>6, AfterValueIs DEF Value, rows, PlaceFitsKind, Progress, Visible, Written
<1>7. CASE FlushRatio(t)
  BY <1>7, AfterValueIs DEF FlushRatio, rows, PlaceFitsKind, Progress, Visible
<1>8. CASE TrimAndCommit(t)
  BY <1>8 DEF TrimAndCommit, rows, PlaceFitsKind, Progress, Visible
<1>9. CASE Release(t)
  BY <1>9, AfterReleaseIs DEF Release, rows, PlaceFitsKind, Progress, Visible
<1>10. CASE ListRows(t)
  BY <1>10 DEF ListRows, rows, PlaceFitsKind, Progress, Visible
<1>11. CASE WriteVectors(t)
  BY <1>11 DEF WriteVectors, rows, PlaceFitsKind, Progress, Visible
<1> QED
  BY <1>1, <1>2, <1>3, <1>4, <1>5, <1>6, <1>7, <1>8, <1>9, <1>10, <1>11 DEF SyncGoes

\* A sync writes what it was to write, or leaves it to the holder of its lock.
LEMMA SyncGoesDelivers ==
    ASSUME Core, Shape, Sound, NEW t \in Syncs, Progress(t), SyncGoes(t), Apart',
           NEW k \in Tables, WillWrite(t, k)
    PROVE  WillWrite(t, k)' \/ Written(t, k)'
<1> t \in Tasks
  BY DEF Tasks
<1> DOMAIN pc = Tasks /\ DOMAIN vec = Collections
  BY DEF Core, PlacesOK, StoresOK, Collections
<1> pc[t] \notin {"unlock", "rollback"} /\ broken = {} /\ PlaceFitsKind(t)
  BY DEF Sound, Shape
<1> todo' = todo /\ Kind(t)' = Kind(t)
  BY SyncGoesFits DEF Kind, Core, Shape
<1> \A j \in Tables : work[t][j] # "delete"
  BY DEF Core, WorkOK
<1> "price" \in Tables /\ "technical" \in Tables /\ "financial" \in Tables /\ "news" \in Tables
  BY DEF Tables
<1> USE CommitKeeps, TableOfKind, WriteKeeps DEF Goto, Move, Collections
<1> /\ KindOf[k] \in {"prices", "financials", "news", "filings"}
    /\ KindOf[k] = "prices" => k \in {"price", "technical"}
    /\ KindOf[k] = "news" => k = "news"
    /\ KindOf[k] = "financials" => k = "financial"
    /\ KindOf[k] = "filings" => k = "filing"
    /\ KindOf["technical"] = "prices"
  BY DEF KindOf, Tables
<1>1. CASE Acquire(t)
  BY <1>1 DEF Acquire, rows, PlaceFitsKind, Progress, Visible, WillWrite
<1>2. CASE BeginUnlocked(t)
  BY <1>2 DEF BeginUnlocked, rows, PlaceFitsKind, Progress, Visible, WillWrite
<1>3. CASE Upsert(t)
  BY <1>3, UpsertGoes DEF Upsert, rows, PlaceFitsKind, Progress, Visible, WillWrite
<1>4. CASE CommitPrices(t)
  BY <1>4 DEF CommitPrices, rows, PlaceFitsKind, Progress, Visible, WillWrite
<1>5. CASE Indicators(t)
  BY <1>5 DEF Indicators, rows, PlaceFitsKind, Progress, Visible, WillWrite
<1>6. CASE Value(t)
  BY <1>6, AfterValueIs DEF Value, rows, PlaceFitsKind, Progress, Visible, WillWrite
<1>7. CASE FlushRatio(t)
  BY <1>7, AfterValueIs DEF FlushRatio, rows, PlaceFitsKind, Progress, Visible, WillWrite
<1>8. CASE TrimAndCommit(t)
  BY <1>8 DEF TrimAndCommit, rows, PlaceFitsKind, Progress, Visible, WillWrite
<1>9. CASE Release(t)
  BY <1>9, AfterReleaseIs DEF Release, rows, PlaceFitsKind, Progress, Visible, WillWrite
<1>10. CASE ListRows(t)
  BY <1>10 DEF ListRows, rows, PlaceFitsKind, Progress, Visible, WillWrite
<1>11. CASE WriteVectors(t)
  BY <1>11 DEF WriteVectors, rows, PlaceFitsKind, Progress, Visible, WillWrite
<1> QED
  BY <1>1, <1>2, <1>3, <1>4, <1>5, <1>6, <1>7, <1>8, <1>9, <1>10, <1>11 DEF SyncGoes

\* The kind of each table.
LEMMA KindOfTable ==
    /\ KindOf["price"] = "prices" /\ KindOf["technical"] = "prices"
    /\ KindOf["financial"] = "financials" /\ KindOf["news"] = "news"
    /\ KindOf["filing"] = "filings"
    /\ \A k \in Tables : KindOf[k] \in {"prices", "financials", "news", "filings"}
    /\ Tables = {"price", "technical", "financial", "news", "filing"}
    /\ Collections \subseteq Tables
  BY DEF KindOf, Tables, Collections

\* A chain that comes to its next kind leaves the others for later.
LEMMA LaterStays ==
    ASSUME Core, Shape, NEW t \in Syncs, SyncGoes(t), NEW kind, Later(t, kind)
    PROVE  Later(t, kind)' \/ (pc[t] = "begin" /\ Kind(t) = kind)
<1>1. todo' = todo /\ t \in Tasks
  BY SyncGoesFits DEF Core, Shape, Tasks
<1>2. PICK i \in 1..Len(todo[t]) : todo[t][i] = kind /\ (i = 1 => pc[t] = "begin")
  BY DEF Later
<1>3. CASE i = 1
  <2>1. todo[t] # <<>> /\ todo[t] \in Seq(Kinds \cup Tables)
    BY <1>1, <1>2, <1>3 DEF Shape, TodoOK, PlaceFitsKind
  <2>2. Kind(t) = todo[t][1]
    BY <2>1, Tails DEF Kind
  <2> QED
    BY <1>2, <1>3, <2>2
<1>4. CASE i # 1
  BY <1>1, <1>2, <1>4 DEF Later
<1> QED
  BY <1>3, <1>4

\* At a lock that is free a chain goes on to write.
LEMMA ChainBegins ==
    ASSUME Core, Shape, NEW t \in Chains, SyncGoes(t), pc[t] = "begin",
           NEW k \in Tables, Kind(t) = KindOf[k]
    PROVE  \/ pc'[t] = "upsert" /\ Kind(t)' = Kind(t)
           \/ Kind(t) \in Locked /\ lock[Kind(t)] # NoTask
<1>1. t \in Tasks /\ t \in Syncs /\ t \notin Sweeps /\ DOMAIN pc = Tasks
  BY WatchAssumption DEF Core, PlacesOK, Tasks, Syncs
<1>2. Acquire(t) \/ BeginUnlocked(t)
  BY DEF SyncGoes, Upsert, CommitPrices, Indicators, Value, FlushRatio, TrimAndCommit,
         Release, ListRows, WriteVectors
<1>3. KindOf[k] \in {"prices", "financials", "news", "filings"}
  BY KindOfTable
<1>4. todo' = todo
  BY <1>2 DEF Acquire, BeginUnlocked, Goto
<1> QED
  BY <1>1, <1>2, <1>3, <1>4 DEF Acquire, BeginUnlocked, Goto, Move, Kind, Locked

\* Who holds the lock that a chain finds taken fills the tables in its stead.
LEMMA HolderFills ==
    ASSUME Core, Shape, Apart, Sound, NEW t \in Chains, Running(t),
           NEW k \in Tables, KindOf[k] \in Locked, NEW u, u = lock[KindOf[k]], u # NoTask,
           u \in Syncs => Progress(u)
    PROVE  /\ u \in Syncs /\ pc[u] # "begin"
           /\ db[k] \/ WillWrite(u, k) \/ Written(u, k)
           /\ k = "news" => vec[k] \/ (pc[u] = "upsert" /\ Kind(u) = KindOf[k])
<1>1. u \in Syncs /\ pc[u] \in HoldPlaces /\ Kind(u) = KindOf[k]
  BY DEF Shape, LocksHeld
<1>2. pc[u] \notin {"skip", "unlock"}
  BY <1>1 DEF Shape, PlaceFitsKind, Apart, Sound, Tasks
<1>3. KindOf[k] \in {"prices", "financials", "news"} /\ (KindOf[k] = "news" <=> k = "news")
      /\ (KindOf[k] = "prices" <=> k \in {"price", "technical"})
      /\ (KindOf[k] = "financials" <=> k = "financial")
  BY KindOfTable DEF Locked
<1>4. Progress(u) /\ PlaceFitsKind(u)
  BY <1>1 DEF Shape
<1>5. k = "news" => vec[k] \/ (pc[u] = "upsert" /\ Kind(u) = KindOf[k])
  BY <1>1, <1>2, <1>3, <1>4 DEF Progress, PlaceFitsKind, HoldPlaces
<1>6. pc[u] # "begin"
  BY <1>1 DEF HoldPlaces
<1>7. db[k] \/ WillWrite(u, k) \/ Written(u, k)
  <2>1. CASE k = "news"
    BY <1>1, <1>2, <1>3, <1>4, <2>1 DEF Progress, PlaceFitsKind, HoldPlaces, WillWrite
  <2>2. CASE k = "financial"
    BY <1>1, <1>2, <1>3, <1>4, <2>2 DEF Progress, PlaceFitsKind, HoldPlaces, WillWrite
  <2>3. CASE k = "price"
    BY <1>1, <1>2, <1>3, <1>4, <2>3 DEF Progress, PlaceFitsKind, HoldPlaces, WillWrite
  <2>4. CASE k = "technical"
    BY <1>1, <1>2, <1>3, <1>4, <2>4 DEF Progress, PlaceFitsKind, HoldPlaces, WillWrite
  <2> QED
    BY <1>3, <2>1, <2>2, <2>3, <2>4
<1> QED
  BY <1>1, <1>5, <1>6, <1>7

\* While a sync is at work nothing that is cached goes.
LEMMA SyncSettles ==
    ASSUME Core, Shape, Settles, Apart', NEW t \in Syncs, Running(t), Others(t), Keeps(t),
           Progress(t)', watching' = watching,
           \A k \in Tables : Fills(t, k) =>
               db'[k] \/ Fills(t, k)' \/ db[k] \/ \E u \in Syncs \ {t} : Fills(u, k),
           \A k \in Collections : FillsVec(t, k) =>
               vec'[k] \/ FillsVec(t, k)' \/ vec[k] \/ \E u \in Syncs \ {t} : FillsVec(u, k)
    PROVE  Settles'
<1>1. t \in Tasks /\ t \notin Purges /\ Syncs \subseteq Tasks /\ Purges \subseteq Tasks
  BY WatchAssumption DEF Tasks
<1>2. Sound'
  BY <1>1 DEF Settles, Sound, Others, Keeps
<1>3. PastUnwatched'
  BY <1>1 DEF Settles, PastUnwatched, Others, Past
<1>4. Emptying'
  BY <1>1 DEF Settles, Emptying, Others
<1>5. \A u \in Syncs \ {t} : Progress(u)'
  <2> SUFFICES ASSUME NEW u \in Syncs, u # t PROVE Progress(u)'
    OBVIOUS
  <2>1. Progress(u) /\ pc'[u] = pc[u] /\ todo'[u] = todo[u] /\ work'[u] = work[u]
    BY <1>1 DEF Settles, Others
  <2>2. \A k \in Tables : db[k] => db'[k]
    BY DEF Keeps
  <2>3. vec["news"] => vec'["news"]
    BY DEF Keeps, Collections
  <2>4. "price" \in Tables /\ "technical" \in Tables /\ "financial" \in Tables
    BY DEF Tables
  <2> QED
    BY <2>1, <2>2, <2>3, <2>4 DEF Progress, Written, Visible, Kind
<1>6. \A u \in Syncs \ {t} : \A k : /\ Fills(u, k) => Fills(u, k)'
                                    /\ FillsVec(u, k) => FillsVec(u, k)'
  BY <1>1 DEF Others, Fills, FillsVec, WillWrite, Written, Later, Running, Kind
<1>7. ASSUME watching # {}, NEW k \in Tables PROVE db'[k] \/ \E u \in Syncs : Fills(u, k)'
  <2>1. db[k] \/ \E u \in Syncs : Fills(u, k)
    BY <1>7 DEF Settles, Filling
  <2>2. db[k] => db'[k]
    BY DEF Keeps
  <2> QED
    BY <1>6, <2>1, <2>2
<1>8. ASSUME watching # {}, NEW k \in Collections
      PROVE  vec'[k] \/ \E u \in Syncs : FillsVec(u, k)'
  <2>1. vec[k] \/ \E u \in Syncs : FillsVec(u, k)
    BY <1>8 DEF Settles, Filling
  <2>2. vec[k] => vec'[k]
    BY DEF Keeps
  <2> QED
    BY <1>6, <2>1, <2>2
<1>9. Filling'
  BY <1>7, <1>8 DEF Filling
<1> QED
  BY <1>2, <1>3, <1>4, <1>5, <1>9 DEF Settles

\* A step of a sync; what a chain finds locked the holder of the lock fills.
LEMMA SyncGoesSettles ==
    ASSUME Core, Shape, Settles, Apart', NEW t \in Syncs, SyncGoes(t)
    PROVE  Settles'
<1>1. Sound /\ Progress(t) /\ PlaceFitsKind(t) /\ t \in Tasks /\ Apart
  BY DEF Settles, Shape, Tasks
<1>2. Keeps(t) /\ Progress(t)' /\ Others(t)
  BY <1>1, SyncGoesKeeps, SyncGoesProgress, SyncGoesOthers DEF Core
<1>3. Running(t) /\ watching' = watching /\ todo' = todo
  BY <1>1, SyncGoesFits
     DEF SyncGoes, Running, Acquire, BeginUnlocked, Upsert, CommitPrices, Indicators,
     Value, FlushRatio, TrimAndCommit, Release, ListRows, WriteVectors, Goto, Core, Shape
<1>4. pc'[t] # "idle"
  <2>1. DOMAIN pc = Tasks
    BY DEF Core, PlacesOK
  <2> QED
    BY <1>1, <2>1, AfterValueIs, AfterReleaseIs, UpsertGoes
       DEF SyncGoes, Acquire, BeginUnlocked, CommitPrices,
       Indicators, Value, FlushRatio, TrimAndCommit, Release, ListRows, WriteVectors, Goto, Move
<1>5. ASSUME NEW k \in Tables, t \in Chains, pc[t] = "begin", Kind(t) = KindOf[k]
      PROVE  \/ pc'[t] = "upsert" /\ Kind(t)' = Kind(t)
             \/ \E u \in Syncs \ {t} :
                    /\ db[k] \/ WillWrite(u, k) \/ Written(u, k)
                    /\ k = "news" => vec[k] \/ (pc[u] = "upsert" /\ Kind(u) = KindOf[k])
  <2>1. CASE pc'[t] = "upsert" /\ Kind(t)' = Kind(t)
    BY <2>1
  <2>2. CASE Kind(t) \in Locked /\ lock[Kind(t)] # NoTask
    <3>1. PICK u : u = lock[KindOf[k]]
      OBVIOUS
    <3>2. u # NoTask /\ KindOf[k] \in Locked
      BY <1>5, <2>2, <3>1
    <3>3. u \in Syncs => Progress(u)
      BY DEF Settles
    <3>4. /\ u \in Syncs /\ pc[u] # "begin"
          /\ db[k] \/ WillWrite(u, k) \/ Written(u, k)
          /\ k = "news" => vec[k] \/ (pc[u] = "upsert" /\ Kind(u) = KindOf[k])
      BY <1>1, <1>3, <1>5, <3>1, <3>2, <3>3, HolderFills
    <3> QED
      BY <1>5, <3>4
  <2> QED
    BY <1>5, <2>1, <2>2, ChainBegins
<1>6. ASSUME NEW k \in Tables, Fills(t, k)
      PROVE  db'[k] \/ Fills(t, k)' \/ db[k] \/ \E u \in Syncs \ {t} : Fills(u, k)
  <2>1. CASE WillWrite(t, k)
    BY <1>1, <1>6, <2>1, SyncGoesDelivers DEF Fills
  <2>2. CASE Written(t, k)
    BY <1>2, <1>6, <2>2 DEF Keeps, Fills
  <2>3. CASE t \in Chains /\ Later(t, KindOf[k])
    <3>1. CASE Later(t, KindOf[k])'
      BY <1>4, <2>3, <3>1 DEF Fills, Running
    <3>2. CASE pc[t] = "begin" /\ Kind(t) = KindOf[k]
      BY <1>5, <1>6, <2>3, <3>2 DEF Fills, WillWrite
    <3> QED
      BY <2>3, <3>1, <3>2, LaterStays
  <2> QED
    BY <1>6, <2>1, <2>2, <2>3 DEF Fills
<1>7. ASSUME NEW k \in Collections, FillsVec(t, k)
      PROVE  vec'[k] \/ FillsVec(t, k)' \/ vec[k] \/ \E u \in Syncs \ {t} : FillsVec(u, k)
  <2>1. CASE pc[t] \in {"upsert", "vectors"} /\ Kind(t) = KindOf[k]
    <3>1. DOMAIN vec = Collections /\ DOMAIN pc = Tasks
      BY DEF Core, StoresOK, PlacesOK, Collections
    <3>2. KindOf["news"] = "news" /\ KindOf["filing"] = "filings" /\ k \in {"news", "filing"}
      BY <1>7 DEF KindOf, Collections
    <3>3. Upsert(t) \/ WriteVectors(t)
      BY <2>1 DEF SyncGoes, Acquire, BeginUnlocked, CommitPrices, Indicators,
         Value, FlushRatio, TrimAndCommit, Release, ListRows
    <3>4. CASE Upsert(t)
      BY <1>1, <1>3, <1>7, <2>1, <3>1, <3>2, <3>4, UpsertGoes
         DEF Upsert, FillsVec, Goto, Move, Kind
    <3>5. CASE WriteVectors(t)
      BY <1>7, <2>1, <3>1, <3>2, <3>5, TableOfKind DEF WriteVectors
    <3> QED
      BY <3>3, <3>4, <3>5
  <2>2. CASE t \in Chains /\ Later(t, KindOf[k])
    <3>1. CASE Later(t, KindOf[k])'
      BY <1>4, <2>2, <3>1 DEF FillsVec, Running
    <3>2. CASE pc[t] = "begin" /\ Kind(t) = KindOf[k]
      <4>1. CASE k = "news"
        BY <1>5, <2>2, <3>2, <4>1, KindOfTable DEF FillsVec
      <4>2. CASE k = "filing"
        <5>1. Kind(t) \notin Locked
          BY <3>2, <4>2 DEF KindOf, Locked
        <5> QED
          BY <2>2, <3>2, <4>2, <5>1, KindOfTable, ChainBegins DEF FillsVec
      <4> QED
        BY <1>7, <4>1, <4>2 DEF Collections
    <3> QED
      BY <2>2, <3>1, <3>2, LaterStays
  <2> QED
    BY <1>7, <2>1, <2>2 DEF FillsVec
<1> QED
  BY <1>2, <1>3, <1>6, <1>7, SyncSettles

\* A sync that ends commits what it has written; a chain goes on with the rest of its kinds.
LEMMA EndSyncSettles ==
    ASSUME Core, Shape, Settles, Apart', NEW t \in Syncs, EndSync(t)
    PROVE  Settles'
<1>1. /\ t \in Tasks /\ PlaceFitsKind(t) /\ pc[t] \in {"commit", "rollback"}
      /\ pc[t] \notin {"unlock", "rollback"} /\ broken = {}
      /\ todo' = [todo EXCEPT ![t] = Tail(@)] /\ vec' = vec /\ watching' = watching
      /\ pc' = [pc EXCEPT ![t] = IF Tail(todo[t]) = <<>> THEN "idle" ELSE "begin"]
      /\ EndTransaction(t, IF pc[t] = "commit" THEN Committed(t) ELSE db)
      /\ TodoOK
  BY DEF Settles, Sound, Shape, Tasks, EndSync, NextSync, Move
<1>2. todo[t] # <<>>
  BY <1>1 DEF PlaceFitsKind
<1>3. /\ Len(todo[t]) \in Nat \ {0}
      /\ todo'[t] = Tail(todo[t]) /\ Len(todo'[t]) = Len(todo[t]) - 1
      /\ \A u \in Tasks : u # t => todo'[u] = todo[u]
      /\ \A i \in 1..Len(todo'[t]) : todo'[t][i] = todo[t][i + 1]
      /\ todo'[t] = <<>> <=> Len(todo[t]) = 1
  BY <1>1, <1>2, NextTodo
<1> DOMAIN pc = Tasks /\ DOMAIN work = Tasks
  BY DEF Core, PlacesOK, WorkOK
<1>4. Others(t)
  BY <1>1, <1>3 DEF Others, EndTransaction
<1>5. pc'[t] = IF Tail(todo[t]) = <<>> THEN "idle" ELSE "begin"
  BY <1>1
<1>6. EndTransaction(t, Committed(t))
  BY <1>1
<1>7. Keeps(t) /\ \A k \in Tables : Written(t, k) => db'[k]
  BY <1>1, <1>5, <1>6, CommitKeeps DEF Keeps
<1>8. Progress(t)'
  BY <1>5 DEF Progress
<1>9. ASSUME NEW kind, Later(t, kind) PROVE Running(t)' /\ Later(t, kind)'
  <2>1. PICK i \in 1..Len(todo[t]) : todo[t][i] = kind /\ (i = 1 => pc[t] = "begin")
    BY <1>9 DEF Later
  <2>2. i # 1 /\ i - 1 \in 1..Len(todo'[t]) /\ (i - 1) + 1 = i
    BY <1>1, <1>3, <2>1
  <2>3. todo'[t][i - 1] = kind
    BY <1>3, <2>1, <2>2
  <2>4. todo'[t] # <<>>
    BY <1>3, <2>1, <2>2
  <2>5. pc'[t] = "begin"
    BY <1>3, <1>5, <2>4
  <2> QED
    BY <2>2, <2>3, <2>5 DEF Later, Running
<1>10. ASSUME NEW k \in Tables, Fills(t, k) PROVE db'[k] \/ Fills(t, k)'
  <2>1. ~WillWrite(t, k)
    BY <1>1 DEF WillWrite
  <2> QED
    BY <1>7, <1>9, <1>10, <2>1 DEF Fills
<1>11. ASSUME NEW k \in Collections, FillsVec(t, k) PROVE FillsVec(t, k)'
  BY <1>1, <1>9, <1>11 DEF FillsVec
<1>12. Running(t)
  BY <1>1 DEF Running
<1> QED
  BY <1>1, <1>4, <1>7, <1>8, <1>10, <1>11, <1>12, SyncSettles

-----------------------------------------------------------------------------
(* Purges settle                                                            *)

\* A step that touches no sync, no row and no vector leaves what the syncs will do.
SyncsKept == \A u \in Syncs : pc'[u] = pc[u] /\ todo'[u] = todo[u] /\ work'[u] = work[u]

\* The syncs will do what they were to do.
LEMMA FillsKept ==
    ASSUME SyncsKept
    PROVE  \A u \in Syncs : \A k : /\ Fills(u, k) => Fills(u, k)'
                                   /\ FillsVec(u, k) => FillsVec(u, k)'
  BY DEF SyncsKept, Fills, FillsVec, WillWrite, Written, Later, Running, Kind

\* What they have done is still done.
LEMMA ProgressKept ==
    ASSUME SyncsKept, db' = db, vec' = vec, NEW u \in Syncs, Progress(u)
    PROVE  Progress(u)'
  BY DEF SyncsKept, Progress, Written, Visible, Kind

\* What was cached, or about to be, is so still.
LEMMA FillingKept ==
    ASSUME SyncsKept, db' = db, vec' = vec, watching' # {} => watching # {}, Filling
    PROVE  Filling'
  BY FillsKept DEF Filling

\* A purge that is past its look.
LEMMA PurgeSettles ==
    ASSUME Core, Shape, Settles, Apart', NEW p \in Purges, Past(p), Others(p),
           watching' = watching, broken' = {}, pc'[p] \notin {"unlock", "rollback"},
           \A k \in Tables : db'[k] => db[k],
           \A k \in Tables : db'[k] /\ Empties(p, k) => Empties(p, k)',
           \A k \in Collections : (vec'[k] => vec[k] /\ Past(p)')
    PROVE  Settles'
<1>1. p \in Tasks /\ p \notin Syncs /\ Syncs \subseteq Tasks /\ Purges \subseteq Tasks
  BY WatchAssumption DEF Tasks
<1>2. watching = {} /\ \A u \in Syncs : ~Running(u)
  BY DEF Settles, Apart, PastUnwatched
<1>3. Sound' /\ PastUnwatched' /\ Filling'
  BY <1>1, <1>2 DEF Settles, Sound, PastUnwatched, Filling, Others
<1>4. \A u \in Syncs : ~Running(u)' /\ Progress(u)'
  BY <1>1, <1>2 DEF Others, Running, Progress
<1>5. \A q \in Purges \ {p} : pc'[q] = pc[q] /\ (Past(q) => Past(q)')
                             /\ \A k : Empties(q, k) => Empties(q, k)'
  BY <1>1 DEF Others, Past, Empties
<1>6. Emptying'
  <2>1. CASE \E q \in Purges : pc[q] = "check"
    <3>1. PICK q \in Purges : pc[q] = "check"
      BY <2>1
    <3>2. q # p
      BY <3>1 DEF Past
    <3> QED
      BY <1>5, <3>1, <3>2 DEF Emptying
  <2>2. CASE ~\E q \in Purges : pc[q] = "check"
    <3>1. \A k \in Tables : db[k] => \E q \in Purges : Empties(q, k)
      BY <1>2, <2>2 DEF Settles, Emptying
    <3>2. \A k \in Tables : db'[k] => \E q \in Purges : Empties(q, k)'
      BY <1>5, <3>1
    <3>3. \A k \in Collections : vec'[k] => \E q \in Purges : Past(q)'
      BY <1>5
    <3> QED
      BY <1>4, <3>2, <3>3 DEF Emptying
  <2> QED
    BY <2>1, <2>2
<1> QED
  BY <1>3, <1>4, <1>6 DEF Settles

\* A look at the watchlist: whoever finds nobody will empty all tables.
LEMMA CheckWatchedSettles ==
    ASSUME Core, Shape, Settles, Apart', NEW p \in Purges, CheckWatched(p)
    PROVE  Settles'
<1>1. p \in Tasks /\ p \notin Syncs /\ Syncs \subseteq Tasks /\ Purges \subseteq Tasks
  BY WatchAssumption DEF Tasks
<1>2. DOMAIN pc = Tasks /\ todo \in [Tasks -> Seq(Kinds \cup Tables)]
  BY DEF Core, PlacesOK, Shape, TodoOK
<1>3. /\ UNCHANGED <<db, work, broken, vec, watching>>
      /\ \/ watching # {} /\ pc' = [pc EXCEPT ![p] = "idle"] /\ todo' = todo
         \/ /\ watching = {} /\ pc' = [pc EXCEPT ![p] = "delete"]
            /\ todo' = [todo EXCEPT ![p] = PurgeOrder]
  BY DEF CheckWatched, Move, rows
<1>4. SyncsKept
  BY <1>1, <1>2, <1>3 DEF SyncsKept
<1>5. Filling' /\ \A u \in Syncs : Progress(u)'
  BY <1>3, <1>4, FillingKept, ProgressKept DEF Settles
<1>6. Sound'
  BY <1>1, <1>2, <1>3 DEF Settles, Sound
<1>7. PastUnwatched'
  BY <1>1, <1>2, <1>3 DEF Settles, PastUnwatched, Past
<1>8. Emptying'
  <2>1. CASE watching # {}
    BY <1>3, <2>1 DEF Emptying
  <2>2. CASE watching = {}
    <3>1. pc'[p] = "delete" /\ todo'[p] = PurgeOrder
      BY <1>1, <1>2, <1>3, <2>2
    <3>2. Past(p)' /\ \A u \in Syncs : ~Running(u)'
      BY <3>1 DEF Past, Apart
    <3>3. \A k \in Tables : Empties(p, k)'
      BY <3>1, Orders DEF Empties
    <3> QED
      BY <3>2, <3>3 DEF Emptying
  <2> QED
    BY <2>1, <2>2
<1> QED
  BY <1>5, <1>6, <1>7, <1>8 DEF Settles

\* A DELETE of a table that has rows holds them for the commit.
LEMMA DeleteRowsSettles ==
    ASSUME Core, Shape, Settles, Apart', NEW p \in Purges, DeleteRows(p)
    PROVE  Settles'
<1>1. /\ p \in Tasks /\ TodoOK /\ todo[p] # <<>> /\ pc[p] = "delete"
      /\ UNCHANGED <<db, broken, vec, watching>> /\ broken = {}
      /\ pc' = [pc EXCEPT ![p] = IF Tail(todo[p]) = <<>> THEN "commit" ELSE "delete"]
      /\ todo' = [todo EXCEPT ![p] = Tail(@)]
      /\ \/ ~db[Kind(p)] /\ work' = work
         \/ Write(p, Kind(p), "delete")
  BY DEF Tasks, Shape, PurgeFits, DeleteRows, NextTable, Move, Settles, Sound
<1>2. /\ Len(todo[p]) \in Nat \ {0}
      /\ todo'[p] = Tail(todo[p]) /\ Len(todo'[p]) = Len(todo[p]) - 1
      /\ \A u \in Tasks : u # p => todo'[u] = todo[u]
      /\ \A i \in 1..Len(todo'[p]) : todo'[p][i] = todo[p][i + 1]
      /\ Kind(p) = todo[p][1]
      /\ todo'[p] = <<>> <=> Len(todo[p]) = 1
  BY <1>1, NextTodo
<1> DOMAIN pc = Tasks /\ DOMAIN work = Tasks /\ DOMAIN work[p] = Tables
  BY <1>1 DEF Core, PlacesOK, WorkOK
<1>3. Others(p)
  BY <1>1, <1>2 DEF Others, Write
<1>4. Past(p) /\ Past(p)' /\ pc'[p] \in {"delete", "commit"}
  BY <1>1 DEF Past
<1>5. ASSUME NEW k \in Tables, db'[k], Empties(p, k) PROVE Empties(p, k)'
  <2>1. CASE work[p][k] = "delete"
    BY <1>1, <1>4, <2>1 DEF Empties, Write
  <2>2. CASE \E i \in 1..Len(todo[p]) : todo[p][i] = k
    <3>1. PICK i \in 1..Len(todo[p]) : todo[p][i] = k
      BY <2>2
    <3>2. CASE i = 1
      BY <1>1, <1>2, <1>4, <1>5, <3>1, <3>2 DEF Empties, Write
    <3>3. CASE i # 1
      <4>1. i - 1 \in 1..Len(todo'[p]) /\ (i - 1) + 1 = i
        BY <1>2, <3>1, <3>3
      <4>2. todo'[p][i - 1] = k
        BY <1>2, <3>1, <4>1
      <4>3. pc'[p] = "delete"
        BY <1>1, <1>2, <4>1
      <4> QED
        BY <4>1, <4>2, <4>3 DEF Empties
    <3> QED
      BY <3>2, <3>3
  <2> QED
    BY <1>5, <2>1, <2>2 DEF Empties
<1> QED
  BY <1>1, <1>3, <1>4, <1>5, PurgeSettles

\* The commit of a purge.
LEMMA CommitPurgeSettles ==
    ASSUME Core, Shape, Settles, Apart', NEW p \in Purges, CommitPurge(p)
    PROVE  Settles'
<1>1. /\ p \in Tasks /\ broken = {} /\ pc[p] = "commit" /\ UNCHANGED <<vec, watching, todo>>
      /\ db' = Committed(p) /\ work' = [work EXCEPT ![p] = Untouched] /\ broken' = broken \ {p}
      /\ pc' = [pc EXCEPT ![p] = "unvector"]
  BY DEF Tasks, CommitPurge, EndTransaction, ToStores, Goto, Move, Settles, Sound
<1> DOMAIN pc = Tasks /\ DOMAIN work = Tasks
  BY DEF Core, PlacesOK, WorkOK
<1>2. Others(p) /\ Past(p) /\ Past(p)' /\ pc'[p] = "unvector"
  BY <1>1 DEF Others, Past
<1>3. \A k \in Tables : work[p][k] \in {"none", "delete"}
  BY DEF Shape, PurgeFits
<1>4. \A k \in Tables : (db'[k] => db[k]) /\ (work[p][k] = "delete" => ~db'[k])
  BY <1>1, <1>3, CommittedIs DEF Written
<1>5. \A k \in Tables : Empties(p, k) => work[p][k] = "delete"
  BY <1>1 DEF Empties
<1> QED
  BY <1>1, <1>2, <1>4, <1>5, PurgeSettles

\* The vectors go last, in one step.
LEMMA DropVectorsSettles ==
    ASSUME Core, Shape, Settles, Apart', NEW p \in Purges, DropVectors(p)
    PROVE  Settles'
<1>1. /\ p \in Tasks /\ broken = {} /\ pc[p] = "unvector"
      /\ UNCHANGED <<db, work, broken, watching, todo>>
      /\ vec' = [k \in DOMAIN vec |-> FALSE] /\ pc' = [pc EXCEPT ![p] = "idle"]
  BY DEF Tasks, DropVectors, Goto, Move, rows, Settles, Sound
<1> DOMAIN pc = Tasks /\ DOMAIN vec = Collections
  BY DEF Core, PlacesOK, StoresOK, Collections
<1>2. Others(p) /\ Past(p) /\ pc'[p] = "idle"
  BY <1>1 DEF Others, Past
<1>3. \A k : ~Empties(p, k)
  BY <1>1 DEF Empties
<1> QED
  BY <1>1, <1>2, <1>3, PurgeSettles

-----------------------------------------------------------------------------
(* Requests settle                                                          *)

\* A chain that begins will fill every table.
LEMMA BeginsChainSettles ==
    ASSUME Core, Shape, Sound, \A u \in Syncs : Progress(u), Apart',
           NEW t \in Chains, BeginsChain(t)
    PROVE  Settles'
<1>1. /\ t \in Tasks /\ t \in Syncs /\ t \notin Purges
      /\ Syncs \subseteq Tasks /\ Purges \subseteq Tasks
  BY WatchAssumption DEF Tasks, Syncs
<1>2. DOMAIN pc = Tasks /\ todo \in [Tasks -> Seq(Kinds \cup Tables)]
  BY DEF Core, PlacesOK, Shape, TodoOK
<1>3. /\ pc'[t] = "begin" /\ todo'[t] = ChainOrder
      /\ \A u \in Tasks : u # t => pc'[u] = pc[u] /\ todo'[u] = todo[u]
      /\ watching' # {} /\ UNCHANGED <<db, work, broken, vec>>
  BY <1>1, <1>2 DEF BeginsChain, Move
<1>4. \A u \in Syncs : Progress(u)'
  <2> TAKE u \in Syncs
  <2>1. CASE u = t
    BY <1>3, <2>1 DEF Progress
  <2>2. CASE u # t
    <3>1. Progress(u) /\ pc'[u] = pc[u] /\ todo'[u] = todo[u]
      BY <1>1, <1>3, <2>2
    <3> QED
      BY <1>3, <3>1 DEF Progress, Written, Visible, Kind
  <2> QED
    BY <2>1, <2>2
<1>5. Sound'
  BY <1>1, <1>3 DEF Sound
<1>6. Running(t)'
  BY <1>3 DEF Running
<1>7. PastUnwatched' /\ Emptying'
  BY <1>1, <1>3, <1>6 DEF PastUnwatched, Emptying, Apart
<1>8. \A kind \in Kinds : Later(t, kind)'
  <2> TAKE kind \in Kinds
  <2>1. Len(ChainOrder) = 5 /\ \E i \in 1..5 : ChainOrder[i] = kind
    BY Orders
  <2> QED
    BY <1>3, <2>1 DEF Later
<1>9. \A k \in Tables : KindOf[k] \in Kinds
  BY DEF KindOf, Tables, Kinds
<1>10. \A k \in Tables : Fills(t, k)' /\ FillsVec(t, k)'
  BY <1>6, <1>8, <1>9 DEF Fills, FillsVec
<1>11. Filling'
  BY <1>1, <1>10, KindOfTable DEF Filling
<1> QED
  BY <1>4, <1>5, <1>7, <1>11 DEF Settles

\* A sweep promises nothing before it has taken its lock.
LEMMA BeginSweepSettles ==
    ASSUME Core, Shape, Settles, Apart', NEW t \in Sweeps, BeginSweep(t)
    PROVE  Settles'
<1>1. t \in Tasks /\ t \in Syncs /\ t \notin Purges /\ t \notin Chains
      /\ Syncs \subseteq Tasks /\ Purges \subseteq Tasks
  BY WatchAssumption DEF Tasks, Syncs
<1>2. DOMAIN pc = Tasks /\ todo \in [Tasks -> Seq(Kinds \cup Tables)]
  BY DEF Core, PlacesOK, Shape, TodoOK
<1>3. /\ pc'[t] = "begin" /\ pc[t] = "idle"
      /\ \A u \in Tasks : u # t => pc'[u] = pc[u] /\ todo'[u] = todo[u]
      /\ watching # {} /\ UNCHANGED <<watching, db, work, broken, vec>>
  BY <1>1, <1>2 DEF BeginSweep, Move, rows
<1>4. \A u \in Syncs : Progress(u)'
  <2> TAKE u \in Syncs
  <2>1. CASE u = t
    BY <1>3, <2>1 DEF Progress
  <2>2. CASE u # t
    <3>1. Progress(u) /\ pc'[u] = pc[u] /\ todo'[u] = todo[u]
      BY <1>1, <1>3, <2>2 DEF Settles
    <3> QED
      BY <1>3, <3>1 DEF Progress, Written, Visible, Kind
  <2> QED
    BY <2>1, <2>2
<1>5. Sound' /\ PastUnwatched' /\ Emptying'
  BY <1>1, <1>3 DEF Settles, Sound, PastUnwatched, Emptying, Past
<1>6. \A k \in Tables : ~Fills(t, k) /\ ~FillsVec(t, k)
  BY <1>1, <1>3 DEF Fills, FillsVec, WillWrite, Written, Shape, SyncFresh
<1>7. \A u \in Syncs \ {t} : \A k : (Fills(u, k) => Fills(u, k)')
                                  /\ (FillsVec(u, k) => FillsVec(u, k)')
  BY <1>1, <1>3 DEF Fills, FillsVec, WillWrite, Written, Later, Running, Kind
<1>8. Filling'
  BY <1>3, <1>6, <1>7, KindOfTable DEF Settles, Filling
<1> QED
  BY <1>4, <1>5, <1>8 DEF Settles

\* Whoever stops watching queues a purge.
LEMMA DeleteSettles ==
    ASSUME Core, Shape, Settles, Apart', NEW u \in Users, NEW p \in Purges, Delete(u, p)
    PROVE  Settles'
<1>1. p \in Tasks /\ p \notin Syncs /\ Syncs \subseteq Tasks /\ Purges \subseteq Tasks
  BY WatchAssumption DEF Tasks
<1>2. DOMAIN pc = Tasks
  BY DEF Core, PlacesOK
<1>3. /\ UNCHANGED <<db, work, broken, vec, todo>> /\ watching' = watching \ {u}
      /\ watching # {} /\ pc' = [pc EXCEPT ![p] = "check"]
  BY DEF Delete, Move, rows
<1>4. SyncsKept
  BY <1>1, <1>2, <1>3 DEF SyncsKept
<1>5. Filling' /\ \A s \in Syncs : Progress(s)'
  BY <1>3, <1>4, FillingKept, ProgressKept DEF Settles
<1>6. pc'[p] = "check"
  BY <1>1, <1>2, <1>3
<1>7. Sound' /\ PastUnwatched' /\ Emptying'
  BY <1>1, <1>2, <1>3, <1>6 DEF Settles, Sound, PastUnwatched, Emptying, Past
<1> QED
  BY <1>5, <1>7 DEF Settles

-----------------------------------------------------------------------------
(* Caches follow the watchlist                                              *)

\* As long as no fault happens, tasks are in shape; and unless a purge past its look met a
\* sync, the caches come to follow the watchlist.
Calm == faults = 0 => Shape /\ (~mixed => Settles)

\* Requests that queue a chain.
LEMMA RequestKinds ==
    ASSUME Request
    PROVE  \/ \E t \in Chains : BeginsChain(t)
           \/ \E u \in Users, p \in Purges : Delete(u, p)
           \/ \E t \in Sweeps : BeginSweep(t)
<1>1. ASSUME NEW u \in Users, NEW t \in Chains, Add(u, t) \/ Refresh(u, t) \/ AddByTool(u, t)
      PROVE  BeginsChain(t)
  BY <1>1 DEF Add, Refresh, AddByTool, BeginsChain, rows
<1> QED
  BY <1>1 DEF Request

\* A lock is not lost while its holder is at work.
LEMMA NoExpiry ==
    ASSUME Shape, NEW k \in Locked PROVE ~ExpireLock(k)
  BY DEF Shape, LocksHeld, ExpireLock, HoldPlaces

\* Without a fault a step is one of these.
LEMMA CalmStep ==
    ASSUME Core, Shape, Step, faults' = 0, faults \in Nat
    PROVE  \/ \E t \in Chains : BeginsChain(t)
           \/ \E u \in Users, p \in Purges : Delete(u, p)
           \/ \E t \in Sweeps : BeginSweep(t)
           \/ \E t \in Syncs : SyncGoes(t) \/ EndSync(t)
           \/ \E p \in Purges :
                  CheckWatched(p) \/ DeleteRows(p) \/ CommitPurge(p) \/ DropVectors(p)
           \/ \E t \in Tasks : BreakDeadlock(t)
<1>1. ASSUME NEW t \in Tasks, SyncStep(t) PROVE t \in Syncs /\ (SyncGoes(t) \/ EndSync(t))
  <2>1. CASE EndSync(t)
    BY <2>1 DEF EndSync
  <2>2. CASE SyncGoes(t)
    <3>1. pc[t] \notin PurgePlaces
      BY <2>2 DEF SyncGoes, Acquire, BeginUnlocked, Upsert, CommitPrices, Indicators, Value,
         FlushRatio, TrimAndCommit, Release, ListRows, WriteVectors, PurgePlaces, PastPlaces
    <3> QED
      BY <2>2, <3>1, IsSync DEF Core
  <2> QED
    BY <1>1, <2>1, <2>2 DEF SyncStep, SyncGoes
<1>2. ASSUME NEW t \in Tasks, PurgeStep(t) PROVE t \in Purges
  <2>1. pc[t] \notin SyncPlaces \/ CommitPurge(t)
    BY <1>2 DEF PurgeStep, CheckWatched, DeleteRows, DropVectors, SyncPlaces
  <2> QED
    BY <2>1, IsPurge DEF Core, CommitPurge
<1>3. ~(faults' = faults + 1)
  OBVIOUS
<1> QED
  BY <1>1, <1>2, <1>3, NoExpiry, RequestKinds DEF Step, TaskStep, PurgeStep

\* Each of them keeps the shape of the tasks,
LEMMA ShapeStep ==
    ASSUME Core, Shape, Step, faults' = 0, faults \in Nat
    PROVE  Shape'
  BY CalmStep, BeginsChainShape, DeleteShape, BeginSweepShape, SyncGoesShape, EndSyncShape,
     CheckWatchedShape, DeleteRowsShape, CommitPurgeShape, DropVectorsShape,
     StatementFailsShape DEF BreakDeadlock

\* and what holds while syncs and purges are apart.
LEMMA SettlesStep ==
    ASSUME Core, Shape, Settles, Step, Apart', faults' = 0, faults \in Nat
    PROVE  Settles'
<1>1. \A t \in Tasks : ~BreakDeadlock(t)
  BY NoDeadlock DEF BreakDeadlock, Settles
<1> QED
  BY <1>1, CalmStep, BeginsChainSettles, DeleteSettles, BeginSweepSettles, SyncGoesSettles,
     EndSyncSettles, CheckWatchedSettles, DeleteRowsSettles, CommitPurgeSettles,
     DropVectorsSettles DEF Settles

\* At rest nothing is left of what the tasks have been through.
LEMMA RestIsSound ==
    ASSUME Core, Shape, Quiet PROVE Sound /\ \A u \in Syncs : Progress(u)
<1>1. \A t \in Tasks : pc[t] = "idle"
  BY DEF Quiet, Running
<1>2. broken = {}
  BY <1>1 DEF Core, RowsOK, Shape, SyncFresh, PurgeFits, Tasks
<1> QED
  BY <1>1, <1>2 DEF Sound, Progress, Tasks

\* Only a request wakes a chain.
LEMMA WokenByRequest ==
    ASSUME Core, Shape, Quiet, Step, faults' = 0, faults \in Nat, NEW c \in Chains, Running(c)'
    PROVE  \E t \in Chains : BeginsChain(t)
<1>1. c \in Tasks /\ DOMAIN pc = Tasks /\ c \notin Purges /\ c \notin Sweeps
  BY WatchAssumption DEF Core, PlacesOK, Tasks, Syncs
<1>2. \A t \in Tasks : pc[t] = "idle"
  BY DEF Quiet, Running
<1>3. \A u \in Users, p \in Purges : ~Delete(u, p)
  BY <1>1, <1>2 DEF Delete, Move, Running
<1>4. \A t \in Sweeps : ~BeginSweep(t)
  BY <1>1, <1>2 DEF BeginSweep, Move, Running
<1>5. \A t \in Tasks : ~SyncGoes(t) /\ ~EndSync(t) /\ ~CheckWatched(t) /\ ~DeleteRows(t)
                         /\ ~CommitPurge(t) /\ ~DropVectors(t) /\ ~StatementFails(t)
  BY <1>2 DEF SyncGoes, Acquire, BeginUnlocked, Upsert, CommitPrices, Indicators, Value,
     FlushRatio, TrimAndCommit, Release, ListRows, WriteVectors, EndSync, CheckWatched,
     DeleteRows, CommitPurge, DropVectors, StatementFails
<1> QED
  BY <1>3, <1>4, <1>5, CalmStep DEF BreakDeadlock, Tasks

\* The history tells when they have met.
LEMMA ApartByHistory == History /\ ~mixed' => Apart'
  BY DEF History, Apart, Running

\* Every step keeps the invariant: whoever ends a disturbed time is a chain that begins at rest.
LEMMA NextCalm == IInv /\ Calm /\ [Next]_vars => Calm'
<1> SUFFICES ASSUME IInv, Calm, [Next]_vars PROVE Calm'
  OBVIOUS
<1>1. Core /\ faults \in Nat
  BY WatchAssumption DEF IInv, BooksOK
<1>2. CASE Next
  <2> SUFFICES ASSUME faults' = 0 PROVE Shape' /\ (~mixed' => Settles')
    BY DEF Calm
  <2>1. Step /\ History
    BY <1>2 DEF Next
  <2>2. faults = 0
    BY <1>1, <2>1 DEF Step, TaskStep
  <2>3. Shape /\ (~mixed => Settles)
    BY <2>2 DEF Calm
  <2>4. ASSUME ~mixed' PROVE Settles'
    <3>1. Apart'
      BY <2>1, <2>4, ApartByHistory
    <3>2. CASE ~mixed
      BY <1>1, <2>1, <2>3, <3>1, <3>2, SettlesStep
    <3>3. CASE mixed
      <4>1. Quiet /\ \E c \in Chains : Running(c)'
        BY <2>1, <2>4, <3>3 DEF History
      <4>2. \E t \in Chains : BeginsChain(t)
        BY <1>1, <2>1, <2>3, <4>1, WokenByRequest
      <4> QED
        BY <1>1, <2>3, <3>1, <4>1, <4>2, RestIsSound, BeginsChainSettles
    <3> QED
      BY <3>2, <3>3
  <2> QED
    BY <1>1, <2>1, <2>3, <2>4, ShapeStep
<1>3. CASE UNCHANGED vars
  BY <1>3
     DEF vars, Calm, Shape, TodoOK, OneHolder, LocksHeld, PlaceFitsKind, SyncFresh, PurgeFits,
     Settles, Apart, Sound, PastUnwatched, Filling, Emptying, Progress, Holder, Kind, Past,
     Running, Fills, FillsVec, WillWrite, Written, Later, Visible, Empties
<1> QED
  BY <1>2, <1>3

\* It holds at the start.
LEMMA InitCalm == Init => Calm
<1> SUFFICES ASSUME Init PROVE Calm
  OBVIOUS
<1>1. /\ watching = {} /\ db = [k \in Tables |-> FALSE] /\ work = [t \in Tasks |-> Untouched]
      /\ broken = {} /\ vec = [k \in {"news", "filing"} |-> FALSE]
      /\ lock = [k \in Locked |-> NoTask] /\ todo = [t \in Tasks |-> <<>>]
      /\ pc = [t \in Tasks |-> "idle"]
  BY DEF Init
<1>2. Syncs \subseteq Tasks /\ Purges \subseteq Tasks
  BY DEF Tasks
<1>3. <<>> \in Seq(Kinds \cup Tables) /\ Len(<<>>) = 0
  OBVIOUS
<1>4. TodoOK
  BY <1>1, <1>2, <1>3 DEF TodoOK
<1>5. OneHolder /\ LocksHeld
  BY <1>1, UntouchedNone DEF OneHolder, Holder, LocksHeld
<1>6. \A t \in Syncs : PlaceFitsKind(t) /\ SyncFresh(t)
  BY <1>1, <1>2, UntouchedNone DEF PlaceFitsKind, SyncFresh
<1>7. \A p \in Purges : PurgeFits(p)
  BY <1>1, <1>2, UntouchedNone DEF PurgeFits
<1>8. /\ \A t \in Tasks : pc[t] = "idle"
      /\ \A k \in Tables : ~db[k]
      /\ \A k \in Collections : ~vec[k]
  BY <1>1 DEF Collections
<1>9. Apart /\ Sound /\ PastUnwatched
  BY <1>1, <1>2, <1>8 DEF Apart, Sound, PastUnwatched, Running, Past, Syncs
<1>10. Filling /\ Emptying
  BY <1>1, <1>2, <1>8 DEF Filling, Emptying, Running
<1>11. \A t \in Syncs : Progress(t)
  BY <1>1, <1>2 DEF Progress
<1> QED
  BY <1>4, <1>5, <1>6, <1>7, <1>9, <1>10, <1>11 DEF Calm, Shape, Settles

\* As long as no fault happens the tasks are in shape and, unless disturbed, settle.
THEOREM CalmHolds == Spec => []Calm
<1> QED
  BY IInvHolds, InitCalm, NextCalm, PTL DEF Spec

\* Once everything has run, the rows and vectors of a symbol are there exactly if somebody
\* watches it: add_to_watchlist and refresh queue all syncs, remove_from_watchlist a purge that
\* asks still_watched. It holds without faults, and unless a purge past that question met a
\* sync or a chain met a sweep that its cooldown stopped.
THEOREM CachesFollowWatch == Spec => []CacheFollowsWatch
<1>1. IInv /\ Calm => CacheFollowsWatch
  <2> SUFFICES ASSUME IInv, Calm, Quiet, faults = 0, ~mixed
               PROVE  /\ \A k \in Cached : db[k] = (watching # {})
                      /\ \A k \in DOMAIN vec : vec[k] = (watching # {})
    BY DEF CacheFollowsWatch
  <2>1. Shape /\ Settles /\ Core
    BY DEF Calm, IInv
  <2>2. \A t \in Tasks : pc[t] = "idle"
    BY DEF Quiet, Running
  <2>3. db \in [Tables -> BOOLEAN] /\ vec \in [Collections -> BOOLEAN] /\ Cached = Tables
    BY <2>1 DEF Core, RowsOK, StoresOK, Cached, Tables, Collections
  <2>4. \A t \in Syncs : \A k \in Tables : ~Fills(t, k) /\ ~FillsVec(t, k)
    BY <2>1, <2>2 DEF Fills, FillsVec, WillWrite, Written, Running, Shape, SyncFresh, Tasks
  <2>5. \A p \in Purges : pc[p] # "check" /\ ~Past(p) /\ \A k \in Tables : ~Empties(p, k)
    BY <2>2 DEF Past, Empties, Tasks
  <2>6. CASE watching # {}
    <3>1. \A k \in Tables : db[k]
      BY <2>1, <2>4, <2>6 DEF Settles, Filling
    <3>2. \A k \in Collections : vec[k]
      BY <2>1, <2>4, <2>6, KindOfTable DEF Settles, Filling
    <3> QED
      BY <2>3, <2>6, <3>1, <3>2
  <2>7. CASE watching = {}
    <3>1. \A k \in Tables : ~db[k]
      BY <2>1, <2>5, <2>7 DEF Settles, Emptying
    <3>2. \A k \in Collections : ~vec[k]
      BY <2>1, <2>5, <2>7 DEF Settles, Emptying
    <3> QED
      BY <2>3, <2>7, <3>1, <3>2
  <2> QED
    BY <2>6, <2>7
<1> QED
  BY <1>1, IInvHolds, CalmHolds, PTL
=============================================================================
