------------------------------ MODULE Valuation ------------------------------
(***************************************************************************)
(* PER and PBR of a symbol (domain/price_ingestion.py,                      *)
(* domain/financial_ingestion.py, repositories/financial_cache_repository.py,*)
(* external/krx_client.py, external/dart/client.py).                       *)
(*                                                                         *)
(* Both the price sync and the financial sync end with the same             *)
(* computation: they read the latest close, ask the market for ratios and   *)
(* shares, read the latest quarter, divide, and write the result to the row *)
(* that is the latest by then.  Each kind has a lock of its own, so a sync of *)
(* one kind may run during a sync of the other.                            *)
(***************************************************************************)
EXTENDS Integers, FiniteSets, FiniteSetsExt

CONSTANTS
    PriceSyncs,     \* syncs of prices
    FinanceSyncs,   \* syncs of financial statements
    LastDay,        \* bound on the trading days
    LastQuarter,    \* bound on the quarters reported
    Lookback,       \* quarters that a financial sync fetches
    MaxRows,        \* quarters kept (MAX_CACHE_ROWS)
    MaxFaults

Syncs == PriceSyncs \cup FinanceSyncs
Ended == {"done", "failed"}

VARIABLES
    day, quarter,   \* the latest close of the market and quarter in DART
    close,          \* the latest close stored, 0 before there is one
    ratio,          \* of the quarters stored, the ratio in their row
    pc,             \* start, sync, price, market, update, commit, release; done, failed
    lock,           \* the keys that are set
    own,            \* of a financial sync, the rows it has written and not committed
    priced,         \* the close that a sync values
    valued,         \* the quarter whose income it divides by
    loaded,         \* the ratio that its session holds of that row
    met,            \* history: syncs of the two kinds have run at the same time
    faults

vars == <<day, quarter, close, ratio, pc, lock, own, priced, valued, loaded, met, faults>>

NoRatio == [day |-> 0, quarter |-> 0]

\* A ratio that KRX has computed from its own earnings.
OfMarket(d) == [day |-> d, quarter |-> -1]
Ratios == [day : 0..LastDay, quarter : -1..LastQuarter]

TypeOK ==
    /\ day \in 1..LastDay /\ quarter \in 1..LastQuarter /\ close \in 0..LastDay
    /\ DOMAIN ratio \subseteq 1..LastQuarter /\ \A q \in DOMAIN ratio : ratio[q] \in Ratios
    /\ pc \in [Syncs -> {"start", "sync", "price", "market", "update", "commit", "release"}
                    \cup Ended]

Init ==
    /\ day = 1 /\ quarter = 1 /\ close = 0 /\ ratio = <<>>
    /\ pc = [s \in Syncs |-> "start"] /\ lock = {}
    /\ own = [s \in Syncs |-> <<>>] /\ priced = [s \in Syncs |-> 0]
    /\ valued = [s \in Syncs |-> 0] /\ loaded = [s \in Syncs |-> NoRatio]
    /\ met = FALSE /\ faults = 0

Kind(s) == IF s \in PriceSyncs THEN "price" ELSE "finance"
Goto(s, label) == pc' = [pc EXCEPT ![s] = label]
Set(f, s, value) == [f EXCEPT ![s] = value]
Running(s) == pc[s] \notin Ended \cup {"start"}

\* What a session reads: the committed rows and its own.
Rows(s) == [q \in DOMAIN ratio \cup DOMAIN own[s] |->
               IF q \in DOMAIN own[s] THEN own[s][q] ELSE ratio[q]]
Latest(rows) == Max(DOMAIN rows)
Written(rows, q, r) == [p \in DOMAIN rows \cup {q} |-> IF p = q THEN r ELSE rows[p]]

\* Rows that another transaction has written and not committed.
Locked(q, s) == \E o \in Syncs \ {s} : q \in DOMAIN own[o]

-----------------------------------------------------------------------------
(* The market and the syncs                                                 *)

Trade == day < LastDay /\ day' = day + 1
         /\ UNCHANGED <<quarter, close, ratio, pc, lock, own, priced, valued, loaded, met, faults>>
Report == quarter < LastQuarter /\ quarter' = quarter + 1
          /\ UNCHANGED <<day, close, ratio, pc, lock, own, priced, valued, loaded, met, faults>>

\* _acquire_lock; a sync that finds the key set, or the cooldown running, is skipped.
Begin(s) ==
    /\ pc[s] = "start"
    /\ \/ /\ Kind(s) \notin lock /\ lock' = lock \cup {Kind(s)} /\ Goto(s, "sync")
          /\ met' = (met \/ \E o \in Syncs : Running(o) /\ Kind(o) # Kind(s))
       \/ Goto(s, "done") /\ UNCHANGED <<lock, met>>
    /\ UNCHANGED <<day, quarter, close, ratio, own, priced, valued, loaded, faults>>

\* The prices up to today, committed before anything else.
SyncPrices(s) ==
    /\ pc[s] = "sync" /\ s \in PriceSyncs
    /\ close' = day /\ Goto(s, "price")
    /\ UNCHANGED <<day, quarter, ratio, lock, own, priced, valued, loaded, met, faults>>

\* The quarters that DART has a report of; a period without one has no record.
Reported == 1..quarter

\* The periods of the last years, asked for one by one.
Fetched == {q \in Reported : q > quarter - Lookback}

\* The quarters of the last years, upserted without touching the ratios that rows
\* have; nothing is committed yet.
SyncFinance(s) ==
    /\ pc[s] = "sync" /\ s \in FinanceSyncs
    /\ \A q \in Fetched : ~ Locked(q, s)
    /\ own' = Set(own, s, [q \in Fetched |->
                               IF q \in DOMAIN ratio THEN ratio[q] ELSE NoRatio])
    /\ Goto(s, "price")
    /\ UNCHANGED <<day, quarter, close, ratio, lock, priced, valued, loaded, met, faults>>

-----------------------------------------------------------------------------
(* _sync_latest_valuation_metrics, of either service                        *)

\* A price sync commits and then releases its key; a financial sync leaves the commit to
\* its caller, which comes after the release.
AfterValuation(s) == IF s \in PriceSyncs THEN "commit" ELSE "release"

\* The latest close; without one there is nothing to value.
ReadPrice(s) ==
    /\ pc[s] = "price" /\ priced' = Set(priced, s, close)
    /\ Goto(s, IF close = 0 THEN AfterValuation(s) ELSE "market")
    /\ UNCHANGED <<day, quarter, close, ratio, lock, own, valued, loaded, met, faults>>

\* The latest quarter, read after the market has answered.
ReadQuarter(s) ==
    /\ pc[s] = "market" /\ Goto(s, "update")
    /\ IF DOMAIN Rows(s) = {}
       THEN valued' = Set(valued, s, 0) /\ loaded' = Set(loaded, s, NoRatio)
       ELSE LET q == Latest(Rows(s))
            IN valued' = Set(valued, s, q) /\ loaded' = Set(loaded, s, Rows(s)[q])
    /\ UNCHANGED <<day, quarter, close, ratio, lock, own, priced, met, faults>>

\* The income of the quarter that was read, divided among the shares that KRX lists ...
OfShares(s) == [day |-> priced[s], quarter |-> valued[s]]

\* ... or, if it lists none, what DART's report of that same quarter says of a share.
OfDart(s) == [day |-> priced[s], quarter |-> valued[s]]

\* The ratios that the answers may lead to.  KRX knows the ratio, or earnings of zero
\* (which hide the quarter's own), or nothing; then the quarter's own count, unless the
\* shares are unknown, and a loss has no ratio.
Computed(s) ==
    {OfMarket(priced[s]), NoRatio}
        \cup (IF valued[s] # 0 THEN {OfShares(s), OfDart(s)} ELSE {})

\* A bug to compare with: the first row instead of the last.
Oldest(rows) == Min(DOMAIN rows)

\* The row that update_latest_valuation writes to.
Target(rows) == Latest(rows)

\* update_latest_valuation.  A row that another sync has written has to be waited for;
\* a value equal to the one loaded is not sent.
Update(s) ==
    /\ pc[s] = "update" /\ DOMAIN Rows(s) # {} /\ Goto(s, AfterValuation(s))
    /\ LET q == Target(Rows(s))
       IN \E r \in Computed(s) :
             IF q = valued[s] /\ r = loaded[s] THEN UNCHANGED own
             ELSE ~ Locked(q, s) /\ own' = Set(own, s, Written(own[s], q, r))
    /\ UNCHANGED <<day, quarter, close, ratio, lock, priced, valued, loaded, met, faults>>

\* There is no row to write to.
UpdateNothing(s) ==
    /\ pc[s] = "update" /\ DOMAIN Rows(s) = {} /\ Goto(s, AfterValuation(s))
    /\ UNCHANGED <<day, quarter, close, ratio, lock, own, priced, valued, loaded, met, faults>>

\* An error of KRX or DART is logged, and the sync goes on without a ratio; so it does
\* when neither of them knows anything to divide by.
SkipValuation(s) ==
    /\ pc[s] \in {"market", "update"} /\ faults < MaxFaults /\ faults' = faults + 1
    /\ Goto(s, AfterValuation(s))
    /\ UNCHANGED <<day, quarter, close, ratio, lock, own, priced, valued, loaded, met>>

-----------------------------------------------------------------------------
(* The end of a sync                                                        *)

\* The newest rows stay.
Trimmed(rows) ==
    [q \in {p \in DOMAIN rows : Cardinality({n \in DOMAIN rows : n > p}) < MaxRows} |-> rows[q]]

Commit(s) ==
    /\ pc[s] = "commit"
    /\ ratio' = IF s \in FinanceSyncs THEN Trimmed(Rows(s)) ELSE Rows(s)
    /\ own' = Set(own, s, <<>>) /\ Goto(s, IF s \in PriceSyncs THEN "release" ELSE "done")
    /\ UNCHANGED <<day, quarter, close, lock, priced, valued, loaded, met, faults>>

Release(s) ==
    /\ pc[s] = "release" /\ lock' = lock \ {Kind(s)}
    /\ Goto(s, IF s \in PriceSyncs THEN "done" ELSE "commit")
    /\ UNCHANGED <<day, quarter, close, ratio, own, priced, valued, loaded, met, faults>>

\* An error anywhere else: what is not committed is rolled back, the key released.
Fail(s) ==
    /\ Running(s) /\ faults < MaxFaults /\ faults' = faults + 1
    /\ own' = Set(own, s, <<>>) /\ Goto(s, "failed")
    /\ lock' = IF s \in FinanceSyncs /\ pc[s] = "commit" THEN lock ELSE lock \ {Kind(s)}
    /\ UNCHANGED <<day, quarter, close, ratio, priced, valued, loaded, met>>

Next ==
    \/ Trade \/ Report
    \/ \E s \in Syncs : \/ Begin(s) \/ SyncPrices(s) \/ SyncFinance(s)
                         \/ ReadPrice(s) \/ ReadQuarter(s) \/ Update(s)
                         \/ UpdateNothing(s) \/ SkipValuation(s)
                         \/ Commit(s) \/ Release(s) \/ Fail(s)

Spec == Init /\ [][Next]_vars

-----------------------------------------------------------------------------
(* Properties                                                               *)

\* A ratio divides a close by the income of another quarter than its row's only if syncs
\* of the two kinds overlapped: one reported a quarter between the other's reading and
\* writing.  And without an overlap or an error, nothing that a sync has stored is left
\* without a valuation at the latest close, unless there is no ratio to compute.
RatioOfItsRow ==
    ~ met =>
        /\ \A q \in DOMAIN ratio : ratio[q].quarter \in {-1, 0, q}
        /\ (\A s \in Syncs : ~ Running(s)) /\ faults = 0 /\ DOMAIN ratio # {} =>
               ratio[Latest(ratio)] = NoRatio \/ ratio[Latest(ratio)].day = close
=============================================================================
