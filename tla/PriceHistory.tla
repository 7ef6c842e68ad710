---------------------------- MODULE PriceHistory ----------------------------
(***************************************************************************)
(* The daily closes of one symbol and the indicators computed from them     *)
(* (domain/price_ingestion.py, external/krx_client.py, the two caches).     *)
(*                                                                         *)
(* A sync overwrites the last days, because the close that KRX gives for    *)
(* today is not final; it commits the closes, and then the indicators and   *)
(* the trimming of both tables.  The lock lets one sync run at a time; the  *)
(* cleanup of the scheduler takes no lock.                                  *)
(***************************************************************************)
EXTENDS Integers, FiniteSets, FiniteSetsExt

CONSTANTS
    LastDay,    \* bound on the calendar
    Backfill,   \* INITIAL_BACKFILL_DAYS
    Recent,     \* RECENT_OVERWRITE_DAYS
    MaxRows,    \* MAX_CACHE_ROWS
    Window,     \* the rows of a moving average, 20 to 120 in the code
    Closes,     \* the prices at which a day may close
    MaxFaults   \* bound on syncs that fail

VARIABLES
    today,
    open,       \* whether today is a trading day
    final,      \* the final closes of the past trading days
    price,      \* price_cache: a close, and the earlier close of its change rate
    ind,        \* technical_indicator_cache: the closes that were averaged
    stage,      \* of the sync: idle, begun, fetched or stored
    window,     \* the days that it asks for
    fetched,    \* the closes that KRX has given
    behind,     \* history: closes are stored that the indicators do not know
    unasked,    \* history: days that a later sync did not reach back to
    view,       \* the newest close that a request has read, until it has read the newest
                \* indicator; torn if closes were stored without indicators meanwhile
    faults

vars == <<today, open, final, price, ind, stage, window, fetched, behind, unasked, view,
          faults>>

\* An optional close is a set of at most one.
TypeOK ==
    /\ today \in 1..LastDay /\ open \in BOOLEAN
    /\ stage \in {"idle", "begun", "fetched", "stored"}
    /\ DOMAIN final \subseteq 1..(today - 1)
    /\ \A d \in DOMAIN final : final[d] \in Closes
    /\ DOMAIN price \subseteq 1..today /\ DOMAIN ind \subseteq 1..today
    /\ \A d \in DOMAIN price : price[d].close \in Closes /\ price[d].base \subseteq Closes
    /\ view.reading \in BOOLEAN /\ view.torn \in BOOLEAN

Nothing == [d \in {} |-> {}]
NoView == [reading |-> FALSE, shown |-> Nothing, torn |-> FALSE]

Init ==
    /\ today = 1 /\ open \in BOOLEAN /\ final = Nothing /\ price = Nothing /\ ind = Nothing
    /\ stage = "idle" /\ window = {} /\ fetched = Nothing
    /\ behind = FALSE /\ unasked = {} /\ view = NoView /\ faults = 0

-----------------------------------------------------------------------------
(* The market                                                               *)

With(f, g) == [d \in DOMAIN f \cup DOMAIN g |-> IF d \in DOMAIN g THEN g[d] ELSE f[d]]
Only(f, S) == [d \in DOMAIN f \cap S |-> f[d]]

\* A day ends, with a final close if it was a trading day.
NextDay ==
    /\ today < LastDay /\ today' = today + 1 /\ open' \in BOOLEAN
    /\ IF open THEN \E c \in Closes : final' = With(final, [d \in {today} |-> c])
       ELSE final' = final
    /\ UNCHANGED <<price, ind, stage, window, fetched, behind, unasked, view, faults>>

-----------------------------------------------------------------------------
(* sync_prices_for_ticker                                                   *)

\* The first day to ask for.
StartDate(latest) == IF latest - Recent < today THEN latest - Recent ELSE today

FirstDay(mode) == IF DOMAIN price = {} \/ mode = "initial"
                  THEN today - Backfill
                  ELSE StartDate(Max(DOMAIN price))

Begin ==
    /\ stage = "idle" /\ stage' = "begun"
    /\ \E mode \in {"initial", "refresh"} : window' = FirstDay(mode)..today
    /\ UNCHANGED <<today, open, final, price, ind, fetched, behind, unasked, view, faults>>

\* KRX gives the closes of the trading days; the one of today may still change.
Fetch ==
    /\ stage = "begun" /\ stage' = "fetched"
    /\ LET past == Only(final, window)
           live == IF open THEN window \cap {today} ELSE {}
       IN fetched' \in {past} \cup {With(past, [d \in live |-> c]) : c \in Closes}
    /\ UNCHANGED <<today, open, final, price, ind, window, behind, unasked, view, faults>>

\* The newest n days of a table.
Newest(n, days) == {d \in days : Cardinality({e \in days : e > d}) < n}

\* The change rate of a row refers to the row before it in the same answer.
Base(d) == LET earlier == {e \in DOMAIN fetched : e < d}
           IN IF earlier = {} THEN {} ELSE {fetched[Max(earlier)]}

Rows == [d \in DOMAIN fetched |-> [close |-> fetched[d], base |-> Base(d)]]

\* The days since the newest row that are beyond the backfill.
Lapsed == {d \in Max(DOMAIN price)..(Min(window) - 1) : d < Max(window) - Backfill}

\* The upsert of the closes and its commit.
Store ==
    /\ stage = "fetched" /\ stage' = "stored"
    /\ price' = With(price, Rows)
    /\ behind' = TRUE
    /\ unasked' = IF DOMAIN price = {} THEN unasked
                  ELSE (unasked \ window) \cup Lapsed
    /\ view' = [view EXCEPT !.torn = view.reading]
    /\ UNCHANGED <<today, open, final, ind, window, fetched, faults>>

\* build_indicator_rows: an average over a window, once there are enough rows.
Averages(rows) == [d \in DOMAIN rows |->
    LET last == Newest(Window, {e \in DOMAIN rows : e <= d})
    IN IF Cardinality(last) = Window THEN Only(rows, last) ELSE Nothing]

CloseOf(days) == [d \in days |-> price[d].close]

\* A bug to compare with: only the rows of this sync are averaged.
AveragedFetched == CloseOf(DOMAIN fetched)

\* All rows that are kept are averaged again.
Averaged == CloseOf(Newest(MaxRows, DOMAIN price))

Trim(table) == Only(table, Newest(MaxRows, DOMAIN table))

\* The indicators, the trimming and their commit.
Finish ==
    /\ stage = "stored" /\ stage' = "idle" /\ window' = {} /\ fetched' = Nothing
    /\ ind' = Trim(With(ind, Averages(Averaged)))
    /\ price' = Trim(price)
    /\ behind' = FALSE
    /\ UNCHANGED <<today, open, final, unasked, view, faults>>

\* KRX, a statement or a commit fails: what is not committed is rolled back.
Fail ==
    /\ stage # "idle" /\ faults < MaxFaults /\ faults' = faults + 1
    /\ stage' = "idle" /\ window' = {} /\ fetched' = Nothing
    /\ UNCHANGED <<today, open, final, price, ind, behind, unasked, view>>

\* run_cleanup of the scheduler
Cleanup ==
    /\ price' = Trim(price) /\ ind' = Trim(ind)
    /\ UNCHANGED <<today, open, final, stage, window, fetched, behind, unasked, view, faults>>

-----------------------------------------------------------------------------
(* get_stock_detail: two SELECTs, between which others commit               *)

ReadPrice ==
    /\ ~view.reading
    /\ view' = [reading |-> TRUE, shown |-> CloseOf(Newest(1, DOMAIN price)), torn |-> behind]
    /\ UNCHANGED <<today, open, final, price, ind, stage, window, fetched, behind, unasked,
                   faults>>

ReadIndicator ==
    /\ view.reading /\ view' = NoView
    /\ UNCHANGED <<today, open, final, price, ind, stage, window, fetched, behind, unasked,
                   faults>>

-----------------------------------------------------------------------------
Next == NextDay \/ Begin \/ Fetch \/ Store \/ Finish \/ Fail \/ Cleanup
        \/ ReadPrice \/ ReadIndicator

Spec == Init /\ [][Next]_vars

-----------------------------------------------------------------------------
(* Properties                                                               *)

\* Between its oldest and its newest row the history has every trading day, with its
\* final close, except for days that no sync has asked for since they were newest:
\* an initial sync that comes later than its backfill reaches leaves such a gap.
HistoryIsWhole ==
    DOMAIN price # {} =>
        \A d \in DOMAIN final \ unasked :
            Min(DOMAIN price) <= d /\ d < Max(DOMAIN price)
                => d \in DOMAIN price /\ price[d].close = final[d]

\* A stored change rate was computed from the close that is stored for the row before,
\* also after that close, or rows in between, came in later.
RatesMatchCloses ==
    \A d, e \in DOMAIN price :
        /\ e < d /\ \A f \in DOMAIN price : f <= e \/ f >= d
        /\ price[d].base # {} /\ (e..d) \cap unasked = {}
        => price[d].base = {price[e].close}

\* When a sync is over, every row has its indicator and every indicator averages
\* closes that are still stored, the ones it would average now.
IndicatorsFollowPrices ==
    ~behind => ind = Averages(CloseOf(DOMAIN price))

\* The page of a stock shows the indicator of the day whose close it shows, averaged over
\* that close, unless a sync had stored closes and not yet their indicators.
PageOfOneDay ==
    view.reading /\ ~view.torn =>
        /\ Newest(1, DOMAIN ind) = DOMAIN view.shown
        /\ \A d \in DOMAIN view.shown :
               ind[d] # Nothing => ind[d][d] = view.shown[d]
=============================================================================
