----------------------------- MODULE QuoteCache -----------------------------
(***************************************************************************)
(* The intraday quote of one symbol (domain/intraday_quote.py,              *)
(* external/quote_client.py): polled by the watchlist page and asked for by *)
(* the agents, fetched from the market when the one in Redis is missing or  *)
(* too old.  Nothing keeps two callers from fetching at once.  A price is    *)
(* named by the time at which the market showed it.                        *)
(***************************************************************************)
EXTENDS Naturals

CONSTANTS
    Callers,
    MaxAge,      \* max_age_seconds
    Ttl,         \* the time-to-live of a quote in each phase of the market
    FetchTime,   \* bound on the time a fetch takes
    MaxTime,     \* bound on the time
    MaxFaults

Phases == DOMAIN Ttl

VARIABLES
    now,         \* the time
    phase,       \* of the market: open, closed, weekend
    key,         \* the quote in Redis
    pc,          \* of a caller: idle, fetch, fetched
    began,       \* when its call began
    seen,        \* the price that its fetch has seen
    last,        \* history: the price answered last, and when that call began
    best,        \* history: the latest price ever answered
    overlapped,  \* history: two fetches have overlapped
    faults

vars == <<now, phase, key, pc, began, seen, last, best, overlapped, faults>>
answers == <<last, best>>

NoQuote == [price |-> 0, ts |-> 0, until |-> 0]

TypeOK ==
    /\ now \in 0..MaxTime /\ phase \in Phases
    /\ pc \in [Callers -> {"idle", "fetch", "fetched"}]
    /\ {began[c] : c \in Callers} \cup {seen[c] : c \in Callers} \subseteq 0..MaxTime
    /\ key.price \in 0..key.ts /\ key.ts \in 0..key.until

\* The cache is empty.
Init ==
    /\ now = 1 /\ phase \in Phases /\ key = NoQuote
    /\ pc = [c \in Callers |-> "idle"]
    /\ began = [c \in Callers |-> 0] /\ seen = [c \in Callers |-> 0]
    /\ last = [price |-> 1, began |-> 1] /\ best = 1
    /\ overlapped = FALSE /\ faults = 0

Fetching(c) == pc[c] # "idle"
Goto(c, place) == pc' = [pc EXCEPT ![c] = place]
Answer(price, start) ==
    last' = [price |-> price, began |-> start]
    /\ best' = IF price > best THEN price ELSE best

-----------------------------------------------------------------------------
\* Time passes, and the market may open or close; Redis drops what is over.
Tick ==
    /\ now < MaxTime /\ now' = now + 1 /\ phase' \in Phases
    /\ \A c \in Callers : pc[c] = "fetched" => now < seen[c] + FetchTime
    /\ key' = IF key.until <= now' THEN NoQuote ELSE key
    /\ UNCHANGED <<pc, began, seen, answers, overlapped, faults>>

Fresh(quote) == quote # NoQuote /\ now - quote.ts <= MaxAge

\* get_latest_quote reads the cache; a Redis error, or a payload that does not decode,
\* is a miss.
Load(c) ==
    /\ pc[c] = "idle" /\ began' = [began EXCEPT ![c] = now]
    /\ \/ /\ Fresh(key) /\ Answer(key.price, now)
          /\ UNCHANGED <<pc, overlapped, faults>>
       \/ /\ Goto(c, "fetch") /\ UNCHANGED answers
          /\ overlapped' = (overlapped \/ \E o \in Callers \ {c} : Fetching(o))
          /\ IF Fresh(key) THEN faults < MaxFaults /\ faults' = faults + 1
                           ELSE UNCHANGED faults
    /\ UNCHANGED <<now, phase, key, seen>>

\* The market answers with the price of the moment ...
Fetch(c) ==
    /\ pc[c] = "fetch" /\ Goto(c, "fetched") /\ seen' = [seen EXCEPT ![c] = now]
    /\ UNCHANGED <<now, phase, key, began, answers, overlapped, faults>>

\* ... or with none, and the caller gets an error.
FetchFails(c) ==
    /\ pc[c] = "fetch" /\ faults < MaxFaults /\ faults' = faults + 1 /\ Goto(c, "idle")
    /\ UNCHANGED <<now, phase, key, began, seen, answers, overlapped>>

\* The quote is stamped when its fetch returns, and stored, unless Redis fails.
Store(c) ==
    /\ pc[c] = "fetched" /\ Goto(c, "idle") /\ Answer(seen[c], began[c])
    /\ \/ /\ key' = [price |-> seen[c], ts |-> now, until |-> now + Ttl[phase]]
          /\ UNCHANGED faults
       \/ faults < MaxFaults /\ faults' = faults + 1 /\ UNCHANGED key
    /\ UNCHANGED <<now, phase, began, seen, overlapped>>

\* The symbol is taken off the last watchlist.
Purge ==
    /\ key # NoQuote /\ key' = NoQuote
    /\ UNCHANGED <<now, phase, pc, began, seen, answers, overlapped, faults>>

Next ==
    \/ Tick \/ Purge
    \/ \E c \in Callers : Load(c) \/ Fetch(c) \/ FetchFails(c) \/ Store(c)

Spec == Init /\ [][Next]_vars

-----------------------------------------------------------------------------
(* Properties                                                               *)

\* What a caller is told was the price at most MaxAge, and the time of a fetch, before
\* it asked: however long Redis keeps a quote when the market is closed.
QuoteRecent == last.price + MaxAge + FetchTime >= last.began

\* A caller is told an older price than another before only if two of them fetched at
\* once, the slower one overwriting the newer quote with a newer stamp, or Redis failed.
BackwardExplained == last.price < best => overlapped \/ faults > 0
=============================================================================
