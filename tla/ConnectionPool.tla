---------------------------- MODULE ConnectionPool ----------------------------
(***************************************************************************)
(* The first requests for the asyncpg pool (core/database.py).  get_pool     *)
(* looks for a pool, awaits the creation of one, and then assigns it.       *)
(***************************************************************************)
EXTENDS Naturals, FiniteSets

CONSTANTS
    Requests,   \* requests for the pool in one process
    MaxFaults   \* bound on creations that fail

VARIABLES
    pool,       \* the pool that the module holds, 0 for none
    open,       \* the pools that have been created; nobody closes one
    pc,         \* start, creating, got, failed
    got,        \* the pool that a request was given
    raced,      \* history: requests that began a creation during another one's
    faults

vars == <<pool, open, pc, got, raced, faults>>

Init ==
    /\ pool = 0 /\ open = {} /\ pc = [r \in Requests |-> "start"]
    /\ got = [r \in Requests |-> 0] /\ raced = {} /\ faults = 0

Creating == {r \in Requests : pc[r] = "creating"}

Get(r) ==
    /\ pc[r] = "start"
    /\ IF pool # 0
       THEN pc' = [pc EXCEPT ![r] = "got"] /\ got' = [got EXCEPT ![r] = pool] /\ UNCHANGED raced
       ELSE /\ pc' = [pc EXCEPT ![r] = "creating"] /\ UNCHANGED got
            /\ raced' = IF Creating # {} THEN raced \cup {r} ELSE raced
    /\ UNCHANGED <<pool, open, faults>>

\* A bug to compare with: the pool is returned and not kept.
KeepsNothing(p) == UNCHANGED pool

\* The assignment after the await, whatever is there by now.
Keeps(p) == pool' = p

Created(r) ==
    /\ pc[r] = "creating" /\ pc' = [pc EXCEPT ![r] = "got"]
    /\ LET p == Cardinality(open) + 1
       IN Keeps(p) /\ open' = open \cup {p} /\ got' = [got EXCEPT ![r] = p]
    /\ UNCHANGED <<raced, faults>>

\* PostgreSQL refuses the connections.
CreateFails(r) ==
    /\ pc[r] = "creating" /\ pc' = [pc EXCEPT ![r] = "failed"]
    /\ faults < MaxFaults /\ faults' = faults + 1
    /\ UNCHANGED <<pool, open, got, raced>>

Next == \E r \in Requests : Get(r) \/ Created(r) \/ CreateFails(r)

Spec == Init /\ [][Next]_vars

\* A pool that nobody can find any more, and nobody closes, comes from a request that
\* raced with another one's creation: at most one for each such request, none otherwise;
\* and every request was given a pool that is open.
LeakedPoolsWereRaces ==
    /\ Cardinality(open \ {pool}) <= Cardinality(raced)
    /\ \A r \in Requests : pc[r] = "got" => got[r] \in open
=============================================================================
