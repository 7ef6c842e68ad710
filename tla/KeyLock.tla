------------------------------ MODULE KeyLock ------------------------------
(***************************************************************************)
(* What a lock made of a Redis key with a token and a TTL promises: at most *)
(* one task is inside of a key; a task may abandon it (it dies, or Redis    *)
(* fails while it lets go), and it frees itself after that.  The active key *)
(* of DebateRuntimeGuard (DebateRuntime) and the lock of a news sync        *)
(* (NewsSync) implement it.                                                 *)
(***************************************************************************)
CONSTANTS Keys, Tasks

VARIABLES
    taken,      \* the keys that are set
    inside      \* the tasks inside of each key

vars == <<taken, inside>>

Init ==
    /\ taken = {}
    /\ inside = [k \in Keys |-> {}]

\* SET NX succeeds.
Acquire(k, t) ==
    /\ k \notin taken
    /\ inside[k] = {}
    /\ taken' = taken \union {k}
    /\ inside' = [inside EXCEPT ![k] = {t}]

\* The holder's GET finds its token, and it deletes the key.
Release(k, t) ==
    /\ k \in taken
    /\ inside[k] = {t}
    /\ taken' = taken \ {k}
    /\ inside' = [inside EXCEPT ![k] = {}]

\* Some tasks go and leave their keys set.
Abandon(gone) ==
    /\ inside' = [k \in Keys |-> inside[k] \ gone]
    /\ UNCHANGED taken

\* A key nobody is inside of is freed: its TTL passes, or the task that left it
\* comes by a second time.
Free(k) ==
    /\ k \in taken
    /\ inside[k] = {}
    /\ taken' = taken \ {k}
    /\ UNCHANGED inside

Next ==
    \/ \E k \in Keys, t \in Tasks : Acquire(k, t) \/ Release(k, t)
    \/ \E gone \in SUBSET Tasks : Abandon(gone)
    \/ \E k \in Keys : Free(k)

Spec == Init /\ [][Next]_vars

=============================================================================
