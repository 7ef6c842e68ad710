------------------------------ MODULE MCServices ------------------------------
(***************************************************************************)
(* Services, for one run of TLC.                                            *)
(***************************************************************************)
EXTENDS Services

CONSTANTS u1, u2, m1, m2, g1, g2

\* Two prompts of one model that differ in everything else, and a prompt that two models
\* are given.
MCRequests ==
    {[model |-> "large", version |-> "judge", messages |-> "m1"],
     [model |-> "large", version |-> "moderator", messages |-> "m2"],
     [model |-> "small", version |-> "moderator", messages |-> "m1"]}

\* Bound: once a fault has happened, no scheduler comes to the symbol.
FaultBound == faults = 0 \/ \A s \in Sweeps : pc[s] = "idle"
=============================================================================
