----------------------------- MODULE MCNewsSync -----------------------------
(* Small instances of NewsSync for TLC. *)
EXTENDS NewsSync, TLC

CONSTANTS w1, p1, c1

\* The results 3 and 4 are one article behind two links, and the title of 4 is
\* too short to be compared.
MCUrlOf == [l \in Links |-> IF l = 4 THEN 3 ELSE l]
MCAlike == {{l} : l \in Links \ {4}}
MCIdOf == [l \in Links |-> 9 - l]

=============================================================================
