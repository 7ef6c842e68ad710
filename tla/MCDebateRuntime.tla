--------------------------- MODULE MCDebateRuntime ---------------------------
(***************************************************************************)
(* DebateRuntime with constants: sessions s1 and s2 of user u on the symbol *)
(* of k1, and s3 of the same user on the symbol of k2.                      *)
(***************************************************************************)
EXTENDS DebateRuntime, TLC

CONSTANTS s1, s2, s3, k1, k2, u, h, m, h1, h2, m1

MCKeyOf == [s \in Sessions |-> IF s = s3 THEN k2 ELSE k1]
MCUserOf == [k \in Keys |-> u]
MCProcOf == [t \in Tasks |-> IF t = m1 THEN m ELSE h]

\* The two sessions on one symbol are alike, and so are the two HTTP requests.
Symmetric == Permutations({s1, s2}) \union Permutations({h1, h2})

=============================================================================
