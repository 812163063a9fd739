--------------------------- MODULE MCGraphRegistry ---------------------------
(* A small instance of GraphRegistry: two documents, two sessions, cursors *)
(* that share a graph or not, and one upload of two bytes.                 *)
EXTENDS GraphRegistry, TLC

CONSTANTS r1, r2, s1, s2, c1, c2

MCRoutes == {r1, r2}
MCSessions == {s1, s2}
MCCursorIds == {c1, c2}
MCRequests == {{"read", "validate"}}
MCDeclared == <<"a", "b">>

Alike == Permutations(MCRoutes) \cup Permutations(MCSessions) \cup Permutations(MCCursorIds)
=============================================================================
