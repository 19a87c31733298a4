--------------------------- MODULE MCToolRegistry ---------------------------
(* A small instance of the tool registry for TLC.                          *)
EXTENDS ToolRegistry, TLC

CONSTANTS t1, t2, r1, r2, d1, d2, s1, s2, h1, e1

\* Ids and requests are interchangeable; descriptions and schemas are too.
Symmetry ==
  Permutations({t1, t2}) \cup Permutations({r1, r2})
    \cup Permutations({d1, d2}) \cup Permutations({s1, s2})
=============================================================================
