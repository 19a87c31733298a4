------------------------- MODULE MCConflictAnalysis -------------------------
(* Small instances of the registry with its conflict analysis for TLC.     *)
EXTENDS ConflictAnalysis, FiniteSets, TLC

CONSTANTS
  t1, t2, r1, r2,
  MaxSnapshots,   \* bound: snapshots of all tools together
  MaxTrouble      \* bound: failed runs and tools with lost work

\* One environment whose two servers name a tool alike but for the case.
OneEnv == [k \in Key |-> "prod"]

TwoCases == [k \in Key |-> IF k = "k1" THEN "search" ELSE "Search"]

LowerCase == [n \in Name |-> "search"]

\* A parameter has another type in each of the two schemas.
TypeCollision == {p \in Definition \X Definition : p[1][2] # p[2][2]}

\* The texts of two tools are close when their schemas are equal.
EqualSchema == {p \in Text \X Text : p[1][3] = p[2][3]}

\* States beyond the bounds are checked and not explored further.
Bounded ==
  /\ Cardinality(UNION {{t} \X DOMAIN history[t] : t \in Tool}) <= MaxSnapshots
  /\ Cardinality({run \in runs : run.status = "failed"})
       + Cardinality(lost) <= MaxTrouble

\* Tools and requests are interchangeable.
Symmetry == Permutations(Tool) \cup Permutations(Request)
=============================================================================
