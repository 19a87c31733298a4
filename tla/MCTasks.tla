------------------------------ MODULE MCTasks -------------------------------
(* The instance TLC checks: a batch of two tools, of which one retry and   *)
(* one lost worker make up to three copies for two workers, next to a      *)
(* scan, while a tool is updated or deleted.                               *)
EXTENDS Tasks

CONSTANTS b, s, x

MCKind == [t \in Task |-> IF t = s THEN "scan" ELSE "embeddings"]

MCTools == [t \in Task |-> IF t = b THEN Tool ELSE {}]

MCRegistered == [u \in Tool |-> x]
=============================================================================
