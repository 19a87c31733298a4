----------------------------- MODULE Severities -----------------------------
(* The severities of conflicts and the order every component gives them,   *)
(* the highest first (_SEVERITY_ORDER of conflict_detection/pipeline.py).  *)
EXTENDS Integers

SEVERITY_ORDER ==
  [CRITICAL |-> 0, HIGH |-> 1, MEDIUM |-> 2, LOW |-> 3, INFO |-> 4]

Severity == DOMAIN SEVERITY_ORDER

\* dict.get with a default, for strings that are no severity.
RankOr(severity, default) ==
  IF severity \in Severity THEN SEVERITY_ORDER[severity] ELSE default
=============================================================================
