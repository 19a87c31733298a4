----------------------------- MODULE Detection ------------------------------
(***************************************************************************)
(* The stages of core/conflict_detection as functions of a candidate and   *)
(* the existing tools: lexical.py, schema_analysis.py and, for the hits    *)
(* the search index returns, the semantic stage of pipeline.py.            *)
(*                                                                         *)
(* The findings of a run are a set: their order shows only in which one    *)
(* comes first, and that one has the highest severity.  Every caller       *)
(* leaves same_server_ok at FALSE.                                         *)
(***************************************************************************)
EXTENDS Severities, FiniteSets

CONSTANTS
  ToolName,   \* names of tools
  Lower,      \* the lower-case form of each
  Tokens,     \* the set its words make, split at "_" and "-"
  Distance    \* Levenshtein distance of two lower-case forms

ASSUME DetectionAssumption ==
  /\ DOMAIN Lower = ToolName
  /\ \A n \in ToolName : IsFiniteSet(Tokens[n]) /\ Tokens[n] # {}
  /\ \A m, n \in ToolName :
       /\ Distance[<<Lower[m], Lower[n]>>] \in Nat
       /\ Distance[<<Lower[m], Lower[n]>>] = Distance[<<Lower[n], Lower[m]>>]

(* A tool definition has a name, a server, the type of each parameter and  *)
(* the set of required ones; its description only matters to the index.    *)

\* Scores are kept in sixtieths: exact as long as no union has more than
\* six members.
SCALE == 60

ConflictOf(type, severity, name, score, param) ==
  [type |-> type, severity |-> severity, name |-> name, score |-> score,
   param |-> param]

-----------------------------------------------------------------------------
SameName(a, b) == Lower[a.name] = Lower[b.name]

EditDistance(a, b) == Distance[<<Lower[a.name], Lower[b.name]>>]

\* Fault: the share of a that b covers.
JaccardCovered(a, b) == (SCALE * Cardinality(a \cap b)) \div Cardinality(a)

Jaccard(a, b) == (SCALE * Cardinality(a \cap b)) \div Cardinality(a \cup b)

\* Stage 1: at most one finding against each tool, the strongest reason.
Lexical(candidate, tool) ==
  LET jaccard == Jaccard(Tokens[candidate.name], Tokens[tool.name])
      d == EditDistance(candidate, tool)
  IN  IF SameName(candidate, tool)
      THEN {ConflictOf("EXACT_NAME", "CRITICAL", tool.name, 100 * SCALE, "")}
      ELSE IF d <= 2
      THEN {ConflictOf("SIMILAR_NAME", "MEDIUM", tool.name, (70 - d * 10) * SCALE, "")}
      ELSE IF 2 * jaccard >= SCALE
      THEN {ConflictOf("SIMILAR_NAME", "MEDIUM", tool.name, jaccard * 60, "")}
      ELSE {}

\* Stage 2.
TypeCollisions(candidate, tool) ==
  {ConflictOf("TYPE_COLLISION", "MEDIUM", tool.name, 65 * SCALE, p) :
     p \in {q \in DOMAIN candidate.properties \cap DOMAIN tool.properties :
              candidate.properties[q] # tool.properties[q]}}

RequiredOverlap(candidate, tool) ==
  LET a == candidate.required
      b == tool.required
  IN  IF a # {} /\ b # {} /\ 10 * Jaccard(a, b) >= 7 * SCALE
      THEN {ConflictOf("REQUIRED_FIELD_OVERLAP", "MEDIUM", tool.name,
                       Jaccard(a, b) * 70, "")}
      ELSE {}

Pair(candidate, tool) ==
  Lexical(candidate, tool) \cup TypeCollisions(candidate, tool)
                           \cup RequiredOverlap(candidate, tool)

\* Stages 1 and 2, without the index: what both gates run.
RunSync(candidate, existing) ==
  UNION {Pair(candidate, tool) : tool \in existing}

-----------------------------------------------------------------------------
\* Stage 3 keeps the hits of at least 80 percent.
SemanticSeverity(similarity) ==
  IF similarity >= 90 THEN "HIGH" ELSE IF similarity >= 80 THEN "MEDIUM" ELSE "LOW"

Semantic(hits) ==
  {ConflictOf("SEMANTIC_OVERLAP", SemanticSeverity(h.score), h.name,
              h.score * SCALE, "") : h \in {g \in hits : g.score >= 80}}

\* Fault: any finding makes the search superfluous.
FoundAny(found) == found # {}

HasCritical(found) == \E c \in found : c.severity = "CRITICAL"

RunAsync(candidate, existing, hits) ==
  LET found == RunSync(candidate, existing)
  IN  IF HasCritical(found) THEN found ELSE found \cup Semantic(hits)

\* highest_severity: None, here "", when nothing was found.
HighestSeverity(found) ==
  IF found = {} THEN ""
  ELSE (CHOOSE c \in found :
          \A d \in found : SEVERITY_ORDER[c.severity] <= SEVERITY_ORDER[d.severity]).severity
=============================================================================
