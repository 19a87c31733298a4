---------------------------- MODULE ConflictGate ----------------------------
(***************************************************************************)
(* The two gates that check a candidate without registering it, POST       *)
(* .../tools/check of api/v1/tools.py and POST /webhooks/ci-check of       *)
(* api/v1/webhooks.py, and the pipeline run of an analysis, against the    *)
(* active tools of an environment, which others register and retire        *)
(* between one check and the next.                                         *)
(***************************************************************************)
EXTENDS Detection

CONSTANTS
  Environment, NoEnvironment,
  PolicyOf,      \* max_severity_to_block of each, which may be any string
  OrgOf,         \* the organisation of each
  EnvNameOf,     \* its name, unique in the organisation
  ApiKey,        \* keys a pipeline may present
  KeyOrg,        \* the organisation of the user of the one active key that
                 \* verifies, "" if there is none
  ToolDef,       \* definitions that may be registered and checked
  Hits,          \* sets of hits the index may return
  MaxActive,     \* bound: active tools at a time
  NoAnswer

ASSUME GateAssumption ==
  /\ NoEnvironment \notin Environment
  /\ \A tool \in ToolDef : tool.name \in ToolName /\ IsFiniteSet(tool.required)
  /\ \A hits \in Hits : \A h \in hits : h.score \in 0..100
  /\ \A d, e \in Environment :
       OrgOf[d] = OrgOf[e] /\ EnvNameOf[d] = EnvNameOf[e] => d = e

VARIABLES
  active,   \* the active tools: pairs of an environment and a definition
  answer    \* the latest answer of a check or an analysis

gateVars == <<active, answer>>

-----------------------------------------------------------------------------
GateInit ==
  /\ active = {}
  /\ answer = NoAnswer

Existing(env) == {entry[2] : entry \in {a \in active : a[1] = env}}

\* A registration or an update to active commits: a tool is known by its
\* environment, server and name.
Enlist(env, tool) ==
  /\ Cardinality(active) < MaxActive
  /\ \A t \in Existing(env) :
       t.name # tool.name \/ t.server_name # tool.server_name
  /\ active' = active \cup {<<env, tool>>}
  /\ UNCHANGED answer

Withdraw(env, tool) ==
  /\ <<env, tool>> \in active
  /\ active' = active \ {<<env, tool>>}
  /\ UNCHANGED answer

\* A value that is no severity counts as HIGH, as does an absent environment.
FailThreshold(env) ==
  IF env = NoEnvironment THEN SEVERITY_ORDER["HIGH"] ELSE RankOr(PolicyOf[env], 1)

\* Fault: what just reaches the threshold is let through.
BlocksAbove(env, c) == RankOr(c.severity, 99) < FailThreshold(env)

Blocks(env, c) == RankOr(c.severity, 99) <= FailThreshold(env)

\* blocking_severity is the severity of the first blocking finding.
Verdict(env, found) ==
  LET blocking == {c \in found : Blocks(env, c)}
  IN  [passed |-> blocking = {}, blocking_severity |-> HighestSeverity(blocking),
       conflicts |-> blocking, warnings |-> found \ blocking]

AnswerOf(env, candidate, hits, found, verdict) ==
  [env |-> env, candidate |-> candidate, seen |-> Existing(env), hits |-> hits,
   found |-> found, verdict |-> verdict]

\* Nothing is written; the environment is only looked up for its policy.
CheckTool(env, candidate) ==
  LET found == RunSync(candidate, Existing(env))
  IN  /\ answer' = AnswerOf(env, candidate, {}, found, <<Verdict(env, found)>>)
      /\ UNCHANGED active

\* 401 without a key that verifies, 404 if the organisation has no
\* environment of that name.
CiCheck(key, name, candidate) ==
  /\ KeyOrg[key] # ""
  /\ \E env \in Environment :
       /\ EnvNameOf[env] = name
       /\ OrgOf[env] = KeyOrg[key]
       /\ CheckTool(env, candidate)

\* run_async of an analysis, which records what it finds and blocks nothing.
Analyse(env, candidate, hits) ==
  /\ answer' = AnswerOf(env, candidate, hits,
                        RunAsync(candidate, Existing(env), hits), <<>>)
  /\ UNCHANGED active

GateNext ==
  \/ \E env \in Environment, tool \in ToolDef :
       Enlist(env, tool) \/ Withdraw(env, tool)
  \/ \E env \in Environment \cup {NoEnvironment}, candidate \in ToolDef :
       CheckTool(env, candidate)
  \/ \E key \in ApiKey, env \in Environment, candidate \in ToolDef :
       CiCheck(key, EnvNameOf[env], candidate)
  \/ \E env \in Environment, candidate \in ToolDef, hits \in Hits :
       Analyse(env, candidate, hits)

GateSpec == GateInit /\ [][GateNext]_gateVars

-----------------------------------------------------------------------------
GateTypeOK ==
  /\ active \subseteq Environment \X ToolDef
  /\ answer # NoAnswer =>
       /\ answer.env \in Environment \cup {NoEnvironment}
       /\ answer.candidate \in ToolDef
       /\ answer.seen \subseteq ToolDef
       /\ \A c \in answer.found :
            c.severity \in Severity /\ c.score \in 0..(100 * SCALE)
       /\ answer.verdict # <<>> =>
            answer.verdict[1].blocking_severity \in Severity \cup {""}

\* A finding but for the name of the other tool.
Unnamed(c) == ConflictOf(c.type, c.severity, "", c.score, c.param)

(* Of two tools it does not matter which one is the candidate: what stages *)
(* 1 and 2 say of the candidate against a tool it saw they would have said *)
(* of that tool against the candidate, so that a conflict found from one   *)
(* side only is not lost when the other side is analysed.                  *)
StagesAreSymmetric ==
  answer # NoAnswer =>
    \A tool \in answer.seen :
      {Unnamed(c) : c \in Pair(answer.candidate, tool)} =
      {Unnamed(c) : c \in Pair(tool, answer.candidate)}

(* Whatever string the policy holds, a candidate named like an active tool *)
(* but for case is refused as CRITICAL; and a candidate that was refused   *)
(* is refused again for as long as the tools it was checked against stay   *)
(* active, whatever else has been registered since.                        *)
GateBlocksOnWorst ==
  answer # NoAnswer /\ answer.verdict # <<>> =>
    LET verdict == answer.verdict[1]
        again == Verdict(answer.env, RunSync(answer.candidate, Existing(answer.env)))
    IN  /\ (\E tool \in answer.seen : SameName(answer.candidate, tool)) =>
             ~verdict.passed /\ verdict.blocking_severity = "CRITICAL"
        /\ answer.seen \subseteq Existing(answer.env) =>
             /\ again.passed => verdict.passed
             /\ verdict.conflicts \subseteq again.conflicts

(* Leaving stage 3 out when stage 1 was CRITICAL never changes the highest *)
(* severity a run reports.                                                 *)
ShortCircuitKeepsWorst ==
  answer # NoAnswer =>
    HighestSeverity(answer.found) =
      HighestSeverity(RunSync(answer.candidate, answer.seen) \cup Semantic(answer.hits))
=============================================================================
