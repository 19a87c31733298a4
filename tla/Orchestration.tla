---------------------------- MODULE Orchestration ---------------------------
(***************************************************************************)
(* AnalysisOrchestrator.run of core/orchestrator.py with the services it   *)
(* awaits: probe queries (core/probe_generation/generator.py), the impact  *)
(* simulation (core/simulation/impact_simulator.py), recommendations       *)
(* (core/recommendations/engine.py) and the notification router.           *)
(*                                                                         *)
(* What a language model answers is chosen from small sets.  The calls of  *)
(* one gather are independent of each other, so they are one step whose    *)
(* results are any combination.  Percentages and the risk score are kept   *)
(* in hundredths, as the code rounds them.                                 *)
(***************************************************************************)
EXTENDS Notifications, Lists

CONSTANTS
  Registered,     \* sets of names that may be the existing tools
  HandedOver,     \* conflicts, as the pipeline describes them, that are
                  \* handed over: the severity and the tools that the
                  \* evidence names, "" where it names none
  MaxConflicts,   \* bound on their number
  Answer,         \* what one call for probe queries may return
  Ballots,        \* the answers of the trials of one query, "" for a failure
  Advice,         \* what one call for recommendations may return
  ProbeCount, AdversarialCount,
  Raised

ASSUME OrchestrationAssumption ==
  /\ \A c \in HandedOver : c.severity \in Severity
  /\ Answer \subseteq Seq(STRING) /\ Raised \notin Answer
  /\ Advice \subseteq Seq([known : BOOLEAN, complete : BOOLEAN]) /\ Raised \notin Advice
  /\ ProbeCount \in Nat /\ AdversarialCount \in Nat

VARIABLE run    \* the run in progress, or the last one

orchestrationVars == <<run, event, next, sent, results>>

-----------------------------------------------------------------------------
NoReport == [shift |-> 0, at_risk |-> {}, total |-> 0, changed |-> 0]

RunAt(phase, conflicts, existing, gathered, queries, report, recommendations, risk) ==
  [phase |-> phase, conflicts |-> conflicts, existing |-> existing,
   gathered |-> gathered, queries |-> queries, report |-> report,
   recommendations |-> recommendations, risk |-> risk]

Idle == RunAt("idle", <<>>, {}, <<>>, <<>>, NoReport, <<>>, 0)

OrchestrationInit == run = Idle /\ RouterInit

\* The fast path drops the conflicts it was given.
Start(conflicts, existing) ==
  /\ run.phase = "idle"
  /\ run' = IF existing = {}
            THEN RunAt("done", <<>>, {}, <<>>, <<>>, NoReport, <<>>, 0)
            ELSE RunAt("probing", conflicts, existing, <<>>, <<>>, NoReport, <<>>, 0)
  /\ Dispatch("")

-----------------------------------------------------------------------------
\* _parse_query_list keeps what is not empty; the generator what it asked for.
ParseQueries(answer, count) ==
  LET queries == Keep(answer, Range(answer) \ {""})
  IN  SubSeq(queries, 1, IF Len(queries) < count THEN Len(queries) ELSE count)

ConflictingName(conflict) ==
  IF conflict.conflicting_tool # "" THEN conflict.conflicting_tool
                                    ELSE conflict.candidate_tool

\* How many queries each task asks for: one task for the candidate and one
\* for each conflict whose evidence names an existing tool.
ProbeTasks ==
  LET named == Keep(run.conflicts, {c \in Range(run.conflicts) :
                                      ConflictingName(c) \in run.existing})
  IN  <<ProbeCount>> \o [i \in DOMAIN named |-> AdversarialCount]

\* Fault: without return_exceptions the first failure is the whole result.
GatheredOrNone(returned) ==
  IF \E i \in DOMAIN returned : returned[i] = Raised THEN <<>>
  ELSE FlattenSeq(returned)

\* The lists that were returned, one after the other.
Gathered(returned) ==
  FoldLeft(LAMBDA all, r : IF r = Raised THEN all ELSE all \o r, <<>>, returned)

Unique(queries) ==
  FoldLeft(LAMBDA unique, q : IF Contains(unique, q) THEN unique ELSE Append(unique, q),
           <<>>, queries)

\* A generator of the repository turns a failed call into an empty list; any
\* other may raise.
GenerateProbes ==
  LET counts == ProbeTasks
  IN  /\ run.phase = "probing"
      /\ \E answers \in [DOMAIN counts -> Answer \cup {Raised}] :
           LET returned == [i \in DOMAIN counts |->
                              IF answers[i] = Raised THEN Raised
                              ELSE ParseQueries(answers[i], counts[i])]
           IN  run' = RunAt("simulating", run.conflicts, run.existing, returned,
                            Unique(Gathered(returned)), NoReport, <<>>, 0)
      /\ UNCHANGED routerVars

-----------------------------------------------------------------------------
\* The tool with the most votes, the first one voted for if several have.
Majority(ballots) ==
  LET votes == Keep(ballots, Range(ballots) \ {""})
      count(i) == Cardinality({j \in DOMAIN votes : votes[j] = votes[i]})
  IN  IF votes = <<>> THEN ""
      ELSE votes[CHOOSE i \in DOMAIN votes :
                   \A j \in DOMAIN votes :
                     count(i) > count(j) \/ (count(i) = count(j) /\ i <= j)]

\* round(100 * changed / total, 2), in hundredths; of two values that are as
\* near, the larger, where Python takes the even one.
ShiftPct(changed, total) ==
  IF total = 0 THEN 0 ELSE (20000 * changed + total) \div (2 * total)

\* Each query before and after: without queries the report is empty.
ReportOf(before, after) ==
  LET changed == {i \in DOMAIN before : Majority(before[i]) # Majority(after[i])}
  IN  [shift |-> ShiftPct(Cardinality(changed), Len(before)),
       at_risk |-> {Majority(before[i]) : i \in changed},
       total |-> Len(before), changed |-> Cardinality(changed)]

Simulate ==
  /\ run.phase = "simulating"
  /\ \E before, after \in [DOMAIN run.queries -> Ballots] :
       run' = RunAt("recommending", run.conflicts, run.existing, <<>>, run.queries,
                    ReportOf(before, after), <<>>, 0)
  /\ UNCHANGED routerVars

-----------------------------------------------------------------------------
WEIGHT == [CRITICAL |-> 40, HIGH |-> 20, MEDIUM |-> 10, LOW |-> 5, INFO |-> 0]

Weights(conflicts) == [i \in DOMAIN conflicts |-> WEIGHT[conflicts[i].severity]]

\* Fault: the cap on what the conflicts add is left out.
BaseUncapped(conflicts) == SumFunction(Weights(conflicts))

Base(conflicts) ==
  LET sum == SumFunction(Weights(conflicts))
  IN  IF sum < 60 THEN sum ELSE 60

\* round(base + 0.4 * shift, 2), in hundredths.
RiskScore(conflicts, report) ==
  LET score == Base(conflicts) * 100 + (report.shift * 4 + 5) \div 10
  IN  IF score < 10000 THEN score ELSE 10000

TopSeverity(severities) ==
  CHOOSE s \in severities : \A t \in severities : WEIGHT[s] >= WEIGHT[t]

\* The severity of the event, or "" when no conflict is worth one.
EventSeverity(conflicts) ==
  LET severe == {conflicts[i].severity : i \in DOMAIN conflicts} \cap {"CRITICAL", "HIGH"}
  IN  IF severe = {} THEN "" ELSE TopSeverity(severe)

\* _parse_recommendations keeps the complete ones of a known type.
ParseAdvice(advice) == Keep(advice, {a \in Range(advice) : a.known /\ a.complete})

\* Up to the first await of the router: recommendations, score and event.
Recommend ==
  /\ run.phase = "recommending"
  /\ \E advice \in [DOMAIN run.conflicts -> Advice \cup {Raised}] :
       LET returned == [i \in DOMAIN run.conflicts |->
                          IF advice[i] = Raised THEN Raised ELSE ParseAdvice(advice[i])]
       IN  run' = RunAt("notifying", run.conflicts, run.existing, returned, <<>>,
                        run.report, Gathered(returned),
                        RiskScore(run.conflicts, run.report))
  /\ Dispatch(EventSeverity(run.conflicts))

Notify ==
  /\ run.phase = "notifying"
  /\ RouterStep
  /\ UNCHANGED run

Return ==
  /\ run.phase = "notifying"
  /\ Resting
  /\ run' = [run EXCEPT !.phase = "done"]
  /\ UNCHANGED routerVars

\* The caller has the result; the next analysis may start.
Collect ==
  /\ run.phase = "done"
  /\ run' = Idle
  /\ UNCHANGED routerVars

OrchestrationNext ==
  \/ \E n \in 0..MaxConflicts :
       \E conflicts \in [1..n -> HandedOver], existing \in Registered :
         Start(conflicts, existing)
  \/ GenerateProbes
  \/ Simulate
  \/ Recommend
  \/ Notify
  \/ Return
  \/ Collect

OrchestrationSpec ==
  OrchestrationInit /\ [][OrchestrationNext]_orchestrationVars

-----------------------------------------------------------------------------
Whole == 10000    \* 100 percent

OrchestrationTypeOK ==
  /\ run.phase \in {"idle", "probing", "simulating", "recommending", "notifying", "done"}
  /\ run.existing \in Registered \cup {{}}
  /\ run.report.shift \in 0..Whole
  /\ run.report.changed \in 0..run.report.total
  /\ run.risk \in 0..Whole
  /\ RouterTypeOK

SeveritiesOf(conflicts) == {conflicts[i].severity : i \in DOMAIN conflicts}

(* A generator or a recommender that fails costs only its own results: the *)
(* queries are those of every task that returned, each of them once, so    *)
(* that no query weighs twice in the routing shift, and no conflict that   *)
(* was answered loses its recommendations to one that was not.             *)
FailuresAreIsolated ==
  LET returned == {i \in DOMAIN run.gathered : run.gathered[i] # Raised}
      items == UNION {Range(run.gathered[i]) : i \in returned}
  IN  /\ run.phase = "simulating" =>
           /\ Range(run.queries) = items
           /\ Len(run.queries) = Cardinality(items)
      /\ run.phase = "notifying" =>
           /\ Range(run.recommendations) = items
           /\ Len(run.recommendations) =
                SumFunction([i \in returned |-> Len(run.gathered[i])])

(* The score of a run weighs at least as much as its worst conflict, is    *)
(* above 60 only if routing really shifted, and is zero only if nothing    *)
(* weighs and nothing shifted, whatever services failed on the way.  (Of   *)
(* more than 6666 queries one may shift unseen: rounding loses 0.015       *)
(* percent.)                                                               *)
RiskFollowsSeverity ==
  run.phase \in {"notifying", "done"} =>
    /\ \A s \in SeveritiesOf(run.conflicts) : run.risk >= 100 * WEIGHT[s]
    /\ run.risk > 6000 => run.report.changed > 0
    /\ run.risk = 0 /\ run.report.total < 6667 => run.report.changed = 0

(* A run with a CRITICAL or HIGH conflict hands the worst one's severity   *)
(* to every channel once, whatever the channels before it did, unless      *)
(* min_severity is above it; any other run disturbs nobody.  A result is   *)
(* true only if a channel of its class took the event; a channel that did  *)
(* not has no result of its own, if a later one of its class did.          *)
WorstIsNotified ==
  run.phase = "done" =>
    LET worst == {s \in SeveritiesOf(run.conflicts) \cap {"CRITICAL", "HIGH"} :
                    \A t \in SeveritiesOf(run.conflicts) :
                      SEVERITY_ORDER[s] <= SEVERITY_ORDER[t]}
    IN  /\ sent # <<>> <=> Channels # <<>> /\ \E s \in worst : ShouldDispatch(s)
        /\ sent # <<>> => [i \in DOMAIN sent |-> sent[i].channel] = Channels
        /\ \A m \in Range(sent) : m.severity \in worst
        /\ \A k \in DOMAIN results : results[k] =>
             \E m \in Range(sent) : ClassOf[m.channel] = k /\ m.outcome = "ok"
=============================================================================
