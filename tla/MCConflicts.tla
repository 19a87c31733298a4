----------------------------- MODULE MCConflicts ----------------------------
(* The instance TLC checks of the parts that handle conflicts: the gates,  *)
(* the rows of conflicts, the orchestration with its notifications, and    *)
(* the sync.  They share no state, so instead of every interleaving of     *)
(* their steps each behaviour is of one of them, with the others at rest.  *)
EXTENDS ConflictLifecycle, ConflictGate, Orchestration, McpSync

VARIABLE part    \* the component whose behaviour this is

MCInit ==
  /\ part \in {"lifecycle", "gate", "orchestration", "sync"}
  /\ LifecycleInit
  /\ GateInit
  /\ OrchestrationInit
  /\ SyncInit

MCNext ==
  /\ UNCHANGED part
  /\ \/ /\ part = "lifecycle"
        /\ LifecycleNext
        /\ UNCHANGED <<gateVars, orchestrationVars, syncVars>>
     \/ /\ part = "gate"
        /\ GateNext
        /\ UNCHANGED <<lifecycleVars, orchestrationVars, syncVars>>
     \/ /\ part = "orchestration"
        /\ OrchestrationNext
        /\ UNCHANGED <<lifecycleVars, gateVars, syncVars>>
     \/ /\ part = "sync"
        /\ SyncNext
        /\ UNCHANGED <<lifecycleVars, gateVars, orchestrationVars>>

MCSpec == MCInit /\ [][MCNext]_<<part, lifecycleVars, gateVars, orchestrationVars, syncVars>>

\* Every variable has its type.
TypeOK ==
  /\ LifecycleTypeOK
  /\ GateTypeOK
  /\ OrchestrationTypeOK
  /\ SyncTypeOK

-----------------------------------------------------------------------------
(* Conflicts: one admin and one reviewer.                                  *)
MCRoleOf == [ada |-> "admin", rob |-> "reviewer"]

(* The gates: names that are equal but for case, one letter apart, and of  *)
(* half their words; policies that are a severity and one that is not.     *)
MCToolName == {"create_task", "Create_Task", "create_tasks", "task_list_create_all"}
MCLower == [n \in MCToolName |-> IF n = "Create_Task" THEN "create_task" ELSE n]
MCTokens ==
  [n \in MCToolName |->
     CASE n = "create_tasks" -> {"create", "tasks"}
       [] n = "task_list_create_all" -> {"task", "list", "create", "all"}
       [] OTHER -> {"create", "task"}]
MCDistance ==
  [p \in {MCLower[n] : n \in MCToolName} \X {MCLower[n] : n \in MCToolName} |->
     IF p[1] = p[2] THEN 0
     ELSE IF p[1] # "task_list_create_all" /\ p[2] # "task_list_create_all" THEN 1
     ELSE 9]

Def(name, server, properties, required) ==
  [name |-> name, server_name |-> server, properties |-> properties,
   required |-> required]

MCToolDef ==
  {Def("create_task", "s1", [p |-> "string"], {"a", "b", "c", "d"}),
   Def("Create_Task", "s2", [p |-> "integer"], {"a", "b", "c"}),
   Def("create_tasks", "s1", [q |-> "any"], {}),
   Def("task_list_create_all", "s2", [p |-> "string", q |-> "string"], {"a"})}

MCHits ==
  LET Hit(score) == {[name |-> "create_tasks", score |-> score]}
  IN  {{}, Hit(79), Hit(80), Hit(90)}
MCPolicyOf == [dev |-> "CRITICAL", prod |-> "MEDIUM", lab |-> "sev1"]
MCOrgOf == [dev |-> "o1", prod |-> "o1", lab |-> "o2"]
MCEnvNameOf == [dev |-> "dev", prod |-> "prod", lab |-> "dev"]
MCKeyOrg == [k1 |-> "o1", k2 |-> "o2", k3 |-> ""]

(* The orchestration: conflicts whose evidence names the existing tool     *)
(* directly, through the other key or not at all, repeated queries, ties   *)
(* of votes, and two channels of one class.                                *)
Dict(severity, conflicting, candidate) ==
  [severity |-> severity, conflicting_tool |-> conflicting, candidate_tool |-> candidate]
MCHandedOver ==
  {Dict("CRITICAL", "", ""), Dict("HIGH", "get", "new"), Dict("MEDIUM", "gone", "get"),
   Dict("INFO", "", "get")}
MCAnswer == {<<"q1", "q1", "q2">>, <<"", "q2">>}
MCBallots == {<<"get", "new">>, <<"new", "get">>, <<"", "get">>, <<"", "">>}
MCAdvice == {<<[known |-> TRUE, complete |-> TRUE], [known |-> FALSE, complete |-> TRUE]>>}
MCRegistered == {{}, {"get"}}
MCChannels == <<"slack1", "pager", "slack2">>
MCClassOf == [slack1 |-> "SlackNotifier", pager |-> "PagerDutyNotifier", slack2 |-> "SlackNotifier"]

(* The sync: names and descriptions equal but for blanks, a description    *)
(* that is too short, a tool without a schema and one whose schema says    *)
(* neither type nor properties.                                            *)
MCRemoteName == {"get", "get ", "set"}
MCBare == [n \in MCRemoteName |-> IF n = "get " THEN "get" ELSE n]
MCStripped == [t \in {"long", "long ", "other", "y"} |-> IF t = "long " THEN "long" ELSE t]
MCDefinition ==
  {[description |-> "long", input_schema |-> "{}"],
   [description |-> "long ", input_schema |-> "s"],
   [description |-> "y", input_schema |-> "s"],
   [description |-> "other", input_schema |-> "odd"]}
=============================================================================
